------------------------------- MODULE Checks -------------------------------
(***************************************************************************)
(* An ordered list of checks, each a pair of a reason and the condition    *)
(* that makes it apply: the code returns at the first that applies.        *)
(***************************************************************************)
EXTENDS Naturals, Sequences

\* [ok, reason]: passed is the reason given when no check applies.
Outcome(checks, passed) ==
  LET ok == \A i \in DOMAIN checks : ~checks[i][2]
  IN  [ok     |-> ok,
       reason |-> IF ok THEN passed
                  ELSE SelectSeq(checks, LAMBDA check : check[2])[1][1]]

\* The second part of a check, when the first is passed.
Then(first, second) == IF first.ok THEN second ELSE first
=============================================================================
