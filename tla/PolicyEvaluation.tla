-------------------------- MODULE PolicyEvaluation --------------------------
(***************************************************************************)
(* One engine object over its life: it is created with a bundle and a key, *)
(* time passes, and requests are put to it one after the other (the engine *)
(* keeps no state of its own between two evaluations).                     *)
(***************************************************************************)
EXTENDS PolicyEngine

CONSTANTS Engines,   \* the engines considered: [bundle, key, requireSigned]
          Items,     \* the policy inputs put to them
          MaxTime    \* bound on the clock

ASSUME MaxTimeAssumption == MaxTime \in Nat

ASSUME EnginesAssumption ==
  \A e \in Engines :
    /\ e = [bundle |-> e.bundle, key |-> e.key, requireSigned |-> e.requireSigned]
    /\ IsBundle(e.bundle)

VARIABLES engine,    \* PolicyEngine: fixed when the object is created
          now,       \* datetime.now(UTC)
          item,      \* the input of the last evaluation, Unset before the first
          askedAt,   \* when it was put to the engine
          verdict    \* the decision it returned

vars == <<engine, now, item, askedAt, verdict>>

Init ==
  /\ engine \in Engines
  /\ now = 0
  /\ item = Unset
  /\ askedAt = 0
  /\ verdict = Unset

Tick ==
  /\ now < MaxTime
  /\ now' = now + 1
  /\ UNCHANGED <<engine, item, askedAt, verdict>>

EvaluateItem(asked) ==
  /\ item' = asked
  /\ askedAt' = now
  /\ verdict' = Evaluate(engine, asked, now)
  /\ UNCHANGED <<engine, now>>

Next == Tick \/ \E asked \in Items : EvaluateItem(asked)

Spec == Init /\ [][Next]_vars

-----------------------------------------------------------------------------
Rules == engine.bundle.rules
Matched == Matching(Rules, item)
Evaluated == verdict # Unset

\* The engine stays the one created, time is bounded, and a verdict is a
\* decision with one of the three actions.
TypeOK ==
  /\ engine \in Engines
  /\ now \in 0 .. MaxTime /\ askedAt \in 0 .. now
  /\ item \in Items \cup {Unset}
  /\ Evaluated => verdict.action \in PolicyAction /\ verdict.conflict \in BOOLEAN

\* A request that some matching rule blocks is blocked, whatever the
\* priorities of the rules that would let it through (policy.py 168-184:
\* the block may sit far below the highest priority).
BlockDominates ==
  Evaluated /\ (\E i \in Matched : Rules[i].action = "block") => verdict.action = "block"

\* Two matching rules of one priority that disagree, with no matching rule
\* above them, let nothing through, and the decision names no rule.
ConflictFailsClosed ==
  Evaluated
    /\ (\E i, j \in Matched :
          /\ Rules[i].action # Rules[j].action
          /\ Rules[i].priority = Rules[j].priority
          /\ \A k \in Matched : Rules[k].priority <= Rules[i].priority)
    => verdict.action = "block" /\ verdict.rule = Unset

\* Whatever is let through, entirely or redacted, was earned while the
\* bundle was active, unexpired and as signed with the engine's key: by a
\* matching rule above which no matching rule stands, or, when no rule
\* matches, by the defaults of the classes the request holds.
ReleaseIsEarned ==
  Evaluated /\ verdict.action # "block" =>
    /\ engine.bundle.status = "active"
    /\ engine.bundle.expires > askedAt
    /\ engine.requireSigned => engine.bundle = SignBundle(engine.bundle, engine.key)
    /\ \/ \E i \in Matched :
            /\ Rules[i].action = verdict.action
            /\ Rules[i].id = verdict.rule
            /\ Rules[i].allowed = verdict.permitted
            /\ \A j \in Matched : Rules[j].priority <= Rules[i].priority
       \/ /\ Matched = {}
          /\ item.classes # {}
          /\ verdict.action = "allow" =>
               \A c \in item.classes : /\ c \in DOMAIN engine.bundle.defaults
                                       /\ engine.bundle.defaults[c] = "allow"

\* The engine is a function of the set of rules: the same rules listed in
\* any other order, and signed again if they were properly signed, lead to the
\* same action, and to the same permitted fields of a redaction unless two rules
\* carry one identifier.
OrderInsensitive ==
  Evaluated =>
    \A p \in Bijection(DOMAIN Rules, DOMAIN Rules) :
      LET shuffled == [engine.bundle EXCEPT !.rules = [i \in DOMAIN Rules |-> Rules[p[i]]]]
          again    == Evaluate([engine EXCEPT
                                  !.bundle = IF SignatureValid(engine)
                                               THEN SignBundle(shuffled, engine.key)
                                               ELSE [shuffled EXCEPT !.signature = NoSignature]],
                               item, askedAt)
      IN  /\ again.action = verdict.action
          /\ verdict.action = "redact"
               /\ (\A i, j \in DOMAIN Rules : i # j => Rules[i].id # Rules[j].id)
               => again.permitted = verdict.permitted

\* Expiry is for good: an engine asked after its bundle expired lets nothing
\* through from then on, whatever it said before (policy.py 190-191).
ExpiryIsFinal ==
  [][Evaluated /\ engine.bundle.expires <= askedAt => verdict'.action = "block"]_vars
=============================================================================
