-------------------------- MODULE PayloadRedaction --------------------------
(***************************************************************************)
(* Redaction on its own (tracelock_services/transformations.py): a body is *)
(* filtered to the permitted fields, the removed values are looked for in  *)
(* what is left, and what is left may come back as the body of a second    *)
(* request under the same policy.                                          *)
(***************************************************************************)
EXTENDS Payloads

CONSTANTS Bodies,        \* the bodies considered
          PermittedSets  \* the permitted fields of a policy rule

ASSUME RedactionAssumption == Unset \notin BOOLEAN /\ \A b \in Bodies : IsBody(b)

VARIABLES original,   \* the body of the request
          permitted,  \* the fields its policy rule permits
          result,     \* TransformationResult, Unset before
          absent,     \* what ensure_removed_values_absent said, Unset before
          passes      \* how many times the body has been redacted before

redactionVars == <<original, permitted, result, absent, passes>>

RedactionInit ==
  /\ original \in Bodies
  /\ permitted \in PermittedSets
  /\ result = Unset
  /\ absent = Unset
  /\ passes = 0

Filter ==
  /\ result = Unset
  /\ result' = RedactToPermittedFields(original, permitted)
  /\ UNCHANGED <<original, permitted, absent, passes>>

Check ==
  /\ result # Unset /\ absent = Unset
  /\ absent' = EnsureRemovedValuesAbsent(original, result.body, result.redacted)
  /\ UNCHANGED <<original, permitted, result, passes>>

\* A client sends on what it got; one more pass is enough to see a fixpoint.
Resubmit ==
  /\ absent # Unset
  /\ passes = 0
  /\ original' = result.body
  /\ result' = Unset
  /\ absent' = Unset
  /\ passes' = 1
  /\ UNCHANGED permitted

RedactionNext == Filter \/ Check \/ Resubmit

RedactionSpec == RedactionInit /\ [][RedactionNext]_redactionVars

-----------------------------------------------------------------------------
Filtered == result # Unset

Removed == {k \in DOMAIN original.leaves : original.leaves[k] \notin Leaves(result.body)}

\* A value of a removed leaf that somebody might look for is still readable.
Survives(k) ==
  LET value == original.leaves[k].value IN
  value \notin Unsearchable /\ Occurs(value, result.body)

\* A leaf may vanish without its path being reported only when it was the
\* element of a list that is now empty: the path of the empty list is then
\* the path of its lost elements (transformations.py 37-39, 127).
UnreportedOnlyInEmptiedLists ==
  Filtered =>
    \A k \in Removed :
      LET leaf == original.leaves[k] IN
      leaf.path \notin result.redacted =>
        \E list \in EmptyLists(result.body) : result.body.lists[list] = leaf.path

\* When the removal check is content, a removed value can still be read only
\* if it stood in a list: its path was not reported, or a later element of
\* the same path is the one that was looked for.
SurvivorsOnlyInLists ==
  Filtered /\ absent = TRUE =>
    \A k \in Removed : Survives(k) =>
      \/ original.leaves[k].path \notin result.redacted
      \/ \E j \in DOMAIN original.leaves : /\ j > k
                                           /\ original.leaves[j].path = original.leaves[k].path

\* Redacting what was redacted changes nothing and reports nothing, and
\* nothing it had to remove is found in it.
SecondPassChangesNothing ==
  Filtered /\ passes = 1 =>
    /\ result.body = original
    /\ result.redacted = {}
    /\ absent # FALSE

-----------------------------------------------------------------------------
(* What the repository says, and the code does not do.                     *)

\* transformations.py 59: "Ensure values removed from sensitive paths do not
\* survive elsewhere."
RemovedValuesDoNotSurvive ==
  Filtered /\ absent = TRUE =>
    \A k \in Removed : Survives(k) =>
      \A leaf \in Leaves(result.body) : leaf.value # original.leaves[k].value
=============================================================================
