------------------------------ MODULE Loadable ------------------------------
(***************************************************************************)
(* What a view that reads the gateway promises: it loads, and then shows   *)
(* an answer or an error.  A failure may still come after an answer, of a  *)
(* request that was asked before it; what failed is loaded again before it *)
(* shows an answer.  No loading lasts for ever.                            *)
(***************************************************************************)
VARIABLE phase

Init == phase \in {"loading", "answered", "failed"}

Begin == phase' = "loading"

Settle == phase = "loading" /\ phase' \in {"answered", "failed"}

LateFailure == phase = "answered" /\ phase' = "failed"

Next == Begin \/ Settle \/ LateFailure

Spec == Init /\ [][Next]_phase /\ WF_phase(Settle)
=============================================================================
