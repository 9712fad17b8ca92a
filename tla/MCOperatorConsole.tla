------------------------- MODULE MCOperatorConsole -------------------------
(***************************************************************************)
(* The operator console, one part at a time: a behaviour moves the cases   *)
(* or the incidents, and the other part rests in its first state.          *)
(*                                                                         *)
(* Two decisions and three requests: of case updates with a status that is *)
(* one or is not, of incident updates that write everything, only some, or *)
(* a status that is not one.                                               *)
(***************************************************************************)
EXTENDS OperatorConsole, TLC

VARIABLE part  \* the part that moves

MCChanges ==
  {[status |-> "closed", owner |-> "ana", comment |-> "seen"],
   [status |-> Unset, owner |-> "ben", comment |-> Unset],
   [status |-> "resolved", owner |-> "ana", comment |-> "seen"]}

\* No property tells two requests or two decisions apart.
Alike == Permutations(Handlers) \cup Permutations(Decisions)

PartsInit ==
  /\ part \in {"cases", "incidents"}
  /\ Init
  /\ part = "incidents" => memory

PartsNext ==
  /\ UNCHANGED part
  /\ \/ part = "cases" /\ Cases!Next /\ UNCHANGED incidentsVars
     \/ part = "incidents" /\ Incidents!Next /\ UNCHANGED casesVars

PartsSpec == PartsInit /\ [][PartsNext]_<<part, casesVars, incidentsVars>>
=============================================================================
