-------------------------- MODULE OperatorConsole --------------------------
(***************************************************************************)
(* What operators do: the cases of the evidence store and the incidents    *)
(* share no state, and a step is one of either.                            *)
(***************************************************************************)
EXTENDS Integers, Sequences

CONSTANTS Decisions, Handlers,
          Statuses,    \* what a case update may ask for
          Changes,     \* what an incident update may ask for
          Unset, MaxCrashes

VARIABLES
  memory, storage, disk, view, recording, asked, phase, answer, crashes, life, log,
  incidents, opened, status, owner, comments, incidentAsked, incidentPhase, mine,
  incidentAnswer, writes, begun

casesVars == <<memory, storage, disk, view, recording, asked, phase, answer, crashes, life, log>>
incidentsVars == <<incidents, opened, status, owner, comments, incidentAsked, incidentPhase,
                   mine, incidentAnswer, writes, begun>>

Cases == INSTANCE EvidenceStore

Incidents == INSTANCE IncidentConsole
  WITH asked <- incidentAsked, phase <- incidentPhase, answer <- incidentAnswer

\* No value is neither a request nor a row, and "record" is no request.
ASSUME ConsoleAssumption ==
  /\ Unset \notin Handlers \cup Cases!Rows
  /\ "record" \notin Handlers

Init == Cases!Init /\ Incidents!Init

Next ==
  \/ Cases!Next /\ UNCHANGED incidentsVars
  \/ Incidents!Next /\ UNCHANGED casesVars

Spec == Init /\ [][Next]_<<casesVars, incidentsVars>>

-----------------------------------------------------------------------------
(* The parts' properties, one for each question the run asks.              *)

\* A case is what one request made of it, an update that was answered is there for
\* good, and what a reader was shown stays unless its writer was told of an error
\* (evidence.py 178-236).
CasesAgree == Cases!CasesAreWhole /\ Cases!AnsweredUpdatesLast /\ Cases!SeenStaysOrBroke

\* However requests that share the incidents without a lock interleave: comments stay,
\* a refused change leaves nothing, an answer has the request's own fields or later
\* ones, and a list is whole or fails (app.py 583-604, operations.py 103-104).
IncidentsAgree ==
  /\ Incidents!CommentsKept /\ Incidents!RefusedWritesNothing
  /\ Incidents!AnswersShowOwnOrLater /\ Incidents!ListsAreWhole
=============================================================================
