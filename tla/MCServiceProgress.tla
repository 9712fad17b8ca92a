------------------------- MODULE MCServiceProgress -------------------------
(***************************************************************************)
(* What the service must do in the end, one part at a time: handlers reach *)
(* their answers, and the stream reaches its clients.  The few calls that  *)
(* can be served here are too few events for a client to miss some, so the *)
(* number the stream looks at is counted up on its own.                    *)
(***************************************************************************)
EXTENDS MCEgressService

CONSTANTS Streams, MaxEvents

VARIABLES part,  \* the part that moves
          sequence, streamPhase, last, sent, streamKind, heard, since, streamCrashes

streamVars == <<sequence, streamPhase, last, sent, streamKind, heard, since, streamCrashes>>

Stream == INSTANCE EventStream
  WITH phase <- streamPhase, kind <- streamKind, crashes <- streamCrashes

ProgressInit ==
  /\ part \in {"service", "stream"}
  /\ ServiceInit /\ Stream!Init
  /\ part = "stream" => config = CHOOSE c \in Configs : TRUE

ProgressNext ==
  /\ UNCHANGED part
  /\ \/ part = "service" /\ ServiceNext /\ UNCHANGED streamVars
     \/ part = "stream" /\ Stream!Next /\ UNCHANGED allVars

\* The fairness of ServiceSpec and of the stream's Spec, of a part that moves.
ProgressSpec ==
  /\ ProgressInit /\ [][ProgressNext]_<<part, allVars, streamVars>>
  /\ \A c \in Calls : WF_allVars(part = "service" /\ Handle(c))
  /\ \A s \in Streams : WF_streamVars(part = "stream" /\ Stream!Generate(s))

\* Who follows the stream and stays is sent every number or a later one, and what is
\* called a decision is news (app.py 611-618).
StreamsTellDecisions == Stream!ClientsCatchUp /\ Stream!DecisionsAreNews
=============================================================================
