---------------------------- MODULE EventStream ----------------------------
(***************************************************************************)
(* GET /v1/events/stream (tracelock_services/app.py): a generator on the   *)
(* event loop looks at the number of the last decision every five seconds, *)
(* while threads that serve decisions count it up.  It tells "decision"    *)
(* when the number changed and "heartbeat" when it did not, each with the  *)
(* number it then has.  An event source on the other side dispatches what  *)
(* it has read at every blank line.                                        *)
(***************************************************************************)
EXTENDS Integers, Sequences

CONSTANTS Streams,     \* the connections of clients
          MaxEvents,   \* bound on the decisions of one life of the process
          MaxCrashes   \* bound on the crashes

VARIABLES
  sequence,  \* OperationsStore.event_sequence
  phase,     \* stream -> "closed", "connected", "looking", "changed", "asleep"
  last,      \* stream -> the generator's last
  sent,      \* stream -> the number its client was sent last, -1 before
  kind,      \* stream -> the kind of that message
  heard,     \* stream -> the number its event source dispatched last, -1 before
  since,     \* history: stream -> the number when it connected
  crashes    \* how many times the process has crashed

stream == <<phase, last, sent, kind, heard, since>>
vars == <<sequence, stream, crashes>>

Init ==
  /\ sequence = 0
  /\ phase = [s \in Streams |-> "closed"]
  /\ last = [s \in Streams |-> 0]
  /\ sent = [s \in Streams |-> -1]
  /\ kind = [s \in Streams |-> "none"]
  /\ heard = sent
  /\ since = [s \in Streams |-> 0]
  /\ crashes = 0

\* next_event, by any call of the egress route.
NextEvent ==
  /\ sequence < MaxEvents
  /\ sequence' = sequence + 1
  /\ UNCHANGED <<stream, crashes>>

\* The route checks the session and returns; the generator has not begun.
Connect(s) ==
  /\ phase[s] = "closed"
  /\ phase' = [phase EXCEPT ![s] = "connected"]
  /\ sent' = [sent EXCEPT ![s] = -1] /\ kind' = [kind EXCEPT ![s] = "none"]
  /\ heard' = [heard EXCEPT ![s] = -1]
  /\ since' = [since EXCEPT ![s] = sequence]
  /\ UNCHANGED <<sequence, last, crashes>>

Begin(s) ==
  /\ phase[s] = "connected"
  /\ last' = [last EXCEPT ![s] = sequence]
  /\ phase' = [phase EXCEPT ![s] = "looking"]
  /\ UNCHANGED <<sequence, sent, kind, heard, since, crashes>>

\* The characters that end a message: the source has two backslashes before
\* each n, so they are no line feeds.
MessageEnd == <<"\\", "n", "\\", "n">>

\* What an event source dispatches a message at.
BlankLine == <<"\n", "\n">>

Tell(s, what, number) ==
  /\ kind' = [kind EXCEPT ![s] = what]
  /\ sent' = [sent EXCEPT ![s] = number]
  /\ heard' = IF MessageEnd = BlankLine THEN [heard EXCEPT ![s] = number] ELSE heard
  /\ phase' = [phase EXCEPT ![s] = "asleep"]

\* Mutated form (of Look): one decision more than the last is not news enough.
LookForTwo(s) ==
  /\ phase[s] = "looking"
  /\ \/ sequence > last[s] + 1
          /\ phase' = [phase EXCEPT ![s] = "changed"]
          /\ UNCHANGED <<sent, kind, heard>>
     \/ sequence <= last[s] + 1
          /\ Tell(s, "heartbeat", last[s])
  /\ UNCHANGED <<sequence, last, since, crashes>>

Look(s) ==
  /\ phase[s] = "looking"
  /\ \/ sequence # last[s]
          /\ phase' = [phase EXCEPT ![s] = "changed"]
          /\ UNCHANGED <<sent, kind, heard>>
     \/ sequence = last[s]
          /\ Tell(s, "heartbeat", last[s])
  /\ UNCHANGED <<sequence, last, since, crashes>>

\* The number is read again, and may have grown.
TellDecision(s) ==
  /\ phase[s] = "changed"
  /\ last' = [last EXCEPT ![s] = sequence]
  /\ Tell(s, "decision", sequence)
  /\ UNCHANGED <<sequence, since, crashes>>

Wake(s) ==
  /\ phase[s] = "asleep"
  /\ phase' = [phase EXCEPT ![s] = "looking"]
  /\ UNCHANGED <<sequence, last, sent, kind, heard, since, crashes>>

\* The client goes away, and the generator is cancelled.
Disconnect(s) ==
  /\ phase[s] # "closed"
  /\ phase' = [phase EXCEPT ![s] = "closed"]
  /\ UNCHANGED <<sequence, last, sent, kind, heard, since, crashes>>

\* The process dies: its streams break, and the numbers begin again.
Crash ==
  /\ crashes < MaxCrashes
  /\ crashes' = crashes + 1
  /\ sequence' = 0
  /\ phase' = [s \in Streams |-> "closed"]
  /\ UNCHANGED <<last, sent, kind, heard, since>>

Generate(s) == Begin(s) \/ Look(s) \/ TellDecision(s) \/ Wake(s)

Next ==
  \/ NextEvent \/ Crash
  \/ \E s \in Streams : Connect(s) \/ Generate(s) \/ Disconnect(s)

\* The event loop runs every generator on.
Spec == Init /\ [][Next]_vars /\ \A s \in Streams : WF_vars(Generate(s))

-----------------------------------------------------------------------------
(* What a client may rely on.                                              *)

\* However decisions come between the two looks at the number, and although
\* several become one message and one may come before the generator begins, a
\* client that stays is sent that there were so many (app.py 611-618).
ClientsCatchUp ==
  \A s \in Streams : \A n \in 1 .. MaxEvents :
    (phase[s] # "closed" /\ sequence >= n) ~> (phase[s] = "closed" \/ sent[s] >= n)

\* A "decision" is news to its client: one that came after it connected, with a
\* greater number than all it was sent before; a "heartbeat" repeats the number
\* (app.py 613-617).
DecisionsAreNews ==
  [][\A s \in Streams : phase[s] \in {"looking", "changed"} /\ phase'[s] = "asleep" =>
       /\ kind'[s] = "decision" => sent'[s] > sent[s] /\ sent'[s] > since[s]
       /\ kind'[s] = "heartbeat" => sent[s] \in {-1, sent'[s]}]_vars

-----------------------------------------------------------------------------
(* What the repository says, and the code does not do.                     *)

\* README 246: Server-Sent Events at /v1/events/stream.
ServerSentEvents == \A s \in Streams : phase[s] = "asleep" => heard[s] = sent[s]
=============================================================================
