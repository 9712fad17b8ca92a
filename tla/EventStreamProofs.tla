------------------------- MODULE EventStreamProofs -------------------------
(***************************************************************************)
(* For every number of connections, decisions and crashes: a client is     *)
(* told of a decision only when it is news.  The number only grows while   *)
(* a connection lasts, because a crash that starts it again breaks every   *)
(* connection; so what a generator has looked at is never ahead of it.     *)
(***************************************************************************)
EXTENDS EventStream, TLAPS

Phases == {"closed", "connected", "looking", "changed", "asleep"}

Typed ==
  /\ sequence \in Nat /\ crashes \in Nat
  /\ phase \in [Streams -> Phases]
  /\ last \in [Streams -> Nat]
  /\ since \in [Streams -> Nat]
  /\ sent \in [Streams -> Nat \cup {-1}]
  /\ DOMAIN kind = Streams /\ DOMAIN heard = Streams

\* A connection that the generator has not begun for was sent nothing.  From then
\* on, what was sent last is what the generator looked at last, which is no less
\* than the number at the connection and no more than the number now; and it is
\* less once the generator has seen a change.
Follows(s) ==
  /\ phase[s] # "closed" => since[s] <= sequence
  /\ phase[s] = "connected" => sent[s] = -1
  /\ phase[s] \in {"looking", "changed", "asleep"} =>
       since[s] <= last[s] /\ last[s] <= sequence /\ sent[s] \in {-1, last[s]}
  /\ phase[s] = "changed" => last[s] < sequence

SInv == Typed /\ \A s \in Streams : Follows(s)

-----------------------------------------------------------------------------
LEMMA Starts == Init => SInv
BY DEF Init, SInv, Typed, Follows, Phases

\* What a step leaves of a connection alone, it leaves followed.
LEMMA OthersFollow ==
  ASSUME NEW s \in Streams, Follows(s), UNCHANGED sequence,
         phase'[s] = phase[s], last'[s] = last[s], sent'[s] = sent[s], since'[s] = since[s]
  PROVE  Follows(s)'
BY DEF Follows

LEMMA NextEventKeeps ==
  ASSUME SInv, NextEvent
  PROVE  SInv'
BY DEF NextEvent, SInv, Typed, Follows, stream

LEMMA CrashKeeps ==
  ASSUME SInv, Crash
  PROVE  SInv'
BY DEF Crash, SInv, Typed, Follows, Phases

LEMMA ConnectKeeps ==
  ASSUME SInv, NEW s \in Streams, Connect(s)
  PROVE  SInv'
<1>1. Typed'
  BY DEF Connect, SInv, Typed, Phases
<1>2. Follows(s)'
  BY DEF Connect, SInv, Typed, Follows
<1>3. \A t \in Streams : Follows(t)'
  <2> TAKE t \in Streams
  <2> CASE t # s
    BY OthersFollow DEF Connect, SInv, Typed
  <2> QED  BY <1>2
<1> QED  BY <1>1, <1>3 DEF SInv

LEMMA GenerateKeeps ==
  ASSUME SInv, NEW s \in Streams, Generate(s)
  PROVE  SInv'
<1>1. Typed'
  BY DEF Generate, Begin, Look, TellDecision, Wake, Tell, SInv, Typed, Phases
<1>2. Follows(s)'
  BY DEF Generate, Begin, Look, TellDecision, Wake, Tell, SInv, Typed, Follows
<1>3. \A t \in Streams : Follows(t)'
  <2> TAKE t \in Streams
  <2> CASE t # s
    BY OthersFollow DEF Generate, Begin, Look, TellDecision, Wake, Tell, SInv, Typed
  <2> QED  BY <1>2
<1> QED  BY <1>1, <1>3 DEF SInv

LEMMA DisconnectKeeps ==
  ASSUME SInv, NEW s \in Streams, Disconnect(s)
  PROVE  SInv'
BY DEF Disconnect, SInv, Typed, Follows, Phases

LEMMA Kept == SInv /\ [Next]_vars => SInv'
<1> SUFFICES ASSUME SInv, [Next]_vars PROVE SInv'
  OBVIOUS
<1>1. CASE NextEvent
  BY <1>1, NextEventKeeps
<1>2. CASE Crash
  BY <1>2, CrashKeeps
<1>3. ASSUME NEW s \in Streams, Connect(s) PROVE SInv'
  BY <1>3, ConnectKeeps
<1>4. ASSUME NEW s \in Streams, Generate(s) PROVE SInv'
  BY <1>4, GenerateKeeps
<1>5. ASSUME NEW s \in Streams, Disconnect(s) PROVE SInv'
  BY <1>5, DisconnectKeeps
<1>6. CASE UNCHANGED vars
  BY <1>6 DEF vars, stream, SInv, Typed, Follows
<1> QED  BY <1>1, <1>2, <1>3, <1>4, <1>5, <1>6 DEF Next

\* What a generator looked at is never ahead of the number, nor behind the number
\* at the connection, whatever comes between its two looks (app.py 606-620).
THEOREM StreamInvariance == Spec => []SInv
<1> QED  BY Starts, Kept, PTL DEF Spec

\* A "decision" is news to its client and a "heartbeat" repeats what it was sent,
\* for every interleaving of decisions, looks, crashes and reconnections (app.py
\* 613-617).
THEOREM OnlyNewsAreDecisions == Spec => DecisionsAreNews
<1> DEFINE News(s) ==
      phase[s] \in {"looking", "changed"} /\ phase'[s] = "asleep" =>
        /\ kind'[s] = "decision" => sent'[s] > sent[s] /\ sent'[s] > since[s]
        /\ kind'[s] = "heartbeat" => sent[s] \in {-1, sent'[s]}
<1>1. ASSUME SInv, [Next]_vars, NEW s \in Streams PROVE News(s)
  <2>1. CASE NextEvent \/ UNCHANGED vars
    BY <2>1 DEF NextEvent, vars, stream
  <2>2. CASE Crash
    BY <2>2 DEF Crash
  <2>3. ASSUME NEW t \in Streams, Connect(t) \/ Disconnect(t) PROVE News(s)
    BY <2>3, <1>1 DEF Connect, Disconnect, SInv, Typed
  <2>4. ASSUME NEW t \in Streams, Generate(t) PROVE News(s)
    <3>1. CASE t # s
      BY <3>1, <2>4, <1>1 DEF Generate, Begin, Look, TellDecision, Wake, Tell, SInv, Typed
    <3>2. CASE Begin(s) \/ Wake(s)
      BY <3>2, <1>1 DEF Begin, Wake, SInv, Typed
    <3>3. CASE Look(s)
      BY <3>3, <1>1 DEF Look, Tell, SInv, Typed, Follows
    <3>4. CASE TellDecision(s)
      BY <3>4, <1>1 DEF TellDecision, Tell, SInv, Typed, Follows
    <3> QED  BY <2>4, <3>1, <3>2, <3>3, <3>4 DEF Generate
  <2> QED  BY <1>1, <2>1, <2>2, <2>3, <2>4 DEF Next
<1>2. SInv /\ [Next]_vars => [\A s \in Streams : News(s)]_vars
  BY <1>1
<1> QED  BY <1>2, StreamInvariance, PTL DEF Spec, DecisionsAreNews
=============================================================================
