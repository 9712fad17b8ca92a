------------------------ MODULE EgressServiceProofs ------------------------
(***************************************************************************)
(* For every set of calls, requests, rules and configurations, and every   *)
(* number of crashes: whoever is told that its request was served has its  *)
(* decision committed, no delivery is silent, the records tell what was    *)
(* delivered, committed evidence stays in a database file, the egress      *)
(* route is gated, and its decisions are announced once.  For that, of the *)
(* gateway only the kinds of its steps are needed; of the service, what    *)
(* its handler knows at each phase.  And what one gateway promises of its  *)
(* deliveries, which it makes by the steps of a ReleaseControl, the        *)
(* service promises of those of all its lives.                             *)
(***************************************************************************)
EXTENDS EgressService, EgressGatewayProofs

-----------------------------------------------------------------------------
(* The gateway takes the steps of a ReleaseControl: every step of a call   *)
(* goes on, refuses, delivers, or acknowledges what it delivered.          *)

Early == Stages \ {"acknowledge", "decided"}

\* The steps of a call, by what they do to its delivery and decision.

GoesOn(c) ==
  /\ stage[c] \in Early
  /\ \E next \in Early \ {"idle"} : stage' = [stage EXCEPT ![c] = next]
  /\ UNCHANGED <<decision, received>>

Refuses(c) ==
  /\ stage[c] \in Early
  /\ \E outcome : outcome.sent = FALSE /\ Conclude(c, outcome)
  /\ UNCHANGED received

Delivers(c) ==
  /\ stage[c] \in Early \ {"idle"}
  /\ stage' = [stage EXCEPT ![c] = "acknowledge"]
  /\ \E delivery : delivery.call = c /\ received' = Append(received, delivery)
  /\ UNCHANGED decision

Acknowledges(c) ==
  /\ stage[c] = "acknowledge"
  /\ \E outcome : outcome.sent = TRUE /\ Conclude(c, outcome)
  /\ UNCHANGED received

Acts(c) == GoesOn(c) \/ Refuses(c) \/ Delivers(c) \/ Acknowledges(c)

LEMMA BlockedRefuses ==
  ASSUME NEW c \in Calls, NEW r, NEW action, NEW reason, NEW summary, NEW rule,
         stage[c] \in Early, UNCHANGED received,
         Conclude(c, Blocked(r, action, reason, summary, rule))
  PROVE  Refuses(c)
<1> DEFINE outcome == Blocked(r, action, reason, summary, rule)
<1>1. outcome.sent = FALSE
  BY DEF Blocked
<1> HIDE DEF outcome
<1>2. Conclude(c, outcome)
  BY DEF outcome
<1> QED  BY <1>1, <1>2, Zenon DEF Refuses

LEMMA BlockRefuses ==
  ASSUME NEW c \in Calls, NEW reason, NEW summary, NEW rule,
         stage[c] \in Early, UNCHANGED received, Block(c, reason, summary, rule)
  PROVE  Refuses(c)
BY BlockedRefuses, Zenon DEF Block

LEMMA ProceedGoesOn ==
  ASSUME NEW c \in Calls, NEW next \in Early \ {"idle"}, NEW locals,
         stage[c] \in Early, UNCHANGED received, Proceed(c, next, locals)
  PROVE  GoesOn(c)
BY DEF Proceed, Goto, GoesOn

LEMMA BeginActs ==
  ASSUME NEW c \in Calls, NEW r, Begin(c, r)
  PROVE  Acts(c)
<1>1. stage[c] \in Early /\ received' = received
  BY DEF Begin, Early, Stages, transport
<1>2. ASSUME NEW reason, NEW hash,
             Conclude(c, [Blocked(r, "unsupported", reason, {}, Unset) EXCEPT !.body = hash])
      PROVE  Refuses(c)
  <2> DEFINE outcome == [Blocked(r, "unsupported", reason, {}, Unset) EXCEPT !.body = hash]
  <2>1. outcome.sent = FALSE
    BY DEF Blocked
  <2> HIDE DEF outcome
  <2>2. Conclude(c, outcome)
    BY <1>2 DEF outcome
  <2> QED  BY <1>1, <2>1, <2>2, Zenon DEF Refuses
<1>3. CASE ~MethodSupported(r)
  BY <1>2, <1>3 DEF Begin, Acts
<1>4. CASE MethodSupported(r) /\ ~ValidateBody(r.body).ok
  BY <1>2, <1>4 DEF Begin, Acts
<1>5. CASE MethodSupported(r) /\ ValidateBody(r.body).ok
  <2>1. Proceed(c, "verify_provenance", NoWork) /\ "verify_provenance" \in Early \ {"idle"}
    BY <1>5 DEF Begin, Early, Stages
  <2> QED  BY <1>1, <2>1, ProceedGoesOn DEF Acts
<1> QED  BY <1>3, <1>4, <1>5

LEMMA StepActs ==
  ASSUME NEW c \in Calls, Step(c)
  PROVE  Acts(c)
<1> USE DEF Acts
<1> DEFINE Next1 == Early \ {"idle"}
<1>1. CASE VerifyProvenanceOf(c)
  <2>1. stage[c] \in Early /\ received' = received /\ "verify_identity" \in Next1
    BY <1>1 DEF VerifyProvenanceOf, Early, Stages, transport
  <2> QED  BY <1>1, <2>1, BlockRefuses, ProceedGoesOn DEF VerifyProvenanceOf
<1>2. CASE VerifyIdentityOf(c)
  <2>1. stage[c] \in Early /\ received' = received /\ "validate_destination" \in Next1
    BY <1>2 DEF VerifyIdentityOf, Early, Stages, transport
  <2> QED  BY <1>2, <2>1, BlockRefuses, ProceedGoesOn DEF VerifyIdentityOf
<1>3. ASSUME NEW resolution \in Resolutions, ValidateDestinationOf(c, resolution)
      PROVE  Acts(c)
  <2>1. stage[c] \in Early /\ received' = received /\ "evaluate_policy" \in Next1
    BY <1>3 DEF ValidateDestinationOf, Early, Stages, transport
  <2> QED  BY <1>3, <2>1, BlockRefuses, ProceedGoesOn DEF ValidateDestinationOf
<1>4. CASE EvaluatePolicyFor(c)
  <2>1. stage[c] \in Early /\ received' = received /\ "send" \in Next1 /\ "redact" \in Next1
    BY <1>4 DEF EvaluatePolicyFor, Early, Stages, transport
  <2> QED  BY <1>4, <2>1, BlockRefuses, ProceedGoesOn, Zenon DEF EvaluatePolicyFor
<1>5. CASE Redact(c)
  <2>1. stage[c] \in Early /\ received' = received /\ "reevaluate_policy" \in Next1
    BY <1>5 DEF Redact, Early, Stages, transport
  <2> QED  BY <1>5, <2>1, BlockRefuses, ProceedGoesOn, Zenon DEF Redact
<1>6. CASE ReEvaluatePolicyFor(c)
  <2>1. stage[c] \in Early /\ received' = received /\ "send" \in Next1
    BY <1>6 DEF ReEvaluatePolicyFor, Early, Stages, transport
  <2> QED  BY <1>6, <2>1, BlockRefuses, ProceedGoesOn, Zenon DEF ReEvaluatePolicyFor
<1>7. CASE Send(c)
  <2> DEFINE delivery == Delivery(c)
             outcome == Released(c, FALSE, "unknown", 0)
  <2>1. stage[c] \in Early \ {"idle"}
    BY <1>7 DEF Send, Early, Stages
  <2>2. outcome.sent = FALSE /\ delivery.call = c
    BY DEF Released, Delivery
  <2>3. \/ Conclude(c, outcome) /\ received' = received
        \/ /\ received' = Append(received, delivery)
           /\ stage' = [stage EXCEPT ![c] = "acknowledge"]
           /\ decision' = decision
    BY <1>7 DEF Send, Goto
  <2> HIDE DEF delivery, outcome
  <2> QED  BY <2>1, <2>2, <2>3, Zenon DEF Refuses, Delivers
<1>8. CASE Acknowledge(c)
  <2> DEFINE outcome == Released(c, TRUE, "received", counts[request[c].destination])
  <2>1. stage[c] = "acknowledge" /\ received' = received /\ Conclude(c, outcome)
    BY <1>8 DEF Acknowledge
  <2>2. outcome.sent = TRUE
    BY DEF Released
  <2> HIDE DEF outcome
  <2> QED  BY <2>1, <2>2, Zenon DEF Acknowledges
<1> QED  BY <1>1, <1>2, <1>3, <1>4, <1>5, <1>6, <1>7, <1>8, Zenon DEF Step

-----------------------------------------------------------------------------
(* What a call's decision tells of its delivery.                           *)

GatewayShape ==
  /\ stage \in [Calls -> Stages] /\ DOMAIN decision = Calls
  /\ \E D : received \in Seq(D)

Told(c) ==
  /\ stage[c] \in Early => ~Delivered(c)
  /\ stage[c] = "acknowledge" => Delivered(c)
  /\ stage[c] = "decided" => \/ decision[c].sent = TRUE /\ Delivered(c)
                             \/ decision[c].sent = FALSE /\ ~Delivered(c)

\* A delivery more is one of its call.
LEMMA DeliveryAppended ==
  ASSUME GatewayShape, NEW delivery, received' = Append(received, delivery)
  PROVE  /\ \E D : received' \in Seq(D)
         /\ \A c \in Calls : Delivered(c)' <=> Delivered(c) \/ delivery.call = c
<1>1. PICK D : received \in Seq(D)
  BY DEF GatewayShape
<1> DEFINE E == D \cup {delivery}
<1>2. received \in Seq(E) /\ delivery \in E
  BY <1>1, SeqMonotonic
<1> HIDE DEF E
<1>3. /\ received' \in Seq(E) /\ Len(received') = Len(received) + 1
      /\ \A i \in 1 .. Len(received) : received'[i] = received[i]
      /\ received'[Len(received) + 1] = delivery
  BY <1>2, AppendProperties
<1>4. /\ Len(received) \in Nat
      /\ DOMAIN received = 1 .. Len(received) /\ DOMAIN received' = 1 .. Len(received) + 1
  BY <1>2, <1>3, LenProperties
<1>5. ASSUME NEW c \in Calls
      PROVE  Delivered(c)' <=> Delivered(c) \/ delivery.call = c
  <2>1. ASSUME Delivered(c) PROVE Delivered(c)'
    <3>1. PICK i \in DOMAIN received : received[i].call = c
      BY <2>1 DEF Delivered, DeliveriesOf
    <3>2. i \in DOMAIN received' /\ received'[i].call = c
      BY <1>3, <1>4, <3>1
    <3> QED  BY <3>2 DEF Delivered, DeliveriesOf
  <2>2. ASSUME delivery.call = c PROVE Delivered(c)'
    <3>1. Len(received) + 1 \in DOMAIN received' /\ received'[Len(received) + 1].call = c
      BY <1>3, <1>4, <2>2
    <3> QED  BY <3>1 DEF Delivered, DeliveriesOf
  <2>3. ASSUME Delivered(c)', delivery.call # c PROVE Delivered(c)
    <3>1. PICK i \in DOMAIN received' : received'[i].call = c
      BY <2>3 DEF Delivered, DeliveriesOf
    <3>2. i # Len(received) + 1
      BY <1>3, <2>3, <3>1
    <3>3. i \in DOMAIN received /\ received[i].call = c
      BY <1>3, <1>4, <3>1, <3>2
    <3> QED  BY <3>3 DEF Delivered, DeliveriesOf
  <2> QED  BY <2>1, <2>2, <2>3
<1> QED  BY <1>3, <1>5

\* What happens to one call when its step is one of the four kinds.
LEMMA ActsTell ==
  ASSUME GatewayShape, \A k \in Calls : Told(k), NEW c \in Calls, Acts(c)
  PROVE  /\ GatewayShape' /\ \A k \in Calls : Told(k)'
         /\ stage[c] # "decided"
         /\ \A k \in Calls \ {c} : stage'[k] = stage[k] /\ (Delivered(k)' <=> Delivered(k))
<1> USE DEF GatewayShape
<1>1. CASE GoesOn(c)
  <2>1. PICK next \in Early \ {"idle"} : stage' = [stage EXCEPT ![c] = next]
    BY <1>1 DEF GoesOn
  <2>2. /\ stage[c] \in Early /\ stage' \in [Calls -> Stages] /\ stage'[c] \in Early
        /\ \A k \in Calls \ {c} : stage'[k] = stage[k]
        /\ decision' = decision /\ received' = received
    BY <1>1, <2>1 DEF GoesOn, Early
  <2>3. \A k \in Calls : Delivered(k)' <=> Delivered(k)
    BY <2>2 DEF Delivered, DeliveriesOf
  <2>4. ASSUME NEW k \in Calls PROVE Told(k)'
    BY <2>2, <2>3 DEF Told, Early
  <2> QED  BY <2>2, <2>3, <2>4 DEF Early
<1>2. CASE Delivers(c)
  <2>1. PICK delivery : delivery.call = c /\ received' = Append(received, delivery)
    BY <1>2 DEF Delivers
  <2>2. /\ stage[c] \in Early /\ stage' \in [Calls -> Stages] /\ stage'[c] = "acknowledge"
        /\ \A k \in Calls \ {c} : stage'[k] = stage[k]
        /\ decision' = decision
    BY <1>2 DEF Delivers, Stages
  <2>3. /\ \E D : received' \in Seq(D)
        /\ \A k \in Calls : Delivered(k)' <=> Delivered(k) \/ k = c
    BY <2>1, DeliveryAppended
  <2>4. ASSUME NEW k \in Calls PROVE Told(k)'
    BY <2>2, <2>3 DEF Told, Early
  <2> QED  BY <2>2, <2>3, <2>4 DEF Early
<1>3. ASSUME NEW outcome, Conclude(c, outcome), UNCHANGED received, stage[c] # "decided",
             \/ outcome.sent = TRUE /\ Delivered(c)
             \/ outcome.sent = FALSE /\ ~Delivered(c)
      PROVE  /\ GatewayShape' /\ \A k \in Calls : Told(k)'
             /\ \A k \in Calls \ {c} : stage'[k] = stage[k] /\ (Delivered(k)' <=> Delivered(k))
  <2>1. /\ stage' \in [Calls -> Stages] /\ stage'[c] = "decided"
        /\ DOMAIN decision' = Calls /\ decision'[c] = outcome
        /\ \A k \in Calls \ {c} : stage'[k] = stage[k] /\ decision'[k] = decision[k]
        /\ received' = received
    BY <1>3 DEF Conclude, Goto, Stages
  <2>2. \A k \in Calls : Delivered(k)' <=> Delivered(k)
    BY <2>1 DEF Delivered, DeliveriesOf
  <2>3. ASSUME NEW k \in Calls PROVE Told(k)'
    BY <1>3, <2>1, <2>2 DEF Told, Early
  <2> QED  BY <2>1, <2>2, <2>3
<1>4. CASE Refuses(c)
  <2>1. PICK outcome : outcome.sent = FALSE /\ Conclude(c, outcome)
    BY <1>4 DEF Refuses
  <2>2. stage[c] # "decided" /\ ~Delivered(c) /\ received' = received
    BY <1>4 DEF Refuses, Told, Early
  <2> QED  BY <1>3, <2>1, <2>2
<1>5. CASE Acknowledges(c)
  <2>1. PICK outcome : outcome.sent = TRUE /\ Conclude(c, outcome)
    BY <1>5 DEF Acknowledges
  <2>2. stage[c] # "decided" /\ Delivered(c) /\ received' = received
    BY <1>5 DEF Acknowledges, Told
  <2> QED  BY <1>3, <2>1, <2>2
<1> QED  BY <1>1, <1>2, <1>4, <1>5 DEF Acts

LEMMA GatewayRests ==
  ASSUME UNCHANGED <<stage, decision, received>>
  PROVE  /\ GatewayShape => GatewayShape'
         /\ \A c \in Calls : (Told(c) => Told(c)') /\ (Delivered(c)' <=> Delivered(c))
BY DEF GatewayShape, Told, Delivered, DeliveriesOf

-----------------------------------------------------------------------------
(* The gateway as a ReleaseControl.                                        *)

TInv == GatewayShape /\ \A c \in Calls : Told(c)

Out == [i \in DOMAIN received |-> received[i].call]

LEMMA ToldAtStart == Init => TInv
<1> SUFFICES ASSUME Init PROVE TInv
  OBVIOUS
<1>1. \A c \in Calls : stage[c] = "idle" /\ ~Delivered(c)
  BY DEF Init, Delivered, DeliveriesOf
<1>2. received \in Seq({})
  BY EmptySeq DEF Init
<1>3. GatewayShape
  BY <1>2 DEF GatewayShape, Init, Stages
<1> QED  BY <1>1, <1>3 DEF TInv, Told, Early

LEMMA ToldByEveryStep == TInv /\ [Next]_vars => TInv'
<1> SUFFICES ASSUME TInv, [Next]_vars PROVE TInv'
  OBVIOUS
<1>1. ASSUME NEW c \in Calls, Step(c) \/ \E r \in Requests : Begin(c, r)
      PROVE  TInv'
  <2>1. Acts(c)
    BY <1>1, StepActs, BeginActs
  <2> QED  BY <2>1, ActsTell DEF TInv
<1>2. CASE UNCHANGED <<stage, decision, received>>
  BY <1>2, GatewayRests DEF TInv
<1>3. CASE Tick \/ (\E r \in Replacements : Register(r[1], r[2])) \/ UNCHANGED vars
  BY <1>2, <1>3 DEF Tick, Register, vars, transport, calls
<1> QED  BY <1>1, <1>3 DEF Next

LEMMA ReleasedIsDelivered ==
  ASSUME NEW c \in Calls
  PROVE  Control!Released(c) <=> Delivered(c)
<1>1. \A i \in DOMAIN received : Out[i] = received[i].call
  BY DEF Out
<1>2. DOMAIN Out = DOMAIN received
  BY DEF Out
<1> QED  BY <1>1, <1>2 DEF Control!Released, Delivered, DeliveriesOf, Out

LEMMA OutAppended ==
  ASSUME GatewayShape, NEW delivery, received' = Append(received, delivery)
  PROVE  Out' = Append(Out, delivery.call)
<1>1. PICK D : received \in Seq(D)
  BY DEF GatewayShape
<1> DEFINE E == D \cup {delivery}
<1>2. received \in Seq(E) /\ delivery \in E
  BY <1>1, SeqMonotonic
<1> HIDE DEF E
<1> DEFINE n == Len(received)
           F == {received[i].call : i \in 1 .. n} \cup {delivery.call}
<1>3. /\ n \in Nat /\ DOMAIN received = 1 .. n /\ DOMAIN received' = 1 .. n + 1
      /\ \A i \in 1 .. n : received'[i] = received[i]
      /\ received'[n + 1] = delivery
  BY <1>2, AppendProperties, LenProperties
<1>4. Out = [i \in 1 .. n |-> received[i].call] /\ Out' = [i \in 1 .. n + 1 |-> received'[i].call]
  BY <1>3 DEF Out
<1>5. Out \in Seq(F) /\ Len(Out) = n /\ delivery.call \in F
  <2>1. \A i \in 1 .. n : received[i].call \in F
    OBVIOUS
  <2>2. Out \in [1 .. n -> F]
    BY <1>4, <2>1
  <2>3. Out \in Seq(F)
    BY <1>3, <2>2, SeqDef
  <2> QED  BY <1>3, <1>4, <2>3, LenProperties
<1> HIDE DEF F, n
<1>6. /\ Append(Out, delivery.call) \in Seq(F)
      /\ Len(Append(Out, delivery.call)) = n + 1
      /\ \A i \in 1 .. n : Append(Out, delivery.call)[i] = Out[i]
      /\ Append(Out, delivery.call)[n + 1] = delivery.call
  BY <1>5, AppendProperties
<1>7. \A i \in 1 .. n + 1 : Out'[i] = Append(Out, delivery.call)[i]
  <2> SUFFICES ASSUME NEW i \in 1 .. n + 1 PROVE Out'[i] = Append(Out, delivery.call)[i]
    OBVIOUS
  <2>1. CASE i = n + 1
    BY <1>3, <1>4, <1>6, <2>1
  <2>2. CASE i \in 1 .. n
    BY <1>3, <1>4, <1>6, <2>2
  <2>3. i \in 1 .. n \/ i = n + 1
    <3>1. n \in Nat
      BY <1>3
    <3> QED  BY <3>1
  <2> QED  BY <2>1, <2>2, <2>3
<1>8. Append(Out, delivery.call) = [i \in 1 .. n + 1 |-> Append(Out, delivery.call)[i]]
  BY <1>6, LenProperties
<1> QED  BY <1>4, <1>7, <1>8

\* A call that acts changes what is seen of itself only.
LEMMA OneCallSeen ==
  ASSUME TInv, NEW c \in Calls, NEW seen, CallState'[c] = seen,
         stage' \in [Calls -> Stages],
         \A k \in Calls \ {c} : stage'[k] = stage[k] /\ decision'[k] = decision[k]
  PROVE  CallState' = [CallState EXCEPT ![c] = seen]
<1>1. \A k \in Calls \ {c} : CallState'[k] = CallState[k]
  BY DEF CallState
<1>2. CallState = [k \in Calls |-> CallState[k]] /\ CallState' = [k \in Calls |-> CallState'[k]]
  BY DEF CallState
<1> HIDE DEF CallState
<1> QED  BY <1>1, <1>2

LEMMA ActsControl ==
  ASSUME TInv, NEW c \in Calls, Acts(c)
  PROVE  [Control!Next]_<<CallState, Out>>
<1>1. /\ GatewayShape /\ stage \in [Calls -> Stages] /\ DOMAIN decision = Calls /\ Told(c)
      /\ DOMAIN CallState = Calls
  BY DEF TInv, GatewayShape, CallState
<1>2. stage[c] \in (Early \ {"idle"}) \cup {"acknowledge"} => CallState[c] = "open"
  BY DEF CallState, Early, Stages
<1>3. stage[c] = "idle" => CallState[c] = "idle"
  BY DEF CallState
<1>4. ASSUME NEW outcome, Conclude(c, outcome)
      PROVE  /\ outcome.sent = TRUE => CallState' = [CallState EXCEPT ![c] = "sent"]
             /\ outcome.sent = FALSE => CallState' = [CallState EXCEPT ![c] = "refused"]
  <2>1. /\ stage' \in [Calls -> Stages] /\ stage'[c] = "decided" /\ decision'[c] = outcome
        /\ \A k \in Calls \ {c} : stage'[k] = stage[k] /\ decision'[k] = decision[k]
    BY <1>1, <1>4 DEF Conclude, Goto, Stages
  <2>2. /\ outcome.sent = TRUE => CallState'[c] = "sent"
        /\ outcome.sent = FALSE => CallState'[c] = "refused"
    BY <2>1 DEF CallState
  <2> QED  BY <2>1, <2>2, OneCallSeen
<1>5. CallState = [k \in Calls |-> CallState[k]]
  BY DEF CallState
<1>6. CASE GoesOn(c)
  <2>1. PICK next \in Early \ {"idle"} : stage' = [stage EXCEPT ![c] = next]
    BY <1>6 DEF GoesOn
  <2>2. /\ stage' \in [Calls -> Stages] /\ stage'[c] = next /\ next \notin {"idle", "decided"}
        /\ \A k \in Calls \ {c} : stage'[k] = stage[k] /\ decision'[k] = decision[k]
        /\ Out' = Out /\ stage[c] \in Early
    BY <1>1, <1>6, <2>1 DEF GoesOn, Early, Out
  <2>3. CallState'[c] = "open"
    BY <2>2 DEF CallState
  <2>4. CallState' = [CallState EXCEPT ![c] = "open"]
    BY <2>2, <2>3, OneCallSeen
  <2>5. CASE stage[c] = "idle"
    <3>1. Control!Ask(c)
      BY <1>3, <2>2, <2>4, <2>5 DEF Control!Ask, Out
    <3> QED  BY <3>1 DEF Control!Next
  <2>6. CASE stage[c] # "idle"
    <3>1. CallState[c] = "open"
      BY <1>2, <2>2, <2>6
    <3>2. CallState' = CallState
      BY <1>5, <2>4, <3>1
    <3> QED  BY <2>2, <3>2
  <2> QED  BY <2>5, <2>6
<1>7. CASE Refuses(c)
  <2>1. PICK outcome : outcome.sent = FALSE /\ Conclude(c, outcome)
    BY <1>7 DEF Refuses
  <2>2. /\ CallState' = [CallState EXCEPT ![c] = "refused"] /\ Out' = Out
        /\ stage[c] \in Early /\ ~Control!Released(c)
    BY <1>1, <1>4, <1>7, <2>1, ReleasedIsDelivered DEF Refuses, Told, Out
  <2>3. CASE stage[c] = "idle"
    <3>1. Control!Ask(c)
      BY <1>3, <2>2, <2>3 DEF Control!Ask, Out
    <3> QED  BY <3>1 DEF Control!Next
  <2>4. CASE stage[c] # "idle"
    <3>1. Control!Answer(c)
      BY <1>2, <2>2, <2>4 DEF Control!Answer, Out
    <3> QED  BY <3>1 DEF Control!Next
  <2> QED  BY <2>3, <2>4
<1>8. CASE Delivers(c)
  <2>1. PICK delivery : delivery.call = c /\ received' = Append(received, delivery)
    BY <1>8 DEF Delivers
  <2>2. Out' = Append(Out, c)
    BY <1>1, <2>1, OutAppended
  <2>3. /\ stage' \in [Calls -> Stages] /\ stage'[c] = "acknowledge"
        /\ \A k \in Calls \ {c} : stage'[k] = stage[k] /\ decision'[k] = decision[k]
        /\ stage[c] \in Early \ {"idle"}
    BY <1>1, <1>8 DEF Delivers, Stages
  <2>4. CallState'[c] = "open"
    BY <2>3 DEF CallState
  <2>5. CallState' = CallState
    <3>1. CallState' = [CallState EXCEPT ![c] = "open"] /\ CallState[c] = "open"
      BY <1>2, <2>3, <2>4, OneCallSeen
    <3> QED  BY <1>5, <3>1
  <2>6. ~Control!Released(c)
    BY <1>1, <2>3, ReleasedIsDelivered DEF Told
  <2>7. Control!Release(c)
    BY <1>2, <2>2, <2>3, <2>5, <2>6 DEF Control!Release, Out
  <2> QED  BY <2>7 DEF Control!Next
<1>9. CASE Acknowledges(c)
  <2>1. PICK outcome : outcome.sent = TRUE /\ Conclude(c, outcome)
    BY <1>9 DEF Acknowledges
  <2>2. /\ CallState' = [CallState EXCEPT ![c] = "sent"] /\ Out' = Out
        /\ stage[c] = "acknowledge" /\ Control!Released(c)
    BY <1>1, <1>4, <1>9, <2>1, ReleasedIsDelivered DEF Acknowledges, Told, Out
  <2>3. Control!Answer(c)
    BY <1>2, <2>2 DEF Control!Answer, Out
  <2> QED  BY <2>3 DEF Control!Next
<1> QED  BY <1>6, <1>7, <1>8, <1>9 DEF Acts

\* The gateway starts as a ReleaseControl does and takes only its steps: the safety
\* part of ControlsRelease (gateway.py 182-396).
THEOREM TakesControlSteps == Spec => Control!Init /\ [][Control!Next]_<<CallState, Out>>
<1>1. Init => Control!Init
  BY DEF Init, Control!Init, CallState
<1>2. TInv /\ [Next]_vars => [Control!Next]_<<CallState, Out>>
  <2> SUFFICES ASSUME TInv, [Next]_vars PROVE [Control!Next]_<<CallState, Out>>
    OBVIOUS
  <2>1. ASSUME NEW c \in Calls, Step(c) \/ \E r \in Requests : Begin(c, r)
        PROVE  [Control!Next]_<<CallState, Out>>
    <3>1. Acts(c)
      BY <2>1, StepActs, BeginActs
    <3> QED  BY <3>1, ActsControl
  <2>2. CASE Tick \/ (\E r \in Replacements : Register(r[1], r[2])) \/ UNCHANGED vars
    <3>1. UNCHANGED <<stage, decision, received>>
      BY <2>2 DEF Tick, Register, vars, transport, calls
    <3> QED  BY <3>1 DEF CallState, Out
  <2> QED  BY <2>1, <2>2 DEF Next
<1> QED  BY <1>1, <1>2, ToldAtStart, ToldByEveryStep, PTL DEF Spec

-----------------------------------------------------------------------------
(* What the service knows at each phase of a call.                         *)

ServiceShape ==
  /\ phase \in [Calls -> Phases]
  /\ DOMAIN kind = Calls /\ DOMAIN saved = Calls /\ DOMAIN answer = Calls /\ DOMAIN life = Calls
  /\ stored \subseteq Calls /\ pending \subseteq Calls
  /\ crashes \in Nat

\* The life of the process that serves the call keeps its evidence still.
Held(c) == Durable \/ life[c] = crashes

Untold == {"evidence_persistence_failed", "internal_error"}

Handled(c) ==
  /\ phase[c] = "none" => stage[c] = "idle"
  /\ phase[c] \in {"record", "report"} => stage[c] = "decided"
  /\ phase[c] = "report" => saved[c] \in BOOLEAN
  /\ answer[c] = "ok" => phase[c] = "answered"
  /\ life[c] \in 0 .. crashes

Kept(c) ==
  Held(c) =>
    /\ phase[c] = "report" /\ saved[c] = TRUE => c \in stored
    /\ answer[c] = "ok" => c \in stored
    /\ phase[c] = "answered" /\ Delivered(c) => c \in stored \/ answer[c] \in Untold

\* What a strict environment serves is not kept in the memory it knows of.
Governed(c) ==
  /\ config.strict /\ kind[c] = "egress"
  /\ phase[c] \in {"gateway", "record", "report"} \/ answer[c] = "ok"
  => config.database # "memory"

RowsDecided == \A c \in stored \cup pending : stage[c] = "decided"

SInv ==
  /\ GatewayShape /\ ServiceShape /\ RowsDecided
  /\ \A c \in Calls : Told(c) /\ Handled(c) /\ Kept(c) /\ Governed(c)

LEMMA ServiceStarts == ServiceInit => SInv
<1> SUFFICES ASSUME ServiceInit PROVE SInv
  OBVIOUS
<1>1. \A c \in Calls : stage[c] = "idle" /\ ~Delivered(c)
  BY DEF ServiceInit, Init, Delivered, DeliveriesOf
<1>2. GatewayShape
  <2>1. received \in Seq({})
    BY EmptySeq DEF ServiceInit, Init
  <2> QED  BY <2>1 DEF GatewayShape, ServiceInit, Init, Stages
<1>3. ServiceShape
  BY DEF ServiceShape, ServiceInit, Phases
<1>4. \A c \in Calls : Told(c)
  BY <1>1 DEF Told, Early
<1>5. Unset # "ok"
  BY AnswersAssumption DEF Answers
<1>6. \A c \in Calls : Handled(c) /\ Kept(c) /\ Governed(c)
  BY <1>1, <1>5 DEF Handled, Kept, Governed, ServiceInit
<1>7. RowsDecided
  BY DEF RowsDecided, ServiceInit
<1> QED  BY <1>2, <1>3, <1>4, <1>6, <1>7 DEF SInv

\* Another call than the one that acts keeps what is known of it, as long as no row
\* is lost.
LEMMA OthersKeep ==
  ASSUME SInv, NEW k \in Calls, UNCHANGED <<config, crashes>>,
         phase'[k] = phase[k], kind'[k] = kind[k], saved'[k] = saved[k], answer'[k] = answer[k],
         life'[k] = life[k], stage'[k] = stage[k], Delivered(k)' <=> Delivered(k),
         stored \subseteq stored'
  PROVE  Handled(k)' /\ Kept(k)' /\ Governed(k)'
<1>1. Handled(k) /\ Kept(k) /\ Governed(k)
  BY DEF SInv
<1>2. Handled(k)'
  BY <1>1 DEF Handled
<1>3. Kept(k)'
  BY <1>1, Zenon DEF Kept, Held, Durable
<1>4. Governed(k)'
  BY <1>1 DEF Governed
<1> QED  BY <1>2, <1>3, <1>4

\* A call that enters, refused at the gate or given to the gateway.
LEMMA EntersKeeps ==
  ASSUME SInv, NEW c \in Calls, NEW which \in {"egress", "demo"}, Enter(c, which),
         UNCHANGED <<config, stored, pending, saved, crashes>>,
         \/ /\ UNCHANGED <<stage, decision, received>>
            /\ \E what \in Answers \ {"ok"} : Answer(c, what)
         \/ /\ Acts(c)
            /\ phase' = [phase EXCEPT ![c] = "gateway"]
            /\ UNCHANGED answer
            /\ which = "egress" /\ config.strict => config.database # "memory"
  PROVE  SInv'
<1>1. /\ phase[c] = "none" /\ stage[c] = "idle"
      /\ kind' = [kind EXCEPT ![c] = which] /\ life' = [life EXCEPT ![c] = crashes]
      /\ GatewayShape /\ ServiceShape /\ RowsDecided /\ \A k \in Calls : Told(k)
  BY DEF SInv, Handled, Enter
<1>2. c \notin stored \cup pending
  BY <1>1 DEF RowsDecided
<1>3. /\ kind'[c] = which /\ life'[c] = crashes /\ crashes \in Nat
      /\ DOMAIN kind' = Calls /\ DOMAIN life' = Calls
      /\ \A k \in Calls \ {c} : kind'[k] = kind[k] /\ life'[k] = life[k]
  BY <1>1 DEF ServiceShape
<1>4. CASE /\ UNCHANGED <<stage, decision, received>>
           /\ \E what \in Answers \ {"ok"} : Answer(c, what)
  <2>1. PICK what \in Answers \ {"ok"} : Answer(c, what)
    BY <1>4
  <2>2. /\ phase' \in [Calls -> Phases] /\ phase'[c] = "answered"
        /\ DOMAIN answer' = Calls /\ answer'[c] = what
        /\ \A k \in Calls \ {c} : phase'[k] = phase[k] /\ answer'[k] = answer[k]
    BY <1>1, <2>1 DEF Answer, ServiceShape, Phases
  <2>3. /\ GatewayShape' /\ \A k \in Calls : Told(k)' /\ (Delivered(k)' <=> Delivered(k))
        /\ stage' = stage
    BY <1>1, <1>4, GatewayRests
  <2>4. ~Delivered(c)
    BY <1>1 DEF Told, Early, Stages
  <2>5. Handled(c)' /\ Kept(c)' /\ Governed(c)'
    BY <1>1, <1>3, <2>2, <2>3, <2>4 DEF Handled, Kept, Governed
  <2>6. \A k \in Calls \ {c} : Handled(k)' /\ Kept(k)' /\ Governed(k)'
    BY <1>3, <2>2, <2>3, OthersKeep
  <2> QED  BY <1>1, <1>3, <2>2, <2>3, <2>5, <2>6 DEF SInv, ServiceShape, RowsDecided
<1>5. CASE /\ Acts(c)
           /\ phase' = [phase EXCEPT ![c] = "gateway"]
           /\ UNCHANGED answer
           /\ which = "egress" /\ config.strict => config.database # "memory"
  <2>1. /\ phase' \in [Calls -> Phases] /\ phase'[c] = "gateway" /\ answer' = answer
        /\ \A k \in Calls \ {c} : phase'[k] = phase[k]
    BY <1>1, <1>5 DEF ServiceShape, Phases
  <2>2. /\ GatewayShape' /\ \A k \in Calls : Told(k)'
        /\ \A k \in Calls \ {c} : stage'[k] = stage[k] /\ (Delivered(k)' <=> Delivered(k))
    BY <1>1, <1>5, ActsTell
  <2>3. answer[c] # "ok"
    BY <1>1 DEF SInv, Handled
  <2>4. Handled(c)' /\ Kept(c)' /\ Governed(c)'
    BY <1>3, <1>5, <2>1, <2>3 DEF Handled, Kept, Governed
  <2>5. \A k \in Calls \ {c} : Handled(k)' /\ Kept(k)' /\ Governed(k)'
    BY <1>3, <2>1, <2>2, OthersKeep
  <2>6. RowsDecided'
    BY <1>1, <1>2, <2>2 DEF RowsDecided, ServiceShape
  <2> QED  BY <1>1, <1>3, <2>1, <2>2, <2>4, <2>5, <2>6 DEF SInv, ServiceShape
<1> QED  BY <1>4, <1>5

LEMMA AuthorizeAndSendKeeps ==
  ASSUME SInv, NEW c \in Calls, NEW r \in Requests, AuthorizeAndSend(c, r)
  PROVE  SInv'
<1>1. Enter(c, "egress") /\ UNCHANGED <<config, stored, pending, saved, crashes>>
  BY DEF AuthorizeAndSend, database
<1>2. \/ UNCHANGED gateway /\ \E what \in Answers \ {"ok"} : Answer(c, what)
      \/ /\ config.strict => GovernanceValid(config)
         /\ Begin(c, r) /\ phase' = [phase EXCEPT ![c] = "gateway"] /\ UNCHANGED answer
  <2>1. /\ "evidence_store_unavailable" \in Answers \ {"ok"}
        /\ "governance_configuration_invalid" \in Answers \ {"ok"}
    BY DEF Answers
  <2> QED  BY <2>1, Zenon DEF AuthorizeAndSend
<1>3. CASE UNCHANGED gateway /\ \E what \in Answers \ {"ok"} : Answer(c, what)
  <2>1. UNCHANGED <<stage, decision, received>>
    BY <1>3 DEF gateway, calls, transport
  <2> QED  BY <1>1, <1>3, <2>1, EntersKeeps, Zenon
<1>4. CASE /\ config.strict => GovernanceValid(config)
           /\ Begin(c, r) /\ phase' = [phase EXCEPT ![c] = "gateway"] /\ UNCHANGED answer
  <2>1. config.strict => config.database # "memory"
    BY <1>4 DEF GovernanceValid
  <2>2. Acts(c)
    BY <1>4, BeginActs
  <2> QED  BY <1>1, <1>4, <2>1, <2>2, EntersKeeps, Zenon
<1> QED  BY <1>2, <1>3, <1>4

LEMMA RunDemoScenarioKeeps ==
  ASSUME SInv, NEW c \in Calls, NEW r \in Scenarios, RunDemoScenario(c, r)
  PROVE  SInv'
<1>1. /\ Enter(c, "demo") /\ UNCHANGED <<config, stored, pending, saved, crashes>>
      /\ phase' = [phase EXCEPT ![c] = "gateway"] /\ UNCHANGED answer
      /\ "demo" # "egress"
  BY DEF RunDemoScenario, database
<1>2. Acts(c)
  BY BeginActs DEF RunDemoScenario
<1> QED  BY <1>1, <1>2, EntersKeeps, Zenon

LEMMA ServeKeeps ==
  ASSUME SInv, NEW c \in Calls, Serve(c)
  PROVE  SInv'
<1>1. /\ phase[c] = "gateway"
      /\ UNCHANGED <<config, stored, pending, crashes, kind, phase, saved, answer, life>>
      /\ GatewayShape /\ ServiceShape /\ RowsDecided /\ \A k \in Calls : Told(k)
      /\ Handled(c) /\ Kept(c) /\ Governed(c)
  BY DEF Serve, database, handlers, SInv
<1>2. Acts(c)
  BY StepActs DEF Serve
<1>3. /\ GatewayShape' /\ \A k \in Calls : Told(k)'
      /\ stage[c] # "decided"
      /\ \A k \in Calls \ {c} : stage'[k] = stage[k] /\ (Delivered(k)' <=> Delivered(k))
  BY <1>1, <1>2, ActsTell
<1>4. Handled(c)' /\ Kept(c)' /\ Governed(c)'
  BY <1>1 DEF Handled, Kept, Governed, Held
<1>5. \A k \in Calls \ {c} : Handled(k)' /\ Kept(k)' /\ Governed(k)'
  BY <1>1, <1>3, OthersKeep
<1>6. RowsDecided'
  BY <1>1, <1>3 DEF RowsDecided, ServiceShape
<1>7. ServiceShape'
  BY <1>1 DEF ServiceShape
<1> QED  BY <1>3, <1>4, <1>5, <1>6, <1>7 DEF SInv

\* A handler that goes on after the gateway returned: to record, to report or to its
\* client, with no row lost.
LEMMA HandlerKeeps ==
  ASSUME SInv, NEW c \in Calls, stage[c] = "decided", phase[c] # "none",
         UNCHANGED <<config, crashes, life, kind, stage, decision, received>>,
         NEW next \in {"record", "report", "answered"}, phase' = [phase EXCEPT ![c] = next],
         DOMAIN saved' = Calls, DOMAIN answer' = Calls,
         \A k \in Calls \ {c} : saved'[k] = saved[k] /\ answer'[k] = answer[k],
         stored \subseteq stored', stored' \cup pending' \subseteq stored \cup pending \cup {c},
         next = "report" => saved'[c] \in BOOLEAN,
         answer'[c] = "ok" => next = "answered",
         Governed(c)', Kept(c)'
  PROVE  SInv'
<1>1. GatewayShape /\ ServiceShape /\ RowsDecided /\ \A k \in Calls : Told(k) /\ Handled(k)
  BY DEF SInv
<1>2. /\ phase' \in [Calls -> Phases] /\ phase'[c] = next
      /\ \A k \in Calls \ {c} : phase'[k] = phase[k]
  BY <1>1 DEF ServiceShape, Phases
<1>3. GatewayShape' /\ \A k \in Calls : Told(k)' /\ (Delivered(k)' <=> Delivered(k))
  BY <1>1, GatewayRests
<1>4. Handled(c)'
  BY <1>1, <1>2 DEF Handled
<1>5. \A k \in Calls \ {c} : Handled(k)' /\ Kept(k)' /\ Governed(k)'
  BY <1>2, <1>3, OthersKeep
<1>6. RowsDecided'
  BY <1>1 DEF RowsDecided
<1>7. ServiceShape'
  BY <1>1, <1>2 DEF ServiceShape
<1> QED  BY <1>3, <1>4, <1>5, <1>6, <1>7 DEF SInv

LEMMA NextEventKeeps ==
  ASSUME SInv, NEW c \in Calls, NextEvent(c)
  PROVE  SInv'
<1>1. /\ phase[c] = "gateway" /\ stage[c] = "decided"
      /\ phase' = [phase EXCEPT ![c] = "record"]
      /\ UNCHANGED <<config, crashes, life, kind, stage, decision, received, stored, pending,
                     saved, answer>>
  BY DEF NextEvent, gateway, calls, transport, database
<1>2. ServiceShape /\ Handled(c) /\ Kept(c) /\ Governed(c) /\ phase'[c] = "record"
  BY <1>1 DEF SInv, ServiceShape
<1>3. answer'[c] # "ok"
  BY <1>1, <1>2 DEF Handled
<1>4. Governed(c)'
  BY <1>1, <1>2 DEF Governed
<1>5. Kept(c)'
  BY <1>1, <1>2, <1>3 DEF Kept
<1> QED  BY <1>1, <1>2, <1>3, <1>4, <1>5, HandlerKeeps DEF ServiceShape

\* A handler is at its record when the gateway has decided.
LEMMA AtRecordDecided ==
  ASSUME SInv, NEW c \in Calls, AtRecord(c)
  PROVE  /\ stage[c] = "decided" /\ phase[c] \in {"gateway", "record"} /\ answer[c] # "ok"
         /\ config.strict /\ kind[c] = "egress" => config.database # "memory"
<1>1. Handled(c) /\ Governed(c)
  BY DEF SInv
<1> QED  BY <1>1 DEF AtRecord, Handled, Governed

\* What follows a record keeps the invariant, whether the record returned or raised.
LEMMA AfterRecordKeeps ==
  ASSUME SInv, NEW c \in Calls, AtRecord(c), NEW success \in BOOLEAN, AfterRecord(c, success),
         UNCHANGED <<config, crashes, life, kind, stage, decision, received>>,
         stored \subseteq stored', stored' \cup pending' \subseteq stored \cup pending \cup {c},
         success = TRUE => c \in stored'
  PROVE  SInv'
<1>1. /\ stage[c] = "decided" /\ phase[c] \in {"gateway", "record"} /\ answer[c] # "ok"
      /\ config.strict /\ kind[c] = "egress" => config.database # "memory"
  BY AtRecordDecided
<1>2. ServiceShape
  BY DEF SInv
<1>3. /\ DOMAIN saved' = Calls /\ saved'[c] = success
      /\ \A k \in Calls \ {c} : saved'[k] = saved[k]
  BY <1>2 DEF AfterRecord, ServiceShape
<1>4. CASE /\ phase' = [phase EXCEPT ![c] = "report"]
           /\ UNCHANGED answer
  <2>1. phase'[c] = "report"
    BY <1>2, <1>4 DEF ServiceShape
  <2>2. Governed(c)'
    BY <1>1, <1>4 DEF Governed
  <2>3. Kept(c)'
    BY <1>1, <1>3, <1>4, <2>1 DEF Kept
  <2> QED  BY <1>1, <1>2, <1>3, <1>4, <2>2, <2>3, HandlerKeeps DEF ServiceShape
<1>5. CASE kind[c] = "demo" /\ Answer(c, IF success THEN "ok" ELSE "internal_error")
  <2>1. /\ phase' = [phase EXCEPT ![c] = "answered"] /\ phase'[c] = "answered"
        /\ DOMAIN answer' = Calls
        /\ answer'[c] = IF success THEN "ok" ELSE "internal_error"
        /\ \A k \in Calls \ {c} : answer'[k] = answer[k]
    BY <1>2, <1>5 DEF Answer, ServiceShape
  <2>2. Governed(c)'
    BY <1>5 DEF Governed
  <2>3. Kept(c)'
    <3>1. CASE success = TRUE
      BY <2>1, <3>1 DEF Kept
    <3>2. CASE success = FALSE
      BY <2>1, <3>2 DEF Kept, Untold
    <3> QED  BY <3>1, <3>2
  <2> QED  BY <1>1, <1>2, <1>3, <2>1, <2>2, <2>3, HandlerKeeps
<1> QED  BY <1>4, <1>5 DEF AfterRecord

LEMMA RecordKeeps ==
  ASSUME SInv, NEW c \in Calls, Record(c)
  PROVE  SInv'
<1>1. /\ AtRecord(c) /\ AfterRecord(c, TRUE)
      /\ UNCHANGED <<config, crashes, life, kind, stage, decision, received>>
      /\ stored' = stored \cup pending \cup {c} /\ pending' = {}
  BY DEF Record, gateway, calls, transport
<1> QED  BY <1>1, AfterRecordKeeps

LEMMA RecordFailsKeeps ==
  ASSUME SInv, NEW c \in Calls, RecordFails(c)
  PROVE  SInv'
<1>1. /\ AtRecord(c) /\ AfterRecord(c, FALSE)
      /\ UNCHANGED <<config, crashes, life, kind, stage, decision, received>>
      /\ stored' = stored /\ pending' \subseteq pending \cup {c}
  BY DEF RecordFails, gateway, calls, transport
<1> QED  BY <1>1, AfterRecordKeeps

LEMMA ReportKeeps ==
  ASSUME SInv, NEW c \in Calls, Report(c)
  PROVE  SInv'
<1>1. /\ phase[c] = "report"
      /\ Answer(c, IF saved[c] THEN "ok" ELSE "evidence_persistence_failed")
      /\ UNCHANGED <<config, crashes, life, kind, stage, decision, received, stored, pending, saved>>
  BY DEF Report, gateway, calls, transport, database
<1>2. ServiceShape /\ Handled(c) /\ Kept(c) /\ Governed(c)
  BY DEF SInv
<1>3. stage[c] = "decided" /\ saved[c] \in BOOLEAN
  BY <1>1, <1>2 DEF Handled
<1>4. /\ phase' = [phase EXCEPT ![c] = "answered"] /\ phase'[c] = "answered"
      /\ DOMAIN answer' = Calls
      /\ answer'[c] = IF saved[c] THEN "ok" ELSE "evidence_persistence_failed"
      /\ \A k \in Calls \ {c} : answer'[k] = answer[k]
  BY <1>1, <1>2 DEF Answer, ServiceShape
<1>5. Governed(c)'
  BY <1>1, <1>2 DEF Governed
<1>6. Kept(c)'
  <2>1. CASE saved[c] = TRUE
    BY <1>1, <1>2, <1>4, <2>1 DEF Kept, Held, Durable
  <2>2. CASE saved[c] = FALSE
    BY <1>4, <2>2 DEF Kept, Untold
  <2> QED  BY <1>3, <2>1, <2>2
<1> QED  BY <1>1, <1>2, <1>3, <1>4, <1>5, <1>6, HandlerKeeps DEF ServiceShape

\* The process dies: what was served is lost, and so is a database in memory, whose
\* rows were of an earlier life.
LEMMA CrashKeeps ==
  ASSUME SInv, Crash
  PROVE  SInv'
<1>1. /\ crashes' = crashes + 1 /\ pending' = {}
      /\ phase' = [c \in Calls |-> IF phase[c] \in {"none", "answered"} THEN phase[c] ELSE "lost"]
      /\ stored' = IF Durable THEN stored ELSE {}
      /\ UNCHANGED <<stage, decision, received, config, kind, saved, answer, life>>
  BY DEF Crash, calls
<1>2. /\ GatewayShape /\ ServiceShape /\ RowsDecided
      /\ \A c \in Calls : Told(c) /\ Handled(c) /\ Kept(c) /\ Governed(c)
  BY DEF SInv
<1>3. GatewayShape' /\ \A c \in Calls : Told(c)' /\ (Delivered(c)' <=> Delivered(c))
  BY <1>1, <1>2, GatewayRests
<1>4. ServiceShape'
  BY <1>1, <1>2 DEF ServiceShape, Phases
<1>5. RowsDecided'
  BY <1>1, <1>2 DEF RowsDecided
<1>6. ASSUME NEW c \in Calls
      PROVE  Handled(c)' /\ Kept(c)' /\ Governed(c)'
  <2>1. /\ \/ phase'[c] = phase[c] /\ phase[c] \in {"none", "answered"}
           \/ phase'[c] = "lost" /\ phase[c] # "answered"
        /\ answer'[c] = answer[c] /\ life'[c] = life[c] /\ life[c] \in 0 .. crashes
        /\ crashes \in Nat /\ crashes' = crashes + 1
    BY <1>1, <1>2 DEF Handled, ServiceShape
  <2>2. life'[c] # crashes' /\ life'[c] \in 0 .. crashes'
    BY <2>1
  <2>3. Handled(c)'
    BY <1>1, <1>2, <2>1, <2>2 DEF Handled
  <2>4. CASE ~Durable
    <3>1. ~Held(c)'
      BY <1>1, <2>2, <2>4 DEF Held, Durable
    <3>2. Kept(c)'
      BY <3>1 DEF Kept
    <3>3. Governed(c)'
      BY <1>1, <1>2, <2>1 DEF Governed
    <3> QED  BY <2>3, <3>2, <3>3
  <2>5. CASE Durable
    <3>1. Held(c) /\ stored' = stored
      BY <1>1, <2>5 DEF Held
    <3>2. Kept(c)'
      BY <1>2, <1>3, <2>1, <3>1 DEF Kept
    <3>3. Governed(c)'
      BY <1>1, <1>2, <2>1 DEF Governed
    <3> QED  BY <2>3, <3>2, <3>3
  <2> QED  BY <2>4, <2>5
<1> QED  BY <1>3, <1>4, <1>5, <1>6 DEF SInv

\* The disk, the clock, and nothing at all.
LEMMA RestKeeps ==
  ASSUME SInv, UNCHANGED <<config, crashes, life, kind, stage, decision, received, stored, pending,
                           phase, saved, answer>>
  PROVE  SInv'
<1>1. /\ GatewayShape /\ ServiceShape /\ RowsDecided
      /\ \A c \in Calls : Told(c) /\ Handled(c) /\ Kept(c) /\ Governed(c)
  BY DEF SInv
<1>2. GatewayShape' /\ \A c \in Calls : Told(c)' /\ (Delivered(c)' <=> Delivered(c))
  BY <1>1, GatewayRests
<1>3. \A c \in Calls : Handled(c)' /\ Kept(c)' /\ Governed(c)'
  BY <1>2, OthersKeep
<1>4. ServiceShape' /\ RowsDecided'
  BY <1>1 DEF ServiceShape, RowsDecided
<1> QED  BY <1>2, <1>3, <1>4 DEF SInv

\* A row more in the database, or one less in the transaction, is of a decided call.
LEMMA UpdateCaseKeeps ==
  ASSUME SInv, UpdateCase
  PROVE  SInv'
<1>1. /\ UNCHANGED <<config, crashes, life, kind, stage, decision, received, phase, saved, answer>>
      /\ stored \subseteq stored' /\ stored' \cup pending' \subseteq stored \cup pending
  BY DEF UpdateCase, gateway, calls, transport, handlers
<1>2. /\ GatewayShape /\ ServiceShape /\ RowsDecided
      /\ \A c \in Calls : Told(c) /\ Handled(c) /\ Kept(c) /\ Governed(c)
  BY DEF SInv
<1>3. GatewayShape' /\ \A c \in Calls : Told(c)' /\ (Delivered(c)' <=> Delivered(c))
  BY <1>1, <1>2, GatewayRests
<1>4. \A c \in Calls : Handled(c)' /\ Kept(c)' /\ Governed(c)'
  BY <1>1, <1>3, OthersKeep
<1>5. ServiceShape' /\ RowsDecided'
  BY <1>1, <1>2 DEF ServiceShape, RowsDecided
<1> QED  BY <1>3, <1>4, <1>5 DEF SInv

LEMMA ServiceKept == SInv /\ [ServiceNext]_allVars => SInv'
<1> SUFFICES ASSUME SInv, [ServiceNext]_allVars PROVE SInv'
  OBVIOUS
<1>1. ASSUME NEW c \in Calls, NEW r \in Requests, AuthorizeAndSend(c, r) PROVE SInv'
  BY <1>1, AuthorizeAndSendKeeps
<1>2. ASSUME NEW c \in Calls, NEW r \in Scenarios, RunDemoScenario(c, r) PROVE SInv'
  BY <1>2, RunDemoScenarioKeeps
<1>3. ASSUME NEW c \in Calls, Handle(c) PROVE SInv'
  BY <1>3, ServeKeeps, NextEventKeeps, RecordKeeps, RecordFailsKeeps, ReportKeeps DEF Handle
<1>4. CASE StorageChanges
  BY <1>4, RestKeeps DEF StorageChanges, gateway, calls, transport, handlers
<1>5. CASE Crash \/ UpdateCase
  BY <1>5, CrashKeeps, UpdateCaseKeeps
<1>6. CASE TimePasses
  BY <1>6, RestKeeps DEF TimePasses, Tick, calls, transport, database, handlers
<1>7. CASE UNCHANGED allVars
  BY <1>7, RestKeeps DEF allVars, gateway, calls, transport, database, handlers
<1> QED  BY <1>1, <1>2, <1>3, <1>4, <1>5, <1>6, <1>7, Zenon DEF ServiceNext

-----------------------------------------------------------------------------
\* What the handler of a call knows at each of its phases, whatever the other calls,
\* the disk and the crashes do (app.py 776-807, gateway.py 120-199, evidence.py 91-106).
THEOREM ServiceInvariance == ServiceSpec => []SInv
<1>1. ServiceInit => SInv
  BY ServiceStarts
<1>2. SInv /\ [ServiceNext]_allVars => SInv'
  BY ServiceKept
<1> QED  BY <1>1, <1>2, PTL DEF ServiceSpec

\* Whoever is told that the request was served has its decision committed, while the
\* process lives, and for good in a database file (app.py 800-807).
THEOREM WhoeverIsToldIsRecorded == ServiceSpec => []AckImpliesDurable
<1>1. SInv => AckImpliesDurable
  BY DEF SInv, Kept, Held, AckImpliesDurable
<1> QED  BY <1>1, ServiceInvariance, PTL

\* What a strict environment acknowledges survives every crash, although nothing stops
\* a configuration from asking for a database in memory; only one that is temporary by
\* an empty path is not refused (governance.py 75-76, app.py 784).
THEOREM StrictAnswersLast == ServiceSpec => []StrictAcksSurvive
<1>1. SInv => StrictAcksSurvive
  BY DEF SInv, Kept, Held, Governed, Durable, StrictAcksSurvive
<1> QED  BY <1>1, ServiceInvariance, PTL

\* A delivery is on record, or its client was told that it is not, or its call is not
\* answered (app.py 796-807, 687-703).
THEOREM NoDeliveryIsSilent == ServiceSpec => []NoSilentRelease
<1>1. ASSUME SInv PROVE NoSilentRelease
  <2> SUFFICES ASSUME NEW c \in Calls, Delivered(c), Durable \/ life[c] = crashes,
                      phase[c] \notin {"gateway", "record", "report", "lost"}
               PROVE  c \in stored \/ answer[c] \in Untold
    BY DEF NoSilentRelease, Untold
  <2>1. /\ phase[c] \in Phases /\ Told(c) /\ Handled(c) /\ Kept(c) /\ Held(c)
    BY <1>1 DEF SInv, ServiceShape, Held
  <2>2. phase[c] # "none"
    BY <2>1 DEF Handled, Told, Early, Stages
  <2>3. phase[c] = "answered"
    BY <2>1, <2>2 DEF Phases
  <2> QED  BY <2>1, <2>3 DEF Kept
<1> QED  BY <1>1, ServiceInvariance, PTL

\* A row, committed or not, tells whether a receiver has the body, whichever call's
\* commit took it along (gateway.py 171-199, evidence.py 91-106).
THEOREM EvidenceIsTrue == ServiceSpec => []EvidenceTellsDelivery
<1>1. ASSUME SInv PROVE EvidenceTellsDelivery
  <2> SUFFICES ASSUME NEW c \in stored \cup pending
               PROVE  stage[c] = "decided" /\ (decision[c].sent <=> Delivered(c))
    BY DEF EvidenceTellsDelivery
  <2>1. c \in Calls /\ stage[c] = "decided"
    BY <1>1 DEF SInv, ServiceShape, RowsDecided
  <2>2. \/ decision[c].sent = TRUE /\ Delivered(c)
        \/ decision[c].sent = FALSE /\ ~Delivered(c)
    BY <1>1, <2>1 DEF SInv, Told
  <2>3. decision[c].sent <=> Delivered(c)
    BY <2>2, Zenon
  <2> QED  BY <2>1, <2>3
<1> QED  BY <1>1, ServiceInvariance, PTL

\* No step takes a committed row out of a database file: neither a later commit, nor a
\* failed insert, nor a crash (evidence.py 91-106).
THEOREM CommittedEvidenceStays == ServiceSpec => EvidenceSurvives
<1>1. ASSUME [ServiceNext]_allVars, Durable PROVE stored \subseteq stored'
  <2>1. ASSUME NEW c \in Calls, NEW r \in Requests, AuthorizeAndSend(c, r)
        PROVE  stored' = stored
    BY <2>1 DEF AuthorizeAndSend, database
  <2>2. ASSUME NEW c \in Calls, NEW r \in Scenarios, RunDemoScenario(c, r)
        PROVE  stored' = stored
    BY <2>2 DEF RunDemoScenario, database
  <2>3. ASSUME NEW c \in Calls, Serve(c) \/ NextEvent(c) \/ RecordFails(c) \/ Report(c)
        PROVE  stored' = stored
    BY <2>3 DEF Serve, NextEvent, RecordFails, Report, database
  <2>4. ASSUME (\E c \in Calls : Record(c)) \/ UpdateCase PROVE stored \subseteq stored'
    BY <2>4 DEF Record, UpdateCase
  <2>5. CASE StorageChanges \/ TimePasses \/ UNCHANGED allVars
    BY <2>5 DEF StorageChanges, TimePasses, allVars, database
  <2>6. CASE Crash
    BY <1>1, <2>6 DEF Crash
  <2> QED  BY <1>1, <2>1, <2>2, <2>3, <2>4, <2>5, <2>6, Zenon DEF ServiceNext, Handle
<1>2. [ServiceNext]_allVars => [Durable => stored \subseteq stored']_allVars
  BY <1>1
<1> QED  BY <1>2, PTL DEF ServiceSpec, EvidenceSurvives

-----------------------------------------------------------------------------
(* The egress route: which way a call came, and who is told of it.  A set  *)
(* of calls is counted, which no assumption makes finite: that the calls   *)
(* announced so far are finitely many is part of the invariant.            *)

\* What the egress route knows of a call: which way it came, that it is past the
\* governance when it has begun, and that it belongs to this life of the process while it
\* is served.
Routed(c) ==
  /\ phase[c] # "none" => kind[c] \in {"egress", "demo"}
  /\ kind[c] = "egress" /\ stage[c] # "idle" => GovernanceValid(config)
  /\ phase[c] \in {"none", "gateway"} => saved[c] = Unset
  /\ phase[c] \in {"gateway", "record", "report"} => life[c] = crashes

\* The calls the event stream has been told of in this life.
Announced ==
  {c \in Calls : /\ kind[c] = "egress" /\ life[c] = crashes
                 /\ (phase[c] = "record" \/ saved[c] # Unset)}

RInv ==
  /\ \A c \in Calls : Routed(c)
  /\ IsFiniteSet(Announced) /\ events = Cardinality(Announced)

\* A call that is left alone keeps its way, and its place among those announced.
LEMMA OthersRouted ==
  ASSUME RInv, NEW k \in Calls, UNCHANGED <<config, crashes>>,
         phase'[k] = phase[k], kind'[k] = kind[k], saved'[k] = saved[k], life'[k] = life[k],
         stage'[k] = stage[k]
  PROVE  Routed(k)' /\ (k \in Announced' <=> k \in Announced)
<1>1. Routed(k)
  BY DEF RInv
<1> QED  BY <1>1 DEF Routed, Announced, GovernanceValid

\* A step that announces nothing and keeps every call on its way.
LEMMA NothingAnnounced ==
  ASSUME RInv, UNCHANGED events,
         \A k \in Calls : Routed(k)' /\ (k \in Announced' <=> k \in Announced)
  PROVE  RInv'
<1>1. Announced' = Announced
  BY DEF Announced
<1> QED  BY <1>1 DEF RInv

\* A call comes in: refused at the gate, or begun by one that is past it.
LEMMA EntersRouted ==
  ASSUME SInv, RInv, NEW c \in Calls, NEW which \in {"egress", "demo"}, Enter(c, which),
         UNCHANGED <<config, crashes, saved, events>>,
         \A k \in Calls \ {c} : stage'[k] = stage[k],
         NEW next \in {"answered", "gateway"}, phase' = [phase EXCEPT ![c] = next],
         \/ stage'[c] = stage[c]
         \/ which = "egress" => GovernanceValid(config)
  PROVE  RInv'
<1>1. /\ phase[c] = "none" /\ stage[c] = "idle" /\ ServiceShape /\ Routed(c)
      /\ kind' = [kind EXCEPT ![c] = which] /\ life' = [life EXCEPT ![c] = crashes]
  BY DEF SInv, Handled, Enter, RInv
<1>2. /\ kind'[c] = which /\ life'[c] = crashes /\ phase'[c] = next /\ saved[c] = Unset
      /\ \A k \in Calls \ {c} : /\ kind'[k] = kind[k] /\ life'[k] = life[k]
                               /\ phase'[k] = phase[k]
  BY <1>1 DEF ServiceShape, Routed
<1>3. Routed(c)'
  BY <1>1, <1>2 DEF Routed, GovernanceValid
<1>4. c \notin Announced /\ c \notin Announced'
  BY <1>1, <1>2 DEF Announced
<1>5. \A k \in Calls \ {c} : Routed(k)' /\ (k \in Announced' <=> k \in Announced)
  BY <1>2, OthersRouted
<1> QED  BY <1>3, <1>4, <1>5, NothingAnnounced

\* Only the call that acts changes its stage.
LEMMA OneStageChanges ==
  ASSUME SInv, NEW c \in Calls, Acts(c)
  PROVE  \A k \in Calls \ {c} : stage'[k] = stage[k]
BY ActsTell DEF SInv

LEMMA AuthorizeAndSendRouted ==
  ASSUME SInv, RInv, NEW c \in Calls, NEW r \in Requests, AuthorizeAndSend(c, r)
  PROVE  RInv'
<1>1. Enter(c, "egress") /\ UNCHANGED <<config, saved, crashes, events>>
  BY DEF AuthorizeAndSend, status
<1>2. \/ UNCHANGED gateway /\ \E what : Answer(c, what)
      \/ /\ config.strict => GovernanceValid(config)
         /\ Begin(c, r) /\ phase' = [phase EXCEPT ![c] = "gateway"]
  BY Zenon DEF AuthorizeAndSend
<1>3. CASE UNCHANGED gateway /\ \E what : Answer(c, what)
  <2>1. stage' = stage /\ phase' = [phase EXCEPT ![c] = "answered"]
    BY <1>3 DEF gateway, calls, Answer
  <2> QED  BY <1>1, <2>1, EntersRouted, Zenon
<1>4. CASE /\ config.strict => GovernanceValid(config)
           /\ Begin(c, r) /\ phase' = [phase EXCEPT ![c] = "gateway"]
  <2>1. GovernanceValid(config)
    BY <1>4 DEF GovernanceValid
  <2>2. \A k \in Calls \ {c} : stage'[k] = stage[k]
    BY <1>4, BeginActs, OneStageChanges
  <2> QED  BY <1>1, <1>4, <2>1, <2>2, EntersRouted, Zenon
<1> QED  BY <1>2, <1>3, <1>4

LEMMA RunDemoScenarioRouted ==
  ASSUME SInv, RInv, NEW c \in Calls, NEW r \in Scenarios, RunDemoScenario(c, r)
  PROVE  RInv'
<1>1. /\ Enter(c, "demo") /\ UNCHANGED <<config, saved, crashes, events>>
      /\ Begin(c, r) /\ phase' = [phase EXCEPT ![c] = "gateway"] /\ "demo" # "egress"
  BY DEF RunDemoScenario, status
<1>2. \A k \in Calls \ {c} : stage'[k] = stage[k]
  BY <1>1, BeginActs, OneStageChanges
<1> QED  BY <1>1, <1>2, EntersRouted, Zenon

LEMMA ServeRouted ==
  ASSUME SInv, RInv, NEW c \in Calls, Serve(c)
  PROVE  RInv'
<1>1. /\ phase[c] = "gateway" /\ Acts(c)
      /\ UNCHANGED <<config, crashes, events, kind, phase, saved, life>>
  BY StepActs DEF Serve, status, handlers
<1>2. \A k \in Calls \ {c} : stage'[k] = stage[k]
  BY <1>1, OneStageChanges
<1>3. stage[c] # "idle"
  BY DEF Serve, Step, VerifyProvenanceOf, VerifyIdentityOf, ValidateDestinationOf,
     EvaluatePolicyFor, Redact, ReEvaluatePolicyFor, Send, Acknowledge
<1>4. Routed(c)'
  BY <1>1, <1>3 DEF RInv, Routed, GovernanceValid
<1>5. \A k \in Calls \ {c} : Routed(k)'
  BY <1>1, <1>2, OthersRouted
<1>6. Announced' = Announced
  BY <1>1 DEF Announced
<1> QED  BY <1>1, <1>4, <1>5, <1>6 DEF RInv

\* The one step that announces, and it does so once for a call.
LEMMA NextEventRouted ==
  ASSUME SInv, RInv, NEW c \in Calls, NextEvent(c)
  PROVE  RInv'
<1>1. /\ phase[c] = "gateway" /\ kind[c] = "egress" /\ events' = events + 1
      /\ phase' = [phase EXCEPT ![c] = "record"]
      /\ UNCHANGED <<config, crashes, kind, saved, life, stage>>
      /\ ServiceShape /\ Routed(c)
  BY DEF NextEvent, gateway, calls, SInv, RInv
<1>2. /\ phase'[c] = "record" /\ saved[c] = Unset /\ life[c] = crashes
      /\ \A k \in Calls \ {c} : phase'[k] = phase[k]
  BY <1>1 DEF ServiceShape, Routed
<1>3. Routed(c)'
  BY <1>1, <1>2 DEF Routed, GovernanceValid
<1>4. \A k \in Calls \ {c} : Routed(k)' /\ (k \in Announced' <=> k \in Announced)
  BY <1>1, <1>2, OthersRouted
<1>5. c \notin Announced /\ c \in Announced'
  BY <1>1, <1>2 DEF Announced
<1>6. Announced' = Announced \cup {c}
  <2>1. Announced \subseteq Calls /\ Announced' \subseteq Calls
    BY DEF Announced
  <2> QED  BY <1>4, <1>5, <2>1
<1>7. IsFiniteSet(Announced') /\ Cardinality(Announced') = Cardinality(Announced) + 1
  BY <1>5, <1>6, FS_AddElement DEF RInv
<1> QED  BY <1>1, <1>3, <1>4, <1>7 DEF RInv

\* A record of an egress call, returned or raised, keeps it announced; a scenario never is.
LEMMA AfterRecordRouted ==
  ASSUME SInv, RInv, NEW c \in Calls, AtRecord(c), NEW success \in BOOLEAN,
         AfterRecord(c, success), UNCHANGED <<config, crashes, events, kind, life, stage>>
  PROVE  RInv'
<1>1. ServiceShape /\ Routed(c) /\ Unset \notin BOOLEAN
  BY AnswersAssumption DEF SInv, RInv
<1>2. /\ saved'[c] = success
      /\ \A k \in Calls \ {c} : saved'[k] = saved[k]
  BY <1>1 DEF AfterRecord, ServiceShape
<1>3. \/ kind[c] = "egress" /\ phase' = [phase EXCEPT ![c] = "report"]
      \/ kind[c] = "demo" /\ phase' = [phase EXCEPT ![c] = "answered"]
  BY DEF AfterRecord, Answer
<1>4. /\ \/ kind[c] = "egress" /\ phase[c] = "record" /\ phase'[c] = "report"
         \/ kind[c] = "demo" /\ phase'[c] = "answered"
      /\ \A k \in Calls \ {c} : phase'[k] = phase[k]
  BY <1>1, <1>3 DEF ServiceShape, AtRecord
<1>5. Routed(c)'
  BY <1>1, <1>2, <1>4 DEF Routed, GovernanceValid, AtRecord
<1>6. c \in Announced' <=> c \in Announced
  BY <1>1, <1>2, <1>4 DEF Announced
<1>7. \A k \in Calls \ {c} : Routed(k)' /\ (k \in Announced' <=> k \in Announced)
  BY <1>2, <1>4, OthersRouted
<1> QED  BY <1>5, <1>6, <1>7, NothingAnnounced

LEMMA ReportRouted ==
  ASSUME SInv, RInv, NEW c \in Calls, Report(c)
  PROVE  RInv'
<1>1. /\ phase[c] = "report" /\ phase' = [phase EXCEPT ![c] = "answered"]
      /\ UNCHANGED <<config, crashes, events, kind, life, saved, stage>>
      /\ ServiceShape /\ Routed(c) /\ Handled(c) /\ Unset \notin BOOLEAN
  BY AnswersAssumption DEF Report, Answer, gateway, calls, SInv, RInv
<1>2. phase'[c] = "answered" /\ \A k \in Calls \ {c} : phase'[k] = phase[k]
  BY <1>1 DEF ServiceShape
<1>3. saved[c] # Unset
  BY <1>1 DEF Handled
<1>4. Routed(c)'
  BY <1>1, <1>2 DEF Routed, GovernanceValid
<1>5. c \in Announced' <=> c \in Announced
  BY <1>1, <1>2, <1>3 DEF Announced
<1>6. \A k \in Calls \ {c} : Routed(k)' /\ (k \in Announced' <=> k \in Announced)
  BY <1>1, <1>2, OthersRouted
<1> QED  BY <1>1, <1>4, <1>5, <1>6, NothingAnnounced

\* A new life of the process has told nobody of anything.
LEMMA CrashRouted ==
  ASSUME SInv, RInv, Crash
  PROVE  RInv'
<1>1. /\ crashes' = crashes + 1 /\ events' = 0
      /\ phase' = [c \in Calls |-> IF phase[c] \in {"none", "answered"} THEN phase[c] ELSE "lost"]
      /\ UNCHANGED <<stage, config, kind, saved, life>>
  BY DEF Crash, calls
<1>2. \A c \in Calls :
        \/ phase'[c] = phase[c] /\ phase[c] \in {"none", "answered"}
        \/ phase'[c] = "lost" /\ phase[c] # "none"
  BY <1>1
<1>3. \A c \in Calls : Routed(c)'
  BY <1>1, <1>2 DEF RInv, Routed, GovernanceValid
<1>4. \A c \in Calls : life[c] # crashes + 1
  BY DEF SInv, Handled, ServiceShape
<1>5. Announced' = {}
  BY <1>1, <1>4 DEF Announced
<1>6. IsFiniteSet(Announced') /\ Cardinality(Announced') = 0
  BY <1>5, FS_EmptySet
<1> QED  BY <1>1, <1>3, <1>6 DEF RInv

LEMMA RestRouted ==
  ASSUME RInv, UNCHANGED <<config, crashes, events, kind, phase, saved, life, stage>>
  PROVE  RInv'
<1>1. \A k \in Calls : Routed(k)' /\ (k \in Announced' <=> k \in Announced)
  BY OthersRouted
<1> QED  BY <1>1, NothingAnnounced

LEMMA RoutesAtStart == ServiceInit => RInv
<1> SUFFICES ASSUME ServiceInit PROVE RInv
  OBVIOUS
<1>1. \A c \in Calls : phase[c] = "none" /\ saved[c] = Unset /\ stage[c] = "idle"
  BY DEF ServiceInit, Init
<1>2. \A c \in Calls : Routed(c)
  BY <1>1 DEF Routed
<1>3. Announced = {}
  BY <1>1 DEF Announced
<1>4. IsFiniteSet(Announced) /\ Cardinality(Announced) = 0
  BY <1>3, FS_EmptySet
<1> QED  BY <1>2, <1>4 DEF RInv, ServiceInit

LEMMA RoutesKept == SInv /\ RInv /\ [ServiceNext]_allVars => RInv'
<1> SUFFICES ASSUME SInv, RInv, [ServiceNext]_allVars PROVE RInv'
  OBVIOUS
<1>1. ASSUME NEW c \in Calls, NEW r \in Requests, AuthorizeAndSend(c, r) PROVE RInv'
  BY <1>1, AuthorizeAndSendRouted
<1>2. ASSUME NEW c \in Calls, NEW r \in Scenarios, RunDemoScenario(c, r) PROVE RInv'
  BY <1>2, RunDemoScenarioRouted
<1>3. ASSUME NEW c \in Calls, Serve(c) \/ NextEvent(c) \/ Report(c) PROVE RInv'
  BY <1>3, ServeRouted, NextEventRouted, ReportRouted
<1>4. ASSUME NEW c \in Calls, Record(c) \/ RecordFails(c) PROVE RInv'
  <2>1. /\ AtRecord(c) /\ \E success \in BOOLEAN : AfterRecord(c, success)
        /\ UNCHANGED <<config, crashes, events, kind, life, stage>>
    BY <1>4 DEF Record, RecordFails, gateway, calls, status
  <2> QED  BY <2>1, AfterRecordRouted
<1>5. CASE StorageChanges \/ UpdateCase
  BY <1>5, RestRouted DEF StorageChanges, UpdateCase, gateway, calls, status, handlers
<1>6. CASE Crash
  BY <1>6, CrashRouted
<1>7. CASE TimePasses
  BY <1>7, RestRouted DEF TimePasses, Tick, calls, status, handlers
<1>8. CASE UNCHANGED allVars
  BY <1>8, RestRouted DEF allVars, gateway, calls, status, handlers
<1> QED  BY <1>1, <1>2, <1>3, <1>4, <1>5, <1>6, <1>7, <1>8, Zenon DEF ServiceNext, Handle

-----------------------------------------------------------------------------
\* The way every call took through the service, and the calls its event stream told of,
\* in every life of the process (app.py 776-807, 519-533; operations.py next_event).
THEOREM RouteInvariance == ServiceSpec => []RInv
<1>1. ServiceInit => RInv
  BY RoutesAtStart
<1>2. SInv /\ RInv /\ [ServiceNext]_allVars => RInv'
  BY RoutesKept
<1> QED  BY <1>1, <1>2, ServiceInvariance, PTL DEF ServiceSpec

\* What the egress route delivers has passed the governance, whatever crashes and
\* interleaves; and the sequence of events has been raised by each of its decisions.
THEOREM OnlyGovernedEgress == ServiceSpec => []EgressRouteIsGated
<1>1. ASSUME SInv, RInv, NEW c \in Calls, kind[c] = "egress", Delivered(c)
      PROVE  GovernanceValid(config)
  <2>1. stage[c] # "idle"
    BY <1>1 DEF SInv, Told, Early, Stages
  <2>2. phase[c] # "none"
    BY <1>1, <2>1 DEF SInv, Handled
  <2> QED  BY <1>1, <2>1, <2>2 DEF RInv, Routed
<1>2. SInv /\ RInv => EgressRouteIsGated
  <2> SUFFICES ASSUME SInv, RInv
               PROVE  Cardinality(Announced) <= events
    BY <1>1 DEF EgressRouteIsGated, Announced
  <2>1. events = Cardinality(Announced) /\ Cardinality(Announced) \in Nat
    BY FS_CardinalityType DEF RInv
  <2> QED  BY <2>1
<1> QED  BY <1>2, ServiceInvariance, RouteInvariance, PTL

-----------------------------------------------------------------------------
(* What was proved of one gateway holds of the service, which runs one     *)
(* gateway after another.  A restart brings a new engine, a registry and   *)
(* counters that start again; the calls it takes along are served no more, *)
(* and only those that are served need have behind them what the engine of *)
(* the moment asks for.  The books of what was delivered outlive it all,   *)
(* and the counts of the receivers do not.                                 *)

\* The calls the gateway may still act for.
Live == {c \in Calls : phase[c] \in {"none", "gateway"}}

\* The engines there can have been.
ServiceEngines == {InitialEngine} \cup {EngineAt(t) : t \in 0 .. MaxTime}

GInv ==
  /\ IInv(Live) /\ Books
  /\ EnginesFrom(ServiceEngines)
  /\ registry = InitialRegistry

\* Nobody comes back to be served.
LEMMA LiveShrinks ==
  ASSUME SInv, [ServiceNext]_allVars
  PROVE  Live' \subseteq Live
<1>1. phase \in [Calls -> Phases]
  BY DEF SInv, ServiceShape
<1>2. ASSUME NEW c \in Calls, NEW next, phase' = [phase EXCEPT ![c] = next],
             next \in {"none", "gateway"} => phase[c] = "none"
      PROVE  Live' \subseteq Live
  BY <1>1, <1>2 DEF Live
<1>3. CASE UNCHANGED phase
  BY <1>3 DEF Live
<1>4. ASSUME NEW c \in Calls, NEW r \in Requests, AuthorizeAndSend(c, r)
      PROVE  Live' \subseteq Live
  BY <1>2, <1>4 DEF AuthorizeAndSend, Enter, Answer
<1>5. ASSUME NEW c \in Calls, NEW r \in Scenarios, RunDemoScenario(c, r)
      PROVE  Live' \subseteq Live
  BY <1>2, <1>5 DEF RunDemoScenario, Enter
<1>6. ASSUME NEW c \in Calls, Serve(c) \/ NextEvent(c) \/ Record(c) \/ RecordFails(c) \/ Report(c)
      PROVE  Live' \subseteq Live
  BY <1>2, <1>3, <1>6
  DEF Serve, NextEvent, Record, RecordFails, Report, AfterRecord, Answer, handlers
<1>7. CASE Crash
  BY <1>7 DEF Crash, Live
<1>8. CASE StorageChanges \/ UpdateCase \/ TimePasses \/ UNCHANGED allVars
  BY <1>3, <1>8 DEF StorageChanges, UpdateCase, TimePasses, allVars, handlers
<1> QED  BY <1>4, <1>5, <1>6, <1>7, <1>8, Zenon DEF ServiceNext, Handle

\* What a step of the service is to the gateway in it.
ActsForLive == \E c \in Live : Step(c) \/ \E r \in Requests : Begin(c, r)

LEMMA ServiceRunsGateway ==
  ASSUME [ServiceNext]_allVars
  PROVE  ActsForLive \/ Tick \/ Crash \/ UNCHANGED vars
<1>1. ASSUME NEW c \in Calls, NEW r \in Requests, AuthorizeAndSend(c, r)
      PROVE  ActsForLive \/ UNCHANGED vars
  <2>1. c \in Live
    BY <1>1 DEF AuthorizeAndSend, Enter, Live
  <2>2. Begin(c, r) \/ UNCHANGED gateway
    BY <1>1 DEF AuthorizeAndSend
  <2> QED  BY <2>1, <2>2 DEF ActsForLive, gateway, vars
<1>2. ASSUME NEW c \in Calls, NEW r \in Scenarios, RunDemoScenario(c, r)
      PROVE  ActsForLive
  <2>1. c \in Live /\ Begin(c, r) /\ r \in Requests
    BY <1>2, ServiceAssumption DEF RunDemoScenario, Enter, Live
  <2> QED  BY <2>1 DEF ActsForLive
<1>3. ASSUME NEW c \in Calls, Serve(c) PROVE ActsForLive
  <2>1. c \in Live /\ Step(c)
    BY <1>3 DEF Serve, Live
  <2> QED  BY <2>1 DEF ActsForLive
<1>4. ASSUME NEW c \in Calls, NextEvent(c) \/ Record(c) \/ RecordFails(c) \/ Report(c)
      PROVE  UNCHANGED vars
  BY <1>4 DEF NextEvent, Record, RecordFails, Report, gateway, vars
<1>5. CASE StorageChanges \/ UpdateCase \/ UNCHANGED allVars
  BY <1>5 DEF StorageChanges, UpdateCase, allVars, gateway, vars
<1>6. CASE TimePasses
  BY <1>6 DEF TimePasses
<1> QED  BY <1>1, <1>2, <1>3, <1>4, <1>5, <1>6, Zenon DEF ServiceNext, Handle

\* A step of the gateway, while the process lives.
LEMMA GatewayStepKeeps ==
  ASSUME SInv, GInv, [ServiceNext]_allVars, ActsForLive \/ Tick \/ UNCHANGED vars
  PROVE  GInv'
<1> PICK C \in SUBSET Calls : C = Live
  BY DEF Live
<1>1. /\ IInv(C) /\ Books /\ EnginesFrom(ServiceEngines) /\ Typed
      /\ registry = InitialRegistry
  BY DEF GInv, IInv
<1>2. ASSUME NEW c \in C, Step(c)
      PROVE  /\ IInv(C)' /\ Books' /\ EnginesFrom(ServiceEngines)'
             /\ registry' = registry
  <2>1. EnginesFrom(ServiceEngines)'
    <3> PICK E : E = ServiceEngines
      OBVIOUS
    <3> QED  BY <1>1, <1>2, EnginesKept
  <2>2. registry' = registry
    BY <1>1, <1>2, StepDelivers
  <2> QED  BY <1>1, <1>2, <2>1, <2>2, StepKeeps, StepTells DEF KeepsBooks
<1>3. ASSUME NEW c \in C, NEW r \in Requests, Begin(c, r)
      PROVE  /\ IInv(C)' /\ Books' /\ EnginesFrom(ServiceEngines)'
             /\ registry' = registry
  <2>1. UNCHANGED <<registry, engine, received>>
    BY <1>3 DEF Begin, environment, transport
  <2> QED  BY <1>1, <1>3, <2>1, BeginKeeps, BeginTells
           DEF KeepsBooks, EnginesFrom
<1>4. ASSUME Tick \/ UNCHANGED vars
      PROVE  /\ IInv(C)' /\ Books' /\ EnginesFrom(ServiceEngines)'
             /\ registry' = registry
  <2>1. UNCHANGED <<registry, engine, received, calls>>
    BY <1>4 DEF Tick, vars, environment, transport
  <2>2. IInv(C)'
    BY <1>1, <1>4, TickKeeps, StutteringKeeps
  <2> QED  BY <1>1, <2>1, <2>2, EnvironmentTells DEF EnginesFrom, calls
<1>5. /\ IInv(C)' /\ Books' /\ EnginesFrom(ServiceEngines)'
      /\ registry' = registry
  BY <1>2, <1>3, <1>4 DEF ActsForLive
<1>6. Live' \subseteq C
  BY LiveShrinks
<1>7. IInv(Live)'
  BY <1>5, <1>6 DEF IInv
<1> QED  BY <1>1, <1>5, <1>7 DEF GInv

\* A restart: the calls that are served are those that have not come in.
LEMMA RestartKeeps ==
  ASSUME SInv, GInv, Crash
  PROVE  GInv'
<1>1. /\ registry' = InitialRegistry /\ engine' = EngineAt(now)
      /\ counts' = [d \in Receivers |-> 0] /\ lastBody' = [d \in Receivers |-> NoHash]
      /\ UNCHANGED <<now, received, stage, request, work, decision, began, held>>
      /\ \A c \in Calls : phase'[c] \in {"none", "gateway"} => phase[c] = "none"
  BY DEF Crash, calls
<1>2. /\ Typed /\ Books /\ \A i \in DOMAIN received : Arrived(i)
      /\ registry = InitialRegistry
  BY DEF GInv, IInv
<1>3. Typed'
  <2>1. TypeOK'
    BY <1>1, <1>2, GatewayAssumption DEF Typed, TypeOK, Destinations
  <2> QED  BY <1>1, <1>2, <2>1 DEF Typed
<1>4. ASSUME NEW c \in Live' PROVE Journey(c)'
  <2>1. c \in Calls /\ stage'[c] = "idle"
    BY <1>1 DEF Live, SInv, Handled
  <2> QED  BY <2>1
           DEF Journey, PassedLimits, PassedProvenance, KnowsClasses, PassedIdentity,
               PassedDestination, JudgedToRedact, Redacted, Cleared, MetEntries, Unvalidated,
               Admitted, Attested, Identified, Validated, Evaluated, Releasing
<1>5. \A i \in DOMAIN received' : Arrived(i)'
  BY <1>1, <1>2, ArrivedKept DEF Arrived
<1>6. IInv(Live)'
  BY <1>3, <1>4, <1>5 DEF IInv
<1>7. Books'
  BY <1>1, <1>2, EnvironmentTells
<1>8. EnginesFrom(ServiceEngines)'
  <2>1. now \in 0 .. MaxTime
    BY <1>2 DEF Typed, TypeOK
  <2> QED  BY <1>1, <2>1 DEF GInv, EnginesFrom, ServiceEngines
<1> QED  BY <1>1, <1>6, <1>7, <1>8 DEF GInv

LEMMA GatewayStarts == ServiceInit => GInv
<1> SUFFICES ASSUME ServiceInit PROVE GInv
  OBVIOUS
<1>1. Init
  BY DEF ServiceInit
<1> PICK C \in SUBSET Calls : C = Live
  BY DEF Live
<1>2. IInv(C) /\ Books
  BY <1>1, InitHolds, DeliveriesAtStart
<1>3. EnginesFrom(ServiceEngines) /\ registry = InitialRegistry
  BY <1>1 DEF Init, EnginesFrom, ServiceEngines
<1> QED  BY <1>2, <1>3 DEF GInv

\* Through requests, scenarios, crashes and restarts, what each served call has behind
\* it, and the books of what every gateway of the service delivered (app.py 263-266,
\* 776-807; gateway.py 182-396).
THEOREM GatewayInvariance == ServiceSpec => []GInv
<1>1. ASSUME SInv, GInv, [ServiceNext]_allVars PROVE GInv'
  BY <1>1, ServiceRunsGateway, GatewayStepKeeps, RestartKeeps
<1> QED  BY <1>1, GatewayStarts, ServiceInvariance, PTL DEF ServiceSpec

\* Nothing the service delivered, in any life of its process, went out without every check
\* of its own call, judged by the engine of that life.
THEOREM ServiceReleasesAuthorised == ServiceSpec => []ReleaseAuthorised
<1>1. GInv => ReleaseAuthorised
  <2> SUFFICES ASSUME GInv PROVE ReleaseAuthorised
    OBVIOUS
  <2> QED  BY DEF GInv, IInv, Arrived, ReleaseAuthorised
<1> QED  BY <1>1, GatewayInvariance, PTL

\* What had expired when a call began is not revived by a restart: the new engine judges by
\* its own policy, and the tokens by the clock that went on (app.py 224-231, README).
THEOREM ServiceExpiredReleasesNothing == ServiceSpec => []ExpiredAtStartReleasesNothing
<1>1. \A e \in ServiceEngines : e.bundle.expires \in Int
  BY GatewayAssumption, ServiceAssumption DEF ServiceEngines
<1>2. GInv => ExpiredAtStartReleasesNothing
  <2> SUFFICES ASSUME GInv PROVE ExpiredAtStartReleasesNothing
    OBVIOUS
  <2> PICK C \in SUBSET Calls : C = Live
    BY DEF Live
  <2> PICK E : E = ServiceEngines
    OBVIOUS
  <2> QED  BY <1>1, ExpiredReleasesNothing DEF GInv
<1> QED  BY <1>2, GatewayInvariance, PTL

\* Whatever crashes between a redaction and the answer: the value of a leaf that was taken
\* away and reported is in no text its receiver ever got, of list elements under one path
\* the last (RemovedValuesStayBehind says which values a search can tell).
THEOREM ServiceKeepsRemovedOut == ServiceSpec => []RemovedValuesStayBehind
<1>1. GInv => RemovedValuesStayBehind
  <2> SUFFICES ASSUME GInv PROVE RemovedValuesStayBehind
    OBVIOUS
  <2> PICK C \in SUBSET Calls : C = Live
    BY DEF Live
  <2> QED  BY BooksKeepRemovedOut DEF GInv
<1> QED  BY <1>1, GatewayInvariance, PTL

\* The decision of every call tells of its delivery, and a crash repeats none: no call is
\* delivered twice in all the lives of the process.
THEOREM ServiceDecisionsTell == ServiceSpec => []DecisionTellsDelivery
<1>1. GInv => DecisionTellsDelivery
  BY BooksTellDeliveries DEF GInv
<1> QED  BY <1>1, GatewayInvariance, PTL

\* The service of the default deployment, whose policy is made anew at every start,
\* keeps confidential data inside through every crash (app.py 199-231, README: the block
\* scenario).
THEOREM ServiceKeepsConfidentialInside ==
  ASSUME \A t \in 0 .. MaxTime : \E expires : EngineAt(t) = DefaultEngine(expires),
         \E expires : InitialEngine = DefaultEngine(expires)
  PROVE  ServiceSpec => []ConfidentialStaysInside
<1>1. \A e \in ServiceEngines : GuardsOutside(e.bundle)
  <2>1. ASSUME NEW e, NEW expires, e = DefaultEngine(expires) PROVE GuardsOutside(e.bundle)
    BY <2>1, DefaultGuardsOutside DEF DefaultEngine
  <2> QED  BY <2>1 DEF ServiceEngines
<1>2. GInv => ConfidentialStaysInside
  <2> SUFFICES ASSUME GInv PROVE ConfidentialStaysInside
    OBVIOUS
  <2> PICK C \in SUBSET Calls : C = Live
    BY DEF Live
  <2> PICK E : E = ServiceEngines
    OBVIOUS
  <2> QED  BY <1>1, GuardKeepsInside DEF GInv
<1> QED  BY <1>2, GatewayInvariance, PTL
=============================================================================
