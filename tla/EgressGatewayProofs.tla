------------------------ MODULE EgressGatewayProofs ------------------------
(***************************************************************************)
(* For every set of calls, requests, rules and registrations: nothing      *)
(* reaches a receiver unauthorised, and nothing does by a call that began  *)
(* after its policy or a token had expired; decisions and receipts tell    *)
(* what was delivered, no removed value is in it, and under a policy that  *)
(* guards the outside nothing confidential is delivered there.             *)
(*                                                                         *)
(* ReleaseAuthorised says something of a delivery only, and no step before *)
(* the last two mentions one.  The inductive invariant adds what a call at *)
(* a given stage has behind it: every check it passed was passed at some   *)
(* moment since it began, and its locals are what those checks returned.   *)
(***************************************************************************)
EXTENDS EgressGateway, DefaultDeployment, OperatorProofs

Releasing   == {"send", "acknowledge"}
Evaluated   == {"redact", "reevaluate_policy"} \cup Releasing
Validated   == {"evaluate_policy"} \cup Evaluated
Identified  == {"validate_destination"} \cup Validated
Attested    == {"verify_identity"} \cup Identified
Admitted    == {"verify_provenance"} \cup Attested

\* Types, and that locals and deliveries are what they are built as.
IsWork(w) ==
  w = [classification |-> w.classification, validated |-> w.validated,
       resolution |-> w.resolution, target |-> w.target, registered |-> w.registered,
       policy |-> w.policy, body |-> w.body, redacted |-> w.redacted]

Typed ==
  /\ TypeOK
  /\ \A c \in Calls : began[c] <= now /\ IsWork(work[c])
  /\ received \in Seq({received[i] : i \in DOMAIN received})

Span(c) == began[c] .. now

\* What a call has behind it at its stage.
PassedLimits(c) ==
  stage[c] \in Admitted => MethodSupported(request[c]) /\ ValidateBody(request[c].body).ok

PassedProvenance(c) ==
  stage[c] \in Attested =>
    /\ Classified(request[c], request[c].body).unknown = {}
    /\ \E t \in Span(c) : VerifyProvenance(request[c].provenance, t).ok

KnowsClasses(c) ==
  stage[c] \in Attested \ ({"reevaluate_policy"} \cup Releasing) =>
    work[c].classification = Classified(request[c], request[c].body)

PassedIdentity(c) ==
  stage[c] \in Identified =>
    \E t \in Span(c) : VerifyCredential(request[c].credential, request[c].workload, t).ok

PassedDestination(c) ==
  stage[c] \in Validated =>
    /\ ValidateDestination(work[c].validated, request[c].url, work[c].resolution).ok
    /\ work[c].target = CanonicalUrl(request[c].url, work[c].validated)

JudgedToRedact(c) ==
  stage[c] = "redact" =>
    \E t \in Span(c) :
      /\ work[c].policy = FirstDecision(engine, request[c], work[c].registered.environment, t)
      /\ work[c].policy.action = "redact"

Redacted(c) ==
  stage[c] = "reevaluate_policy" =>
    \E t \in Span(c) :
      LET first == FirstDecision(engine, request[c], work[c].registered.environment, t) IN
      /\ first.action = "redact"
      /\ work[c].body = RedactToPermittedFields(request[c].body, first.permitted).body
      /\ work[c].classification = Classified(request[c], work[c].body)

Cleared(c) ==
  stage[c] \in Releasing =>
    PolicyReleased(engine, request[c], work[c].body, work[c].registered.environment, Span(c))

\* What its destination is now it had during the call, or since it was validated.
MetEntries(c) ==
  /\ stage[c] \in Unvalidated => EntryOf(request[c].destination) \in held[c].before
  /\ stage[c] \in Validated => work[c].validated \in held[c].before
  /\ stage[c] = "evaluate_policy" =>
       EntryOf(request[c].destination) \in {work[c].validated} \cup held[c].after
  /\ stage[c] \in Evaluated =>
       work[c].registered \in {work[c].validated} \cup held[c].after

Journey(c) ==
  /\ PassedLimits(c) /\ PassedProvenance(c) /\ KnowsClasses(c) /\ PassedIdentity(c)
  /\ PassedDestination(c) /\ JudgedToRedact(c) /\ Redacted(c) /\ Cleared(c)
  /\ MetEntries(c)

\* What arrived came from a call that is past its send.
Arrived(i) ==
  /\ stage[received[i].call] \in {"acknowledge", "decided"}
  /\ Authorised(received[i]) /\ AsRegistered(received[i])

\* The invariant for the calls of C that the process still serves: those a crash
\* has taken need not have behind them what the new process would ask for.
IInv(C) ==
  /\ Typed
  /\ \A c \in C : Journey(c)
  /\ \A i \in DOMAIN received : Arrived(i)

-----------------------------------------------------------------------------
(* What the operators of the gateway give.                                 *)

\* What a span holds a longer one holds too.
LEMMA LongerSpan ==
  ASSUME NEW judge, NEW r, NEW body, NEW env, NEW S, NEW T, S \subseteq T,
         PolicyReleased(judge, r, body, env, S)
  PROVE  PolicyReleased(judge, r, body, env, T)
BY DEF PolicyReleased

\* Locals with some of them replaced are locals: one lemma for each stage.
LEMMA LocalsClassified ==
  ASSUME NEW w, IsWork(w), NEW a
  PROVE  LET u == [w EXCEPT !.classification = a] IN
         IsWork(u) /\ u.classification = a /\ u.redacted = w.redacted
BY DEF IsWork

ValidatedLocals(w, a, b, d) == [w EXCEPT !.validated = a, !.resolution = b, !.target = d]

LEMMA LocalsValidated ==
  ASSUME NEW w, IsWork(w), NEW a, NEW b, NEW d
  PROVE  LET u == ValidatedLocals(w, a, b, d) IN
         /\ IsWork(u) /\ u.validated = a /\ u.resolution = b /\ u.target = d
         /\ u.classification = w.classification /\ u.redacted = w.redacted
<1> DEFINE v == [w EXCEPT !.validated = a]
           z == [v EXCEPT !.resolution = b]
<1>1. /\ IsWork(v) /\ v.validated = a
      /\ v.classification = w.classification /\ v.redacted = w.redacted
  BY DEF IsWork
<1>2. ValidatedLocals(w, a, b, d) = [z EXCEPT !.target = d]
  BY DEF ValidatedLocals
<1> HIDE DEF v
<1>3. /\ IsWork(z) /\ z.validated = a /\ z.resolution = b
      /\ z.classification = w.classification /\ z.redacted = w.redacted
  BY <1>1 DEF IsWork
<1> HIDE DEF z
<1> DEFINE u == [z EXCEPT !.target = d]
<1>4. /\ IsWork(u) /\ u.validated = a /\ u.resolution = b /\ u.target = d
      /\ u.classification = w.classification /\ u.redacted = w.redacted
  BY <1>3 DEF IsWork
<1> QED  BY <1>2, <1>4

JudgedLocals(w, a, b, d) == [w EXCEPT !.registered = a, !.policy = b, !.body = d]

LEMMA LocalsJudged ==
  ASSUME NEW w, IsWork(w), NEW a, NEW b, NEW d
  PROVE  LET u == JudgedLocals(w, a, b, d) IN
         /\ IsWork(u) /\ u.registered = a /\ u.policy = b /\ u.body = d
         /\ u.validated = w.validated /\ u.resolution = w.resolution
         /\ u.target = w.target /\ u.classification = w.classification
         /\ u.redacted = w.redacted
<1> DEFINE v == [w EXCEPT !.registered = a]
           z == [v EXCEPT !.policy = b]
<1>1. /\ IsWork(v) /\ v.registered = a
      /\ v.validated = w.validated /\ v.resolution = w.resolution
      /\ v.target = w.target /\ v.classification = w.classification
      /\ v.redacted = w.redacted
  BY DEF IsWork
<1>2. JudgedLocals(w, a, b, d) = [z EXCEPT !.body = d]
  BY DEF JudgedLocals
<1> HIDE DEF v
<1>3. /\ IsWork(z) /\ z.registered = a /\ z.policy = b
      /\ z.validated = w.validated /\ z.resolution = w.resolution
      /\ z.target = w.target /\ z.classification = w.classification
      /\ z.redacted = w.redacted
  BY <1>1 DEF IsWork
<1> HIDE DEF z
<1> DEFINE u == [z EXCEPT !.body = d]
<1>4. /\ IsWork(u) /\ u.registered = a /\ u.policy = b /\ u.body = d
      /\ u.validated = w.validated /\ u.resolution = w.resolution
      /\ u.target = w.target /\ u.classification = w.classification
      /\ u.redacted = w.redacted
  BY <1>3 DEF IsWork
<1> QED  BY <1>2, <1>4

\* What the destination was looked up for stays where it was put.
SameLookups(u, w) ==
  /\ u.validated = w.validated /\ u.resolution = w.resolution
  /\ u.target = w.target /\ u.registered = w.registered

RedactedLocals(w, a, b, d) == [w EXCEPT !.body = a, !.redacted = b, !.classification = d]

LEMMA LocalsRedacted ==
  ASSUME NEW w, IsWork(w), NEW a, NEW b, NEW d
  PROVE  LET u == RedactedLocals(w, a, b, d) IN
         /\ IsWork(u) /\ u.body = a /\ u.redacted = b /\ u.classification = d
         /\ SameLookups(u, w)
<1> DEFINE v == [w EXCEPT !.body = a]
           z == [v EXCEPT !.redacted = b]
<1>1. IsWork(v) /\ v.body = a /\ SameLookups(v, w)
  BY DEF IsWork, SameLookups
<1>2. RedactedLocals(w, a, b, d) = [z EXCEPT !.classification = d]
  BY DEF RedactedLocals
<1> HIDE DEF v
<1>3. IsWork(z) /\ z.body = a /\ z.redacted = b /\ SameLookups(z, w)
  BY <1>1 DEF IsWork, SameLookups
<1> HIDE DEF z
<1> DEFINE u == [z EXCEPT !.classification = d]
<1>4. /\ IsWork(u) /\ u.body = a /\ u.redacted = b /\ u.classification = d
      /\ SameLookups(u, w)
  BY <1>3 DEF IsWork, SameLookups
<1> QED  BY <1>2, <1>4

LEMMA LocalsReleased ==
  ASSUME NEW w, IsWork(w), NEW a
  PROVE  LET u == [w EXCEPT !.policy = a] IN
         IsWork(u) /\ u.body = w.body /\ u.redacted = w.redacted /\ SameLookups(u, w)
BY DEF IsWork, SameLookups

-----------------------------------------------------------------------------
(* What a step leaves alone.                                               *)

\* A call keeps what it has behind it while others move and time passes.
LEMMA JourneyKept ==
  ASSUME Typed, NEW d \in Calls, Journey(d),
         stage'[d] = stage[d], request'[d] = request[d], work'[d] = work[d],
         began'[d] = began[d], engine' = engine, now' \in Nat, now <= now',
         MetEntries(d)'
  PROVE  Journey(d)'
<1>1. Span(d) \subseteq Span(d)'
  BY GatewayAssumption DEF Typed, TypeOK, Span
<1>2. PassedLimits(d)' /\ KnowsClasses(d)'
  BY DEF Journey, PassedLimits, KnowsClasses
<1>3. PassedProvenance(d)'
  BY <1>1 DEF Journey, PassedProvenance
<1>4. PassedIdentity(d)'
  BY <1>1 DEF Journey, PassedIdentity
<1>5. PassedDestination(d)'
  BY DEF Journey, PassedDestination
<1>6. JudgedToRedact(d)'
  BY <1>1 DEF Journey, JudgedToRedact
<1>7. Redacted(d)'
  BY <1>1 DEF Journey, Redacted
<1>8. Cleared(d)'
  BY <1>1, LongerSpan DEF Journey, Cleared
<1> QED  BY <1>2, <1>3, <1>4, <1>5, <1>6, <1>7, <1>8 DEF Journey

\* A registry that stays as it is is met as it was.
LEMMA EntriesKept ==
  ASSUME NEW d \in Calls, MetEntries(d), registry' = registry,
         stage'[d] = stage[d], request'[d] = request[d], work'[d] = work[d], held'[d] = held[d]
  PROVE  MetEntries(d)'
BY DEF MetEntries, EntryOf

\* A delivery stays authorised: its call and its request do not change.
LEMMA ArrivedKept ==
  ASSUME NEW i \in DOMAIN received, Arrived(i), received'[i] = received[i],
         LET c == received[i].call IN
         /\ request'[c] = request[c] /\ began'[c] = began[c] /\ held'[c] = held[c]
         /\ stage'[c] \in {"acknowledge", "decided"}
  PROVE  Arrived(i)'
BY DEF Arrived, Authorised, AsRegistered

\* The calls that are not c keep their stage and their locals.
OthersStay(c) ==
  \A d \in Calls \ {c} : stage'[d] = stage[d] /\ work'[d] = work[d]

\* A call that goes on, or stops, leaves types and others as they were.
LEMMA ProceedTyped ==
  ASSUME Typed, NEW c \in Calls, stage[c] # "idle", NEW next \in Stages, NEW locals,
         IsWork(locals), Proceed(c, next, locals),
         UNCHANGED <<environment, transport, request, began, held>>
  PROVE  Typed' /\ OthersStay(c) /\ stage'[c] = next /\ work'[c] = locals
<1>1. /\ stage' = [stage EXCEPT ![c] = next]
      /\ work' = [work EXCEPT ![c] = locals]
      /\ decision' = decision
      /\ UNCHANGED <<now, registry, engine, counts, lastBody, received, request, began, held>>
  BY DEF Proceed, Goto, environment, transport
<1>2. stage' \in [Calls -> Stages] /\ stage'[c] = next /\ DOMAIN work' = Calls /\ work'[c] = locals
  BY <1>1 DEF Typed, TypeOK
<1>3. OthersStay(c)
  BY <1>1 DEF Typed, TypeOK, OthersStay
<1>4. TypeOK'
  BY <1>1, <1>2, <1>3 DEF Typed, TypeOK, OthersStay
<1>5. \A d \in Calls : IsWork(work'[d])
  BY <1>2, <1>3 DEF Typed, OthersStay
<1>6. Typed'
  BY <1>1, <1>4, <1>5 DEF Typed
<1> QED  BY <1>2, <1>3, <1>6

LEMMA ConcludeTyped ==
  ASSUME Typed, NEW c \in Calls, stage[c] # "idle", NEW outcome,
         outcome.action \in {"allow", "block", "unsupported"},
         Conclude(c, outcome), DOMAIN lastBody' = DOMAIN lastBody,
         UNCHANGED <<environment, counts, received, request, work, began, held>>
  PROVE  Typed' /\ OthersStay(c) /\ stage'[c] = "decided"
<1>1. /\ stage' = [stage EXCEPT ![c] = "decided"]
      /\ decision' = [decision EXCEPT ![c] = outcome]
      /\ UNCHANGED <<now, registry, engine, counts, received, request, began, held, work>>
  BY DEF Conclude, Goto, environment
<1>2. stage' \in [Calls -> Stages] /\ stage'[c] = "decided" /\ DOMAIN decision' = Calls
  BY <1>1 DEF Typed, TypeOK, Stages
<1>3. OthersStay(c)
  BY <1>1 DEF Typed, TypeOK, OthersStay
<1>4. \A d \in Calls : decision'[d] # Unset =>
        decision'[d].action \in {"allow", "block", "unsupported"}
  BY <1>1 DEF Typed, TypeOK
<1>5. TypeOK'
  BY <1>1, <1>2, <1>3, <1>4 DEF Typed, TypeOK, OthersStay
<1>6. Typed'
  BY <1>1, <1>5 DEF Typed, IsWork
<1> QED  BY <1>2, <1>3, <1>6

\* A step of one call that is not past its send keeps the invariant, when
\* that call has behind it what its new stage says.
LEMMA StepOfOne ==
  ASSUME NEW C \in SUBSET Calls, IInv(C), NEW c \in C,
         stage[c] \in {"acknowledge", "decided"} => stage'[c] \in {"acknowledge", "decided"},
         UNCHANGED <<environment, received, request, began, held>>,
         Typed', OthersStay(c), Journey(c)'
  PROVE  IInv(C)'
<1>1. UNCHANGED <<now, registry, engine, received>>
  BY DEF environment
<1>2. now \in Nat
  BY GatewayAssumption DEF IInv, Typed, TypeOK
<1>3. ASSUME NEW d \in C PROVE Journey(d)'
  <2>1. CASE d = c
    BY <2>1
  <2>2. CASE d # c
    BY <1>1, <1>2, <2>2, JourneyKept, EntriesKept DEF IInv, OthersStay, Journey
  <2> QED  BY <2>1, <2>2
<1>4. ASSUME NEW i \in DOMAIN received PROVE Arrived(i)'
  <2>1. received[i].call \in Calls /\ Arrived(i)
    BY DEF IInv, Typed, TypeOK
  <2>2. stage'[received[i].call] \in {"acknowledge", "decided"}
    BY <2>1 DEF OthersStay, Arrived
  <2> QED  BY <1>1, <2>1, <2>2, ArrivedKept
<1> QED  BY <1>1, <1>3, <1>4 DEF IInv

\* A call that is decided has nothing to show any more.
LEMMA DecisionEndsJourney ==
  ASSUME NEW c \in Calls, stage'[c] = "decided"
  PROVE  Journey(c)'
BY DEF Journey, PassedLimits, PassedProvenance, KnowsClasses, PassedIdentity,
   PassedDestination, JudgedToRedact, Redacted, Cleared, MetEntries, Unvalidated, Admitted,
   Attested, Identified,
   Validated, Evaluated, Releasing

LEMMA ConcludeKeeps ==
  ASSUME NEW C \in SUBSET Calls, IInv(C), NEW c \in C, stage[c] # "idle", NEW outcome,
         outcome.action \in {"allow", "block", "unsupported"},
         Conclude(c, outcome), DOMAIN lastBody' = DOMAIN lastBody,
         UNCHANGED <<environment, counts, received, request, work, began, held>>
  PROVE  IInv(C)'
<1>1. Typed' /\ OthersStay(c) /\ stage'[c] = "decided"
  BY ConcludeTyped DEF IInv
<1>2. Journey(c)'
  BY <1>1, DecisionEndsJourney
<1> QED  BY <1>1, <1>2, StepOfOne

LEMMA BlockStops ==
  ASSUME NEW C \in SUBSET Calls, IInv(C), NEW c \in C, stage[c] # "idle",
         UNCHANGED <<environment, transport, request, began, held>>,
         NEW reason, NEW summary, NEW rule, Block(c, reason, summary, rule)
  PROVE  IInv(C)'
<1>1. UNCHANGED <<counts, lastBody, received, work>>
  BY DEF transport, Block
<1> QED  BY <1>1, ConcludeKeeps DEF Block, Blocked

-----------------------------------------------------------------------------
(* The steps, one by one.                                                  *)

LEMMA InitHolds == ASSUME NEW C \in SUBSET Calls, Init PROVE IInv(C)
<1>1. TypeOK
  <2>1. held \in [Calls -> [before : SUBSET AnyEntry, after : SUBSET AnyEntry]]
    BY DEF Init, NothingHeld
  <2> QED  BY <2>1, GatewayAssumption DEF Init, TypeOK, Destinations, Stages
<1>2. \A c \in Calls : began[c] <= now /\ IsWork(work[c])
  <2>1. IsWork(NoWork)
    BY DEF IsWork, NoWork
  <2> QED  BY <2>1 DEF Init
<1>3. received \in Seq({received[i] : i \in DOMAIN received})
  BY EmptySeq DEF Init
<1>4. Typed
  BY <1>1, <1>2, <1>3 DEF Init, Typed
<1>5. \A c \in Calls : Journey(c)
  BY DEF Init, Journey, PassedLimits, PassedProvenance, KnowsClasses, PassedIdentity,
     PassedDestination, JudgedToRedact, Redacted, Cleared, MetEntries, Unvalidated, Admitted,
     Attested, Identified, Validated, Evaluated, Releasing
<1> QED  BY <1>4, <1>5 DEF Init, IInv

LEMMA BeginKeeps ==
  ASSUME NEW C \in SUBSET Calls, IInv(C), NEW c \in C, NEW r \in Requests, Begin(c, r)
  PROVE  IInv(C)'
<1>1. /\ stage[c] = "idle"
      /\ request' = [request EXCEPT ![c] = r]
      /\ began' = [began EXCEPT ![c] = now]
      /\ held' = [held EXCEPT ![c] = [before |-> {EntryOf(r.destination)}, after |-> {}]]
      /\ UNCHANGED <<now, registry, engine, counts, lastBody, received>>
  BY DEF Begin, environment, transport
<1>2. /\ request'[c] = r /\ began'[c] = now /\ now \in Nat
      /\ held'[c] = [before |-> {EntryOf(r.destination)}, after |-> {}]
      /\ \A d \in Calls \ {c} : /\ request'[d] = request[d] /\ began'[d] = began[d]
                                 /\ held'[d] = held[d]
  BY <1>1, GatewayAssumption DEF IInv, Typed, TypeOK
<1>3. \/ \E outcome : /\ outcome.action = "unsupported"
                       /\ Conclude(c, outcome)
                       /\ UNCHANGED work
      \/ MethodSupported(r) /\ ValidateBody(r.body).ok /\ Proceed(c, "verify_provenance", NoWork)
  <2>1. CASE ~MethodSupported(r)
    BY <2>1 DEF Begin, Blocked
  <2>2. CASE MethodSupported(r) /\ ~ValidateBody(r.body).ok
    BY <2>2 DEF Begin, Blocked
  <2>3. CASE MethodSupported(r) /\ ValidateBody(r.body).ok
    BY <2>3 DEF Begin
  <2> QED  BY <2>1, <2>2, <2>3
<1> DEFINE Fits ==
      /\ stage' \in [Calls -> Stages] /\ DOMAIN work' = Calls /\ DOMAIN decision' = Calls
      /\ OthersStay(c) /\ \A d \in Calls : IsWork(work'[d])
      /\ \A d \in Calls : decision'[d] # Unset =>
           decision'[d].action \in {"allow", "block", "unsupported"}
      /\ \/ stage'[c] = "decided"
         \/ stage'[c] = "verify_provenance" /\ MethodSupported(r) /\ ValidateBody(r.body).ok
<1>4. ASSUME NEW outcome, outcome.action = "unsupported", Conclude(c, outcome), UNCHANGED work
      PROVE  Fits
  <2>1. /\ stage' = [stage EXCEPT ![c] = "decided"]
        /\ decision' = [decision EXCEPT ![c] = outcome]
        /\ work' = work
    BY <1>4 DEF Conclude, Goto
  <2>2. OthersStay(c) /\ \A d \in Calls : IsWork(work'[d])
    BY <2>1 DEF IInv, Typed, TypeOK, OthersStay
  <2> QED  BY <1>4, <2>1, <2>2 DEF IInv, Typed, TypeOK, Stages
<1>5. ASSUME MethodSupported(r), ValidateBody(r.body).ok, Proceed(c, "verify_provenance", NoWork)
      PROVE  Fits
  <2>1. /\ stage' = [stage EXCEPT ![c] = "verify_provenance"]
        /\ work' = [work EXCEPT ![c] = NoWork]
        /\ decision' = decision
    BY <1>5 DEF Proceed, Goto
  <2>2. IsWork(NoWork)
    BY DEF IsWork, NoWork
  <2>3. OthersStay(c) /\ \A d \in Calls : IsWork(work'[d])
    BY <2>1, <2>2 DEF IInv, Typed, TypeOK, OthersStay
  <2> QED  BY <1>5, <2>1, <2>3 DEF IInv, Typed, TypeOK, Stages
<1>6. Fits
  BY <1>3, <1>4, <1>5
<1>7. Typed'
  <2>1. \A d \in Calls : (stage'[d] # "idle" => request'[d] \in Requests)
                          /\ began'[d] \in 0 .. MaxTime /\ began'[d] <= now
    BY <1>1, <1>2, <1>6 DEF IInv, Typed, TypeOK, OthersStay
  <2>2. began' \in [Calls -> 0 .. MaxTime]
    BY <1>1, <2>1 DEF IInv, Typed, TypeOK
  <2>3. held' \in [Calls -> [before : SUBSET AnyEntry, after : SUBSET AnyEntry]]
    <3>1. EntryOf(r.destination) \in AnyEntry
      BY DEF IInv, Typed, TypeOK, EntryOf, AnyEntry, Entries
    <3>2. [before |-> {EntryOf(r.destination)}, after |-> {}]
            \in [before : SUBSET AnyEntry, after : SUBSET AnyEntry]
      BY <3>1
    <3> QED  BY <1>1, <3>2 DEF IInv, Typed, TypeOK
  <2>4. TypeOK'
    BY <1>1, <1>6, <2>1, <2>2, <2>3 DEF IInv, Typed, TypeOK
  <2> QED  BY <1>1, <1>6, <2>1, <2>4 DEF IInv, Typed
<1>8. MetEntries(c)'
  <2>1. EntryOf(r.destination)' = EntryOf(r.destination)
    BY <1>1 DEF EntryOf
  <2> QED  BY <1>2, <1>6, <2>1 DEF MetEntries, Validated, Evaluated, Releasing
<1>9. Journey(c)'
  BY <1>2, <1>6, <1>8 DEF Journey, PassedLimits, PassedProvenance, KnowsClasses, PassedIdentity,
     PassedDestination, JudgedToRedact, Redacted, Cleared, MetEntries, Unvalidated, Admitted,
     Attested, Identified, Validated, Evaluated, Releasing
<1>10. ASSUME NEW d \in C \ {c} PROVE Journey(d)'
  BY <1>1, <1>2, <1>6, JourneyKept, EntriesKept DEF IInv, OthersStay, Journey
<1>11. ASSUME NEW i \in DOMAIN received PROVE Arrived(i)'
  <2>1. received[i].call \in Calls \ {c} /\ Arrived(i)
    BY <1>1 DEF IInv, Typed, TypeOK, Arrived
  <2>2. stage'[received[i].call] \in {"acknowledge", "decided"}
    BY <1>6, <2>1 DEF OthersStay, Arrived
  <2> QED  BY <1>1, <1>2, <2>1, <2>2, ArrivedKept
<1> QED  BY <1>1, <1>7, <1>9, <1>10, <1>11 DEF IInv

LEMMA VerifyProvenanceKeeps ==
  ASSUME NEW C \in SUBSET Calls, IInv(C), NEW c \in C, VerifyProvenanceOf(c)
  PROVE  IInv(C)'
<1>1. /\ stage[c] = "verify_provenance" /\ c \in Calls
      /\ UNCHANGED <<environment, transport, request, began, held>>
  BY DEF VerifyProvenanceOf
<1> DEFINE verified == VerifyProvenance(request[c].provenance, now)
           classified == ClassifyPayload(request[c].body, request[c].provenance.labels)
<1>2. \/ \E reason, summary : Block(c, reason, summary, Unset)
      \/ /\ verified.ok /\ classified.unknown = {}
         /\ Proceed(c, "verify_identity", [work[c] EXCEPT !.classification = classified])
  BY DEF VerifyProvenanceOf
<1>3. CASE \E reason, summary : Block(c, reason, summary, Unset)
  BY <1>1, <1>3, BlockStops
<1>4. ASSUME verified.ok, classified.unknown = {},
             Proceed(c, "verify_identity", [work[c] EXCEPT !.classification = classified])
      PROVE  IInv(C)'
  <2> DEFINE locals == [work[c] EXCEPT !.classification = classified]
  <2>1. IsWork(locals) /\ locals.classification = classified
    <3>1. IsWork(work[c])
      BY DEF IInv, Typed
    <3> QED  BY <3>1, LocalsClassified
  <2>2. Typed' /\ OthersStay(c) /\ stage'[c] = "verify_identity" /\ work'[c] = locals
    <3> HIDE DEF locals
    <3>1. Proceed(c, "verify_identity", locals)
      BY <1>4 DEF locals
    <3> QED  BY <1>1, <2>1, <3>1, ProceedTyped DEF IInv, Stages
  <2>3. now \in Span(c) /\ Span(c)' = Span(c) /\ request' = request
    BY <1>1, GatewayAssumption DEF IInv, Typed, TypeOK, Span, environment
  <2>4. PassedLimits(c)'
    BY <1>1, <2>3 DEF IInv, Journey, PassedLimits, Admitted
  <2>5. PassedProvenance(c)' /\ KnowsClasses(c)'
    BY <1>4, <2>1, <2>2, <2>3 DEF PassedProvenance, KnowsClasses, Classified
  <2>6. MetEntries(c)'
    BY <1>1, <2>2, <2>3 DEF IInv, Journey, MetEntries, EntryOf, environment, Unvalidated, Validated,
       Evaluated, Releasing
  <2>7. Journey(c)'
    BY <2>2, <2>4, <2>5, <2>6 DEF Journey, PassedIdentity, PassedDestination, JudgedToRedact, Redacted,
       Cleared, Identified, Validated, Evaluated, Releasing
  <2> QED  BY <1>1, <2>2, <2>7, StepOfOne DEF transport
<1> QED  BY <1>2, <1>3, <1>4

LEMMA VerifyIdentityKeeps ==
  ASSUME NEW C \in SUBSET Calls, IInv(C), NEW c \in C, VerifyIdentityOf(c)
  PROVE  IInv(C)'
<1> DEFINE identity == VerifyCredential(request[c].credential, request[c].workload, now)
<1>1. /\ stage[c] = "verify_identity"
      /\ UNCHANGED <<environment, transport, request, began, held>>
  BY DEF VerifyIdentityOf
<1>2. CASE ~identity.ok
  BY <1>1, <1>2, BlockStops DEF VerifyIdentityOf
<1>3. CASE identity.ok
  <2>1. Proceed(c, "validate_destination", work[c]) /\ IsWork(work[c])
    BY <1>3 DEF VerifyIdentityOf, IInv, Typed
  <2>2. /\ Typed' /\ OthersStay(c)
        /\ stage'[c] = "validate_destination" /\ work'[c] = work[c]
    BY <1>1, <2>1, ProceedTyped DEF IInv, Stages
  <2>3. now \in Span(c) /\ Span(c)' = Span(c) /\ request' = request
    BY <1>1, GatewayAssumption DEF IInv, Typed, TypeOK, Span, environment
  <2>4. PassedLimits(c)'
    BY <1>1, <2>3 DEF IInv, Journey, PassedLimits, Admitted, Attested
  <2>5. PassedProvenance(c)' /\ KnowsClasses(c)'
    BY <1>1, <2>2, <2>3
    DEF IInv, Journey, PassedProvenance, KnowsClasses, Attested, Identified, Releasing
  <2>6. PassedIdentity(c)'
    BY <1>3, <2>3 DEF PassedIdentity
  <2>7. MetEntries(c)'
    BY <1>1, <2>2, <2>3 DEF IInv, Journey, MetEntries, EntryOf, environment, Unvalidated, Validated,
       Evaluated, Releasing
  <2>8. Journey(c)'
    BY <2>2, <2>4, <2>5, <2>6, <2>7 DEF Journey, PassedDestination, JudgedToRedact, Redacted,
       Cleared, Validated, Evaluated, Releasing
  <2> QED  BY <1>1, <2>2, <2>8, StepOfOne DEF transport
<1> QED  BY <1>2, <1>3

LEMMA ValidateDestinationKeeps ==
  ASSUME NEW C \in SUBSET Calls, IInv(C), NEW c \in C, NEW resolution \in Resolutions,
         ValidateDestinationOf(c, resolution)
  PROVE  IInv(C)'
<1> DEFINE r == request[c]
           entry == EntryOf(r.destination)
           valid == ValidateDestination(entry, r.url, resolution)
           locals == [work[c] EXCEPT !.validated = entry, !.resolution = resolution,
                                     !.target = CanonicalUrl(r.url, entry)]
<1>1. /\ stage[c] = "validate_destination"
      /\ UNCHANGED <<environment, transport, request, began, held>>
  BY DEF ValidateDestinationOf
<1>2. CASE ~valid.ok
  BY <1>1, <1>2, BlockStops DEF ValidateDestinationOf
<1>3. CASE valid.ok
  <2>1. /\ IsWork(locals) /\ locals.target = CanonicalUrl(r.url, entry)
        /\ locals.validated = entry /\ locals.resolution = resolution
        /\ locals.classification = work[c].classification
    <3>1. IsWork(work[c])
      BY DEF IInv, Typed
    <3>2. locals = ValidatedLocals(work[c], entry, resolution, CanonicalUrl(r.url, entry))
      BY DEF ValidatedLocals
    <3> HIDE DEF locals, entry, r
    <3> QED  BY <3>1, <3>2, LocalsValidated
  <2>2. /\ Typed' /\ OthersStay(c)
        /\ stage'[c] = "evaluate_policy" /\ work'[c] = locals
    <3>1. Proceed(c, "evaluate_policy", locals)
      BY <1>3 DEF ValidateDestinationOf
    <3> HIDE DEF locals
    <3> QED  BY <1>1, <2>1, <3>1, ProceedTyped DEF IInv, Stages
  <2>3. /\ Span(c)' = Span(c) /\ request' = request /\ registry' = registry
    BY <1>1 DEF Span, environment
  <2>4. PassedLimits(c)'
    BY <1>1, <2>3 DEF IInv, Journey, PassedLimits, Admitted, Attested, Identified
  <2>5. PassedProvenance(c)' /\ KnowsClasses(c)'
    BY <1>1, <2>1, <2>2, <2>3
    DEF IInv, Journey, PassedProvenance, KnowsClasses, Attested, Identified, Validated, Releasing
  <2>6. PassedIdentity(c)'
    BY <1>1, <2>3 DEF IInv, Journey, PassedIdentity, Identified
  <2>7. PassedDestination(c)'
    <3> HIDE DEF entry, locals
    <3> QED  BY <1>3, <2>1, <2>2, <2>3 DEF PassedDestination
  <2>8. MetEntries(c)'
    <3>1. entry \in held[c].before /\ entry = EntryOf(r.destination)
      BY <1>1 DEF IInv, Journey, MetEntries, Unvalidated
    <3>2. EntryOf(r.destination)' = entry /\ held' = held
      BY <1>1, <2>3 DEF EntryOf
    <3> HIDE DEF entry, locals
    <3> QED  BY <2>1, <2>2, <3>1, <3>2 DEF MetEntries, Unvalidated, Evaluated, Releasing
  <2>9. Journey(c)'
    BY <2>2, <2>4, <2>5, <2>6, <2>7, <2>8 DEF Journey, JudgedToRedact, Redacted, Cleared, Releasing
  <2> QED  BY <1>1, <2>2, <2>9, StepOfOne DEF transport
<1> QED  BY <1>2, <1>3

LEMMA EvaluatePolicyKeeps ==
  ASSUME NEW C \in SUBSET Calls, IInv(C), NEW c \in C, EvaluatePolicyFor(c)
  PROVE  IInv(C)'
<1> DEFINE r == request[c]
           entry == EntryOf(r.destination)
           policy == Evaluate(engine, FirstInput(r, entry.environment, work[c].classification),
                              now)
           known == [work[c] EXCEPT !.registered = entry, !.policy = policy, !.body = r.body]
<1>1. /\ stage[c] = "evaluate_policy"
      /\ UNCHANGED <<environment, transport, request, began, held>>
  BY DEF EvaluatePolicyFor
<1>2. \/ Block(c, policy.reason, work[c].classification.summary, policy.rule)
      \/ policy.action = "allow" /\ Proceed(c, "send", known)
      \/ policy.action = "redact" /\ Proceed(c, "redact", known)
  BY DEF EvaluatePolicyFor
<1>3. CASE Block(c, policy.reason, work[c].classification.summary, policy.rule)
  BY <1>1, <1>3, BlockStops
<1>4. /\ IsWork(known) /\ known.registered = entry /\ known.policy = policy
      /\ known.body = r.body /\ known.target = work[c].target
      /\ known.validated = work[c].validated /\ known.resolution = work[c].resolution
      /\ known.classification = work[c].classification
  <2>1. IsWork(work[c])
    BY DEF IInv, Typed
  <2>2. known = JudgedLocals(work[c], entry, policy, r.body)
    BY DEF JudgedLocals
  <2> HIDE DEF known, policy, entry, r
  <2> QED  BY <2>1, <2>2, LocalsJudged
<1>5. /\ PassedLimits(c) /\ PassedProvenance(c) /\ PassedIdentity(c) /\ PassedDestination(c)
      /\ work[c].classification = Classified(r, r.body)
  BY <1>1 DEF IInv, Journey, KnowsClasses, Attested, Identified, Validated, Releasing
<1>6. policy = FirstDecision(engine, r, entry.environment, now)
  BY <1>5 DEF FirstDecision
<1>7. /\ entry \in {work[c].validated} \cup held[c].after
      /\ work[c].validated \in held[c].before
  BY <1>1 DEF IInv, Journey, MetEntries, Validated
<1>8. now \in Span(c) /\ Span(c)' = Span(c) /\ request' = request /\ engine' = engine
      /\ registry' = registry
  BY <1>1, GatewayAssumption DEF IInv, Typed, TypeOK, Span, environment
<1>9. ASSUME NEW next \in {"send", "redact"}, Proceed(c, next, known),
             next = "redact" => policy.action = "redact",
             next = "send" => policy.action = "allow"
      PROVE  IInv(C)'
  <2> HIDE DEF known, policy
  <2>1. /\ Typed' /\ OthersStay(c)
        /\ stage'[c] = next /\ work'[c] = known
    BY <1>1, <1>4, <1>9, ProceedTyped DEF IInv, Stages
  <2> HIDE DEF entry, r
  <2>2. PassedLimits(c)' /\ PassedProvenance(c)' /\ PassedIdentity(c)'
    BY <1>1, <1>5, <1>8 DEF r, PassedLimits, PassedProvenance, PassedIdentity, Admitted, Attested,
       Identified, Validated
  <2>3. KnowsClasses(c)'
    BY <1>4, <1>5, <1>8, <2>1 DEF r, KnowsClasses
  <2>4. PassedDestination(c)'
    BY <1>1, <1>4, <1>5, <1>8, <2>1 DEF PassedDestination, Validated
  <2>5. JudgedToRedact(c)'
    BY <1>4, <1>6, <1>8, <1>9, <2>1 DEF r, JudgedToRedact
  <2>6. Redacted(c)'
    BY <2>1 DEF Redacted
  <2>7. Cleared(c)'
    <3>1. CASE next = "send"
      <4>1. PolicyReleased(engine, r, known.body, entry.environment, Span(c))
        BY <1>4, <1>6, <1>8, <1>9, <3>1 DEF PolicyReleased
      <4> QED  BY <1>4, <1>8, <2>1, <4>1 DEF r, Cleared
    <3>2. CASE next = "redact"
      BY <2>1, <3>2 DEF Cleared, Releasing
    <3> QED  BY <3>1, <3>2
  <2>8. MetEntries(c)'
    BY <1>1, <1>4, <1>7, <2>1 DEF MetEntries, Unvalidated
  <2>9. Journey(c)'
    BY <2>2, <2>3, <2>4, <2>5, <2>6, <2>7, <2>8 DEF Journey
  <2> QED  BY <1>1, <2>1, <2>9, StepOfOne DEF transport
<1> QED  BY <1>2, <1>3, <1>9

LEMMA RedactKeeps ==
  ASSUME NEW C \in SUBSET Calls, IInv(C), NEW c \in C, Redact(c)
  PROVE  IInv(C)'
<1> DEFINE r == request[c]
           result == RedactToPermittedFields(r.body, work[c].policy.permitted)
           classified == ClassifyPayload(result.body, r.provenance.labels)
           locals == [work[c] EXCEPT !.body = result.body, !.redacted = result.redacted,
                                     !.classification = classified]
<1>1. /\ stage[c] = "redact"
      /\ UNCHANGED <<environment, transport, request, began, held>>
  BY DEF Redact
<1>2. \/ \E reason, summary, rule : Block(c, reason, summary, rule)
      \/ Proceed(c, "reevaluate_policy", locals)
  BY DEF Redact
<1>3. CASE \E reason, summary, rule : Block(c, reason, summary, rule)
  BY <1>1, <1>3, BlockStops
<1>4. CASE Proceed(c, "reevaluate_policy", locals)
  <2>1. /\ IsWork(locals) /\ locals.body = result.body /\ locals.classification = classified
        /\ SameLookups(locals, work[c])
    <3>1. IsWork(work[c])
      BY DEF IInv, Typed
    <3>2. locals = RedactedLocals(work[c], result.body, result.redacted, classified)
      BY DEF RedactedLocals
    <3> HIDE DEF locals, result, classified
    <3> QED  BY <3>1, <3>2, LocalsRedacted
  <2>2. Typed' /\ OthersStay(c) /\ stage'[c] = "reevaluate_policy" /\ work'[c] = locals
    <3> HIDE DEF locals
    <3> QED  BY <1>1, <1>4, <2>1, ProceedTyped DEF IInv, Stages
  <2>3. Span(c)' = Span(c) /\ request' = request /\ engine' = engine /\ registry' = registry
    BY <1>1 DEF Span, environment
  <2> HIDE DEF locals
  <2>4. PassedLimits(c)' /\ PassedProvenance(c)' /\ PassedIdentity(c)'
    BY <1>1, <2>3 DEF IInv, Journey, PassedLimits, PassedProvenance, PassedIdentity, Admitted,
       Attested, Identified, Validated, Evaluated
  <2>5. KnowsClasses(c)' /\ JudgedToRedact(c)' /\ Cleared(c)'
    BY <2>2 DEF KnowsClasses, JudgedToRedact, Cleared, Releasing
  <2>6. PassedDestination(c)' /\ MetEntries(c)'
    BY <1>1, <2>1, <2>2, <2>3 DEF IInv, Journey, PassedDestination, MetEntries, SameLookups, Unvalidated,
       Validated, Evaluated
  <2>7. Redacted(c)'
    <3>1. PICK t \in Span(c) :
            /\ work[c].policy = FirstDecision(engine, r, work[c].registered.environment, t)
            /\ work[c].policy.action = "redact"
      BY <1>1 DEF IInv, Journey, JudgedToRedact
    <3>2. locals.classification = Classified(r, locals.body)
      BY <2>1 DEF Classified
    <3> QED  BY <2>1, <2>2, <2>3, <3>1, <3>2 DEF Redacted, SameLookups
  <2>8. Journey(c)'
    BY <2>4, <2>5, <2>6, <2>7 DEF Journey
  <2> QED  BY <1>1, <2>2, <2>8, StepOfOne DEF transport
<1> QED  BY <1>2, <1>3, <1>4

LEMMA ReEvaluatePolicyKeeps ==
  ASSUME NEW C \in SUBSET Calls, IInv(C), NEW c \in C, ReEvaluatePolicyFor(c)
  PROVE  IInv(C)'
<1> DEFINE r == request[c]
           policy == Evaluate(engine,
                       SecondInput(r, work[c].registered.environment, work[c].classification), now)
           locals == [work[c] EXCEPT !.policy = policy]
<1>1. /\ stage[c] = "reevaluate_policy"
      /\ UNCHANGED <<environment, transport, request, began, held>>
  BY DEF ReEvaluatePolicyFor
<1>2. \/ Block(c, policy.reason, work[c].classification.summary, policy.rule)
      \/ policy.action = "allow" /\ Proceed(c, "send", locals)
  BY DEF ReEvaluatePolicyFor
<1>3. CASE Block(c, policy.reason, work[c].classification.summary, policy.rule)
  BY <1>1, <1>3, BlockStops
<1>4. ASSUME policy.action = "allow", Proceed(c, "send", locals)
      PROVE  IInv(C)'
  <2>1. IsWork(locals) /\ locals.body = work[c].body /\ SameLookups(locals, work[c])
    <3>1. IsWork(work[c])
      BY DEF IInv, Typed
    <3> HIDE DEF policy
    <3> QED  BY <3>1, LocalsReleased
  <2>2. Typed' /\ OthersStay(c) /\ stage'[c] = "send" /\ work'[c] = locals
    <3> HIDE DEF locals
    <3>1. Proceed(c, "send", locals)
      BY <1>4 DEF locals
    <3> QED  BY <1>1, <2>1, <3>1, ProceedTyped DEF IInv, Stages
  <2> HIDE DEF locals
  <2>3. /\ now \in Span(c) /\ \A t \in Span(c) : t <= now
        /\ Span(c)' = Span(c) /\ request' = request /\ engine' = engine
        /\ registry' = registry
    BY <1>1, GatewayAssumption DEF IInv, Typed, TypeOK, Span, environment
  <2>4. PassedLimits(c)' /\ PassedProvenance(c)' /\ PassedIdentity(c)'
    BY <1>1, <2>3 DEF IInv, Journey, PassedLimits, PassedProvenance, PassedIdentity, Admitted,
       Attested, Identified, Validated, Evaluated
  <2>5. KnowsClasses(c)' /\ JudgedToRedact(c)' /\ Redacted(c)'
    BY <2>2 DEF KnowsClasses, JudgedToRedact, Redacted, Releasing
  <2>6. PassedDestination(c)' /\ MetEntries(c)'
    BY <1>1, <2>1, <2>2, <2>3 DEF IInv, Journey, PassedDestination, MetEntries, SameLookups, Unvalidated,
       Validated, Evaluated, Releasing
  <2>7. Cleared(c)'
    <3> DEFINE place == work[c].registered.environment
    <3>1. PICK t \in Span(c) :
            LET first == FirstDecision(engine, r, place, t) IN
            /\ first.action = "redact"
            /\ work[c].body = RedactToPermittedFields(r.body, first.permitted).body
            /\ work[c].classification = Classified(r, work[c].body)
      BY <1>1 DEF IInv, Journey, Redacted
    <3>2. SecondDecision(engine, r, place, locals.body, now).action = "allow"
      BY <1>4, <2>1, <3>1 DEF SecondDecision
    <3>3. PolicyReleased(engine, r, locals.body, place, Span(c))
      BY <2>1, <2>3, <3>1, <3>2 DEF PolicyReleased
    <3> QED  BY <2>1, <2>2, <2>3, <3>3 DEF Cleared, SameLookups
  <2>8. Journey(c)'
    BY <2>4, <2>5, <2>6, <2>7 DEF Journey
  <2> QED  BY <1>1, <2>2, <2>8, StepOfOne DEF transport
<1> QED  BY <1>2, <1>3, <1>4

\* The body is handed over: what the call has behind it is what makes the
\* delivery authorised.
LEMMA DeliveryAuthorised ==
  ASSUME NEW C \in SUBSET Calls, IInv(C), NEW c \in C, stage[c] = "send", NEW delivery,
         delivery = Delivery(c)
  PROVE  Authorised(delivery) /\ AsRegistered(delivery)
<1> USE DEF Delivery
<1>1. Span(c) = began[delivery.call] .. delivery.at
  BY DEF Span
<1>2. Journey(c) /\ stage[c] \in Admitted \cap Attested \cap Identified \cap Validated \cap Releasing
  BY DEF IInv, Admitted, Attested, Identified, Validated, Evaluated, Releasing
<1>3. /\ MethodSupported(request[c]) /\ ValidateBody(request[c].body).ok
      /\ Classified(request[c], request[c].body).unknown = {}
  BY <1>2 DEF Journey, PassedLimits, PassedProvenance
<1>4. \E t \in Span(c) : VerifyProvenance(request[c].provenance, t).ok
  BY <1>2 DEF Journey, PassedProvenance
<1>5. \E t \in Span(c) : VerifyCredential(request[c].credential, request[c].workload, t).ok
  BY <1>2 DEF Journey, PassedIdentity
<1>6. /\ ValidateDestination(work[c].validated, request[c].url, work[c].resolution).ok
      /\ work[c].target = CanonicalUrl(request[c].url, work[c].validated)
  BY <1>2 DEF Journey, PassedDestination
<1>7. PolicyReleased(engine, request[c], work[c].body, work[c].registered.environment, Span(c))
  BY <1>2 DEF Journey, Cleared
<1>8. Authorised(delivery)
  BY <1>1, <1>3, <1>4, <1>5, <1>6, <1>7 DEF Authorised
<1>9. AsRegistered(delivery)
  BY <1>2 DEF Journey, MetEntries, AsRegistered, Evaluated
<1> QED  BY <1>8, <1>9

LEMMA SendKeeps ==
  ASSUME NEW C \in SUBSET Calls, IInv(C), NEW c \in C, Send(c)
  PROVE  IInv(C)'
<1> DEFINE d == request[c].destination
           delivery == Delivery(c)
<1>1. stage[c] = "send" /\ UNCHANGED <<environment, lastBody, request, work, began, held>>
  BY DEF Send
<1>2. CASE d \notin Receivers
  <2>1. Conclude(c, Released(c, FALSE, "unknown", 0)) /\ UNCHANGED <<counts, received>>
    BY <1>2 DEF Send
  <2> QED  BY <1>1, <2>1, ConcludeKeeps DEF Released
<1>3. CASE d \in Receivers
  <2>1. /\ counts' = [counts EXCEPT ![d] = @ + 1]
        /\ received' = Append(received, delivery)
        /\ stage' = [stage EXCEPT ![c] = "acknowledge"]
        /\ UNCHANGED <<now, registry, engine, lastBody, request, work, began, held, decision>>
    BY <1>1, <1>3 DEF Send, Goto, environment
  <2>2. stage' \in [Calls -> Stages] /\ stage'[c] = "acknowledge" /\ OthersStay(c)
    BY <2>1 DEF IInv, Typed, TypeOK, Stages, OthersStay
  <2>3. /\ DOMAIN received = 1 .. Len(received) /\ Len(received) \in Nat
        /\ DOMAIN received' = 1 .. Len(received) + 1
        /\ \A i \in DOMAIN received : received'[i] = received[i]
        /\ received'[Len(received) + 1] = delivery
        /\ received' \in Seq({received'[i] : i \in DOMAIN received'})
    <3> DEFINE R == {received[i] : i \in DOMAIN received}
    <3>1. received \in Seq(R \cup {delivery})
      BY SeqMonotonic DEF IInv, Typed
    <3> HIDE DEF R, delivery
    <3>2. /\ received' \in Seq(R \cup {delivery}) /\ Len(received') = Len(received) + 1
          /\ \A i \in 1 .. Len(received) : received'[i] = received[i]
          /\ received'[Len(received) + 1] = delivery
      BY <2>1, <3>1, AppendProperties
    <3>3. /\ Len(received) \in Nat /\ DOMAIN received = 1 .. Len(received)
          /\ DOMAIN received' = 1 .. Len(received) + 1
      BY <3>1, <3>2, LenProperties
    <3>4. R \cup {delivery} = {received'[i] : i \in DOMAIN received'}
      BY <3>2, <3>3 DEF R
    <3> QED  BY <3>2, <3>3, <3>4
  <2>4. ASSUME NEW i \in DOMAIN received'
        PROVE  i \in DOMAIN received \/ received'[i] = delivery
    BY <2>3
  <2>5. counts' \in [Receivers -> Nat]
    BY <1>3, <2>1 DEF IInv, Typed, TypeOK
  <2> HIDE DEF d
  <2>6. delivery.call = c /\ delivery.destination = d /\ delivery.at = now
    BY DEF Delivery, d
  <2>7. now \in Nat
    BY GatewayAssumption DEF IInv, Typed, TypeOK
  <2> HIDE DEF delivery
  <2>8. ASSUME NEW i \in DOMAIN received'
        PROVE  /\ received'[i].call \in Calls
               /\ received'[i].destination \in Receivers
               /\ received'[i].at \in 0 .. now
    <3>1. CASE i \in DOMAIN received
      BY <2>3, <3>1 DEF IInv, Typed, TypeOK
    <3>2. CASE received'[i] = delivery
      BY <1>3, <2>6, <2>7, <3>2
    <3> QED  BY <2>4, <3>1, <3>2
  <2>9. TypeOK'
    <3>1. \A e \in Calls : stage'[e] # "idle" => request'[e] \in Requests
      BY <1>1, <2>1, <2>2 DEF IInv, Typed, TypeOK, OthersStay
    <3> QED  BY <2>1, <2>2, <2>5, <2>8, <3>1 DEF IInv, Typed, TypeOK
  <2>10. Typed'
    BY <2>1, <2>3, <2>9 DEF IInv, Typed
  <2>11. PassedLimits(c)' /\ PassedProvenance(c)' /\ PassedIdentity(c)'
    BY <1>1, <2>1, <2>2 DEF IInv, Journey, PassedLimits, PassedProvenance, PassedIdentity, Span,
       Admitted, Attested, Identified, Validated, Evaluated, Releasing
  <2>12. PassedDestination(c)' /\ Cleared(c)' /\ MetEntries(c)'
    BY <1>1, <2>1, <2>2 DEF IInv, Journey, PassedDestination, Cleared, MetEntries, Span, Unvalidated,
       Validated, Evaluated, Releasing
  <2>13. KnowsClasses(c)' /\ JudgedToRedact(c)' /\ Redacted(c)'
    BY <2>2 DEF KnowsClasses, JudgedToRedact, Redacted, Releasing
  <2>14. ASSUME NEW e \in C PROVE Journey(e)'
    <3>1. CASE e = c
      BY <2>11, <2>12, <2>13, <3>1 DEF Journey
    <3>2. CASE e # c
      BY <2>1, <2>2, <2>7, <3>2, JourneyKept, EntriesKept DEF IInv, OthersStay, Journey
    <3> QED  BY <3>1, <3>2
  <2>15. ASSUME NEW i \in DOMAIN received' PROVE Arrived(i)'
    <3>1. CASE i \in DOMAIN received
      <4>1. received[i].call \in Calls /\ Arrived(i) /\ received'[i] = received[i]
        BY <2>3, <3>1 DEF IInv, Typed, TypeOK
      <4>2. stage'[received[i].call] \in {"acknowledge", "decided"}
        BY <2>2, <4>1 DEF OthersStay, Arrived
      <4> QED  BY <2>1, <3>1, <4>1, <4>2, ArrivedKept
    <3>2. CASE received'[i] = delivery
      <4>1. Authorised(delivery) /\ AsRegistered(delivery)
        BY <1>1, DeliveryAuthorised DEF delivery
      <4>2. Authorised(received[i])' /\ AsRegistered(received[i])'
        BY <2>1, <3>2, <4>1 DEF Authorised, AsRegistered
      <4> QED  BY <2>2, <2>6, <3>2, <4>1, <4>2 DEF Arrived, IInv, Typed
    <3> QED  BY <2>4, <3>1, <3>2
  <2> QED  BY <2>10, <2>14, <2>15 DEF IInv
<1> QED  BY <1>2, <1>3

LEMMA AcknowledgeKeeps ==
  ASSUME NEW C \in SUBSET Calls, IInv(C), NEW c \in C, Acknowledge(c)
  PROVE  IInv(C)'
<1>1. /\ stage[c] = "acknowledge" /\ DOMAIN lastBody' = DOMAIN lastBody
      /\ Conclude(c, Released(c, TRUE, "received", counts[request[c].destination]))
      /\ UNCHANGED <<environment, counts, received, request, work, began, held>>
  BY DEF Acknowledge
<1> QED  BY <1>1, ConcludeKeeps DEF Released

\* A step of the environment: time passes or an entry is replaced.
LEMMA EnvironmentKeeps ==
  ASSUME NEW C \in SUBSET Calls, IInv(C), now' \in 0 .. MaxTime, now <= now',
         UNCHANGED <<engine, transport, stage, request, work, decision, began>>, TypeOK',
         \A c \in C : MetEntries(c) => MetEntries(c)',
         \A c \in Calls : stage[c] \in {"acknowledge", "decided"} => held'[c] = held[c]
  PROVE  IInv(C)'
<1>1. /\ UNCHANGED <<engine, counts, lastBody, received, stage, request, work, decision, began>>
      /\ now \in Nat /\ now' \in Nat
  BY GatewayAssumption DEF transport, IInv, Typed, TypeOK
<1>2. \A c \in Calls : began[c] <= now'
  BY <1>1, GatewayAssumption DEF IInv, Typed, TypeOK
<1>3. Typed'
  BY <1>1, <1>2 DEF IInv, Typed
<1>4. ASSUME NEW c \in C PROVE Journey(c)'
  <2>1. MetEntries(c)'
    BY DEF IInv, Journey
  <2> QED  BY <1>1, <2>1, JourneyKept DEF IInv
<1>5. ASSUME NEW i \in DOMAIN received PROVE Arrived(i)'
  <2>1. received[i].call \in Calls /\ Arrived(i)
    BY DEF IInv, Typed, TypeOK
  <2>2. held'[received[i].call] = held[received[i].call]
    BY <2>1 DEF Arrived
  <2> QED  BY <1>1, <2>1, <2>2, ArrivedKept DEF Arrived
<1> QED  BY <1>1, <1>3, <1>4, <1>5 DEF IInv

\* One in which registry and calls stay.
LEMMA ClockKeeps ==
  ASSUME NEW C \in SUBSET Calls, IInv(C), now' \in 0 .. MaxTime, now <= now',
         UNCHANGED <<registry, engine, transport, calls>>
  PROVE  IInv(C)'
<1>1. UNCHANGED <<registry, engine, counts, lastBody, received, stage, request, work, decision,
                  began, held>>
  BY DEF transport, calls
<1>2. \A i \in DOMAIN received : received[i].at \in 0 .. now'
  BY <1>1, GatewayAssumption DEF IInv, Typed, TypeOK
<1>3. TypeOK'
  BY <1>1, <1>2 DEF IInv, Typed, TypeOK
<1>4. ASSUME NEW c \in C, MetEntries(c) PROVE MetEntries(c)'
  BY <1>1, <1>4, EntriesKept
<1> QED  BY <1>1, <1>3, <1>4, EnvironmentKeeps DEF transport

LEMMA TickKeeps == ASSUME NEW C \in SUBSET Calls, IInv(C), Tick PROVE IInv(C)'
<1>1. now' \in 0 .. MaxTime /\ now <= now'
  BY GatewayAssumption DEF Tick, IInv, Typed, TypeOK
<1> QED  BY <1>1, ClockKeeps DEF Tick

LEMMA RegisterKeeps ==
  ASSUME NEW C \in SUBSET Calls, IInv(C), NEW r \in Replacements, Register(r[1], r[2])
  PROVE  IInv(C)'
<1> DEFINE d == r[1]
           entry == r[2]
           Before(c) == held[c].before \cup Meets(c, d, Unvalidated, entry)
           After(c) == held[c].after \cup Meets(c, d, {"evaluate_policy"}, entry)
<1>1. /\ d \in Destinations /\ entry \in Entries(d) /\ entry \in AnyEntry
  BY GatewayAssumption DEF Destinations, Entries, AnyEntry
<1>2. /\ registry' = [registry EXCEPT ![d] = entry]
      /\ held' = [c \in Calls |-> [before |-> Before(c), after |-> After(c)]]
      /\ UNCHANGED <<now, engine, transport, stage, request, work, decision, began>>
  BY DEF Register
<1> HIDE DEF d, entry
<1>3. \A c \in Calls : Before(c) \in SUBSET AnyEntry /\ After(c) \in SUBSET AnyEntry
  BY <1>1 DEF IInv, Typed, TypeOK, Meets
<1>4. \A c \in Calls : held'[c].before = Before(c) /\ held'[c].after = After(c)
  BY <1>2
<1>5. TypeOK'
  <2>1. held' \in [Calls -> [before : SUBSET AnyEntry, after : SUBSET AnyEntry]]
    <3> HIDE DEF Before, After
    <3> QED  BY <1>2, <1>3
  <2>2. \A e \in Destinations : registry'[e] \in Entries(e) \cup {InitialRegistry[e]}
    BY <1>1, <1>2 DEF IInv, Typed, TypeOK
  <2> QED  BY <1>2, <2>1, <2>2 DEF IInv, Typed, TypeOK, transport
<1>6. ASSUME NEW c \in C, MetEntries(c) PROVE MetEntries(c)'
  <2>1. CASE request[c].destination = d
    <3>1. EntryOf(request[c].destination)' = entry
      BY <1>1, <1>2, <2>1 DEF EntryOf, IInv, Typed, TypeOK
    <3>2. stage[c] \in Unvalidated => entry \in held'[c].before
      BY <1>4, <2>1 DEF Meets
    <3>3. stage[c] = "evaluate_policy" => entry \in held'[c].after
      BY <1>4, <2>1 DEF Meets
    <3> QED  BY <1>2, <1>4, <1>6, <3>1, <3>2, <3>3 DEF MetEntries
  <2>2. CASE request[c].destination # d
    <3>1. EntryOf(request[c].destination)' = EntryOf(request[c].destination)
      BY <1>1, <1>2, <2>2 DEF EntryOf, IInv, Typed, TypeOK
    <3> QED  BY <1>2, <1>4, <1>6, <3>1 DEF MetEntries
  <2> QED  BY <2>1, <2>2
<1>7. ASSUME NEW c \in Calls, stage[c] \in {"acknowledge", "decided"} PROVE held'[c] = held[c]
  <2>1. Before(c) = held[c].before /\ After(c) = held[c].after
    BY <1>7 DEF Meets, Unvalidated
  <2>2. held[c] = [before |-> held[c].before, after |-> held[c].after]
    BY DEF IInv, Typed, TypeOK
  <2> QED  BY <1>2, <2>1, <2>2
<1>8. now' \in 0 .. MaxTime /\ now <= now'
  BY <1>2, GatewayAssumption DEF IInv, Typed, TypeOK
<1> QED  BY <1>2, <1>5, <1>6, <1>7, <1>8, EnvironmentKeeps

LEMMA StutteringKeeps == ASSUME NEW C \in SUBSET Calls, IInv(C), UNCHANGED vars PROVE IInv(C)'
<1>1. UNCHANGED <<engine, transport, calls, now, registry>>
  BY DEF vars, environment
<1>2. now' \in 0 .. MaxTime /\ now <= now'
  BY <1>1, GatewayAssumption DEF IInv, Typed, TypeOK
<1> QED  BY <1>1, <1>2, ClockKeeps

-----------------------------------------------------------------------------
(* What a passed check says of expiry.                                     *)

\* A token that decodes has not expired, but for the leeway.
LEMMA DecodedIsUnexpired ==
  ASSUME NEW token, NEW t \in Int, NEW leeway \in Int, NEW reason,
         token.expires \in Int, Decode(token, t, leeway, reason).ok
  PROVE  t < token.expires + leeway
<1> DEFINE expired == token.expires + leeway <= t
<1>1. ~expired
  <2> DEFINE c1 == <<reason.malformed, token.flaw = "malformed">>
             c2 == <<reason.algorithm, token.flaw = "algorithm">>
             c3 == <<reason.missing, token.flaw = "missing_claim">>
             c4 == <<reason.immature, token.issuedAt > t + leeway>>
             c5 == <<reason.expired, expired>>
             c6 == <<reason.issuer, token.flaw = "issuer">>
             c7 == <<reason.audience, token.flaw = "audience">>
  <2>1. Outcome(<<c1, c2, c3, c4, c5, c6, c7>>, "verified").ok
    BY Zenon DEF Decode
  <2>2. c5 = <<reason.expired, expired>>
    OBVIOUS
  <2> HIDE DEF expired, c1, c2, c3, c4, c5, c6, c7
  <2> QED  BY <2>1, <2>2, FifthOfSeven
<1> QED  BY <1>1

\* What was judged releasable was judged before the policy expired.
LEMMA ReleasedBeforeExpiry ==
  ASSUME NEW judge, NEW asked, NEW t, Evaluate(judge, asked, t).action # "block"
  PROVE  ~(judge.bundle.expires <= t)
<1>1. BundleInvalidReason(judge, t).ok
  BY DEF Evaluate, Decision
<1> QED  BY <1>1, BundleValid

-----------------------------------------------------------------------------
(* The theorems.                                                           *)

\* One step of a served call, whichever.
LEMMA StepKeeps ==
  ASSUME NEW C \in SUBSET Calls, IInv(C), NEW c \in C, Step(c)
  PROVE  IInv(C)'
BY VerifyProvenanceKeeps, VerifyIdentityKeeps, ValidateDestinationKeeps, EvaluatePolicyKeeps,
   RedactKeeps, ReEvaluatePolicyKeeps, SendKeeps, AcknowledgeKeeps
DEF Step

\* The invariant the others follow from.
THEOREM Invariance == Spec => []IInv(Calls)
<1>1. Init => IInv(Calls)
  BY InitHolds
<1>2. ASSUME IInv(Calls), [Next]_vars PROVE IInv(Calls)'
  <2>1. CASE Tick
    BY <1>2, <2>1, TickKeeps
  <2>2. CASE \E r \in Replacements : Register(r[1], r[2])
    BY <1>2, <2>2, RegisterKeeps
  <2>3. ASSUME NEW c \in Calls, Step(c) PROVE IInv(Calls)'
    BY <1>2, <2>3, StepKeeps
  <2>4. ASSUME NEW c \in Calls, NEW r \in Requests, Begin(c, r) PROVE IInv(Calls)'
    BY <1>2, <2>4, BeginKeeps
  <2>5. CASE UNCHANGED vars
    BY <1>2, <2>5, StutteringKeeps
  <2> QED  BY <1>2, <2>1, <2>2, <2>3, <2>4, <2>5 DEF Next
<1> QED  BY <1>1, <1>2, PTL DEF Spec

\* Every reachable state has the shape the gateway's operations expect,
\* whatever is requested and registered.
THEOREM GatewayTyped == Spec => []TypeOK
<1>1. IInv(Calls) => TypeOK
  BY DEF IInv, Typed
<1> QED  BY <1>1, Invariance, PTL

\* What arrived is authorised, whichever of the calls are still served.
LEMMA ArrivedIsAuthorised ==
  ASSUME NEW C \in SUBSET Calls, IInv(C)
  PROVE  ReleaseAuthorised
BY DEF IInv, Arrived, ReleaseAuthorised

\* Whatever is requested, registered and interleaved, a receiver never has a
\* body whose request did not pass every check of gateway.py 182-395 during
\* its own call.
THEOREM OnlyAuthorisedReleases == Spec => []ReleaseAuthorised
<1>1. IInv(Calls) => ReleaseAuthorised
  BY ArrivedIsAuthorised
<1> QED  BY <1>1, Invariance, PTL

\* What arrived was judged for an entry its destination had between the two look-ups.
LEMMA ArrivedAsRegistered ==
  ASSUME NEW C \in SUBSET Calls, IInv(C)
  PROVE  JudgedAsRegistered
BY DEF IInv, Arrived, JudgedAsRegistered

\* Whatever is registered while calls run, a delivery goes to a URL of an entry its
\* destination had during the call, and was judged for that entry or for one that
\* was registered between the two look-ups (gateway.py 245-261).
THEOREM ReleasesAsRegistered == Spec => []JudgedAsRegistered
<1>1. IInv(Calls) => JudgedAsRegistered
  BY ArrivedAsRegistered
<1> QED  BY <1>1, Invariance, PTL

-----------------------------------------------------------------------------
(* Which engine judges.  The gateway keeps the engine it started with, and *)
(* every restart brings one of a set E: what holds of each of them holds   *)
(* of whatever was delivered.                                              *)

EnginesFrom(E) == engine \in E /\ \A i \in DOMAIN received : received[i].engine \in E

\* All that a step of a call can add to what arrived is one delivery, by the
\* send, judged by the engine of the moment.
LEMMA StepDelivers ==
  ASSUME Typed, NEW c \in Calls, Step(c)
  PROVE  /\ UNCHANGED <<now, registry, engine>>
         /\ \/ UNCHANGED received
            \/ /\ stage[c] = "send"
               /\ \A i \in DOMAIN received' :
                    \/ i \in DOMAIN received /\ received'[i] = received[i]
                    \/ /\ received'[i].engine = engine
                       /\ received'[i].destination = request[c].destination
<1>1. CASE Send(c)
  <2>1. stage[c] = "send" /\ UNCHANGED <<now, registry, engine>>
    BY <1>1 DEF Send, environment
  <2>2. CASE received' = Append(received, Delivery(c))
    <3>1. PICK d : d = Delivery(c)
      OBVIOUS
    <3>2. /\ received' = Append(received, d)
          /\ d.destination = request[c].destination /\ d.engine = engine
      BY <2>2, <3>1 DEF Delivery
    <3>3. received \in Seq({received[i] : i \in DOMAIN received})
      BY DEF Typed
    <3>4. /\ Len(received) \in Nat /\ DOMAIN received = 1 .. Len(received)
          /\ DOMAIN received' = 1 .. Len(received) + 1
          /\ \A i \in 1 .. Len(received) : received'[i] = received[i]
          /\ received'[Len(received) + 1] = d
      BY <3>2, <3>3
    <3>5. \A i \in DOMAIN received' :
            \/ i \in DOMAIN received /\ received'[i] = received[i]
            \/ i = Len(received) + 1
      BY <3>4
    <3> QED  BY <2>1, <3>2, <3>4, <3>5
  <2> QED  BY <1>1, <2>1, <2>2 DEF Send
<1>2. CASE ~Send(c)
  BY <1>2 DEF Step, VerifyProvenanceOf, VerifyIdentityOf, ValidateDestinationOf,
     EvaluatePolicyFor, Redact, ReEvaluatePolicyFor, Acknowledge, environment, transport
<1> QED  BY <1>1, <1>2

LEMMA EnginesKept ==
  ASSUME NEW E, EnginesFrom(E), Typed, NEW c \in Calls, Step(c)
  PROVE  EnginesFrom(E)'
BY StepDelivers DEF EnginesFrom

\* The gateway judges with the engine it started with.
LEMMA EngineStays == Spec => []EnginesFrom({InitialEngine})
<1>1. Init => EnginesFrom({InitialEngine})
  BY DEF Init, EnginesFrom
<1>2. ASSUME IInv(Calls), EnginesFrom({InitialEngine}), [Next]_vars
      PROVE  EnginesFrom({InitialEngine})'
  <2>1. ASSUME NEW c \in Calls, Step(c) PROVE EnginesFrom({InitialEngine})'
    BY <1>2, <2>1, EnginesKept DEF IInv
  <2>2. ASSUME NEW c \in Calls, NEW r \in Requests, Begin(c, r)
        PROVE  UNCHANGED <<engine, received>>
    BY <2>2 DEF Begin, environment, transport
  <2>3. Tick \/ (\E r \in Replacements : Register(r[1], r[2])) \/ UNCHANGED vars
        => UNCHANGED <<engine, received>>
    BY DEF Tick, Register, vars, environment, transport
  <2> QED  BY <1>2, <2>1, <2>2, <2>3 DEF Next, EnginesFrom
<1> QED  BY <1>1, <1>2, Invariance, PTL DEF Spec

\* When every engine of E has a policy that expires, an expired policy and an
\* expired token release nothing.
LEMMA ExpiredReleasesNothing ==
  ASSUME NEW C \in SUBSET Calls, IInv(C), NEW E, EnginesFrom(E),
         \A e \in E : e.bundle.expires \in Int
  PROVE  ExpiredAtStartReleasesNothing
<1> SUFFICES ASSUME NEW i \in DOMAIN received
             PROVE  LET c == received[i].call IN
                    /\ began[c] < received[i].engine.bundle.expires
                    /\ began[c] < request[c].provenance.expires
                    /\ began[c] < request[c].credential.expires + Leeway
  BY DEF ExpiredAtStartReleasesNothing
<1> DEFINE c == received[i].call
           r == request[c]
           judge == received[i].engine
           span == began[c] .. received[i].at
<1>1. c \in Calls /\ stage[c] # "idle" /\ Authorised(received[i])
  BY DEF IInv, Typed, TypeOK, Arrived
<1>2. r \in Requests /\ began[c] \in Int /\ received[i].at \in Int
  BY <1>1, GatewayAssumption DEF IInv, Typed, TypeOK
<1>3. \A t \in span : t \in Int /\ began[c] <= t
  BY <1>2
<1>4. r.provenance.expires \in Int /\ r.credential.expires \in Int
      /\ judge.bundle.expires \in Int /\ Leeway \in Int
  BY <1>2, GatewayAssumption, LeewayAssumption DEF EnginesFrom
<1> HIDE DEF r, c, judge
<1>5. began[c] < r.provenance.expires
  <2>1. PICK t \in span : VerifyProvenance(r.provenance, t).ok
    BY <1>1 DEF Authorised, r, c
  <2>2. Decode(r.provenance, t, 0, ProvenanceReasons).ok
    BY <2>1, BothParts DEF VerifyProvenance
  <2>3. t < r.provenance.expires + 0
    BY <1>3, <1>4, <2>2, DecodedIsUnexpired
  <2> QED  BY <1>2, <1>3, <1>4, <2>3
<1>6. began[c] < r.credential.expires + Leeway
  <2>1. PICK t \in span : VerifyCredential(r.credential, r.workload, t).ok
    BY <1>1 DEF Authorised, r, c
  <2>2. Decode(r.credential, t, Leeway, CredentialReasons).ok
    BY <2>1, BothParts DEF VerifyCredential
  <2>3. t < r.credential.expires + Leeway
    BY <1>3, <1>4, <2>2, DecodedIsUnexpired
  <2> QED  BY <1>2, <1>3, <1>4, <2>3
<1>7. began[c] < judge.bundle.expires
  <2>1. \E t \in span : \E asked : Evaluate(judge, asked, t).action # "block"
    BY <1>1 DEF Authorised, PolicyReleased, FirstDecision, r, c, judge
  <2>2. PICK t \in span : ~(judge.bundle.expires <= t)
    BY <2>1, ReleasedBeforeExpiry
  <2> QED  BY <1>2, <1>3, <1>4, <2>2
<1> QED  BY <1>5, <1>6, <1>7 DEF r, c, judge

\* A call that begins after the policy, the manifest or the credential has
\* expired delivers nothing, whatever the clock and the other calls do.
THEOREM ExpiredNeverReleases == Spec => []ExpiredAtStartReleasesNothing
<1>1. IInv(Calls) /\ EnginesFrom({InitialEngine}) => ExpiredAtStartReleasesNothing
  BY ExpiredReleasesNothing, GatewayAssumption
<1> QED  BY <1>1, Invariance, EngineStays, PTL

-----------------------------------------------------------------------------
(* What a decision says of a delivery.  The invariant adds, for a call on  *)
(* its way, what its locals say is missing from the body to send; for a    *)
(* delivery, that it is its call's only one and what the decision says of  *)
(* it; and for a receiver, that its counter counts.                        *)

\* Before a redaction nothing has been taken from the body; past it, and
\* past an allow without one, the locals tell what is missing from the body
\* to send, and no removed value is readable in it.
Untouched == {"verify_provenance", "verify_identity", "validate_destination",
              "evaluate_policy", "redact"}

Missing(r, body) == LeafPaths(r.body) \ LeafPaths(body)

Rid(r, body) ==
  /\ body.encodable
  /\ EnsureRemovedValuesAbsent(r.body, body, Missing(r, body))

KnowsMissing(c) ==
  /\ stage[c] \in Untouched => work[c].redacted = {}
  /\ stage[c] \in {"reevaluate_policy"} \cup Releasing =>
       work[c].redacted = Missing(request[c], work[c].body) /\ Rid(request[c], work[c].body)

\* A call has a decision when it is over; one that sent has its delivery
\* from then on, and its decision tells of that delivery.
Tells(c) ==
  /\ decision[c] # Unset => stage[c] = "decided"
  /\ stage[c] = "acknowledge" => DeliveriesOf(c) # {}
  /\ stage[c] = "decided" => (decision[c].sent <=> DeliveriesOf(c) # {})

\* A delivery is the only one of its call, and what its call says of it.
Described(i) ==
  LET c == received[i].call IN
  /\ received[i].destination = request[c].destination
  /\ Rid(request[c], received[i].body)
  /\ \A j \in DOMAIN received : received[j].call = c => j = i
  /\ stage[c] = "acknowledge" => received[i].body = work[c].body
  /\ stage[c] = "decided" =>
       /\ decision[c].action = "allow"
       /\ decision[c].receipt = "received"
       /\ decision[c].body = received[i].body
       /\ decision[c].redacted = Missing(request[c], received[i].body)

DeliveriesTo(d) == {j \in DOMAIN received : received[j].destination = d}

\* The counters of the receivers, and the counts on receipts.
Counted(i) ==
  LET c == received[i].call IN
  stage[c] = "decided" =>
    /\ decision[c].count \in Nat
    /\ Arrival(i) <= decision[c].count
    /\ decision[c].count <= Cardinality(DeliveriesTo(received[i].destination))

Books ==
  /\ \A c \in Calls : KnowsMissing(c) /\ Tells(c)
  /\ \A i \in DOMAIN received : Described(i)

Counters ==
  /\ \A i \in DOMAIN received : Counted(i)
  /\ \A d \in Receivers : counts[d] = Cardinality(DeliveriesTo(d))

\* A step keeps the books, and the counters that are right: those of a process
\* that starts again count from zero.
KeepsBooks == Books' /\ (Counters => Counters')

-----------------------------------------------------------------------------
(* The part of a step that concerns deliveries.                            *)

\* Deliveries are numbered from 1.
LEMMA DeliveryNumbers ==
  ASSUME Typed
  PROVE  /\ Len(received) \in Nat /\ DOMAIN received = 1 .. Len(received)
         /\ IsFiniteSet(DOMAIN received)
<1>1. Len(received) \in Nat /\ DOMAIN received = 1 .. Len(received)
  BY LenProperties DEF Typed
<1> QED  BY <1>1, FS_Interval

LEMMA SomeDeliveries ==
  ASSUME Typed, NEW S \in SUBSET (DOMAIN received)
  PROVE  IsFiniteSet(S) /\ Cardinality(S) \in Nat
BY DeliveryNumbers, FS_Subset, FS_CardinalityType

\* A call that has not sent has no delivery.
LEMMA EarlyHasNone ==
  ASSUME NEW C \in SUBSET Calls, IInv(C), NEW c \in C, stage[c] \notin {"acknowledge", "decided"}
  PROVE  /\ DeliveriesOf(c) = {}
         /\ \A i \in DOMAIN received : received[i].call \in Calls \ {c}
BY DEF IInv, Typed, TypeOK, Arrived, DeliveriesOf

\* Nothing is delivered and only one call, that has not sent, moves.
LEMMA QuietKeeps ==
  ASSUME NEW C \in SUBSET Calls, IInv(C), Books, NEW c \in C, stage[c] \notin {"acknowledge", "decided"},
         UNCHANGED <<received, counts>>,
         \A d \in Calls \ {c} : /\ stage'[d] = stage[d] /\ work'[d] = work[d]
                                /\ request'[d] = request[d] /\ decision'[d] = decision[d],
         KnowsMissing(c)', Tells(c)'
  PROVE  KeepsBooks
<1>1. \A d : DeliveriesOf(d)' = DeliveriesOf(d) /\ DeliveriesTo(d)' = DeliveriesTo(d)
  BY DEF DeliveriesOf, DeliveriesTo
<1>2. ASSUME NEW d \in Calls PROVE KnowsMissing(d)' /\ Tells(d)'
  <2>1. CASE d = c
    BY <2>1
  <2>2. CASE d # c
    BY <1>1, <2>2 DEF Books, KnowsMissing, Tells
  <2> QED  BY <2>1, <2>2
<1>3. ASSUME NEW i \in DOMAIN received
      PROVE  Described(i)' /\ (Counted(i) => Counted(i)')
  <2>1. received[i].call \in Calls \ {c} /\ Described(i)
    BY EarlyHasNone DEF Books
  <2>2. Described(i)'
    BY <2>1 DEF Described
  <2>3. Arrival(i)' = Arrival(i)
    BY DEF Arrival
  <2>4. Counted(i) => Counted(i)'
    BY <1>1, <2>1, <2>3 DEF Counted
  <2> QED  BY <2>2, <2>4
<1>4. Books'
  BY <1>2, <1>3 DEF Books
<1>5. Counters => Counters'
  BY <1>1, <1>3 DEF Counters
<1> QED  BY <1>4, <1>5 DEF KeepsBooks

\* A refusal tells that nothing was sent.
LEMMA RefusalKeeps ==
  ASSUME NEW C \in SUBSET Calls, IInv(C), Books, NEW c \in C, stage[c] \notin {"acknowledge", "decided"},
         NEW outcome, outcome.sent = FALSE, Conclude(c, outcome),
         UNCHANGED <<received, counts, work>>,
         \A d \in Calls \ {c} : request'[d] = request[d]
  PROVE  KeepsBooks
<1>1. /\ stage' = [stage EXCEPT ![c] = "decided"]
      /\ decision' = [decision EXCEPT ![c] = outcome]
  BY DEF Conclude, Goto
<1>2. /\ stage'[c] = "decided" /\ decision'[c] = outcome
      /\ \A d \in Calls \ {c} : stage'[d] = stage[d] /\ decision'[d] = decision[d]
  BY <1>1 DEF IInv, Typed, TypeOK
<1>3. KnowsMissing(c)'
  BY <1>2 DEF KnowsMissing, Untouched, Releasing
<1>4. Tells(c)'
  BY <1>2, EarlyHasNone DEF Tells, DeliveriesOf
<1> QED  BY <1>2, <1>3, <1>4, QuietKeeps

LEMMA BlockKeeps ==
  ASSUME NEW C \in SUBSET Calls, IInv(C), Books, NEW c \in C, stage[c] \notin {"acknowledge", "decided"},
         NEW reason, NEW summary, NEW rule, Block(c, reason, summary, rule),
         UNCHANGED <<transport, request>>
  PROVE  KeepsBooks
<1> DEFINE outcome == Blocked(request[c], "block", reason, summary, rule)
<1>1. outcome.sent = FALSE /\ Conclude(c, outcome) /\ UNCHANGED <<received, counts, work>>
  BY DEF Block, Blocked, transport
<1> HIDE DEF outcome
<1> QED  BY <1>1, RefusalKeeps

\* A call that goes on has no decision yet.
LEMMA ProceedKeeps ==
  ASSUME NEW C \in SUBSET Calls, IInv(C), Books, NEW c \in C, stage[c] \notin {"acknowledge", "decided"},
         NEW next \in Untouched \cup {"reevaluate_policy", "send"}, NEW locals,
         Proceed(c, next, locals), UNCHANGED transport,
         \A d \in Calls \ {c} : request'[d] = request[d],
         next \in Untouched => locals.redacted = {},
         next \notin Untouched =>
           /\ locals.redacted = Missing(request'[c], locals.body)
           /\ Rid(request'[c], locals.body)
  PROVE  KeepsBooks
<1>1. /\ stage' = [stage EXCEPT ![c] = next]
      /\ work' = [work EXCEPT ![c] = locals]
      /\ UNCHANGED <<decision, received, counts>>
  BY DEF Proceed, Goto, transport
<1>2. /\ stage'[c] = next /\ work'[c] = locals
      /\ \A d \in Calls \ {c} : stage'[d] = stage[d] /\ work'[d] = work[d]
  BY <1>1 DEF IInv, Typed, TypeOK, Stages, Untouched
<1>3. KnowsMissing(c)'
  BY <1>2 DEF KnowsMissing, Untouched, Releasing, Missing, Rid
<1>4. Tells(c)'
  BY <1>1, <1>2 DEF Tells, Books, Untouched
<1> QED  BY <1>1, <1>2, <1>3, <1>4, QuietKeeps

\* A body within the limits can be encoded.
LEMMA ValidIsEncodable ==
  ASSUME NEW body, ValidateBody(body).ok
  PROVE  body.encodable
<1> DEFINE c1 == <<"invalid_json_body", ~body.encodable>>
           c2 == <<"json_object_or_array_required", ~body.container>>
           c3 == <<"json_nesting_limit_exceeded", body.depth > MaxDepth>>
           c4 == <<"body_size_limit_exceeded", BodySize(body) > MaxBodyBytes>>
<1>1. Outcome(<<c1, c2, c3, c4>>, "none").ok
  BY Zenon DEF ValidateBody
<1>2. c1 = <<"invalid_json_body", ~body.encodable>>
  OBVIOUS
<1> HIDE DEF c1, c2, c3, c4
<1>3. <<c1, c2, c3, c4>>[1] = c1 /\ 1 \in DOMAIN <<c1, c2, c3, c4>>
  OBVIOUS
<1>4. ~<<c1, c2, c3, c4>>[1][2]
  <2> DEFINE checks == <<c1, c2, c3, c4>>
  <2>1. \A i \in DOMAIN checks : ~checks[i][2]
    BY <1>1, OutcomeOk
  <2> HIDE DEF checks
  <2>2. 1 \in DOMAIN checks
    BY <1>3 DEF checks
  <2>3. ~checks[1][2]
    BY <2>1, <2>2
  <2> QED  BY <2>3 DEF checks
<1>5. ~c1[2]
  BY <1>3, <1>4
<1> QED  BY <1>2, <1>5

\* A redaction that is not refused took every removed value out.
LEMMA RedactionLeavesNone ==
  ASSUME NEW r, NEW permitted, NEW p \in BOOLEAN,
         LET result == RedactToPermittedFields(r.body, permitted) IN
         Outcome(<< <<"redaction_value_survived",
                      ~EnsureRemovedValuesAbsent(r.body, result.body, result.redacted)>>,
                    <<"transformed_payload_invalid", ~ValidateBody(result.body).ok>>,
                    <<"transformed_unknown_provenance", p>> >>, "redacted").ok
  PROVE  LET result == RedactToPermittedFields(r.body, permitted) IN
         result.redacted = Missing(r, result.body) /\ Rid(r, result.body)
<1> DEFINE result == RedactToPermittedFields(r.body, permitted)
           a == ~EnsureRemovedValuesAbsent(r.body, result.body, result.redacted)
           b == ~ValidateBody(result.body).ok
<1>1. result.redacted = Missing(r, result.body)
  BY DEF RedactToPermittedFields, Missing
<1>2. ~a /\ ~b
  <2>1. a \in BOOLEAN /\ b \in BOOLEAN
    OBVIOUS
  <2>2. Outcome(<< <<"redaction_value_survived", a>>, <<"transformed_payload_invalid", b>>,
                   <<"transformed_unknown_provenance", p>> >>, "redacted").ok
    OBVIOUS
  <2> HIDE DEF a, b
  <2> QED  BY <2>1, <2>2, ThreeChecks
<1>3. EnsureRemovedValuesAbsent(r.body, result.body, result.redacted)
  BY <1>2
<1>4. result.body.encodable
  <2>1. ValidateBody(result.body).ok
    BY <1>2
  <2> HIDE DEF result
  <2> QED  BY <2>1, ValidIsEncodable
<1> HIDE DEF result, a, b
<1>5. result.redacted = Missing(r, result.body) /\ Rid(r, result.body)
  BY <1>1, <1>3, <1>4 DEF Rid
<1> QED  BY <1>5 DEF result

\* Nothing is missing from the body that was requested.
LEMMA NothingMissing ==
  ASSUME NEW r, ValidateBody(r.body).ok
  PROVE  Missing(r, r.body) = {} /\ Rid(r, r.body)
<1>1. Missing(r, r.body) = {}
  BY DEF Missing
<1>2. r.body.encodable
  BY ValidIsEncodable
<1> QED  BY <1>1, <1>2 DEF Rid, EnsureRemovedValuesAbsent

-----------------------------------------------------------------------------
LEMMA BeginTells ==
  ASSUME NEW C \in SUBSET Calls, IInv(C), Books, NEW c \in C, NEW r \in Requests, Begin(c, r)
  PROVE  KeepsBooks
<1>1. /\ stage[c] = "idle" /\ UNCHANGED transport
      /\ request' = [request EXCEPT ![c] = r]
  BY DEF Begin
<1>2. \A d \in Calls \ {c} : request'[d] = request[d]
  BY <1>1 DEF IInv, Typed, TypeOK
<1>3. ASSUME NEW reason, NEW hash, UNCHANGED work,
             Conclude(c, [Blocked(r, "unsupported", reason, {}, Unset) EXCEPT !.body = hash])
      PROVE  KeepsBooks
  <2> DEFINE outcome == [Blocked(r, "unsupported", reason, {}, Unset) EXCEPT !.body = hash]
  <2>1. outcome.sent = FALSE
    BY DEF Blocked
  <2> HIDE DEF outcome
  <2>2. Conclude(c, outcome)
    BY <1>3 DEF outcome
  <2> QED  BY <1>1, <1>2, <1>3, <2>1, <2>2, RefusalKeeps DEF transport
<1>4. CASE Proceed(c, "verify_provenance", NoWork)
  <2>1. NoWork.redacted = {} /\ "verify_provenance" \in Untouched
    BY DEF NoWork, Untouched
  <2> QED  BY <1>1, <1>2, <1>4, <2>1, ProceedKeeps
<1>5. CASE ~MethodSupported(r)
  BY <1>3, <1>5 DEF Begin
<1>6. CASE MethodSupported(r) /\ ~ValidateBody(r.body).ok
  BY <1>3, <1>6 DEF Begin
<1>7. CASE MethodSupported(r) /\ ValidateBody(r.body).ok
  BY <1>4, <1>7 DEF Begin
<1> QED  BY <1>5, <1>6, <1>7

LEMMA VerifyProvenanceTells ==
  ASSUME NEW C \in SUBSET Calls, IInv(C), Books, NEW c \in C, VerifyProvenanceOf(c)
  PROVE  KeepsBooks
<1> DEFINE classified == ClassifyPayload(request[c].body, request[c].provenance.labels)
           locals == [work[c] EXCEPT !.classification = classified]
<1>1. stage[c] = "verify_provenance" /\ UNCHANGED <<transport, request>>
  BY DEF VerifyProvenanceOf
<1>2. \/ \E reason, summary : Block(c, reason, summary, Unset)
      \/ Proceed(c, "verify_identity", locals)
  BY DEF VerifyProvenanceOf
<1>3. CASE \E reason, summary : Block(c, reason, summary, Unset)
  BY <1>1, <1>3, BlockKeeps
<1>4. CASE Proceed(c, "verify_identity", locals)
  <2>1. locals.redacted = {}
    <3>1. IsWork(work[c]) /\ work[c].redacted = {}
      BY <1>1 DEF IInv, Typed, Books, KnowsMissing, Untouched
    <3> HIDE DEF classified
    <3> QED  BY <3>1, LocalsClassified
  <2> HIDE DEF locals
  <2> QED  BY <1>1, <1>4, <2>1, ProceedKeeps DEF Untouched
<1> QED  BY <1>2, <1>3, <1>4

LEMMA VerifyIdentityTells ==
  ASSUME NEW C \in SUBSET Calls, IInv(C), Books, NEW c \in C, VerifyIdentityOf(c)
  PROVE  KeepsBooks
<1>1. stage[c] = "verify_identity" /\ UNCHANGED <<transport, request>>
  BY DEF VerifyIdentityOf
<1>2. \/ \E reason, summary : Block(c, reason, summary, Unset)
      \/ Proceed(c, "validate_destination", work[c])
  BY DEF VerifyIdentityOf
<1>3. work[c].redacted = {}
  BY <1>1 DEF Books, KnowsMissing, Untouched
<1> QED  BY <1>1, <1>2, <1>3, BlockKeeps, ProceedKeeps DEF Untouched

LEMMA ValidateDestinationTells ==
  ASSUME NEW C \in SUBSET Calls, IInv(C), Books, NEW c \in C, NEW resolution, ValidateDestinationOf(c, resolution)
  PROVE  KeepsBooks
<1> DEFINE r == request[c]
           entry == EntryOf(r.destination)
           target == CanonicalUrl(r.url, entry)
           locals == [work[c] EXCEPT !.validated = entry, !.resolution = resolution,
                                     !.target = target]
<1>1. stage[c] = "validate_destination" /\ UNCHANGED <<transport, request>>
  BY DEF ValidateDestinationOf
<1>2. \/ \E reason, summary : Block(c, reason, summary, Unset)
      \/ Proceed(c, "evaluate_policy", locals)
  BY DEF ValidateDestinationOf
<1>3. CASE \E reason, summary : Block(c, reason, summary, Unset)
  BY <1>1, <1>3, BlockKeeps
<1>4. CASE Proceed(c, "evaluate_policy", locals)
  <2>1. locals.redacted = {}
    <3>1. IsWork(work[c]) /\ work[c].redacted = {}
      BY <1>1 DEF IInv, Typed, Books, KnowsMissing, Untouched
    <3>2. locals = ValidatedLocals(work[c], entry, resolution, target)
      BY DEF ValidatedLocals
    <3> HIDE DEF locals, entry, target
    <3> QED  BY <3>1, <3>2, LocalsValidated
  <2> HIDE DEF locals
  <2> QED  BY <1>1, <1>4, <2>1, ProceedKeeps DEF Untouched
<1> QED  BY <1>2, <1>3, <1>4

LEMMA EvaluatePolicyTells ==
  ASSUME NEW C \in SUBSET Calls, IInv(C), Books, NEW c \in C, EvaluatePolicyFor(c)
  PROVE  KeepsBooks
<1> DEFINE r == request[c]
           entry == EntryOf(r.destination)
           policy == Evaluate(engine, FirstInput(r, entry.environment, work[c].classification),
                              now)
           known == [work[c] EXCEPT !.registered = entry, !.policy = policy, !.body = r.body]
<1>1. stage[c] = "evaluate_policy" /\ UNCHANGED <<transport, request>>
  BY DEF EvaluatePolicyFor
<1>2. \/ Block(c, policy.reason, work[c].classification.summary, policy.rule)
      \/ Proceed(c, "send", known)
      \/ Proceed(c, "redact", known)
  BY DEF EvaluatePolicyFor
<1>3. known.redacted = {} /\ known.body = r.body
  <2>1. IsWork(work[c]) /\ work[c].redacted = {}
    BY <1>1 DEF IInv, Typed, Books, KnowsMissing, Untouched
  <2>2. known = JudgedLocals(work[c], entry, policy, r.body)
    BY DEF JudgedLocals
  <2> HIDE DEF known, policy, entry, r
  <2> QED  BY <2>1, <2>2, LocalsJudged
<1>4. Missing(r, r.body) = {} /\ Rid(r, r.body)
  BY <1>1, NothingMissing DEF IInv, Journey, PassedLimits, Admitted, Attested, Identified,
     Validated
<1> HIDE DEF known, policy
<1>5. CASE Block(c, policy.reason, work[c].classification.summary, policy.rule)
  BY <1>1, <1>5, BlockKeeps
<1>6. ASSUME NEW next \in {"send", "redact"}, Proceed(c, next, known) PROVE KeepsBooks
  BY <1>1, <1>3, <1>4, <1>6, ProceedKeeps DEF Untouched
<1> QED  BY <1>2, <1>5, <1>6

LEMMA RedactTells ==
  ASSUME NEW C \in SUBSET Calls, IInv(C), Books, NEW c \in C, Redact(c)
  PROVE  KeepsBooks
<1> DEFINE r == request[c]
           result == RedactToPermittedFields(r.body, work[c].policy.permitted)
           classified == ClassifyPayload(result.body, r.provenance.labels)
           outcome == Outcome(
             << <<"redaction_value_survived",
                  ~EnsureRemovedValuesAbsent(r.body, result.body, result.redacted)>>,
                <<"transformed_payload_invalid", ~ValidateBody(result.body).ok>>,
                <<"transformed_unknown_provenance", classified.unknown # {}>> >>, "redacted")
           locals == [work[c] EXCEPT !.body = result.body, !.redacted = result.redacted,
                                     !.classification = classified]
<1>1. stage[c] = "redact" /\ UNCHANGED <<transport, request>>
  BY DEF Redact
<1>2. \/ \E reason, summary, rule : Block(c, reason, summary, rule)
      \/ outcome.ok /\ Proceed(c, "reevaluate_policy", locals)
  BY DEF Redact
<1>3. CASE \E reason, summary, rule : Block(c, reason, summary, rule)
  BY <1>1, <1>3, BlockKeeps
<1>4. CASE outcome.ok /\ Proceed(c, "reevaluate_policy", locals)
  <2>1. result.redacted = Missing(r, result.body) /\ Rid(r, result.body)
    <3> DEFINE p == classified.unknown # {}
    <3>1. p \in BOOLEAN
      OBVIOUS
    <3>2. Outcome(
             << <<"redaction_value_survived",
                  ~EnsureRemovedValuesAbsent(r.body, result.body, result.redacted)>>,
                <<"transformed_payload_invalid", ~ValidateBody(result.body).ok>>,
                <<"transformed_unknown_provenance", p>> >>, "redacted").ok
      BY <1>4
    <3> HIDE DEF p, classified
    <3> QED  BY <3>1, <3>2, RedactionLeavesNone
  <2>2. locals.body = result.body /\ locals.redacted = result.redacted
    <3>1. IsWork(work[c])
      BY DEF IInv, Typed
    <3>2. locals = RedactedLocals(work[c], result.body, result.redacted, classified)
      BY DEF RedactedLocals
    <3> HIDE DEF locals, result, classified
    <3> QED  BY <3>1, <3>2, LocalsRedacted
  <2> HIDE DEF locals, result, outcome
  <2> QED  BY <1>1, <1>4, <2>1, <2>2, ProceedKeeps DEF Untouched
<1> QED  BY <1>2, <1>3, <1>4

LEMMA ReEvaluatePolicyTells ==
  ASSUME NEW C \in SUBSET Calls, IInv(C), Books, NEW c \in C, ReEvaluatePolicyFor(c)
  PROVE  KeepsBooks
<1> DEFINE policy == Evaluate(engine,
                       SecondInput(request[c], work[c].registered.environment,
                                   work[c].classification), now)
           locals == [work[c] EXCEPT !.policy = policy]
<1>1. stage[c] = "reevaluate_policy" /\ UNCHANGED <<transport, request>>
  BY DEF ReEvaluatePolicyFor
<1>2. \/ Block(c, policy.reason, work[c].classification.summary, policy.rule)
      \/ Proceed(c, "send", locals)
  BY DEF ReEvaluatePolicyFor
<1>3. locals.body = work[c].body /\ locals.redacted = work[c].redacted
  <2>1. IsWork(work[c])
    BY DEF IInv, Typed
  <2> HIDE DEF policy
  <2> QED  BY <2>1, LocalsReleased
<1>4. work[c].redacted = Missing(request[c], work[c].body) /\ Rid(request[c], work[c].body)
  BY <1>1 DEF Books, KnowsMissing
<1> HIDE DEF locals, policy
<1> QED  BY <1>1, <1>2, <1>3, <1>4, BlockKeeps, ProceedKeeps DEF Untouched

\* The delivery of a send is the last, and the first of its call.
LEMMA SendTells ==
  ASSUME NEW C \in SUBSET Calls, IInv(C), Books, NEW c \in C, Send(c)
  PROVE  KeepsBooks
<1> DEFINE d == request[c].destination
           delivery == Delivery(c)
<1>1. stage[c] = "send" /\ UNCHANGED <<request, work>>
  BY DEF Send
<1>2. CASE d \notin Receivers
  <2> DEFINE outcome == Released(c, FALSE, "unknown", 0)
  <2>1. Conclude(c, outcome) /\ UNCHANGED <<counts, received>>
    BY <1>2 DEF Send
  <2>2. outcome.sent = FALSE
    BY DEF Released
  <2> HIDE DEF outcome
  <2> QED  BY <1>1, <2>1, <2>2, RefusalKeeps
<1>3. CASE d \in Receivers
  <2>1. /\ counts' = [counts EXCEPT ![d] = @ + 1]
        /\ received' = Append(received, delivery)
        /\ stage' = [stage EXCEPT ![c] = "acknowledge"]
        /\ UNCHANGED <<request, work, decision>>
    BY <1>1, <1>3 DEF Send, Goto
  <2>2. stage'[c] = "acknowledge" /\ \A e \in Calls \ {c} : stage'[e] = stage[e]
    BY <2>1 DEF IInv, Typed, TypeOK
  <2> PICK n : n = Len(received) + 1
    OBVIOUS
  <2>3. /\ DOMAIN received = 1 .. Len(received) /\ Len(received) \in Nat
        /\ DOMAIN received' = 1 .. n
        /\ \A i \in DOMAIN received : received'[i] = received[i]
        /\ received'[n] = delivery
    <3> DEFINE R == {received[i] : i \in DOMAIN received}
    <3>1. received \in Seq(R \cup {delivery})
      BY SeqMonotonic DEF IInv, Typed
    <3> HIDE DEF R, delivery
    <3>2. /\ received' \in Seq(R \cup {delivery}) /\ Len(received') = Len(received) + 1
          /\ \A i \in 1 .. Len(received) : received'[i] = received[i]
          /\ received'[Len(received) + 1] = delivery
      BY <2>1, <3>1, AppendProperties
    <3> QED  BY <3>1, <3>2, LenProperties
  <2>4. delivery.call = c /\ delivery.destination = d /\ delivery.body = work[c].body
    BY DEF Delivery
  <2> HIDE DEF delivery, d
  <2>5. DOMAIN received' = DOMAIN received \cup {n} /\ n \notin DOMAIN received
    BY <2>3
  <2>6. \A i \in DOMAIN received : received[i].call \in Calls \ {c}
    BY <1>1, EarlyHasNone
  <2>7. DeliveriesOf(c)' = {n} /\ \A e \in Calls \ {c} : DeliveriesOf(e)' = DeliveriesOf(e)
    BY <2>3, <2>4, <2>5, <2>6 DEF DeliveriesOf
  <2>8. \A x : DeliveriesTo(x)' = IF x = d THEN DeliveriesTo(x) \cup {n} ELSE DeliveriesTo(x)
    BY <2>3, <2>4, <2>5 DEF DeliveriesTo
  <2>9. ASSUME NEW x
        PROVE  /\ DeliveriesTo(x) \subseteq DOMAIN received
               /\ Cardinality(DeliveriesTo(x)) \in Nat
               /\ Cardinality(DeliveriesTo(x))' =
                    Cardinality(DeliveriesTo(x)) + (IF x = d THEN 1 ELSE 0)
    <3>1. DeliveriesTo(x) \in SUBSET DOMAIN received
      BY DEF DeliveriesTo
    <3>2. IsFiniteSet(DeliveriesTo(x)) /\ Cardinality(DeliveriesTo(x)) \in Nat
      BY <3>1, SomeDeliveries DEF IInv
    <3>3. n \notin DeliveriesTo(x)
      BY <2>5, <3>1
    <3>4. Cardinality(DeliveriesTo(x) \cup {n}) = Cardinality(DeliveriesTo(x)) + 1
      BY <3>2, <3>3, FS_AddElement
    <3>5. CASE x = d
      <4>1. Cardinality(DeliveriesTo(x))' = Cardinality(DeliveriesTo(x) \cup {n})
        BY <2>8, <3>5, Zenon
      <4> QED  BY <3>1, <3>2, <3>4, <3>5, <4>1
    <3>6. CASE x # d
      <4>1. Cardinality(DeliveriesTo(x))' = Cardinality(DeliveriesTo(x))
        BY <2>8, <3>6, Zenon
      <4> QED  BY <3>1, <3>2, <3>6, <4>1
    <3> QED  BY <3>5, <3>6
  <2>10. ASSUME NEW e \in Calls PROVE KnowsMissing(e)' /\ Tells(e)'
    <3>1. CASE e = c
      <4>1. KnowsMissing(c)'
        BY <1>1, <2>1, <2>2 DEF Books, KnowsMissing, Untouched, Releasing, Missing, Rid
      <4>2. Tells(c)'
        BY <1>1, <2>1, <2>2, <2>7 DEF Books, Tells
      <4> QED  BY <3>1, <4>1, <4>2
    <3>2. CASE e # c
      <4>1. stage'[e] = stage[e] /\ DeliveriesOf(e)' = DeliveriesOf(e)
        BY <2>2, <2>7, <3>2
      <4> QED  BY <2>1, <4>1 DEF Books, KnowsMissing, Tells
    <3> QED  BY <3>1, <3>2
  <2>11. ASSUME NEW i \in DOMAIN received
         PROVE  Described(i)' /\ (Counted(i) => Counted(i)')
    <3>1. /\ received[i].call \in Calls \ {c} /\ received'[i] = received[i]
          /\ Described(i)
      BY <2>3, <2>6 DEF Books
    <3>2. Described(i)'
      BY <2>1, <2>2, <2>3, <2>4, <2>5, <3>1 DEF Described
    <3>3. Arrival(i)' = Arrival(i)
      <4>1. 1 .. i \subseteq DOMAIN received
        BY <2>3
      <4>2. {j \in 1 .. i : received'[j].destination = received'[i].destination}
              = {j \in 1 .. i : received[j].destination = received[i].destination}
        BY <2>3, <3>1, <4>1
      <4> QED  BY <4>2 DEF Arrival
    <3>4. ASSUME Counted(i) PROVE Counted(i)'
      <4> PICK x : x = received[i].destination
        OBVIOUS
      <4> DEFINE k == decision[received[i].call].count
                 a == Cardinality(DeliveriesTo(x))
                 b == Cardinality(DeliveriesTo(x))'
      <4>1. a \in Nat /\ b \in Nat /\ a <= b
        BY <2>9
      <4>2. ASSUME stage[received[i].call] = "decided"
            PROVE  k \in Nat /\ Arrival(i) <= k /\ k <= a
        BY <3>4, <4>2 DEF Counted
      <4> HIDE DEF a, b, k
      <4>3. ASSUME stage[received[i].call] = "decided"
            PROVE  k \in Nat /\ Arrival(i) <= k /\ k <= b
        BY <4>1, <4>2, <4>3
      <4> QED  BY <2>1, <2>2, <3>1, <3>3, <4>3 DEF Counted, a, b, k
    <3> QED  BY <3>2, <3>4
  <2>12. Described(n)' /\ Counted(n)'
    <3>1. Rid(request[c], work[c].body)
      BY <1>1 DEF Books, KnowsMissing, Releasing
    <3>2. \A j \in DOMAIN received' : received'[j].call = c => j = n
      BY <2>3, <2>5, <2>6
    <3>3. Described(n)'
      BY <2>1, <2>2, <2>3, <2>4, <3>1, <3>2 DEF Described, d, Rid, Missing
    <3> QED  BY <2>2, <2>3, <2>4, <3>3 DEF Counted
  <2>13. ASSUME Counters, NEW x \in Receivers PROVE counts'[x] = Cardinality(DeliveriesTo(x))'
    BY <1>3, <2>1, <2>9, <2>13 DEF Counters, IInv, Typed, TypeOK
  <2>14. Books'
    BY <2>5, <2>10, <2>11, <2>12 DEF Books
  <2>15. Counters => Counters'
    BY <2>5, <2>11, <2>12, <2>13 DEF Counters
  <2> QED  BY <2>14, <2>15 DEF KeepsBooks
<1> QED  BY <1>2, <1>3

\* The receipt is read after the delivery, and other deliveries may have
\* come in between.
LEMMA AcknowledgeTells ==
  ASSUME NEW C \in SUBSET Calls, IInv(C), Books, NEW c \in C, Acknowledge(c)
  PROVE  KeepsBooks
<1> DEFINE d == request[c].destination
           outcome == Released(c, TRUE, "received", counts[d])
<1>1. /\ stage[c] = "acknowledge"
      /\ stage' = [stage EXCEPT ![c] = "decided"]
      /\ decision' = [decision EXCEPT ![c] = outcome]
      /\ UNCHANGED <<counts, received, request, work>>
  BY DEF Acknowledge, Conclude, Goto
<1>2. /\ stage'[c] = "decided" /\ decision'[c] = outcome
      /\ \A e \in Calls \ {c} : stage'[e] = stage[e] /\ decision'[e] = decision[e]
  BY <1>1 DEF IInv, Typed, TypeOK
<1>3. /\ outcome.sent = TRUE /\ outcome.action = "allow" /\ outcome.receipt = "received"
      /\ outcome.count = counts[d] /\ outcome.body = BodySha256(work[c].body)
      /\ outcome.redacted = work[c].redacted
  BY DEF Released
<1> HIDE DEF outcome
<1>4. \A e : DeliveriesOf(e)' = DeliveriesOf(e) /\ DeliveriesTo(e)' = DeliveriesTo(e)
  BY <1>1 DEF DeliveriesOf, DeliveriesTo
<1>5. ASSUME NEW e \in Calls PROVE KnowsMissing(e)' /\ Tells(e)'
  <2>1. CASE e = c
    <3>1. KnowsMissing(c)'
      BY <1>2 DEF KnowsMissing, Untouched, Releasing
    <3>2. DeliveriesOf(c) # {}
      BY <1>1 DEF Books, Tells
    <3> QED  BY <1>2, <1>3, <1>4, <2>1, <3>1, <3>2 DEF Tells
  <2>2. CASE e # c
    BY <1>1, <1>2, <1>4, <2>2 DEF Books, KnowsMissing, Tells
  <2> QED  BY <2>1, <2>2
<1>6. ASSUME NEW i \in DOMAIN received
      PROVE  Described(i)' /\ (Counters => Counted(i)')
  <2>1. received[i].call \in Calls /\ received[i].destination \in Receivers /\ Described(i)
    BY DEF Books, IInv, Typed, TypeOK
  <2>2. Arrival(i)' = Arrival(i)
    BY <1>1 DEF Arrival
  <2>3. CASE received[i].call = c
    <3>1. received[i].body = work[c].body /\ received[i].destination = d
      BY <1>1, <2>1, <2>3 DEF Described
    <3>2. work[c].redacted = Missing(request[c], work[c].body) /\ work[c].body.encodable
      BY <1>1 DEF Books, KnowsMissing, Releasing, Rid
    <3>3. Described(i)'
      BY <1>1, <1>2, <1>3, <2>1, <2>3, <3>1, <3>2 DEF Described, BodySha256, Missing, Rid
    <3>4. ASSUME Counters PROVE Counted(i)'
      <4>1. counts[d] = Cardinality(DeliveriesTo(d))
        BY <2>1, <3>1, <3>4 DEF Counters
      <4>2. Arrival(i) <= counts[d] /\ counts[d] \in Nat
        <5> DEFINE A == {j \in 1 .. i : received[j].destination = received[i].destination}
        <5>1. A \in SUBSET DeliveriesTo(d) /\ DeliveriesTo(d) \in SUBSET DOMAIN received
          BY <3>1, DeliveryNumbers DEF DeliveriesTo, IInv
        <5>2. IsFiniteSet(DeliveriesTo(d)) /\ Cardinality(DeliveriesTo(d)) \in Nat
          BY <5>1, SomeDeliveries DEF IInv
        <5>3. Cardinality(A) <= Cardinality(DeliveriesTo(d))
          BY <5>1, <5>2, FS_Subset
        <5> QED  BY <4>1, <5>2, <5>3 DEF Arrival
      <4> QED  BY <1>1, <1>2, <1>3, <1>4, <2>2, <2>3, <3>1, <4>1, <4>2 DEF Counted
    <3> QED  BY <3>3, <3>4
  <2>4. CASE received[i].call # c
    <3>1. Described(i)'
      BY <1>1, <1>2, <2>1, <2>4 DEF Described
    <3>2. Counted(i) => Counted(i)'
      BY <1>1, <1>2, <1>4, <2>1, <2>2, <2>4 DEF Counted
    <3> QED  BY <3>1, <3>2 DEF Counters
  <2> QED  BY <2>3, <2>4
<1>7. Books'
  BY <1>1, <1>5, <1>6 DEF Books
<1>8. Counters => Counters'
  BY <1>1, <1>4, <1>6 DEF Counters
<1> QED  BY <1>7, <1>8 DEF KeepsBooks

\* Time, an operator, a crash or nobody moves: no call and no delivery is touched.
LEMMA EnvironmentTells ==
  ASSUME Books, UNCHANGED <<received, stage, request, work, decision>>
  PROVE  Books' /\ (Counters /\ UNCHANGED counts => Counters')
<1>1. UNCHANGED <<received, stage, request, work, decision>>
  OBVIOUS
<1>2. \A i : Described(i)' = Described(i) /\ Arrival(i)' = Arrival(i)
  BY <1>1 DEF Described, Arrival
<1>3. \A d : DeliveriesOf(d)' = DeliveriesOf(d) /\ DeliveriesTo(d)' = DeliveriesTo(d)
  BY <1>1 DEF DeliveriesOf, DeliveriesTo
<1>4. \A i : Counted(i) => Counted(i)'
  BY <1>1, <1>2, <1>3 DEF Counted
<1>5. \A c \in Calls : KnowsMissing(c)' /\ Tells(c)'
  BY <1>1, <1>3 DEF Books, KnowsMissing, Tells
<1>6. Books'
  BY <1>1, <1>2, <1>5 DEF Books
<1>7. Counters /\ UNCHANGED counts => Counters'
  BY <1>1, <1>3, <1>4 DEF Counters
<1> QED  BY <1>6, <1>7

\* One step of a served call, whichever.
LEMMA StepTells ==
  ASSUME NEW C \in SUBSET Calls, IInv(C), Books, NEW c \in C, Step(c)
  PROVE  KeepsBooks
BY VerifyProvenanceTells, VerifyIdentityTells, ValidateDestinationTells, EvaluatePolicyTells,
   RedactTells, ReEvaluatePolicyTells, SendTells, AcknowledgeTells
DEF Step

LEMMA DeliveriesAtStart == Init => Books /\ Counters
<1> SUFFICES ASSUME Init PROVE Books /\ Counters
  OBVIOUS
<1>1. DOMAIN received = {}
  BY DEF Init
<1>2. \A c \in Calls : KnowsMissing(c) /\ Tells(c)
  BY DEF Init, KnowsMissing, Tells, Untouched, Releasing, NoWork
<1>3. \A d : DeliveriesTo(d) = {} /\ Cardinality(DeliveriesTo(d)) = 0
  BY <1>1, FS_EmptySet DEF DeliveriesTo
<1> QED  BY <1>1, <1>2, <1>3 DEF Init, Books, Counters

-----------------------------------------------------------------------------
\* Every step keeps the books of deliveries, decisions and counters.
THEOREM DeliveryInvariance == Spec => [](Books /\ Counters)
<1>1. ASSUME IInv(Calls), Books, Counters, [Next]_vars PROVE Books' /\ Counters'
  <2>1. ASSUME NEW c \in Calls, Step(c) PROVE KeepsBooks
    BY <1>1, <2>1, StepTells
  <2>2. ASSUME NEW c \in Calls, NEW r \in Requests, Begin(c, r) PROVE KeepsBooks
    BY <1>1, <2>2, BeginTells
  <2>3. Tick \/ (\E r \in Replacements : Register(r[1], r[2])) \/ UNCHANGED vars
        => UNCHANGED <<received, stage, request, work, decision, counts>>
    BY DEF Tick, Register, vars, transport, calls
  <2> QED  BY <1>1, <2>1, <2>2, <2>3, EnvironmentTells DEF Next, KeepsBooks
<1> QED  BY <1>1, DeliveriesAtStart, Invariance, PTL DEF Spec

LEMMA BooksTellDeliveries == Books => DecisionTellsDelivery
<1>1. ASSUME Books, NEW c \in Calls
      PROVE  Cardinality(DeliveriesOf(c)) <= 1
  <2>1. DeliveriesOf(c) = {} \/ \E i : DeliveriesOf(c) = {i}
    BY <1>1 DEF Books, Described, DeliveriesOf
  <2>2. Cardinality(DeliveriesOf(c)) = 0 \/ Cardinality(DeliveriesOf(c)) = 1
    BY <2>1, FS_EmptySet, FS_Singleton
  <2> QED  BY <2>2
<1>2. ASSUME Books, NEW c \in Calls, decision[c] # Unset
      PROVE  /\ decision[c].sent <=> DeliveriesOf(c) # {}
             /\ \A i \in DeliveriesOf(c) :
                  /\ decision[c].action = "allow"
                  /\ decision[c].receipt = "received"
                  /\ decision[c].body = received[i].body
                  /\ decision[c].redacted =
                       LeafPaths(request[c].body) \ LeafPaths(received[i].body)
  <2>1. stage[c] = "decided" /\ Tells(c)
    BY <1>2 DEF Books, Tells
  <2>2. \A i \in DeliveriesOf(c) : Described(i) /\ received[i].call = c
    BY <1>2 DEF Books, DeliveriesOf
  <2> QED  BY <2>1, <2>2 DEF Tells, Described, Missing
<1> QED  BY <1>1, <1>2 DEF DecisionTellsDelivery

\* The decision of every call tells what the receiver has: sent exactly when
\* one body arrived, once, with that body's digest and redacted fields
\* (gateway.py 346-395).
THEOREM DecisionsTellDeliveries == Spec => []DecisionTellsDelivery
BY BooksTellDeliveries, DeliveryInvariance, PTL

\* The count on a receipt includes its own delivery and none that has not
\* happened, however the sends of concurrent calls interleave
\* (gateway.py 131-152: the increment and the read are two statements).
THEOREM ReceiptsCountDeliveries == Spec => []ReceiptCountsDelivery
<1>1. ASSUME IInv(Calls), Books, Counters,
             NEW i \in DOMAIN received, decision[received[i].call] # Unset
      PROVE  /\ Arrival(i) <= decision[received[i].call].count
             /\ decision[received[i].call].count <=
                  Cardinality({j \in DOMAIN received :
                                 received[j].destination = received[i].destination})
  <2>1. received[i].call \in Calls
    BY <1>1 DEF IInv, Typed, TypeOK
  <2>2. stage[received[i].call] = "decided"
    BY <1>1, <2>1 DEF Books, Tells
  <2> QED  BY <1>1, <2>2 DEF Counters, Counted, DeliveriesTo
<1>2. IInv(Calls) /\ Books /\ Counters => ReceiptCountsDelivery
  BY <1>1 DEF ReceiptCountsDelivery
<1> QED  BY <1>2, Invariance, DeliveryInvariance, PTL

\* What the books say of a delivery keeps the removed values out of its body.
LEMMA BooksKeepRemovedOut ==
  ASSUME NEW C \in SUBSET Calls, IInv(C), Books
  PROVE  RemovedValuesStayBehind
<1>1. ASSUME NEW i \in DOMAIN received,
             NEW k \in DOMAIN request[received[i].call].body.leaves,
             LET original == request[received[i].call].body
                 leaf     == original.leaves[k]
             IN  /\ leaf.path \in LeafPaths(original) \ LeafPaths(received[i].body)
                 /\ leaf.value \notin Unsearchable
                 /\ \A j \in DOMAIN original.leaves : original.leaves[j].path = leaf.path => j <= k
      PROVE  \A text \in Texts(received[i].body) :
               LET value == request[received[i].call].body.leaves[k].value IN
               text # value /\ <<value, text>> \notin Within
  <2> DEFINE r == request[received[i].call]
             leaf == r.body.leaves[k]
             at == {j \in DOMAIN r.body.leaves : r.body.leaves[j].path = leaf.path}
             last == CHOOSE j \in at : \A m \in at : m <= j
  <2>1. EnsureRemovedValuesAbsent(r.body, received[i].body, Missing(r, received[i].body))
    BY <1>1 DEF Books, Described, Rid
  <2>2. leaf.path \in Missing(r, received[i].body) /\ leaf \in Leaves(r.body)
    BY <1>1 DEF Missing, Leaves, ToSet
  <2>3. DOMAIN r.body.leaves \subseteq Int
    <3>1. IsBody(r.body)
      BY <1>1, GatewayAssumption DEF IInv, Typed, TypeOK, Arrived
    <3>2. r.body.leaves \in Seq(Range(r.body.leaves))
      BY <3>1 DEF IsBody
    <3> QED  BY <3>2, LenProperties
  <2>4. k \in at /\ \A m \in at : m <= k
    BY <1>1
  <2>5. last = k
    <3> HIDE DEF leaf, r
    <3>1. at \subseteq Int
      BY <2>3
    <3> HIDE DEF at
    <3>2. last \in at /\ \A m \in at : m <= last
      BY <2>4
    <3> HIDE DEF last
    <3> QED  BY <2>4, <3>1, <3>2
  <2>6. PathValue(r.body, leaf.path) = leaf.value
    BY <2>5 DEF PathValue
  <2>7. leaf.value \in Unsearchable \/ ~Occurs(leaf.value, received[i].body)
    BY <2>1, <2>2, <2>6 DEF EnsureRemovedValuesAbsent
  <2> QED  BY <1>1, <2>7 DEF Occurs
<1> QED  BY <1>1 DEF RemovedValuesStayBehind

\* The value of a leaf that a redaction took away and reported, of list elements under
\* one path the last, is in no text of what a receiver got (transformations.py 59-105,
\* gateway.py 292-339).
THEOREM RemovedValuesNeverArrive == Spec => []RemovedValuesStayBehind
<1>1. IInv(Calls) /\ Books => RemovedValuesStayBehind
  BY BooksKeepRemovedOut
<1> QED  BY <1>1, Invariance, DeliveryInvariance, PTL

-----------------------------------------------------------------------------
(* What stays inside.  A policy guards the outside when one of its rules   *)
(* blocks confidential and restricted data there whatever else is asked.   *)

BlocksOutside(rule) ==
  /\ rule.action = "block"
  /\ Selects(rule.environment, "external")
  /\ {"confidential", "restricted"} \subseteq rule.classes
  /\ rule.workload = Unset /\ rule.destination = Unset /\ rule.purpose = Unset
  /\ rule.operation = Unset /\ rule.confidence = Unset /\ rule.transformed = Unset
  /\ rule.fields = {} /\ rule.minGroup = Unset

GuardsOutside(bundle) ==
  WellFormed(bundle.rules) /\ \E i \in DOMAIN bundle.rules : BlocksOutside(bundle.rules[i])

\* Such a policy blocks whatever is confidential and goes outside.
LEMMA OutsideIsBlocked ==
  ASSUME NEW judge, GuardsOutside(judge.bundle), NEW asked, NEW t,
         asked.environment = "external",
         NEW class \in {"confidential", "restricted"}, class \in asked.classes
  PROVE  Evaluate(judge, asked, t).action = "block"
<1>1. PICK i \in DOMAIN judge.bundle.rules : BlocksOutside(judge.bundle.rules[i])
  BY DEF GuardsOutside
<1>2. Matches(judge.bundle.rules[i], asked)
  BY <1>1 DEF BlocksOutside, Matches, Selects
<1>3. i \in Matching(judge.bundle.rules, asked)
  BY <1>2 DEF Matching
<1>4. judge.bundle.rules[i].action = "block" /\ WellFormed(judge.bundle.rules)
  BY <1>1 DEF BlocksOutside, GuardsOutside
<1> QED  BY <1>3, <1>4, BlockWins

\* The class of every leaf of a body whose fields are all labelled is among
\* those the policy is asked about.
LEMMA ClassIsKnown ==
  ASSUME NEW r, Classified(r, r.body).unknown = {}, NEW leaf \in Leaves(r.body)
  PROVE  EffectiveClass(r.provenance.labels, leaf.path) \in Classified(r, r.body).summary
<1>1. leaf.path \in LeafPaths(r.body)
  BY DEF LeafPaths
<1>2. LabelsFor(r.provenance.labels, leaf.path) # {}
  BY <1>1 DEF Classified, ClassifyPayload
<1> QED  BY <1>1, <1>2 DEF Classified, ClassifyPayload

\* What a policy releases is the body of the request or a part of it, and its
\* first judgement of that body was no block.
LEMMA ReleasedIsPart ==
  ASSUME NEW judge, NEW r, NEW body, NEW place, NEW span, IsBody(r.body),
         PolicyReleased(judge, r, body, place, span)
  PROVE  /\ Leaves(body) \subseteq Leaves(r.body)
         /\ \E t \in span : FirstDecision(judge, r, place, t).action # "block"
<1>1. CASE /\ body = r.body
           /\ \E t \in span : FirstDecision(judge, r, place, t).action = "allow"
  BY <1>1
<1>2. CASE \E t \in span :
             /\ FirstDecision(judge, r, place, t).action = "redact"
             /\ body = RedactToPermittedFields(r.body,
                         FirstDecision(judge, r, place, t).permitted).body
  <2>1. PICK t \in span :
             /\ FirstDecision(judge, r, place, t).action = "redact"
             /\ body = RedactToPermittedFields(r.body,
                         FirstDecision(judge, r, place, t).permitted).body
    BY <1>2
  <2>2. PICK fields : fields = FirstDecision(judge, r, place, t).permitted
    OBVIOUS
  <2>3. body = FilterValue(r.body, fields)
    BY <2>1, <2>2 DEF RedactToPermittedFields
  <2>4. Leaves(body) \subseteq Leaves(r.body)
    BY <2>3, FilterFacts
  <2> QED  BY <2>1, <2>4
<1> QED  BY <1>1, <1>2 DEF PolicyReleased

\* Under engines whose policies guard the outside nothing confidential is there.
LEMMA GuardKeepsInside ==
  ASSUME NEW E, \A e \in E : GuardsOutside(e.bundle),
         NEW C \in SUBSET Calls, IInv(C), EnginesFrom(E)
  PROVE  ConfidentialStaysInside
<1>1. ASSUME NEW i \in DOMAIN received,
             \A entry \in {received[i].validated} \cup held[received[i].call].after :
               entry.environment = "external",
             NEW k \in DOMAIN received[i].body.leaves
      PROVE  EffectiveClass(request[received[i].call].provenance.labels,
                            received[i].body.leaves[k].path) \notin {"confidential", "restricted"}
  <2> DEFINE r == request[received[i].call]
             judge == received[i].engine
             place == received[i].registered.environment
             span == began[received[i].call] .. received[i].at
             leaf == received[i].body.leaves[k]
             class == EffectiveClass(r.provenance.labels, leaf.path)
  <2>1. GuardsOutside(judge.bundle)
    BY <1>1 DEF EnginesFrom
  <2>2. place = "external"
    BY <1>1 DEF IInv, Arrived, AsRegistered
  <2>3. IsBody(r.body)
    <3>1. received[i].call \in Calls /\ stage[received[i].call] \in {"acknowledge", "decided"}
      BY <1>1 DEF IInv, Arrived, Typed, TypeOK
    <3> QED  BY <3>1, GatewayAssumption DEF IInv, Typed, TypeOK
  <2>4. /\ Classified(r, r.body).unknown = {}
        /\ PolicyReleased(judge, r, received[i].body, place, span)
    BY <1>1 DEF IInv, Arrived, Authorised
  <2>5. /\ Leaves(received[i].body) \subseteq Leaves(r.body)
        /\ \E t \in span : FirstDecision(judge, r, place, t).action # "block"
    <3> HIDE DEF r, span, judge, place
    <3> QED  BY <2>3, <2>4, ReleasedIsPart, Zenon
  <2>6. leaf \in Leaves(received[i].body)
    BY <1>1 DEF Leaves, ToSet
  <2>7. class \in Classified(r, r.body).summary
    BY <2>4, <2>5, <2>6, ClassIsKnown
  <2>8. PICK t : FirstDecision(judge, r, place, t).action # "block"
    BY <2>5
  <2>9. PICK asked : asked = FirstInput(r, place, Classified(r, r.body))
    OBVIOUS
  <2>10. Evaluate(judge, asked, t).action # "block"
    BY <2>8, <2>9 DEF FirstDecision
  <2>11. asked.environment = "external" /\ class \in asked.classes
    BY <2>2, <2>7, <2>9 DEF FirstInput, PolicyInput
  <2> HIDE DEF class
  <2>12. class \notin {"confidential", "restricted"}
    <3> HIDE DEF judge
    <3> QED  BY <2>1, <2>10, <2>11, OutsideIsBlocked
  <2> QED  BY <2>12 DEF class
<1> QED  BY <1>1 DEF ConfidentialStaysInside

\* Under a policy that guards the outside no confidential or restricted leaf reaches
\* a receiver that was outside when it was validated and until it was judged, whole
\* or as part of what a redaction left, whatever else is registered meanwhile
\* (gateway.py 218-330, policy.py 152-186).
THEOREM GuardedStaysInside ==
  ASSUME GuardsOutside(InitialEngine.bundle)
  PROVE  Spec => []ConfidentialStaysInside
<1>1. IInv(Calls) /\ EnginesFrom({InitialEngine}) => ConfidentialStaysInside
  BY GuardKeepsInside
<1> QED  BY <1>1, Invariance, EngineStays, PTL

\* The policy of the default application guards the outside, whenever it
\* expires (app.py 224-231).
LEMMA DefaultGuardsOutside ==
  ASSUME NEW expires PROVE GuardsOutside(DefaultPolicy(expires))
<1>1. DefaultPolicy(expires).rules = DefaultRules
  BY DEF DefaultPolicy, SignBundle
<1>2. PICK a, b, c, d :
        /\ DefaultRules = <<a, b, c, d>>
        /\ a.priority = 100 /\ a.id = 2 /\ a.action = "allow"
        /\ b.priority = 90 /\ b.id = 4 /\ b.action = "redact"
        /\ c.priority = 95 /\ c.id = 1 /\ c.action = "allow"
        /\ d.priority = 80 /\ d.id = 3 /\ BlocksOutside(d)
  <2> DEFINE rules == DefaultRules
  <2>1. rules[1].priority = 100 /\ rules[1].id = 2 /\ rules[1].action = "allow"
    BY DEF DefaultRules, OpenRule
  <2>2. rules[2].priority = 90 /\ rules[2].id = 4 /\ rules[2].action = "redact"
    BY DEF DefaultRules, OpenRule
  <2>3. rules[3].priority = 95 /\ rules[3].id = 1 /\ rules[3].action = "allow"
    BY DEF DefaultRules, OpenRule
  <2>4. rules[4].priority = 80 /\ rules[4].id = 3 /\ rules[4].action = "block"
    BY DEF DefaultRules, OpenRule
  <2>5. rules[4].environment = "external" /\ rules[4].classes = {"confidential", "restricted"}
    BY DEF DefaultRules, OpenRule
  <2>6. /\ rules[4].workload = Unset /\ rules[4].destination = Unset /\ rules[4].purpose = Unset
        /\ rules[4].operation = Unset /\ rules[4].confidence = Unset
        /\ rules[4].transformed = Unset /\ rules[4].fields = {} /\ rules[4].minGroup = Unset
    BY DEF DefaultRules, OpenRule
  <2>7. rules = <<rules[1], rules[2], rules[3], rules[4]>>
    BY DEF DefaultRules
  <2>8. BlocksOutside(rules[4])
    <3> HIDE DEF rules
    <3> QED  BY <2>4, <2>5, <2>6 DEF BlocksOutside, Selects
  <2> HIDE DEF rules
  <2>9. rules = DefaultRules
    BY DEF rules
  <2> QED  BY <2>1, <2>2, <2>3, <2>4, <2>7, <2>8, <2>9
<1>3. Len(DefaultRules) = 4 /\ DOMAIN DefaultRules = 1 .. 4
  BY <1>2
<1>4. WellFormed(DefaultRules)
  <2>1. \A i \in 1 .. 4 :
          /\ DefaultRules[i].priority \in Int /\ DefaultRules[i].id \in Int
          /\ DefaultRules[i].action \in PolicyAction
    BY <1>2 DEF PolicyAction, BlocksOutside
  <2> QED  BY <1>3, <2>1 DEF WellFormed
<1>5. 4 \in DOMAIN DefaultRules /\ BlocksOutside(DefaultRules[4])
  BY <1>2, <1>3
<1> QED  BY <1>1, <1>4, <1>5 DEF GuardsOutside

\* The policy of the default application keeps confidential data inside, for every
\* set of calls, requests and registrations (README: the block scenario).
THEOREM ConfidentialKeptInside ==
  ASSUME NEW expires, InitialEngine = DefaultEngine(expires)
  PROVE  Spec => []ConfidentialStaysInside
<1>1. GuardsOutside(InitialEngine.bundle)
  BY DefaultGuardsOutside DEF DefaultEngine
<1> QED  BY <1>1, GuardedStaysInside
=============================================================================
