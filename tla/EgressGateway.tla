--------------------------- MODULE EgressGateway ---------------------------
(***************************************************************************)
(* Gateway.authorize_and_send (tracelock_services/gateway.py) under        *)
(* concurrent calls, with the receivers behind it.                         *)
(*                                                                         *)
(* A call is one invocation on a thread of the server's pool.  It runs     *)
(* from one read or write of what calls share to the next in one step:     *)
(* they share the clock, the destination registry, the resolver and the    *)
(* receivers.  The decision id of a call, fresh in the code, is the call.  *)
(***************************************************************************)
EXTENDS Payloads, Credentials, Destinations, FiniteSets

CONSTANTS Calls,            \* the invocations
          Requests,         \* the requests that may be made, by any call
          InitialEngine,    \* the policy engine the process starts with
          InitialRegistry,  \* destination -> its entry, or Unregistered
          Replacements,     \* <<destination, entry>> an operator may register
          Receivers,        \* destinations the transport knows
          MaxTime           \* bound on the clock

ASSUME GatewayAssumption ==
  /\ MaxTime \in Nat
  /\ Receivers \subseteq DOMAIN InitialRegistry
  /\ \A r \in Replacements : r[1] \in DOMAIN InitialRegistry /\ r[2] # Unregistered
  /\ InitialEngine.bundle.expires \in Int
  /\ \A r \in Requests : r.provenance.expires \in Int /\ r.credential.expires \in Int
  /\ \A r \in Requests : IsBody(r.body)

VARIABLES
  now,        \* the clock every check reads
  registry,   \* DestinationRegistry._destinations
  engine,     \* Gateway.policy_engine
  counts,     \* InMemoryReceiverTransport._counts
  lastBody,   \* InMemoryReceiverTransport._last_body_sha256
  stage,      \* call -> what it does next
  request,    \* call -> the request it serves
  work,       \* call -> its local variables
  decision,   \* call -> the GatewayDecision it returned, Unset before
  received,   \* history: what reached a receiver, in order
  began,      \* history: call -> when it began
  held        \* history: call -> the entries its destination had, before it was
              \* validated since the call began, and after that until it was judged

environment == <<now, registry, engine>>
transport == <<counts, lastBody, received>>
calls == <<stage, request, work, decision, began, held>>
vars == <<environment, transport, calls>>

Destinations == DOMAIN InitialRegistry

Stages == {"idle", "verify_provenance", "verify_identity", "validate_destination",
           "evaluate_policy", "redact", "reevaluate_policy", "send", "acknowledge", "decided"}

\* The stages before the destination is looked up for the first time.
Unvalidated == {"verify_provenance", "verify_identity", "validate_destination"}

\* The locals: the classification of the body; the entry that was validated, what
\* its host resolved to and the URL to use; the entry that was registered after
\* that, the last policy decision, the body to send and the fields a redaction
\* took from it.
NoWork == [classification |-> Unset, validated |-> Unset, resolution |-> Unset,
           target |-> Unset, registered |-> Unset, policy |-> Unset, body |-> Unset,
           redacted |-> {}]

NothingHeld == [before |-> {}, after |-> {}]

Init ==
  /\ now = 0
  /\ registry = InitialRegistry
  /\ engine = InitialEngine
  /\ counts = [d \in Receivers |-> 0]
  /\ lastBody = [d \in Receivers |-> NoHash]
  /\ stage = [c \in Calls |-> "idle"]
  /\ request = [c \in Calls |-> Unset]
  /\ work = [c \in Calls |-> NoWork]
  /\ decision = [c \in Calls |-> Unset]
  /\ received = <<>>
  /\ began = [c \in Calls |-> 0]
  /\ held = [c \in Calls |-> NothingHeld]

-----------------------------------------------------------------------------
\* DestinationRegistry.get
EntryOf(d) == IF d \in Destinations THEN registry[d] ELSE Unregistered

Goto(c, next) == stage' = [stage EXCEPT ![c] = next]

Conclude(c, outcome) ==
  /\ decision' = [decision EXCEPT ![c] = outcome]
  /\ Goto(c, "decided")

\* _blocked: nothing was sent and no receipt was observed.
Blocked(r, action, reason, summary, rule) ==
  [action |-> action, reason |-> reason, sent |-> FALSE, receipt |-> "not_observed",
   count |-> 0, body |-> BodySha256(r.body), original |-> NoHash,
   summary |-> summary, rule |-> rule, redacted |-> {}]

Block(c, reason, summary, rule) ==
  /\ Conclude(c, Blocked(request[c], "block", reason, summary, rule))
  /\ UNCHANGED work

\* The call goes on to its next stage with these locals.
Proceed(c, next, locals) ==
  /\ work' = [work EXCEPT ![c] = locals]
  /\ Goto(c, next)
  /\ UNCHANGED decision

PolicyInput(r, environmentOf, classes, paths, transformed) ==
  [workload |-> r.workload, destination |-> r.destination, environment |-> environmentOf,
   purpose |-> r.purpose, operation |-> r.operation, classes |-> classes, paths |-> paths,
   confidence |-> "trusted", count |-> 1, transformed |-> transformed]

\* The fields of the first evaluation are those the manifest labels, of the
\* second those left in the body.
FirstInput(r, environmentOf, classification) ==
  PolicyInput(r, environmentOf, classification.summary,
              {label.path : label \in ToSet(r.provenance.labels)}, FALSE)

SecondInput(r, environmentOf, classification) ==
  PolicyInput(r, environmentOf, classification.summary, classification.fields, TRUE)

-----------------------------------------------------------------------------
MethodSupported(r) == r.method \in {"POST", "PUT", "PATCH"}

\* The call is made: method and body are checked before anything is looked up.
Begin(c, r) ==
  LET limit == ValidateBody(r.body)
      refuse(reason, hash) ==
        /\ Conclude(c, [Blocked(r, "unsupported", reason, {}, Unset) EXCEPT !.body = hash])
        /\ UNCHANGED work
  IN
  /\ stage[c] = "idle"
  /\ request' = [request EXCEPT ![c] = r]
  /\ began' = [began EXCEPT ![c] = now]
  /\ held' = [held EXCEPT ![c] = [before |-> {EntryOf(r.destination)}, after |-> {}]]
  /\ \/ ~MethodSupported(r) /\ refuse("unsupported_http_method", NoHash)
     \/ MethodSupported(r) /\ ~limit.ok /\ refuse(limit.reason, BodySha256(r.body))
     \/ MethodSupported(r) /\ limit.ok /\ Proceed(c, "verify_provenance", NoWork)
  /\ UNCHANGED <<environment, transport>>

\* A body with a field no label covers is as good as one without provenance.
VerifyProvenanceOf(c) ==
  /\ stage[c] = "verify_provenance"
  /\ \E verified \in {VerifyProvenance(request[c].provenance, now)},
        classified \in {ClassifyPayload(request[c].body, request[c].provenance.labels)} :
       \/ ~verified.ok /\ Block(c, verified.reason, {}, Unset)
       \/ verified.ok /\ classified.unknown # {}
            /\ Block(c, "unknown_provenance", classified.summary, Unset)
       \/ verified.ok /\ classified.unknown = {}
            /\ Proceed(c, "verify_identity", [work[c] EXCEPT !.classification = classified])
  /\ UNCHANGED <<environment, transport, request, began, held>>

VerifyIdentityOf(c) ==
  LET identity == VerifyCredential(request[c].credential, request[c].workload, now) IN
  /\ stage[c] = "verify_identity"
  /\ \/ ~identity.ok /\ Block(c, identity.reason, work[c].classification.summary, Unset)
     \/ identity.ok /\ Proceed(c, "validate_destination", work[c])
  /\ UNCHANGED <<environment, transport, request, began, held>>

\* Mutated form (of ValidateDestinationOf): the addresses are not looked at.
ValidateStructureOf(c, resolution) ==
  LET r     == request[c]
      entry == EntryOf(r.destination)
      valid == ValidateDestination(entry, r.url, "public")
  IN
  /\ stage[c] = "validate_destination"
  /\ \/ ~valid.ok /\ Block(c, valid.reason, work[c].classification.summary, Unset)
     \/ valid.ok /\ Proceed(c, "evaluate_policy",
                            [work[c] EXCEPT !.validated = entry, !.resolution = resolution,
                                            !.target = CanonicalUrl(r.url, entry)])
  /\ UNCHANGED <<environment, transport, request, began, held>>

\* The name may resolve differently for every call.
ValidateDestinationOf(c, resolution) ==
  LET r     == request[c]
      entry == EntryOf(r.destination)
      valid == ValidateDestination(entry, r.url, resolution)
  IN
  /\ stage[c] = "validate_destination"
  /\ \/ ~valid.ok /\ Block(c, valid.reason, work[c].classification.summary, Unset)
     \/ valid.ok /\ Proceed(c, "evaluate_policy",
                            [work[c] EXCEPT !.validated = entry, !.resolution = resolution,
                                            !.target = CanonicalUrl(r.url, entry)])
  /\ UNCHANGED <<environment, transport, request, began, held>>

\* Mutated form (of EvaluatePolicyFor): the entry is that of the start, which a
\* registration may long have replaced.
EvaluatePolicyAtStart(c) ==
  LET r     == request[c]
      entry == InitialRegistry[r.destination]
  IN
  /\ stage[c] = "evaluate_policy"
  /\ entry # Unregistered
  /\ \E policy \in
        {Evaluate(engine, FirstInput(r, entry.environment, work[c].classification), now)} :
       LET known == [work[c] EXCEPT !.registered = entry, !.policy = policy, !.body = r.body]
       IN  \/ policy.action = "block"
                /\ Block(c, policy.reason, work[c].classification.summary, policy.rule)
           \/ policy.action = "allow" /\ Proceed(c, "send", known)
           \/ policy.action = "redact" /\ Proceed(c, "redact", known)
  /\ UNCHANGED <<environment, transport, request, began, held>>

\* The entry is looked up again, and may be another than the one validated;
\* it is there, since entries are replaced and never removed.
EvaluatePolicyFor(c) ==
  LET r     == request[c]
      entry == EntryOf(r.destination)
  IN
  /\ stage[c] = "evaluate_policy"
  /\ \E policy \in
        {Evaluate(engine, FirstInput(r, entry.environment, work[c].classification), now)} :
       LET known == [work[c] EXCEPT !.registered = entry, !.policy = policy, !.body = r.body]
       IN  \/ policy.action = "block"
                /\ Block(c, policy.reason, work[c].classification.summary, policy.rule)
           \/ policy.action = "allow" /\ Proceed(c, "send", known)
           \/ policy.action = "redact" /\ Proceed(c, "redact", known)
  /\ UNCHANGED <<environment, transport, request, began, held>>

\* The body is rebuilt from the permitted fields; a removed value that is
\* still in it, a limit it breaks or a field without a label ends the call.
\* (The limits were met before, and what is left is no larger.)
Redact(c) ==
  LET r == request[c] IN
  /\ stage[c] = "redact"
  /\ \E result \in {RedactToPermittedFields(r.body, work[c].policy.permitted)} :
     \E classified \in {ClassifyPayload(result.body, r.provenance.labels)} :
       LET intact  == /\ EnsureRemovedValuesAbsent(r.body, result.body, result.redacted)
                      /\ ValidateBody(result.body).ok
           outcome == Outcome(
             << <<"redaction_value_survived",
                  ~EnsureRemovedValuesAbsent(r.body, result.body, result.redacted)>>,
                <<"transformed_payload_invalid", ~ValidateBody(result.body).ok>>,
                <<"transformed_unknown_provenance", classified.unknown # {}>> >>, "redacted")
       IN  \/ ~outcome.ok
                /\ Block(c, outcome.reason,
                         IF intact THEN classified.summary ELSE work[c].classification.summary,
                         work[c].policy.rule)
           \/ outcome.ok
                /\ Proceed(c, "reevaluate_policy",
                           [work[c] EXCEPT !.body = result.body, !.redacted = result.redacted,
                                           !.classification = classified])
  /\ UNCHANGED <<environment, transport, request, began, held>>

\* What is left is judged once more, as transformed, and only an allow
\* releases it.
ReEvaluatePolicyFor(c) ==
  /\ stage[c] = "reevaluate_policy"
  /\ \E policy \in
        {Evaluate(engine, SecondInput(request[c], work[c].registered.environment,
                                      work[c].classification), now)} :
       \/ policy.action # "allow"
            /\ Block(c, policy.reason, work[c].classification.summary, policy.rule)
       \/ policy.action = "allow"
            /\ Proceed(c, "send", [work[c] EXCEPT !.policy = policy])
  /\ UNCHANGED <<environment, transport, request, began, held>>

\* Mutated forms (of Released): the digest is that of the body requested; the
\* action is the policy's.
ReleasedAsRequested(c, sent, receipt, count) ==
  [action |-> "allow", reason |-> "policy_allowed", sent |-> sent, receipt |-> receipt,
   count |-> count, body |-> BodySha256(request[c].body),
   original |-> BodySha256(request[c].body), summary |-> work[c].classification.summary,
   rule |-> work[c].policy.rule, redacted |-> work[c].redacted]

ReleasedAsRedacted(c, sent, receipt, count) ==
  [ReleasedAsRequested(c, sent, receipt, count) EXCEPT
     !.action = IF work[c].redacted = {} THEN "allow" ELSE "redact"]

\* The GatewayDecision of a call that handed its body to the transport.
Released(c, sent, receipt, count) ==
  [action |-> "allow", reason |-> "policy_allowed", sent |-> sent, receipt |-> receipt,
   count |-> count, body |-> BodySha256(work[c].body), original |-> BodySha256(request[c].body),
   summary |-> work[c].classification.summary, rule |-> work[c].policy.rule,
   redacted |-> work[c].redacted]

\* What a receiver gets, and how the call came to send it.
Delivery(c) ==
  [call |-> c, destination |-> request[c].destination, at |-> now, engine |-> engine,
   url |-> work[c].target, body |-> work[c].body, validated |-> work[c].validated,
   resolution |-> work[c].resolution, registered |-> work[c].registered]

\* Mutated form (of Send): a delivery whose receipt is slow may be tried again.
SendAgain(c) ==
  LET d == request[c].destination IN
  /\ stage[c] = "send"
  /\ \/ d \notin Receivers
          /\ Conclude(c, Released(c, FALSE, "unknown", 0))
          /\ UNCHANGED <<counts, received>>
     \/ d \in Receivers
          /\ counts' = [counts EXCEPT ![d] = @ + 1]
          /\ received' = Append(received, Delivery(c))
          /\ (Goto(c, "acknowledge") \/ UNCHANGED stage)
          /\ UNCHANGED decision
  /\ UNCHANGED <<environment, lastBody, request, work, began, held>>

\* transport.send, first statement: a receiver that is not known gets nothing;
\* a known one gets the body and counts it.
Send(c) ==
  LET d == request[c].destination IN
  /\ stage[c] = "send"
  /\ \/ d \notin Receivers
          /\ Conclude(c, Released(c, FALSE, "unknown", 0))
          /\ UNCHANGED <<counts, received>>
     \/ d \in Receivers
          /\ counts' = [counts EXCEPT ![d] = @ + 1]
          /\ received' = Append(received, Delivery(c))
          /\ Goto(c, "acknowledge")
          /\ UNCHANGED decision
  /\ UNCHANGED <<environment, lastBody, request, work, began, held>>

\* Mutated form (of Acknowledge): the count is the one before this delivery.
AcknowledgeEarlier(c) ==
  LET d == request[c].destination IN
  /\ stage[c] = "acknowledge"
  /\ lastBody' = [lastBody EXCEPT ![d] = BodySha256(work[c].body)]
  /\ Conclude(c, Released(c, TRUE, "received", counts[d] - 1))
  /\ UNCHANGED <<environment, counts, received, request, work, began, held>>

\* The rest of it: the count is read after the increment, and by then may
\* include the deliveries of other calls.
Acknowledge(c) ==
  LET d == request[c].destination IN
  /\ stage[c] = "acknowledge"
  /\ lastBody' = [lastBody EXCEPT ![d] = BodySha256(work[c].body)]
  /\ Conclude(c, Released(c, TRUE, "received", counts[d]))
  /\ UNCHANGED <<environment, counts, received, request, work, began, held>>

-----------------------------------------------------------------------------
Tick ==
  /\ now < MaxTime
  /\ now' = now + 1
  /\ UNCHANGED <<registry, engine, transport, calls>>

\* A call that has still to look its destination up meets the new entry.
Meets(c, d, stages, entry) ==
  IF stage[c] \in stages /\ request[c].destination = d THEN {entry} ELSE {}

\* DestinationRegistry.register: an entry is put in the place of another.
Register(d, entry) ==
  /\ registry' = [registry EXCEPT ![d] = entry]
  /\ held' = [c \in Calls |->
                [before |-> held[c].before \cup Meets(c, d, Unvalidated, entry),
                 after  |-> held[c].after \cup Meets(c, d, {"evaluate_policy"}, entry)]]
  /\ UNCHANGED <<now, engine, transport, stage, request, work, decision, began>>

Step(c) ==
  \/ VerifyProvenanceOf(c)
  \/ VerifyIdentityOf(c)
  \/ \E resolution \in Resolutions : ValidateDestinationOf(c, resolution)
  \/ EvaluatePolicyFor(c)
  \/ Redact(c)
  \/ ReEvaluatePolicyFor(c)
  \/ Send(c)
  \/ Acknowledge(c)

Next ==
  \/ Tick
  \/ \E r \in Replacements : Register(r[1], r[2])
  \/ \E c \in Calls : Step(c) \/ \E r \in Requests : Begin(c, r)

\* A thread that serves a call keeps running; nobody has to make one.
Fairness == \A c \in Calls : WF_vars(Step(c))

Spec == Init /\ [][Next]_vars /\ Fairness

-----------------------------------------------------------------------------
(* What the gateway promises.                                              *)

\* The entries a destination can have had.
Entries(d) ==
  ({InitialRegistry[d]} \cup {r[2] : r \in {q \in Replacements : q[1] = d}}) \ {Unregistered}

AnyEntry == {Unregistered} \cup UNION {Entries(d) : d \in Destinations}

\* Every variable keeps its shape, and a call past its start serves one of
\* the requests.
TypeOK ==
  /\ now \in 0 .. MaxTime
  /\ DOMAIN registry = Destinations
  /\ \A d \in Destinations : registry[d] \in Entries(d) \cup {InitialRegistry[d]}
  /\ counts \in [Receivers -> Nat]
  /\ DOMAIN lastBody = Receivers
  /\ stage \in [Calls -> Stages]
  /\ DOMAIN request = Calls
  /\ \A c \in Calls : stage[c] # "idle" => request[c] \in Requests
  /\ DOMAIN work = Calls
  /\ DOMAIN decision = Calls
  /\ \A c \in Calls : decision[c] # Unset =>
       decision[c].action \in {"allow", "block", "unsupported"}
  /\ began \in [Calls -> 0 .. MaxTime]
  /\ held \in [Calls -> [before : SUBSET AnyEntry, after : SUBSET AnyEntry]]
  /\ \A i \in DOMAIN received : /\ received[i].call \in Calls
                                /\ received[i].destination \in Receivers
                                /\ received[i].at \in 0 .. now

Classified(r, body) == ClassifyPayload(body, r.provenance.labels)

FirstDecision(judge, r, environmentOf, t) ==
  Evaluate(judge, FirstInput(r, environmentOf, Classified(r, r.body)), t)

SecondDecision(judge, r, environmentOf, body, t) ==
  Evaluate(judge, SecondInput(r, environmentOf, Classified(r, body)), t)

\* This engine let this body go to this request's destination at some moment
\* of the span: whole, or redacted by a first decision and allowed, as what
\* it had become, by a second one.
PolicyReleased(judge, r, body, environmentOf, span) ==
  \/ /\ body = r.body
     /\ \E t \in span : FirstDecision(judge, r, environmentOf, t).action = "allow"
  \/ \E t, u \in span :
       LET first == FirstDecision(judge, r, environmentOf, t) IN
       /\ t <= u
       /\ first.action = "redact"
       /\ body = RedactToPermittedFields(r.body, first.permitted).body
       /\ SecondDecision(judge, r, environmentOf, body, u).action = "allow"

\* The request of this delivery passed every check while its call ran: the
\* destination for the entry and the addresses that were looked up for it, the
\* policy for the entry that was looked up after that.
Authorised(delivery) ==
  LET r    == request[delivery.call]
      span == began[delivery.call] .. delivery.at
  IN  /\ MethodSupported(r)
      /\ ValidateBody(r.body).ok
      /\ Classified(r, r.body).unknown = {}
      /\ \E t \in span : VerifyProvenance(r.provenance, t).ok
      /\ \E t \in span : VerifyCredential(r.credential, r.workload, t).ok
      /\ delivery.destination = r.destination
      /\ ValidateDestination(delivery.validated, r.url, delivery.resolution).ok
      /\ delivery.url = CanonicalUrl(r.url, delivery.validated)
      /\ PolicyReleased(delivery.engine, r, delivery.body, delivery.registered.environment, span)

\* Nothing reaches a receiver unless its request passed every check, each at
\* some moment of its own call, and in the form the policy allowed
\* (gateway.py 182-395: eight early returns stand before the send).
ReleaseAuthorised == \A i \in DOMAIN received : Authorised(received[i])

AsRegistered(delivery) ==
  /\ delivery.validated \in held[delivery.call].before
  /\ delivery.registered \in {delivery.validated} \cup held[delivery.call].after

\* The URL of a delivery is of an entry its destination had while the call ran, and
\* the policy judged it for an entry the destination had after that: for the same
\* one, unless another was registered between the two look-ups (gateway.py 245-261).
JudgedAsRegistered == \A i \in DOMAIN received : AsRegistered(received[i])

\* What had expired when a call began never leads to a delivery by it,
\* whatever was verified for other calls (README: an expired policy cannot
\* authorize).
ExpiredAtStartReleasesNothing ==
  \A i \in DOMAIN received :
    LET c == received[i].call IN
    /\ began[c] < received[i].engine.bundle.expires
    /\ began[c] < request[c].provenance.expires
    /\ began[c] < request[c].credential.expires + Leeway

\* The value of a leaf a redaction took away and reported is not part of any
\* text the receiver got.  Of several list elements under one path this is
\* known of the last only.
RemovedValuesStayBehind ==
  \A i \in DOMAIN received :
    LET original == request[received[i].call].body
        gone     == LeafPaths(original) \ LeafPaths(received[i].body)
    IN  \A k \in DOMAIN original.leaves :
          LET leaf == original.leaves[k] IN
          /\ leaf.path \in gone
          /\ leaf.value \notin Unsearchable
          /\ \A j \in DOMAIN original.leaves : original.leaves[j].path = leaf.path => j <= k
          => \A text \in Texts(received[i].body) :
               text # leaf.value /\ <<leaf.value, text>> \notin Within

\* No confidential or restricted leaf reaches a destination that was outside when
\* its URL was validated and whatever was registered for it before the policy was
\* asked (README: the block scenario), whatever else its body holds.
ConfidentialStaysInside ==
  \A i \in DOMAIN received :
    LET delivery == received[i] IN
    (\A entry \in {delivery.validated} \cup held[delivery.call].after :
       entry.environment = "external") =>
      \A k \in DOMAIN delivery.body.leaves :
        EffectiveClass(request[delivery.call].provenance.labels, delivery.body.leaves[k].path)
          \notin {"confidential", "restricted"}

DeliveriesOf(c) == {i \in DOMAIN received : received[i].call = c}

Delivered(c) == DeliveriesOf(c) # {}

\* The decision a caller gets tells what happened: a body was sent exactly
\* when a receiver has it, once, and then digest and redacted fields are
\* those of what the receiver has.
DecisionTellsDelivery ==
  \A c \in Calls :
    /\ Cardinality(DeliveriesOf(c)) <= 1
    /\ decision[c] # Unset =>
         /\ decision[c].sent <=> DeliveriesOf(c) # {}
         /\ \A i \in DeliveriesOf(c) :
              /\ decision[c].action = "allow"
              /\ decision[c].receipt = "received"
              /\ decision[c].body = received[i].body
              /\ decision[c].redacted = LeafPaths(request[c].body) \ LeafPaths(received[i].body)

\* How many deliveries to its destination had happened when this one did.
Arrival(i) ==
  Cardinality({j \in 1 .. i : received[j].destination = received[i].destination})

\* The count on a receipt includes the delivery it acknowledges, and never
\* one that has not happened; that of concurrent calls it may include too.
ReceiptCountsDelivery ==
  \A i \in DOMAIN received :
    LET c == received[i].call IN
    decision[c] # Unset =>
      /\ Arrival(i) <= decision[c].count
      /\ decision[c].count <=
           Cardinality({j \in DOMAIN received : received[j].destination = received[i].destination})

\* What a caller sees of a call: nothing yet, or what its decision says.
CallState ==
  [c \in Calls |-> IF stage[c] = "idle" THEN "idle"
                   ELSE IF stage[c] # "decided" THEN "open"
                   ELSE IF decision[c].sent THEN "sent" ELSE "refused"]

Control ==
  INSTANCE ReleaseControl WITH
    state <- CallState, released <- [i \in DOMAIN received |-> received[i].call]

\* Whichever of the stages a call ends at, and whatever other calls, operators and
\* the clock do meanwhile, the gateway is a ReleaseControl: at most one release,
\* before the answer that tells of it, and an answer to every call (gateway.py 182-396).
ControlsRelease == Control!Spec
=============================================================================
