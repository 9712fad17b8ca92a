--------------------------- MODULE EgressService ---------------------------
(***************************************************************************)
(* The service around the gateway (tracelock_services/app.py): a request   *)
(* is admitted when the evidence store answers and the configuration may   *)
(* be used, goes through the gateway, and its decision is recorded in      *)
(* SQLite (evidence.py) before the caller is answered.  Demonstration      *)
(* scenarios take a shorter way through the same gateway.  The process may *)
(* crash at any moment, and starts again from its configuration and the    *)
(* database file.                                                          *)
(***************************************************************************)
EXTENDS EgressGateway

CONSTANTS Configs,      \* configurations: [strict, secrets, database]
          Scenarios,    \* the requests run_demo_scenario can make
          EngineAt(_),  \* the policy engine of a process started at a time
          MaxCrashes    \* bound on the crashes

ASSUME ServiceAssumption ==
  /\ MaxCrashes \in Nat /\ Scenarios \subseteq Requests
  /\ \A t \in 0 .. MaxTime : EngineAt(t).bundle.expires \in Int

VARIABLES
  config,     \* ServiceConfig: strict environment, strong secrets, where the database is:
              \* "file", "memory" (:memory:) or "temporary" (an empty path)
  storage,    \* what SQLite can do: "writable", "full" (reads only), "down"
  stored,     \* the calls whose decision is committed in the database
  pending,    \* those inserted in a transaction nobody has committed
  events,     \* OperationsStore.event_sequence
  failures,   \* OperationalState.evidence_failures
  lastError,  \* OperationalState.last_evidence_error is set
  kind,       \* call -> "egress" or "demo"
  phase,      \* call -> how far its handler is
  saved,      \* call -> whether its evidence.record returned
  answer,     \* call -> what its client got
  crashes,    \* how many times the process has crashed
  life        \* history: call -> the life of the process it arrived in

gateway == <<environment, transport, calls>>
database == <<storage, stored, pending>>
status == <<events, failures, lastError>>
handlers == <<kind, phase, saved, answer, life>>
allVars == <<gateway, config, database, status, handlers, crashes>>

Phases == {"none", "gateway", "record", "report", "answered", "lost"}

Answers == {"ok", "evidence_store_unavailable", "governance_configuration_invalid",
            "evidence_persistence_failed", "internal_error"}

ASSUME AnswersAssumption == Unset \notin Answers /\ Unset \notin BOOLEAN

\* Mutated form (of GovernanceValid): a strict environment may keep its
\* evidence in memory.
GovernanceWithoutDurability(runtime) == runtime.strict => runtime.secrets

\* validate_runtime_config: only a strict environment is held to anything, and of
\* databases that end with the process only the one in memory is known to it.
GovernanceValid(runtime) ==
  runtime.strict => runtime.secrets /\ runtime.database # "memory"

\* SQLite keeps the database of an empty path in a temporary file of its own.
Durable == config.database \notin {"memory", "temporary"}

HealthCheck == storage # "down"

ServiceInit ==
  /\ Init
  /\ config \in Configs
  /\ storage = "writable"
  /\ stored = {} /\ pending = {}
  /\ events = 0 /\ failures = 0 /\ lastError = FALSE
  /\ kind = [c \in Calls |-> Unset]
  /\ phase = [c \in Calls |-> "none"]
  /\ saved = [c \in Calls |-> Unset]
  /\ answer = [c \in Calls |-> Unset]
  /\ crashes = 0
  /\ life = [c \in Calls |-> 0]

-----------------------------------------------------------------------------
Enter(c, which) ==
  /\ phase[c] = "none"
  /\ kind' = [kind EXCEPT ![c] = which]
  /\ life' = [life EXCEPT ![c] = crashes]

Answer(c, what) ==
  /\ answer' = [answer EXCEPT ![c] = what]
  /\ phase' = [phase EXCEPT ![c] = "answered"]

\* Mutated form (of AuthorizeAndSend): once the store has answered, nothing else is
\* asked.
AuthorizeAndSendUngated(c, r) ==
  /\ Enter(c, "egress")
  /\ \/ ~HealthCheck
          /\ Answer(c, "evidence_store_unavailable")
          /\ UNCHANGED gateway
     \/ HealthCheck
          /\ Begin(c, r)
          /\ phase' = [phase EXCEPT ![c] = "gateway"]
          /\ UNCHANGED answer
  /\ UNCHANGED <<config, database, status, saved, crashes>>

\* POST /v1/egress/authorize-and-send, up to the call of the gateway: the store
\* is asked first, then, in a strict environment, the governance.
AuthorizeAndSend(c, r) ==
  /\ Enter(c, "egress")
  /\ \/ ~HealthCheck
          /\ Answer(c, "evidence_store_unavailable")
          /\ UNCHANGED gateway
     \/ HealthCheck /\ config.strict /\ ~GovernanceValid(config)
          /\ Answer(c, "governance_configuration_invalid")
          /\ UNCHANGED gateway
     \/ HealthCheck /\ (config.strict => GovernanceValid(config))
          /\ Begin(c, r)
          /\ phase' = [phase EXCEPT ![c] = "gateway"]
          /\ UNCHANGED answer
  /\ UNCHANGED <<config, database, status, saved, crashes>>

\* POST /v1/demo/scenarios: neither the store nor the governance is asked.  (Without
\* a session, and for the bypass scenario, nothing changes.)
RunDemoScenario(c, r) ==
  /\ Enter(c, "demo")
  /\ Begin(c, r)
  /\ phase' = [phase EXCEPT ![c] = "gateway"]
  /\ UNCHANGED <<config, database, status, saved, answer, crashes>>

Serve(c) ==
  /\ phase[c] = "gateway"
  /\ Step(c)
  /\ UNCHANGED <<config, database, status, handlers, crashes>>

\* next_event, once the gateway has returned; a scenario has no event.
NextEvent(c) ==
  /\ phase[c] = "gateway" /\ stage[c] = "decided" /\ kind[c] = "egress"
  /\ events' = events + 1
  /\ phase' = [phase EXCEPT ![c] = "record"]
  /\ UNCHANGED <<gateway, config, database, failures, lastError, kind, saved, answer,
                 crashes, life>>

\* Mutated form (of AtRecord): a scenario records before the receipt is in.
AtRecordEarly(c) ==
  \/ phase[c] = "record"
  \/ phase[c] = "gateway" /\ stage[c] \in {"acknowledge", "decided"} /\ kind[c] = "demo"

AtRecord(c) ==
  \/ phase[c] = "record"
  \/ phase[c] = "gateway" /\ stage[c] = "decided" /\ kind[c] = "demo"

\* What follows evidence.record: an egress call reports to the operational
\* state, a scenario answers, with an internal error when record raised.
AfterRecord(c, success) ==
  /\ saved' = [saved EXCEPT ![c] = success]
  /\ \/ /\ kind[c] = "egress"
        /\ phase' = [phase EXCEPT ![c] = "report"]
        /\ UNCHANGED answer
     \/ /\ kind[c] = "demo"
        /\ Answer(c, IF success THEN "ok" ELSE "internal_error")

\* Mutated forms (of Record): the commit is forgotten; the new row replaces
\* all the others.
RecordUncommitted(c) ==
  /\ AtRecord(c)
  /\ storage = "writable"
  /\ pending' = pending \cup {c}
  /\ AfterRecord(c, TRUE)
  /\ UNCHANGED <<gateway, config, storage, stored, status, kind, crashes, life>>

RecordReplacing(c) ==
  /\ AtRecord(c)
  /\ storage = "writable"
  /\ stored' = {c}
  /\ pending' = {}
  /\ AfterRecord(c, TRUE)
  /\ UNCHANGED <<gateway, config, storage, status, kind, crashes, life>>

\* EvidenceStore.record, under its lock: the insert, then a commit that takes
\* along whatever an earlier failure left in the transaction.
Record(c) ==
  /\ AtRecord(c)
  /\ storage = "writable"
  /\ stored' = stored \cup pending \cup {c}
  /\ pending' = {}
  /\ AfterRecord(c, TRUE)
  /\ UNCHANGED <<gateway, config, storage, status, kind, crashes, life>>

\* Mutated forms (of RecordFails): the exception is swallowed; a database that
\* is down is waited for.
RecordFailsSilently(c) ==
  /\ AtRecord(c)
  /\ storage # "writable"
  /\ AfterRecord(c, TRUE)
  /\ UNCHANGED <<gateway, config, database, status, kind, crashes, life>>

RecordFailsOnlyWhenFull(c) ==
  /\ AtRecord(c)
  /\ storage = "full"
  /\ AfterRecord(c, FALSE)
  /\ UNCHANGED <<gateway, config, database, status, kind, crashes, life>>

\* The insert or the commit raises, and nothing is rolled back by the code:
\* the row may stay in the open transaction, or SQLite may have given up the
\* row or the whole transaction.
RecordFails(c) ==
  /\ AtRecord(c)
  /\ storage # "writable"
  /\ \/ UNCHANGED pending
     \/ storage = "full" /\ pending' \in {pending \cup {c}, {}}
  /\ AfterRecord(c, FALSE)
  /\ UNCHANGED <<gateway, config, storage, stored, status, kind, crashes, life>>

\* evidence_succeeded or evidence_failed, and the answer.
Report(c) ==
  /\ phase[c] = "report"
  /\ lastError' = ~saved[c]
  /\ failures' = IF saved[c] THEN failures ELSE failures + 1
  /\ Answer(c, IF saved[c] THEN "ok" ELSE "evidence_persistence_failed")
  /\ UNCHANGED <<gateway, config, database, events, kind, saved, crashes, life>>

-----------------------------------------------------------------------------
\* The disk fills up, the database breaks, and either is repaired.
StorageChanges ==
  /\ storage' \in {"writable", "full", "down"} \ {storage}
  /\ UNCHANGED <<gateway, config, stored, pending, status, handlers, crashes>>

\* An operator updates a case over the same connection (EvidenceStore): its commit
\* takes along what a failed record left in the transaction, and if it fails
\* itself SQLite may give that up.
UpdateCase ==
  /\ pending # {} /\ pending' = {}
  /\ \/ storage = "writable" /\ stored' = stored \cup pending
     \/ storage = "full" /\ UNCHANGED stored
  /\ UNCHANGED <<gateway, config, storage, status, handlers, crashes>>

\* The process dies and create_app runs again, when the database opens: what
\* was in memory starts afresh, calls being served are lost with their
\* answers, and an uncommitted transaction is rolled back.
Crash ==
  /\ crashes < MaxCrashes
  /\ crashes' = crashes + 1
  /\ phase' = [c \in Calls |-> IF phase[c] \in {"none", "answered"} THEN phase[c] ELSE "lost"]
  /\ storage' = "writable"
  /\ stored' = IF Durable THEN stored ELSE {}
  /\ pending' = {}
  /\ events' = 0 /\ failures' = 0 /\ lastError' = FALSE
  /\ counts' = [d \in Receivers |-> 0]
  /\ lastBody' = [d \in Receivers |-> NoHash]
  /\ registry' = InitialRegistry
  /\ engine' = EngineAt(now)
  /\ UNCHANGED <<now, received, calls, config, kind, saved, answer, life>>

TimePasses == Tick /\ UNCHANGED <<config, database, status, handlers, crashes>>

Handle(c) == Serve(c) \/ NextEvent(c) \/ Record(c) \/ RecordFails(c) \/ Report(c)

ServiceNext ==
  \/ \E c \in Calls :
       \/ \E r \in Requests : AuthorizeAndSend(c, r)
       \/ \E r \in Scenarios : RunDemoScenario(c, r)
       \/ Handle(c)
  \/ StorageChanges \/ UpdateCase \/ Crash \/ TimePasses

\* A handler keeps running while its process lives.
ServiceSpec ==
  ServiceInit /\ [][ServiceNext]_allVars /\ \A c \in Calls : WF_allVars(Handle(c))

-----------------------------------------------------------------------------
(* What the service promises.                                              *)

\* What the egress route let through had passed the governance (app.py 782-786),
\* and clients of the event stream are told of every decision of it in this life of
\* the process, whichever calls take turns at the sequence.
EgressRouteIsGated ==
  /\ \A c \in Calls : kind[c] = "egress" /\ Delivered(c) => GovernanceValid(config)
  /\ Cardinality({c \in Calls : /\ kind[c] = "egress" /\ life[c] = crashes
                                /\ (phase[c] = "record" \/ saved[c] # Unset)}) <= events

\* Whoever is told that the request was served has its decision committed:
\* for as long as the process lives, and for good when the database is a file
\* (app.py 800-807; a commit may carry rows of calls that failed before).
AckImpliesDurable ==
  \A c \in Calls :
    answer[c] = "ok" /\ (Durable \/ life[c] = crashes) => c \in stored

\* In a strict environment an egress answer is good for ever: a configuration that
\* would keep the evidence in memory is refused before anything is served
\* (governance.py 75-76 with app.py 784).  A temporary database is not refused.
StrictAcksSurvive ==
  \A c \in Calls :
    config.strict /\ config.database # "temporary" /\ kind[c] = "egress" /\ answer[c] = "ok"
      => c \in stored

\* What reached a receiver is on record, or its client was told that it is
\* not, or the process died before it could tell.
NoSilentRelease ==
  \A c \in Calls :
    Delivered(c) /\ (Durable \/ life[c] = crashes) =>
      \/ c \in stored
      \/ phase[c] \in {"gateway", "record", "report", "lost"}
      \/ answer[c] \in {"evidence_persistence_failed", "internal_error"}

\* A row in the database, committed or not, tells whether a receiver has the
\* body, whichever call's commit or crash it went through.
EvidenceTellsDelivery ==
  \A c \in stored \cup pending :
    /\ stage[c] = "decided"
    /\ decision[c].sent <=> Delivered(c)

\* Committed evidence is never lost from a database file.
EvidenceSurvives == [][Durable => stored \subseteq stored']_allVars

\* Every request is answered, unless the process dies under it.
EveryRequestAnswered ==
  \A c \in Calls : phase[c] # "none" ~> phase[c] \in {"answered", "lost"}

-----------------------------------------------------------------------------
(* What the repository says, and the code does not do.                     *)

\* README: gateway decisions are durably recorded in SQLite.
DecisionsDurablyRecorded ==
  \A c \in Calls :
    Durable /\ stage[c] = "decided" /\ phase[c] = "answered" => c \in stored

\* README: the Traffic Lab increments the event stream sequence.
ScenariosRaiseSequence ==
  Cardinality({c \in Calls : kind[c] = "demo" /\ answer[c] = "ok" /\ life[c] = crashes})
    <= events
=============================================================================
