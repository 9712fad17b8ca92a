# TraceLock in TLA+

TraceLock is a gateway that authorizes data leaving a workload: a request names
a destination and carries a JSON body, a credential of the workload and a
manifest that labels the body's fields; the gateway checks all of it, asks a
signed policy, redacts if the policy says so, sends, and the service records the
decision in SQLite. Its Control Center is a page in React, built on a library of
components, which reads the gateway and, in development, reports what happens in
it to log files of the development server.

This directory holds a TLA+ model of both halves, the TLC configurations that
check it on small instances, and TLAPS proofs of its most important properties
for instances of any size. Paths of the gateway are relative to
`src/tracelock_services/`, those of the page to `src/frontend/`; a number alone is
a line of the file named before it.

    tlc -workers 4 -config EgressGateway.cfg MCEgressGateway.tla   # one run
    tlapm EgressGatewayProofs.tla                                  # one proof module

`PROJECT.json` lists the runs, maps every definition to the lines it models, and
names for every property a mutant of the model that violates it.

## Inventory

| component | state it keeps | operations | what is hard |
|---|---|---|---|
| policy engine (`policy.py`) | a signed bundle of rules, fixed when the engine is made | evaluate | several rules match: priorities, block dominance, conflicts; expiry |
| provenance, classification (`provenance.py`) | keys, approved integrations | verify a manifest, classify a body | order of checks; a path labelled twice |
| redaction (`transformations.py`) | none | filter a body, check that removed values are gone | lists: many values under one path |
| workload identity (`identity.py`) | subjects, revoked ids | verify a credential | order of checks; leeway |
| destination registry (`destinations.py`) | destination to entry | register, get, validate a URL | entries replaced between two lookups; resolution differs per call |
| gateway, receiver transport (`gateway.py`) | counts and last digests of the receivers | authorize_and_send | concurrent calls; the clock moves between checks; many early returns |
| gateway service (`app.py`) | the objects above | egress, demonstration scenarios, 32 other routes | release and record are two steps; two routes with different gates |
| evidence store (`evidence.py`) | one SQLite connection under a lock | record, health_check, count, get, search, update_case | failed commits that stay in the transaction; a read after the lock; crash; memory databases |
| governance, operational state (`governance.py`) | failure counter, last error | validate the configuration, report an outcome | the report is looked at by some routes only |
| team sessions, operations store (`operations.py`) | members, revoked sessions, incidents, investigations, alerts, event sequence | sign in and out, roles, next_event | revocation is lost on a restart |
| event stream (`app.py` 606-624) | last sequence seen, per client | poll every five seconds | events are merged; two looks at one number; what ends a message |
| operator console (`app.py` 583-661, 705-759) | incidents, cases, destination records | open, update, list, search | creation before validation; threads without a lock; a record the gateway does not ask |
| boundary (`boundary.py`, `compose.yaml`) | event list; networks | record; the topology denies direct egress | reachability |
| Control Center (`client/src/pages/Home.tsx`, `App.tsx`, contexts, `Map.tsx`, `ManusDialog.tsx`, `ErrorBoundary.tsx`) | per view one payload, error and loading flag; the overview's poll; a session in localStorage; theme, map, dialog | load, filter, refresh, poll, sign in and out, run a scenario | answers that cross, failures half-way, checks outlived by what they check, effects after renders |
| user interface library (`client/src/components/ui/*`, `hooks/*`) | the sidebar's open flags and cookie, the carousel's buttons, the flags and timers of a composition | toggle, resize, scroll, type, close | state mirrored from a parent, an engine or the last render; keys of input methods |
| debug collector (`client/public/__manus__/debug-collector.js`, `vite.config.ts` 20-180) | three buffers, the time of the last scroll entry; per XHR its listeners; three log files | capture, sanitize, report, put back, beacon; append, trim | lost and late answers, limits, torn lines |
| page servers (`vite.config.ts` 180-250, `server/index.ts`) | none | serve a page, a file, logs, the storage | two servers, of which each serves other paths |
| contracts, packaging | none | | not modelled: no runtime state |

A call goes client -> service (`app.py` 773) -> gateway -> provenance -> identity
-> registry and resolver -> policy -> (redaction -> provenance's classification
-> policy) -> transport -> evidence store -> client. FastAPI runs these handlers
on a thread pool, so calls interleave; they share the registry, the receivers,
the evidence connection, the event sequence and the clock.

What makes each part correct: the policy engine lets nothing through that was
not earned; the redaction leaves no removed value behind and says what it took;
the gateway delivers only what passed every check and tells what it did; the
service leaves no delivery unrecorded without saying so; sessions stay revoked;
operators see the state they wrote. A view shows what was answered for what it
shows, and never loads for ever; a component that mirrors a state follows it; a
key of an input method stays in its field. An entry of the collector is masked,
recorded once, and never lost without a reason, and a log file keeps the newest
lines whole.

The page reaches the gateway by fetches with a timeout, which answer in any order;
the collector wraps the same `fetch`, and its reports go through the original one.
The parts of the page share no state: each is a component with its own hooks.

## Modules

A module EXTENDS what it needs of those above it; the proof modules stand beside
what they are about.

| module | models | in the code |
|---|---|---|
| `Checks` | an ordered list of checks, of which the first that applies gives the reason | the early returns of all verifiers |
| `PolicyEngine` | bundle, signature, matching, decision: operators only | `policy.py` |
| `PolicyEvaluation` | one engine over time: `Tick`, `EvaluateItem` | `PolicyEngine.evaluate` 152-186 |
| `Payloads` | limits, classification, redaction and the survival check on a body | `gateway.py` 459-490, `provenance.py` 175-209, `transformations.py` |
| `PayloadRedaction` | a body that is filtered, checked, and submitted again | `transformations.py` 27-75 as `gateway.py` 292-298 calls it |
| `Credentials` | the two tokens and their verification | `identity.py`, `provenance.py` |
| `Destinations` | URL, entry, resolution | `destinations.py` |
| `EgressGateway` | concurrent calls of `authorize_and_send`, transport, registry, clock | `gateway.py` 124-457, `destinations.py` 65-75 |
| `ReleaseControl` | abstract: a call is refused, or released once and then told so | |
| `DefaultDeployment` | the destinations, rules and subjects of the default application | `app.py` 148-278 |
| `EgressService` | the two handlers that release data, evidence, governance, crash and restart, around `EgressGateway` | `app.py` 257-316, 442-534, 773-807, `evidence.py`, `governance.py` |
| `EvidenceStore` | cases of decisions: changed, read back and looked at while decisions are recorded | `evidence.py` 71-236, `app.py` 683-724 |
| `IncidentConsole` | incidents, opened, changed field by field and listed by threads without a lock | `app.py` 583-604, `operations.py` 19-104 |
| `OperatorConsole` | `EvidenceStore` and `IncidentConsole` side by side | |
| `EventStream` | the stream of decision numbers and its clients | `app.py` 606-624, `operations.py` 106-108 |
| `Loadable` | abstract: what a view that loads promises | |
| `ViewLoad` | the views that read the gateway and their requests under way | `Home.tsx` 89-190 |
| `Overview` | the polls of the overview and its pill | `Home.tsx` 227-300 |
| `OperatorSession` | sessions in the page and behind the API, scenarios of a signed-in operator | `Home.tsx` 191-226, `operations.py`, `app.py` |
| `AppShell` | error boundary, theme, map and its script, dialog | `ErrorBoundary.tsx`, `ThemeContext.tsx`, `Map.tsx`, `ManusDialog.tsx` |
| `Sidebar` | the sidebar's two states, cookie and toggles between renders | `sidebar.tsx`, `useMobile.tsx` |
| `InputComposition` | text fields under an input method, in a dialog, with their timers | `input.tsx`, `textarea.tsx`, `dialog.tsx`, `useComposition.ts` |
| `Carousel` | the carousel around its engine (external) | `carousel.tsx` |
| `ChartContent`, `FormControls` | what charts and fields render of their inputs: operators only | `chart.tsx`; `form.tsx`, `field.tsx`, `slider.tsx`, `calendar.tsx`, `input-otp.tsx`, `toggle-group.tsx` |
| `PageServer` | which server answers which path, and the storage proxy: operators only | `vite.config.ts`, `server/index.ts` |
| `Sanitizer` | masking, cutting and nesting of recorded values, of any shape and depth: operators only | `debug-collector.js` 64-127 |
| `EventCapture` | listeners of the page, console and errors | `debug-collector.js` 130-470 |
| `RequestCapture` | the wrapped `fetch` and `XMLHttpRequest` | `debug-collector.js` 475-710 |
| `LogReporting` | buffers, reports, beacon and the server's handler | `debug-collector.js` 710-821, `vite.config.ts` 77-150 |
| `LogFile` | one log file: append, tear, trim | `vite.config.ts` 27-75 |
| `MC*` | the constants of the runs, and the composition of the parts of the page and of the collector | |
| `OperatorProofs`, `PolicyAndRedactionProofs`, `EgressGatewayProofs`, `EgressServiceProofs`, `EventStreamProofs`, `OperatorConsoleProofs`, `ControlCenterProofs`, `CollectorProofs` | lemmas and theorems | |

Where the gateway's state is: `stage[c]` is where thread `c` stands in
`authorize_and_send`, `work[c]` its local variables, `registry` is
`DestinationRegistry._destinations`, `counts` and `lastBody` are the transport's
dictionaries, `decision[c]` is the `GatewayDecision` returned. `received`, `began`
and `held` are history: what receivers got, and for which entries and addresses their
calls were checked; when calls started; the entries a call's destination had before it
was validated and from there until it was judged. In `EgressService`, `stored` is what
is committed, `pending` what the open transaction of the one shared connection holds,
`phase[c]` is how far a handler is, `answer[c]` what its client got. A database is a
file, in memory, or temporary (SQLite's, for an empty path): a crash takes the last two
along, and `validate_runtime_config` knows only the second (`governance.py` 75).

In `EvidenceStore` the one connection is seen twice: `disk` is what is committed,
`view` what the connection reads, its own open transaction included. They differ
after a write that failed, which the code does not roll back. `EgressService` has
these writes as one environment action, `UpdateCase`, which commits what handlers
left pending or takes it back. In `IncidentConsole` an incident is named by the
request that made it, and a field by the request that wrote it; `phase` is the next
statement of a handler. In `EventStream` the two reads of the number (613, 614) are
two steps, though the generator does not yield between them: the threads that count
it up are not on its event loop.

In the modules of the page a variable has the name of the `useState` or `useRef` it
stands for; `calls` and `report` are the promises not yet settled, in `Sidebar` the
calls of handlers see `rendered`, the state of the last render. In `LogFile` a text
is what `split("\n")` makes of it, pieces of fragments, so that what a failed append
or trim left without a newline, half an entry or a whole one, is a piece of two with
the next line glued to it; a fragment at which a write failed is `cut`. In
`LogReporting` an entry that `JSON.stringify` throws at is `unwritable`. `whole` there,
`mistimed`, `overlapped`, `evicted`, `thrown` and the like are history, marked so where
they are declared.

Granularity. A call runs from one access to shared state to the next in one
step. Each check reads the clock, so each is a step of its own; registry
lookups, the increment of a receiver's count and the read of it for the receipt
are separate; a single `+=` is one step (CPython under its global lock does not
switch threads within these statements, and the receipt's separate read is
already enough to see the counts of others). `EvidenceStore.record` holds its
lock throughout and is one step; what its failure leaves in the transaction is
chosen among what SQLite does: the row stays inserted, or the row or the whole
transaction is rolled back.

In the page an event handler, the continuation of a promise, an effect and the
firing of a timer are one step each, for JavaScript runs each to its end; a click
and the effect of the render it causes are one step where nothing comes between.
A body that is read is a step later than its answer. A timer fires at its time or
later; of two started together the shorter fires first, and the second of two nested
timers is started only as the first fires, so that it may come after one of 100 ms that
was started earlier.

Composition. `EgressService` moves `EgressGateway` as part of itself, and the
operator's writes reach it through the shared transaction. Incidents and the stream
touch nothing of these but the event sequence, and stand alone. The parts of the
page share no state, and neither do those of the collector or of what operators do:
capturing only appends, reporting does not look into entries, and a file sees
nothing but lines. Their product would interleave what cannot interact, so
`MCControlCenter`, `MCDebugCollector`, `MCOperatorConsole`, `MCPolicyAndRedaction`
and `MCServiceProgress` are sums: a behaviour moves the part chosen at its start
(`OperatorConsole` itself, which the theorems are about, lets both move), and most
properties are conjunctions of the parts' (of the page's with their type
invariants). What has no state (charts, fields, servers, sanitized values) is
evaluated on every input of a sample chosen at the start; the samples are constants
of the `MC` modules, and the proofs are about all of them.
`MCEgressGateway` has two parts of another kind: either the requests and the clock vary
or the registry does. Calls meet at the receivers only, so the second call brings just
what is delivered; that expiry and registrations do not meet in a run is made up for by
the proofs, which have both.

Abstractions. A token is its flaw, times and claims; an HMAC and SHA-256 are
injective; a URL is its parts; addresses are told apart as public, special, none
or failing. A body is kept flat: its scalar leaves in document order, each with
its path and the list it lies in. Objects in lists are seen through their
leaves, and lists within lists are not modelled. Time is a natural number with a
bound. The identifiers drawn by `uuid4` are fresh, so a call stands for its
decision id. `INSERT OR REPLACE` therefore never replaces. Only the gateway's
registry is replaceable: the application itself never calls `register`
(the second part of `EgressGateway` covers the public operation of the class). A
process restarts only when its database opens, so it is writable then. Who may run a
scenario or change a case (`app.py` 446, 711) is not asked: a refused request changes
nothing, so the model has all that the code does, for more callers.

## Runs

| run | bounds | distinct states | what it shows |
|---|---|---|---|
| `PolicyAndRedaction` | every book of up to two rules from a pool, many of three; signed, unsigned, altered, wrongly keyed, inactive; clock 0..2 around expiry at 1; bodies of up to three leaves, lists of scalars and of objects, four sets of permitted paths | 45747 | blocks dominate, conflicts at the top fail closed, what is let through was earned, the order of rules does not matter, expiry is final; redacted leaves go unreported only when a list is emptied, a removed value survives the check only unreported or as an earlier element of a list, a second pass changes nothing |
| `EgressGateway` | 2 calls, in two parts: 20 requests of one, beside a delivery of the other, clock 0..2, policy and tokens expiring at 1, 2 and 3; or 3 requests while entries are replaced at any moment, one of them new and without a receiver | 106830 | deliveries passed every check in their own call and were judged for the entries their destinations had, nothing that had expired releases, removed values stay behind, decisions and receipts tell the truth, confidential data stays inside; the gateway implements `ReleaseControl`: whatever entries it finds, a call releases at most once, before its answer, which tells of it, and every call is answered |
| `EgressService` | 2 handlers up to symmetry, 1 crash, clock 0..1, all configurations (secrets are asked for by strict ones only; the temporary database with those), storage failing and cases updated at any moment | 1208142 | acknowledged means recorded, strict environments keep what they acknowledged unless their database is temporary, no delivery of a process that lives is silent, records tell what was delivered, committed evidence stays, the egress route delivers under valid governance only and counts its events |
| `EgressServiceProgress` | 1 handler, 1 crash; 2 clients of the stream, 3 decisions, 1 crash | 45203 | every request is answered unless the process dies; a client that stays is sent every number or a later one, and a decision event is news |
| `OperatorConsole` | 2 decisions, 3 requests, 1 crash, a file or memory | 1393902 | a case is what one update made of it, an answer shows one's own update or a later one and is committed, what was seen is taken back only if its writer got an error; no comment is lost, a refused change writes nothing, a list is whole or fails |
| `DebugCollector` | 2 entries, 2 reports, 2 faults (an entry that cannot be written as JSON is one); 3 writes of up to two lines around a limit of 10 bytes, failing at any byte; a field of every sort, clock 0..4 around a throttle of 2; 1 fetch, 1 XHR opened twice and sent three times, at any moment; values nested beyond the limit, a response too long to be parsed | 167958 | events are recorded once and masked values on no path, a fetch is recorded once and an object once for each time it was sent, no entry vanishes without a reason, order is kept where it can be, every entry settles, files keep the newest lines |
| `ControlCenter` | 3 requests of a view, 2 polls, 2 tokens and 2 mounts, 3 toggles, 2 compositions, 2 engines, 1 map, samples of charts, fields and servers | 379593 | views tell what was answered and implement `Loadable`; sessions signed out stay so; compositions stay inside; parts follow the state they mirror; charts and fields show their inputs |
| five violation runs | as above | | see Findings |

Why these bounds are enough: no property relates more than two calls, and what
calls share (counts, transaction, registry, clock) shows its interleavings with
two. Two moments separate "before" from "after" an expiry, and every token and
policy of the runs expires inside the bound, so checks on both sides of it
occur. One crash separates lives; a second one adds no new relation between a
handler and its process. Three leaves allow a permitted one beside two elements
of one list. Two rules show every pairwise relation of priority and action, the
books of three a block below a conflict. Three requests of operators allow a reader
beside two writers of one case or incident; three decisions, two that merge into one
event and one after it.

In the page, three requests allow an answer that overtakes two; two tokens, a late
check of one that clears the other; three toggles, two between renders and one after;
two compositions, timers of the first that fire in the second; two engines, one that
is left and one that takes over. In the collector, two reports of two entries cross,
get lost and are put back in either order, and a buffer of one entry overflows; two
faults allow a lost report and a failing file. Limits are small because only
"reached" and "exceeded" matter: a file of 10 bytes, with a target of 6, is trimmed
by the second write of most payloads, and some lines are larger than the target.

`EgressService` and `OperatorConsole` are checked up to symmetry of the calls, the
requests and the decisions: no action and no property tells two of them apart, and
neither run has a liveness property.

Deadlock is not checked where a system may rest: all calls decided and the clock
at its bound.

Fairness. `EgressGateway` assumes weak fairness of `Step(c)` for every call, and
`EgressService` of `Handle(c)`: a thread that runs Python code keeps running, and
none of these steps waits on another (the evidence lock is held for one step
only). Nobody is made to send a request, register an entry, repair a disk or let
time pass, and a crash is never required. The progress properties need nothing
more: a handler whose database is down gets an exception, not a wait.
`ReleaseControl` asks that an open call is answered, which `Step` gives it.
`EventStream` assumes that the event loop resumes a generator whose client is
connected, after a sleep that ends.
`ViewLoad` assumes that the fetch at every place of the line of requests settles:
each carries a signal that aborts it. `LogReporting` assumes that the interval goes
on firing while the page is open and that a report settles, with an answer or a
rejection; neither a click nor a repaired server is required.

## Proofs

Every safety property of the runs is a theorem, for every value of the constants. The proofs use no more than the named assumptions, which TLC evaluates in
the runs:

| assumption | says |
|---|---|
| `MaxTimeAssumption`, `LimitsAssumption`, `LeewayAssumption` | the bounds are numbers; so do the assumptions of `OperatorSession`, `Overview`, `Sidebar`, `AppShell`, `Carousel`, `InputComposition`, with `NoToken` no token |
| `EnginesAssumption` | an engine is a record, its rules a list with integer priorities and one of the three actions |
| `RedactionAssumption`, `GatewayAssumption` | bodies are records with a list of leaves (`IsBody`); receivers and `Replacements` are of registered names; expiries are integers |
| `ServiceAssumption`, `AnswersAssumption`, `ConsoleAssumption` | scenarios are requests; the policy a life of the service begins with has an integer expiry, whenever it begins; no answer yet is not an answer, and no value is not a request |
| `ViewAssumption` | each view has something to show; "nothing" and "empty" are no keys |
| `LogFileAssumption`, `ReportingAssumption`, `RequestAssumption` | limits are numbers (of a log at least 2), a write has at least one entry and an entry a byte, buffers hold at least one; a fetch is no XHR |
| `SanitizerAssumption`, `ThrottleAssumption`, `TypedAssumption`, `SamplesAssumption` | limits of nesting, of lists and of time are numbers; what is typed into a masked field is not a text the page tells anyway; samples are values whose children are samples, parsed JSON among them |
| `ContentAssumption` | a payload is a sequence; "", a missing text, is no key of a configuration; React gives no two charts of a page one id; the days of a range are marked with the names of its three places |

`OperatorProofs`. What the operators return, for every input. Python's `max` over a
list is `FirstGreatest`, a `CHOOSE`; that it returns a greatest element of every list
of integer keys is `FirstGreatestIsGreatest`, from the well-foundedness of the
naturals. `BlockWins`, `ConflictWins` and `Unblocked` say what one evaluation returns;
`RemainingFacts` and `FilterFacts` what a redaction leaves and what it reports, for
bodies of any length.

`PolicyAndRedactionProofs`. The properties of the engine speak of a verdict that was
given earlier; the inductive invariant `IInv` adds that the verdict at hand is the one
the engine gives for the item at the time it was asked. With it `BlockAlwaysDominates`,
`ConflictAlwaysFailsClosed`, `ReleaseAlwaysEarned` and `ExpiryAlwaysFinal` follow from
the lemmas. `OrderIsImmaterial` follows the positions of the rules through a
permutation: the rules that match, the highest priority and the set of its actions are
the same, so the action is; two rules of one identifier may still differ in the fields
they permit, and the property excludes just that. For redaction, `RedactionInv` says
that the result at hand is the redaction of the body at hand, and that on a second pass
every leaf is a permitted one. `LossesAreReported`, `SurvivorsStoodInLists` and
`RedactionIsIdempotent` are the results.

`EgressGatewayProofs`. `ReleaseAuthorised` says something of deliveries only, and
is not inductive: a call about to send may have anything behind it. `IInv(C)` gives
every call of `C` a `Journey`: for each stage the checks that were passed on the way,
each at some moment of the call's own span, and that its locals are what those
checks returned (the entry that was validated with what its host resolved to and the
canonical URL, the entry that was looked up after that, the first decision, the
redacted body). `MetEntries` adds that either entry is one the destination had at the
time (`held`). Each check adds one part and disturbs no other (one lemma per action);
other calls, the clock and a registry that replaces entries keep the rest
(`JourneyKept`), since spans only grow and no entry is ever removed; at the send the
parts together are `Authorised` and `AsRegistered`. From it follow `GatewayTyped`,
`OnlyAuthorisedReleases`, `ReleasesAsRegistered`, and `ExpiredNeverReleases`, which
adds what a passed `Decode` and an unblocked evaluation say of expiry.

The books of the gateway need two more on top of the first. `Books` says of a call
what its locals report as missing, and that it has a delivery exactly from its send
on; of a delivery, that it is the only one of its call and is what the decision tells.
`Counters` says of a receiver that its counter is the number of its deliveries. The
receipt reads that counter in a step of its own, while others send: a delivery is at
most the one counted, since counters only grow, and what is counted has happened.
`DecisionsTellDeliveries`, `ReceiptsCountDeliveries` and `RemovedValuesNeverArrive`
follow.

`GuardedStaysInside` is for every policy that has a rule which blocks confidential and
restricted data to the outside and asks for nothing else. A delivery's first judgement
was no block; by `BlockWins` its classes held neither, and they hold the class of every
leaf of the body; what was released is a part of that body. A destination that is moved
outside while it is served is judged as it was looked up, so the property is about those
that were outside when they were validated and until they were judged.
`ConfidentialKeptInside` is the default application: `block-external-confidential` is
such a rule (`app.py` 224-231).

`EgressServiceProofs`, first part. Every step of a call goes on, refuses, delivers or
acknowledges what it delivered (`Acts`): one lemma per action sorts it into one of
the four. So a call has delivered exactly when it is about to acknowledge, or is
decided and says it sent (`Told`); with the shape of the state this is inductive
(`TInv`). Under the mapping that calls an undecided call open and lists the calls of
the deliveries, the four kinds are a stutter or `Ask`, `Answer` or `Ask`, `Release`,
and `Answer`; `Told` gives the guards, that a call released once does not release
again. `TakesControlSteps` is the result. Registrations and the clock stutter.

Second part. Of the gateway the service needs `Told` only. Around it `SInv`
says what a handler knows at each phase: a decision is made before it is recorded, a
row is of a decided call, and, while the evidence of the call's process is held (a
database file, or no crash since), a handler that recorded has its row. The case that
makes it delicate is the crash: a life that ended is never that of a later process, so
nothing is claimed of a memory or temporary database it takes along. From
`ServiceInvariance` follow `WhoeverIsToldIsRecorded`, `StrictAnswersLast` (a strict
environment that serves is not in memory; that it is not temporary is a condition of
the property), `NoDeliveryIsSilent` and `EvidenceIsTrue`; `CommittedEvidenceStays`
needs the steps only. `RInv` says which way every call came and that the event count
is the number of calls announced in this life; no assumption makes the calls finite, so
that those announced so far are is part of it. `OnlyGovernedEgress` follows.

Third part. The gateway's own theorems speak of one gateway; the service makes a new
one, with a new engine, at every start. That is why `IInv` has a parameter: `GInv` is
`IInv` of the calls that the present life may still act for (`Live`), with `Books` for
all calls there ever were. A crash takes calls out of the former and leaves
what they delivered to the latter (`RestartKeeps`); any other step moves the gateway
by one of its own steps or not at all (`GatewayInvariance`). `ServiceReleasesAuthorised`,
`ServiceExpiredReleasesNothing`, `ServiceKeepsRemovedOut`, `ServiceDecisionsTell` and
`ServiceKeepsConfidentialInside` carry five of the gateway's theorems through every
crash. `Counters` cannot follow: the counters of a receiver begin at zero in every
life, while the deliveries of the lives before remain, and `ReceiptCountsDelivery` is
of one gateway.

`EventStreamProofs`. `SInv` says that what a generator looked at is between the number
at its connection and the number now, in each of its two looks, whatever is counted
between them; a crash ends the generators, so the number that begins again at 0 is
not compared with theirs. `OnlyNewsAreDecisions` follows: a "decision" is news to its
client, a "heartbeat" repeats what it was sent.

`OperatorConsoleProofs`. In `CasesInv` the two sights of the connection are parted
only by a write whose request ended in an error; both rows of a decision are as new as
every answer says, by the order of the updates in the log; and an update still to be
read back is in both. `CasesHold` follows, the step that a shown
case is taken back included. In `IncidentsInv` fields and comments only go on: what a
handler wrote is there at each of its later steps, or something newer, a handler that
has not come to a field has written none, and a list under way is the beginning of the
incidents. `IncidentsHold` follows.

`ControlCenterProofs`. The page is a sum, so a step moves one part, and what a part
keeps under its own steps it keeps under all (`PartsMove`). Each part has its
invariant, for most properties speak of a moment at rest:

- views (`ViewInv`): the last request is for what is shown (`LastAskedIsShown`), so the
  answer that comes last, in order, is the right one; overview (`OverviewInv`): unless
  polls overlapped one is under way, and the pill has its answers so far. `ViewsAreTrue`.
- sessions (`SessionInv`): a mount waits for one check at most, which is of the stored
  session unless calls crossed, and only tokens signed out are revoked.
  `SessionsAreRight`.
- compositions (`CompositionInv`): what each flag says of the timer that will reset it,
  as long as the dialog's timer met no composition that was not its own.
  `EditorKeysAreKept`.
- sidebar, carousel, shell (`SidebarInv`, `CarouselInv`, `ShellInv`): the parity of
  toggles, which engine is listened to, which map has its script. `MirrorsFollow`.
- charts, fields, servers: no state but the input that was chosen, so the work is in one
  lemma for each property, about every input: that the places of a label are one
  (`LabelIsShownOnce`, by cases on a nested row and a hidden item), that a series has one
  variable in a theme (`ColouredOnce`), that the charts of one id are one chart
  (`WornAreOwn`, which needs that React repeats no id). `ContentIsShown`.

`ViewsTakeLoadableSteps` is the safety part of the refinement: the views start as
`Loadable` does, and every step is one of its steps or stutters.

`CollectorProofs`. Of a file, `LogInv` says that it is an end of the whole, element by
element (`EndOf`): an append continues the last piece of both alike, a trim takes an
end, and an end of an end is an end. In every piece a fragment that is torn or has one
after it is cut, and so is all of the last piece, which the next append continues
(`SafeText`), even when trims fail half-way.
With `FileIsNewestPart` comes `LinesAlwaysSurvive`: an entry is torn or shares its line
only where a write failed, and a write that was answered has its newest line whole at
the end, unless that line alone is more than a trim keeps. It counts bytes; `Total` is a recursive function on the
numbers up to a length, and its facts are proved by induction over a set of lengths
(`NatSetInduction`).

Of reports, `ReportingInv` says that every entry is somewhere, be it among those that
were buffered with one that could not be written, and that, unless reports
overlapped, one is under way, what it carries is older than what is buffered, and what was
evicted is older than both, or the buffer is full and leaves no room for what is put back.
`NoEntryVanishes` and `EntriesKeepTheirOrder` follow. Of requests, `RequestInv` says
that an object records under its present turn only, of which there is nothing before
it is done, and then one entry for each time its listeners were attached before that;
`RequestsAreRecorded` follows.

Of a page's events, `CaptureInv` says that what entries tell was never typed where it is
masked (`PayloadTells`, for each way a payload is made), and where the scrolls told of
lie between the times of the throttle, for a clock that may be set back.
`EventsAreCaptured` follows. `EntriesAreCaptured` adds the sanitizer, whose recursion
has no bound on the shape of a value. `SanitizeValue` is written with two recursive
functions on the depth, `met`, the values met on the way down, and `sanitized`, what
becomes of them, from the last depth up; `AlongExists`, `MetExists` and
`SanitizedExists` show that these recursions define what they say, `SanitizeUnfolds`
gives back the recursion of the code, and `SanitizedAlong` is the induction along a
path: result and value go together until a step that hides, or goes too deep.
`SanitizedOnPaths` is what a reader wants of it. `SanitizedByPath` is a conjunction of
implications and no `CASE`: the proof needs to know which arm counts where a sensitive
key lies beyond the last depth, and there two of them would.

Model-checked only:

- all liveness: `EveryRequestAnswered`, `EveryEntrySettles`, the part of
  `StreamsTellDecisions` that clients catch up, and the fairness in `ControlsRelease`
  and `ViewsRefineLoadable`. The safety of the last three is proved. Fairness and
  ENABLED are out of the prover's reach.
- the five findings, which are counterexamples.

No installed prover can instantiate an induction theorem with a property. Where an
induction was needed (`FirstGreatestIsGreatest`, `Total`, the sanitizer), it is over the
set of the numbers for which the claim holds (`NatSetInduction`).

## Findings

Each has a run that ends in a counterexample.

1. `RemovedValuesDoNotSurvive`. What a redaction took away is found as the paths that
   are gone, and a list of scalars that is emptied keeps its path in both sets
   (`transformations.py` 37-39, 127). Its elements are reported nowhere, so the survival
   check has nothing to look for and passes when such a value stands in a permitted
   field, against the docstring of line 59. The run has one element in the list. Of
   lists of which a leaf is reported the check knows the last value only (68): that is
   the other way a value may pass, and `SurvivorsOnlyInLists` says that there is no third.
2. `DecisionsDurablyRecorded`. A decision whose record fails is answered with 503
   and recorded nowhere, although its body may have been delivered (`app.py` 803,
   README 157). `NoSilentRelease` states what does hold: the client is told.
3. `DemoDataLabelled`. The pill "Live gateway" follows the health check alone
   (`Home.tsx` 240, 293), the list of records only an answer that holds some (242-245).
   In the run the health check is answered and status and evidence are refused: the
   demonstration records stay under the pill (docs/frontend-design.md 92, README 204).
   An answer without records has the same effect.
4. `ServerSentEvents`. The messages of the event stream end in a backslash and an n
   instead of a line feed, twice (`app.py` 615, 617), so that the response is one
   line without an end and an event source dispatches nothing, against README 246.
   `ClientsCatchUp` speaks of what is sent.
5. `ScenariosRaiseSequence`. A demonstration scenario is recorded and answered without
   a call of `next_event` (`app.py` 533, against 787), so the Traffic Lab does not
   advance the event sequence as README 248 says, and no client of the stream hears of
   its decisions. `EgressRouteIsGated` says what does hold, of the egress route.

Other places where the code is not what a reader of it, or of a comment beside it,
may expect. The model has what the code does, and no property claims more.

Gateway. Demonstration scenarios release without the governance and readiness checks
of the egress route (`app.py` 519, where 782-786 are not passed), while README 113 speaks
of a validation before release; `EgressRouteIsGated` is of the egress route. A delivery
whose process dies before the commit is on no record and its client has no answer
(786-803): nothing in the code tells of it, and no property claims that anything does.
An empty `TRACELOCK_EVIDENCE_DB` is a temporary database of SQLite, which a strict
environment does not refuse (`governance.py` 75; `StrictAcksSurvive` excepts it).
A destination replaced between the two look-ups of a call is judged as the new one and
sent to the URL of the old one (`gateway.py` 245-261; `JudgedAsRegistered` says exactly
so). `/metrics` is one line, for the reason of finding 4 (335).

Operators. A case update that failed with an error is shown to everybody until it is
committed by the next write or taken back (`evidence.py` 229;
`SeenStaysOrBroke`). An update may be answered with a later one, for it is read back
after the lock (236). A change of an incident that is refused has opened it (`app.py`
594), and a list of the incidents ends in an internal error when one is opened
meanwhile (586; `ListsAreWhole`). The evidence report counts at most 200 records
(674, `evidence.py` 206).

Views. A sign-out whose request fails forgets the token and leaves the session open
(`Home.tsx` 210); a restart of the gateway forgets which sessions were revoked
(`operations.py` 96; `SessionsAgree` excuses both). An export after a failed load exports the records of the filters
before it. The navigation on a phone stays open for the view "system" (288), and
"Gateway healthy" at its foot is a constant. `usePersistFn` does not help the map:
its callback and centre are those of the render that mounted it (`Map.tsx` 128).

Library. `useFormField` has a guard that never fires (`form.tsx` 52). A slider with
one value and no property of its own draws two thumbs. A sidebar with `onOpenChange`
and no `open` is frozen, and its cookie is written and never read. `FieldError` of an
empty list is an empty alert. `Progress` does not hand its value on. A carousel's
`axis` option is overruled by the default of its orientation. A composition that
begins within 100 ms of another leaves the dialog unguarded, and so does, in Safari on a
busy page, one whose 100 ms are over before the second of the nested timers
(`useComposition.ts` 51, `input.tsx` 45; `EditorKeysStayInside` says exactly so). A
`ManusDialog` that keeps its own state and is closed before the effect of a property
that opens it is opened again by the effect (`ManusDialog.tsx` 31).

Collector. An XHR that times out or is aborted is recorded nowhere (header, line 6), and
one whose `send` is called again, on a request that is over, is recorded once more for
each such call the next time it is opened (620; `XhrRecordedPerSend`). A value that
`JSON.stringify` throws at, such as a BigInt handed to the console, takes the report it is
part of with it, for the buffers are emptied before (717-743; `NothingVanishes`). Headers
(485, 503), texts and errors handed to the console (100-104) and responses of more than
10240 characters (561, 646) are recorded without masking (`EntriesCaptured`). An append
that stops before the newline of a line leaves it to be shared with the next entry
(`vite.config.ts` 65; `LinesSurvive`).
The `key` of a key press is always masked (312, against the comment of 305). A
report answered with 400 is not put back (745). After reports that were put back out
of order the beacon, and a full buffer, may drop newer entries than they keep (786;
`OrderKept` has the condition). A trim empties a file whose newest line alone is more
than its target (`vite.config.ts` 41). The production server has no storage proxy
(`PagesFindTheirServer`).

## Not modelled

For good: presentation and layout, packaging, the read-only routes, which change
nothing; components of the library that keep no state and hand their properties on
(menus, cards, tables, tabs); generated theme and example data; a duplicate path made
by keys that contain a dot; DNS between validation and sending (the transport does
not connect).

Not yet, in the order of their weight:

1. A client that retries after 503, and who reads the evidence then.
2. The rest of the console: saved investigations, alert rules and destination records,
   which are stored and listed and nothing asks for; members and roles beyond the
   guard of an update; the forms of the page for them.
3. Bodies as trees, with the recursive definitions of the code, to cross-check the
   flat form of `Payloads`.
4. `compose.yaml`: who reaches whom.
