---------------------------- MODULE LogReporting ----------------------------
(***************************************************************************)
(* The debug collector of a page (debug-collector.js) and the endpoint of  *)
(* the development server it reports to (vite.config.ts).  Entries are     *)
(* buffered by kind; every two seconds the buffers are emptied into a      *)
(* report; a report whose fetch is rejected is put back in front of what   *)
(* was buffered since.  Reports do not wait for one another.  A value that *)
(* JSON.stringify throws at (a BigInt in an argument of the console) takes *)
(* the report it would be part of with it: the buffers are empty by then.  *)
(* As the page is left, a beacon takes a copy of the buffers.              *)
(*                                                                         *)
(* Requests and answers may be lost, reports may be served and settled in  *)
(* any order, and the server may fail between the files it writes.  What   *)
(* the file keeps of the entries written to it is LogFile's.               *)
(***************************************************************************)
EXTENDS Naturals, SequencesExt

CONSTANTS Kinds,        \* the buffers, in the order the server writes them
          BufferSize,   \* CONFIG.bufferSize
          Events,       \* which buffers one event of the page writes to
          ProgramKinds, \* the buffers whose entries hold values of the program
          Reports,      \* bound on the reports under way at a time
          BeaconLimit,  \* how many entries fit in a beacon
          BeaconKeeps,  \* how many of a kind a truncated beacon keeps
          MaxEntries,   \* bound on the entries of a kind
          MaxFaults     \* bound on the faults, and on the pages that stay

ASSUME ReportingAssumption ==
  /\ BufferSize \in [Range(Kinds) -> Nat \ {0}] /\ BeaconKeeps \in [Range(Kinds) -> Nat]
  /\ Events \subseteq SUBSET Range(Kinds)
  /\ BeaconLimit \in Nat /\ MaxEntries \in Nat /\ MaxFaults \in Nat

VARIABLES
  store,      \* kind -> its buffer; an entry is the number it was created with
  created,    \* kind -> how many entries there have been
  report,     \* report -> how far it is and what it carries
  logged,     \* kind -> what was appended to its log file
  page,       \* "open" or "gone"
  faults,     \* how many faults there were
  evicted,    \* history: kind -> the entries pruneBuffer removed
  refused,    \* history: kind -> the entries of reports that were answered 400
  overlapped, \* history: reportLogs found entries while a report was under way
  doubtful,   \* history: an answer was lost, or a page stayed after its beacon
  unwritable, \* kind -> the entries with a value that JSON.stringify throws at
  thrown      \* history: kind -> the entries of reports that could not be made

buffers == <<store, created, evicted, unwritable, thrown>>
reportingVars == <<store, created, report, logged, page, faults, evicted, refused,
                   overlapped, doubtful, unwritable, thrown>>

Kind == Range(Kinds)

NoEntries == [k \in Kind |-> <<>>]

Free == [state |-> "free", data |-> NoEntries]

UnderWay == {r \in Reports : report[r].state # "free"}

HasEntries(data) == \E k \in Kind : data[k] # <<>>

\* JSON.stringify does not throw.
Writable(data) == \A k \in Kind : Range(data[k]) \cap unwritable[k] = {}

\* pruneBuffer: the oldest make room.
Pruned(buffer, k) ==
  SubSeq(buffer, IF Len(buffer) > BufferSize[k] THEN Len(buffer) - BufferSize[k] + 1 ELSE 1,
         Len(buffer))

Latest(buffer, n) == SubSeq(buffer, IF Len(buffer) > n THEN Len(buffer) - n + 1 ELSE 1, Len(buffer))

\* The buffers become `data`, within their limits.
Buffer(data) ==
  /\ store' = [k \in Kind |-> Pruned(data[k], k)]
  /\ evicted' = [k \in Kind |-> evicted[k] \cup (Range(data[k]) \ Range(Pruned(data[k], k)))]

ReportingInit ==
  /\ store = NoEntries
  /\ created = [k \in Kind |-> 0]
  /\ report = [r \in Reports |-> Free]
  /\ logged = NoEntries
  /\ page = "open" /\ faults = 0
  /\ evicted = [k \in Kind |-> {}] /\ refused = [k \in Kind |-> {}]
  /\ overlapped = FALSE /\ doubtful = FALSE
  /\ unwritable = [k \in Kind |-> {}] /\ thrown = [k \in Kind |-> {}]

-----------------------------------------------------------------------------
(* The page.                                                               *)

\* An event is recorded: a click or a call of the console in one buffer, an uncaught
\* error in two.  What the program gave may be a value that cannot be written.
RecordEvent(event) ==
  /\ page = "open"
  /\ \A k \in event : created[k] < MaxEntries
  /\ created' = [k \in Kind |-> IF k \in event THEN created[k] + 1 ELSE created[k]]
  /\ Buffer([k \in Kind |-> IF k \in event THEN Append(store[k], created[k] + 1) ELSE store[k]])
  /\ \/ UNCHANGED <<unwritable, faults>>
     \/ /\ faults < MaxFaults
        /\ faults' = faults + 1
        /\ \E k \in event \cap ProgramKinds :
             /\ event = {k}
             /\ unwritable' = [unwritable EXCEPT ![k] = @ \cup {created[k] + 1}]
  /\ UNCHANGED <<report, logged, page, refused, overlapped, doubtful, thrown>>

Dispatch(r, state, data) ==
  /\ report[r].state = "free"
  /\ report' = [report EXCEPT ![r] = [state |-> state, data |-> data]]
  /\ overlapped' = (overlapped \/ UnderWay # {})

\* Mutated form (of ReportLogs): `||` between the conditions of the early return.
ReportLogsOfAll(r) ==
  /\ page = "open" /\ (\A k \in Kind : store[k] # <<>>) /\ Writable(store)
  /\ Dispatch(r, "sent", store)
  /\ store' = NoEntries
  /\ UNCHANGED <<created, logged, page, faults, evicted, refused, doubtful, unwritable, thrown>>

\* reportLogs: with nothing to report, nothing happens.  The buffers are emptied
\* before the payload is written; when that throws, there is no fetch whose rejection
\* would put the entries back.  (That error is uncaught: an event like any other.)
ReportLogs(r) ==
  /\ page = "open" /\ HasEntries(store)
  /\ store' = NoEntries
  /\ \/ Writable(store) /\ Dispatch(r, "sent", store) /\ UNCHANGED thrown
     \/ /\ ~Writable(store)
        /\ thrown' = [k \in Kind |-> thrown[k] \cup Range(store[k])]
        /\ overlapped' = (overlapped \/ UnderWay # {})
        /\ UNCHANGED report
  /\ UNCHANGED <<created, logged, page, faults, evicted, refused, doubtful, unwritable>>

Release(r) == report' = [report EXCEPT ![r] = Free]

\* The fetch resolves, with whatever status: the entries are dropped.
ReportResolves(r) ==
  /\ page = "open" /\ report[r].state \in {"written", "refused"}
  /\ Release(r)
  /\ UNCHANGED <<buffers, logged, page, faults, refused, overlapped, doubtful>>

\* Mutated forms (of PutBack): what was buffered in the meantime is overwritten, or
\* comes first.
PutBackOver(r) ==
  /\ page = "open" /\ report[r].state = "lost"
  /\ Buffer(report[r].data)
  /\ Release(r)
  /\ UNCHANGED <<created, logged, page, faults, refused, overlapped, doubtful, unwritable, thrown>>

PutBackLast(r) ==
  /\ page = "open" /\ report[r].state = "lost"
  /\ Buffer([k \in Kind |-> store[k] \o report[r].data[k]])
  /\ Release(r)
  /\ UNCHANGED <<created, logged, page, faults, refused, overlapped, doubtful, unwritable, thrown>>

\* The fetch is rejected: "Put data back on failure (but respect limits)".
PutBack(r) ==
  /\ page = "open" /\ report[r].state = "lost"
  /\ Buffer([k \in Kind |-> report[r].data[k] \o store[k]])
  /\ Release(r)
  /\ UNCHANGED <<created, logged, page, faults, refused, overlapped, doubtful, unwritable, thrown>>

Count(data) == FoldLeft(LAMBDA sum, k : sum + Len(data[k]), 0, Kinds)

\* What the beacon holds of the buffers.
BeaconData ==
  IF Count(store) > BeaconLimit
  THEN [k \in Kind |-> Latest(store[k], BeaconKeeps[k])] ELSE store

\* beforeunload, which another listener may yet cancel: the page stays or goes.
Unload(r) ==
  /\ page = "open" /\ HasEntries(store) /\ Writable(store)
  /\ Dispatch(r, "beacon", BeaconData)
  /\ \/ page' = "gone" /\ UNCHANGED <<faults, doubtful>>
     \/ /\ faults < MaxFaults
        /\ faults' = faults + 1
        /\ doubtful' = TRUE
        /\ UNCHANGED page
  /\ UNCHANGED <<buffers, logged, refused>>

\* No beacon: there is nothing to report, or it cannot be written.
UnloadSilent ==
  /\ page = "open" /\ (HasEntries(store) => ~Writable(store))
  /\ page' = "gone"
  /\ UNCHANGED <<buffers, report, logged, faults, refused, overlapped, doubtful>>

-----------------------------------------------------------------------------
(* The network and the server.                                             *)

Append1(k, data) == logged[k] \o data[k]

\* handlePayload when every file can be written.  Nobody waits for the answer to
\* a beacon.
HandlePayload(r) ==
  /\ report[r].state \in {"sent", "beacon"}
  /\ logged' = [k \in Kind |-> Append1(k, report[r].data)]
  /\ report' = [report EXCEPT ![r] = IF @.state = "beacon" THEN Free ELSE [@ EXCEPT !.state = "written"]]
  /\ UNCHANGED <<buffers, page, faults, refused, overlapped, doubtful>>

\* A file cannot be written: those before it have been, those after it are not,
\* and the answer is 400.
HandlePayloadFails(r) ==
  /\ report[r].state \in {"sent", "beacon"} /\ faults < MaxFaults
  /\ faults' = faults + 1
  /\ \E i \in DOMAIN Kinds :
       LET written == {Kinds[j] : j \in 1 .. i - 1} IN
       /\ report[r].data[Kinds[i]] # <<>>
       /\ logged' = [k \in Kind |-> IF k \in written THEN Append1(k, report[r].data) ELSE logged[k]]
       /\ refused' = [k \in Kind |->
                        IF k \in written THEN refused[k] ELSE refused[k] \cup Range(report[r].data[k])]
  /\ report' = [report EXCEPT ![r] = IF @.state = "beacon" THEN Free ELSE [@ EXCEPT !.state = "refused"]]
  /\ UNCHANGED <<buffers, page, overlapped, doubtful>>

\* The request does not arrive, or not whole.
RequestLost(r) ==
  /\ report[r].state \in {"sent", "beacon"} /\ faults < MaxFaults
  /\ faults' = faults + 1
  /\ report' = [report EXCEPT ![r] = IF @.state = "beacon" THEN Free ELSE [@ EXCEPT !.state = "lost"]]
  /\ UNCHANGED <<buffers, logged, page, refused, overlapped, doubtful>>

\* The server stops, or the connection breaks, before the answer arrives.
AnswerLost(r) ==
  /\ report[r].state \in {"written", "refused"} /\ faults < MaxFaults
  /\ faults' = faults + 1
  /\ report' = [report EXCEPT ![r].state = "lost"]
  /\ doubtful' = TRUE
  /\ UNCHANGED <<buffers, logged, page, refused, overlapped>>

\* A page that is gone takes no answer.
Abandon(r) ==
  /\ page = "gone" /\ report[r].state \in {"written", "refused", "lost"}
  /\ Release(r)
  /\ UNCHANGED <<buffers, logged, page, faults, refused, overlapped, doubtful>>

Settle(r) == ReportResolves(r) \/ PutBack(r) \/ HandlePayload(r)

ReportingNext ==
  \/ \E event \in Events : RecordEvent(event)
  \/ UnloadSilent
  \/ \E r \in Reports :
       \/ ReportLogs(r) \/ Settle(r) \/ Unload(r)
       \/ HandlePayloadFails(r) \/ RequestLost(r) \/ AnswerLost(r) \/ Abandon(r)

\* The timer fires for as long as the page is open, a fetch settles, and a server
\* that is reached answers; the network and the disk do not fail for ever.
ReportingFairness ==
  /\ WF_reportingVars(\E r \in Reports : ReportLogs(r))
  /\ \A r \in Reports : WF_reportingVars(Settle(r))

-----------------------------------------------------------------------------
Entries == 1 .. MaxEntries

ReportingTypeOK ==
  /\ store \in [Kind -> Seq(Entries)]
  /\ \A k \in Kind : Len(store[k]) <= BufferSize[k]
  /\ created \in [Kind -> 0 .. MaxEntries]
  /\ \A r \in Reports :
       /\ report[r].state \in {"free", "sent", "beacon", "written", "refused", "lost"}
       /\ report[r].data \in [Kind -> Seq(Entries)]
  /\ logged \in [Kind -> Seq(Entries)]
  /\ page \in {"open", "gone"} /\ faults \in 0 .. MaxFaults
  /\ evicted \in [Kind -> SUBSET Entries] /\ refused \in [Kind -> SUBSET Entries]
  /\ overlapped \in BOOLEAN /\ doubtful \in BOOLEAN
  /\ unwritable \in [Kind -> SUBSET Entries] /\ thrown \in [Kind -> SUBSET Entries]

\* Where an entry is that was not written yet.
Kept1(k, id) ==
  \/ id \in Range(store[k])
  \/ \E r \in Reports : report[r].state \in {"sent", "lost"} /\ id \in Range(report[r].data[k])

\* An entry that was in the buffers with one that could not be written.
LostToThrow(k, id) ==
  id \in thrown[k] /\ \E other \in Kind : thrown[other] \cap unwritable[other] # {}

\* No entry vanishes: while the page is open it is buffered, under way or in the
\* log, unless a full buffer pruned it, the server answered 400, or it was buffered
\* with an entry that JSON.stringify throws at (717-753).
NothingVanishes ==
  ReportingTypeOK /\ \A k \in Kind : \A id \in 1 .. created[k] :
    \/ Kept1(k, id)
    \/ id \in Range(logged[k]) \/ id \in evicted[k] \/ id \in refused[k]
    \/ LostToThrow(k, id)
    \/ page = "gone"

LoggedInOrder ==
  \A k \in Kind : \A i, j \in DOMAIN logged[k] : i < j => logged[k][i] < logged[k][j]

EvictedAreOldest ==
  \A k \in Kind : \A gone \in evicted[k] : \A id \in Range(store[k]) : gone < id

\* As long as no report is made while another is under way, a full buffer loses its
\* oldest entries only, and if moreover no answer is lost and no page stays after
\* its beacon, the log has every entry at most once and in the order they were
\* created, whatever else fails (716-754).
OrderKept ==
  ~overlapped => EvictedAreOldest /\ (doubtful \/ LoggedInOrder)

\* The timer empties the buffers until every entry has been written, refused, evicted
\* or lost with one that cannot be written, or the page is gone: no entry stays in the
\* page for ever.
EveryEntrySettles ==
  \A k \in Kind : \A id \in Entries :
    created[k] >= id ~>
      \/ id \in Range(logged[k]) \/ id \in evicted[k] \/ id \in refused[k]
      \/ LostToThrow(k, id)
      \/ page = "gone"
=============================================================================
