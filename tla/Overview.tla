------------------------------ MODULE Overview ------------------------------
(***************************************************************************)
(* The overview of the Control Center (Home in Home.tsx).  Its effect asks *)
(* for the health, the status and the latest evidence together and takes   *)
(* the answers apart in steps, since a body is read asynchronously; it     *)
(* runs again when the text of the refresh time changes.  The list starts  *)
(* with demonstration records, and the pill of the header tells a live     *)
(* gateway from a demonstration snapshot.                                  *)
(***************************************************************************)
EXTENDS Naturals, FiniteSets

CONSTANTS Polls,      \* bound on the runs of the effect under way
          MaxSeconds  \* bound on the clock

ASSUME OverviewAssumption == MaxSeconds \in Nat \ {0}

VARIABLES
  second,         \* the wall clock, as the refresh time shows it
  lastRefresh,    \* the time shown, or 0 for "just now"
  poll,           \* poll -> how far it is and what it was answered
  apiOnline,
  liveStatus,     \* whether a status was ever read
  recentEvidence, \* "demo" or "live"
  complete,       \* history: the last poll that settled was answered completely
  overlapped      \* history: two polls were under way at a time

overviewVars == <<second, lastRefresh, poll, apiOnline, liveStatus, recentEvidence,
                  complete, overlapped>>

Answers == [health : BOOLEAN, status : {"ok", "refused", "garbled"},
            evidence : {"records", "none", "refused", "garbled"}]

AllRefused == [health |-> FALSE, status |-> "refused", evidence |-> "refused"]

At(stage, answers) == [stage |-> stage, answers |-> answers]

Idle == At("idle", AllRefused)

Polling == {p \in Polls : poll[p].stage # "idle"}

\* demoEvidence, and the effect of the first render.
OverviewInit ==
  /\ second = 1 /\ lastRefresh = 0
  /\ \E p \in Polls : poll = [q \in Polls |-> IF q = p THEN At("asked", AllRefused) ELSE Idle]
  /\ apiOnline = FALSE /\ liveStatus = FALSE /\ recentEvidence = "demo"
  /\ complete = FALSE /\ overlapped = FALSE

SecondPasses ==
  /\ second < MaxSeconds
  /\ second' = second + 1
  /\ UNCHANGED <<lastRefresh, poll, apiOnline, liveStatus, recentEvidence, complete, overlapped>>

\* Within the second of the last one a refresh asks for nothing.
RefreshOverview(p) ==
  /\ lastRefresh # second /\ poll[p].stage = "idle"
  /\ lastRefresh' = second
  /\ poll' = [poll EXCEPT ![p] = At("asked", AllRefused)]
  /\ overlapped' = (overlapped \/ Polling # {})
  /\ UNCHANGED <<second, apiOnline, liveStatus, recentEvidence, complete>>

AfterStatus(answers) == IF answers.evidence = "refused" THEN "idle" ELSE "evidence"

AfterHealth(answers) == IF answers.status = "refused" THEN AfterStatus(answers) ELSE "status"

\* Poll p goes on to `stage`, or is complete.
GoOn(p, stage, answers) ==
  /\ poll' = [poll EXCEPT ![p] = IF stage = "idle" THEN Idle ELSE At(stage, answers)]
  /\ complete' = IF stage = "idle" THEN answers.health ELSE complete
  /\ UNCHANGED <<second, lastRefresh, overlapped>>

Rejected(p) ==
  /\ poll' = [poll EXCEPT ![p] = Idle]
  /\ apiOnline' = FALSE /\ complete' = FALSE
  /\ UNCHANGED <<second, lastRefresh, overlapped>>

\* One of the three does not answer in time.
PollFails(p) ==
  /\ poll[p].stage = "asked"
  /\ Rejected(p)
  /\ UNCHANGED <<liveStatus, recentEvidence>>

PollAnswered(p) ==
  /\ poll[p].stage = "asked"
  /\ \E answers \in Answers :
       /\ apiOnline' = answers.health
       /\ GoOn(p, AfterHealth(answers), answers)
  /\ UNCHANGED <<liveStatus, recentEvidence>>

\* Mutated form (of StatusRead): a body that cannot be read changes nothing.
StatusReadOrNot(p) ==
  LET answers == poll[p].answers IN
  /\ poll[p].stage = "status"
  /\ GoOn(p, AfterStatus(answers), [answers EXCEPT !.health = @ /\ answers.status = "ok"])
  /\ liveStatus' = (liveStatus \/ answers.status = "ok")
  /\ UNCHANGED <<apiOnline, recentEvidence>>

StatusRead(p) ==
  LET answers == poll[p].answers IN
  /\ poll[p].stage = "status"
  /\ \/ /\ answers.status = "ok"
        /\ liveStatus' = TRUE
        /\ GoOn(p, AfterStatus(answers), answers)
        /\ UNCHANGED apiOnline
     \/ /\ answers.status = "garbled"
        /\ Rejected(p)
        /\ UNCHANGED liveStatus
  /\ UNCHANGED recentEvidence

\* Without records the list stays as it is.
EvidenceRead(p) ==
  LET answers == poll[p].answers IN
  /\ poll[p].stage = "evidence"
  /\ \/ /\ answers.evidence # "garbled"
        /\ recentEvidence' = IF answers.evidence = "records" THEN "live" ELSE recentEvidence
        /\ GoOn(p, "idle", answers)
        /\ UNCHANGED apiOnline
     \/ /\ answers.evidence = "garbled"
        /\ Rejected(p)
        /\ UNCHANGED recentEvidence
  /\ UNCHANGED liveStatus

PollSteps(p) == PollFails(p) \/ PollAnswered(p) \/ StatusRead(p) \/ EvidenceRead(p)

OverviewNext ==
  \/ SecondPasses
  \/ \E p \in Polls : RefreshOverview(p) \/ PollSteps(p)

-----------------------------------------------------------------------------
OverviewTypeOK ==
  /\ second \in 1 .. MaxSeconds /\ lastRefresh \in 0 .. MaxSeconds
  /\ poll \in [Polls -> [stage : {"idle", "asked", "status", "evidence"}, answers : Answers]]
  /\ {apiOnline, liveStatus, complete, overlapped} \subseteq BOOLEAN
  /\ recentEvidence \in {"demo", "live"}

\* When polls do not overlap and none is under way, the pill says "Live gateway"
\* exactly if the last one found the gateway healthy and could read all it was
\* answered: one that fails on the way takes back what it set before (240, 258).
PillTellsLastPoll == ~overlapped /\ Polling = {} => apiOnline = complete

\* The demonstration records are shown under "Demo snapshot" only, once a poll has
\* settled (53-58, 244, 293).
DemoDataLabelled == apiOnline /\ Polling = {} => recentEvidence # "demo"
=============================================================================
