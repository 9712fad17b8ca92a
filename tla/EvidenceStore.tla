--------------------------- MODULE EvidenceStore ---------------------------
(***************************************************************************)
(* The case operations on the evidence store (tracelock_services/          *)
(* evidence.py, with the routes of app.py that call them): operators       *)
(* change the case of a decision while others read it and the gateway      *)
(* records new decisions.                                                  *)
(*                                                                         *)
(* All share one SQLite connection and one lock.  What runs under the lock *)
(* is one step.  The connection reads its own open transaction, so what a  *)
(* reader sees (view) may be ahead of what is committed (disk): a write    *)
(* that failed is not rolled back by the code.                             *)
(***************************************************************************)
EXTENDS Integers, Sequences

CONSTANTS Decisions,   \* the decisions the gateway records
          Handlers,    \* the requests of operators
          Statuses,    \* case statuses a request may ask for, valid or not
          Unset,       \* no value
          MaxCrashes   \* bound on the crashes

VARIABLES
  memory,     \* the database ends with the process: in memory, or temporary
  storage,    \* what SQLite can do: "writable", "full" (reads only), "down"
  disk,       \* decision -> its committed row, Unset when it has none
  view,       \* decision -> its row as the connection reads it
  recording,  \* decision -> "none", "recorded", "failed" or "lost": its record call
  asked,      \* handler -> [decision, status], Unset for a reader's status
  phase,      \* handler -> "none", "updated", "answered", "lost"
  answer,     \* handler -> [outcome, row]: "row", or why it got none
  crashes,    \* how many times the process has crashed
  life,       \* history: handler -> the life of the process it answered in
  log         \* history: the handlers whose UPDATE ran, in order

database == <<memory, storage, disk, view>>
requests == <<asked, phase, answer, life>>
vars == <<database, recording, requests, crashes, log>>

Controlled == {"open", "acknowledged", "investigating", "closed"}

\* A row is its case: the status, and whose update it was.
NewRow == [status |-> "open", by |-> "record"]

Init ==
  /\ memory \in BOOLEAN
  /\ storage = "writable"
  /\ disk = [d \in Decisions |-> Unset] /\ view = disk
  /\ recording = [d \in Decisions |-> "none"]
  /\ asked = [h \in Handlers |-> Unset]
  /\ phase = [h \in Handlers |-> "none"]
  /\ answer = [h \in Handlers |-> Unset]
  /\ crashes = 0 /\ life = [h \in Handlers |-> 0]
  /\ log = <<>>

-----------------------------------------------------------------------------
\* Mutated form (of Commit): what is written is never committed.
CommitForgotten(written) == view' = written /\ UNCHANGED disk

\* A write and its commit, which takes along what the transaction holds.
Commit(written) == view' = written /\ disk' = written

\* A write that raises: at its execution, at its commit, or with SQLite giving
\* up the transaction.
Fail(written) ==
  /\ storage # "writable"
  /\ \/ UNCHANGED view
     \/ storage = "full" /\ view' \in {written, disk}
  /\ UNCHANGED disk

WithRow(d) == [view EXCEPT ![d] = NewRow]

\* EvidenceStore.record, of a decision that is new.
Record(d) ==
  /\ recording[d] = "none"
  /\ \/ /\ storage = "writable"
        /\ Commit(WithRow(d))
        /\ recording' = [recording EXCEPT ![d] = "recorded"]
     \/ /\ Fail(WithRow(d))
        /\ recording' = [recording EXCEPT ![d] = "failed"]
  /\ UNCHANGED <<memory, storage, requests, crashes, log>>

Answer(h, outcome, row) ==
  /\ phase' = [phase EXCEPT ![h] = "answered"]
  /\ answer' = [answer EXCEPT ![h] = [outcome |-> outcome, row |-> row]]
  /\ life' = [life EXCEPT ![h] = crashes]

\* UPDATE ... WHERE decision_id = ?, which may match no row.
Updated(h, d, status) ==
  [view EXCEPT ![d] = IF @ = Unset THEN Unset ELSE [status |-> status, by |-> h]]

\* POST /v1/evidence/{decision_id}/case of an operator (others are refused, and change
\* nothing) and update_case up to the end of its first locked part; only a ValueError
\* is turned into an answer of its own.
UpdateCase(h, d, status) ==
  /\ phase[h] = "none"
  /\ asked' = [asked EXCEPT ![h] = [decision |-> d, status |-> status]]
  /\ \/ status \notin Controlled
          /\ Answer(h, "invalid_case_status", Unset)
          /\ UNCHANGED <<disk, view, log>>
     \/ status \in Controlled /\ storage = "writable"
          /\ Commit(Updated(h, d, status))
          /\ log' = Append(log, h)
          /\ phase' = [phase EXCEPT ![h] = "updated"]
          /\ UNCHANGED <<answer, life>>
     \/ status \in Controlled
          /\ Fail(Updated(h, d, status))
          /\ log' = Append(log, h)
          /\ Answer(h, "internal_error", Unset)
  /\ UNCHANGED <<memory, storage, recording, crashes>>

\* EvidenceStore.get: under the lock again.
Get(h, d) ==
  /\ \/ storage = "down" /\ Answer(h, "internal_error", Unset)
     \/ storage # "down" /\ view[d] = Unset /\ Answer(h, "evidence_not_found", Unset)
     \/ storage # "down" /\ view[d] # Unset /\ Answer(h, "row", view[d])
  /\ UNCHANGED <<database, recording, crashes, log>>

\* The second locked part of update_case.
ReadBack(h) ==
  /\ phase[h] = "updated"
  /\ Get(h, asked[h].decision)
  /\ UNCHANGED asked

\* GET /v1/evidence/{decision_id}, and the replay, which only looks.
Look(h, d) ==
  /\ phase[h] = "none"
  /\ asked' = [asked EXCEPT ![h] = [decision |-> d, status |-> Unset]]
  /\ Get(h, d)

StorageChanges ==
  /\ storage' \in {"writable", "full", "down"} \ {storage}
  /\ UNCHANGED <<memory, disk, view, recording, requests, crashes, log>>

\* The process dies and opens the database again.
Crash ==
  /\ crashes < MaxCrashes
  /\ crashes' = crashes + 1
  /\ storage' = "writable"
  /\ disk' = IF memory THEN [d \in Decisions |-> Unset] ELSE disk
  /\ view' = disk'
  /\ phase' = [h \in Handlers |-> IF phase[h] = "updated" THEN "lost" ELSE phase[h]]
  /\ UNCHANGED <<memory, recording, asked, answer, life, log>>

\* Decision ids are fresh: nobody asks for one before its record call ran.
Known == {d \in Decisions : recording[d] # "none"}

Next ==
  \/ \E d \in Decisions : Record(d)
  \/ \E h \in Handlers :
       \/ \E d \in Known : Look(h, d) \/ \E status \in Statuses : UpdateCase(h, d, status)
       \/ ReadBack(h)
  \/ StorageChanges \/ Crash

Spec == Init /\ [][Next]_vars

-----------------------------------------------------------------------------
(* What operators may rely on.                                             *)

Rows == [status : Controlled, by : Handlers \cup {"record"}]

HasRow(h) == phase[h] = "answered" /\ answer[h].outcome = "row"

\* The process that answered keeps its evidence still.
Held(h) == ~memory \/ life[h] = crashes

Updates(h) == asked[h] # Unset /\ asked[h].status # Unset

\* Where in the order of the updates the one of this row stands.
Place(row) == IF row.by = "record" THEN 0 ELSE CHOOSE i \in DOMAIN log : log[i] = row.by

\* A row is as it was recorded, or the whole update of one request for this very
\* decision, with a status that is controlled (evidence.py 223-235, README 159);
\* every answer is such a row or one of the refusals.
CasesAreWhole ==
  /\ \A d \in Decisions : \A row \in {disk[d], view[d]} \ {Unset} :
       /\ row \in Rows
       /\ row.by # "record" => asked[row.by] = [decision |-> d, status |-> row.status]
       /\ row.by = "record" => row = NewRow
  /\ \A h \in Handlers : phase[h] = "answered" =>
       IF answer[h].outcome = "row" THEN answer[h].row \in Rows
       ELSE answer[h].outcome \in {"invalid_case_status", "evidence_not_found", "internal_error"}

\* The row that update_case reads back is of its own update, or of one that came
\* after it; and the update is committed: in a database file for good, but for a
\* later one (evidence.py 226-236).
AnsweredUpdatesLast ==
  \A h \in Handlers : HasRow(h) /\ Updates(h) =>
    LET own == Place([by |-> h]) IN
    /\ Place(answer[h].row) >= own
    /\ Held(h) => LET row == disk[asked[h].decision] IN row # Unset /\ Place(row) >= own

\* A request that ended in an error, or was lost, before it could answer.
Broken(by, d) ==
  IF by = "record" THEN recording[d] = "failed"
  ELSE phase[by] = "lost" \/ (phase[by] = "answered" /\ answer[by].outcome = "internal_error")

\* What a reader was shown is still there, or was overwritten by a later update,
\* unless it was the write of a request that ended in an error, which others see
\* before SQLite takes it back (evidence.py 178-183 with 156-170 and 226-235).
SeenStaysOrBroke ==
  \A h \in Handlers : HasRow(h) /\ Held(h) =>
    LET d == asked[h].decision
        kept == view[d] # Unset /\ Place(view[d]) >= Place(answer[h].row)
    IN  kept \/ Broken(answer[h].row.by, d)
=============================================================================
