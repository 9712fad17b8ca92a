----------------------- MODULE OperatorConsoleProofs -----------------------
(***************************************************************************)
(* What operators may rely on, for every number of requests, decisions and *)
(* crashes and whatever the requests ask for.                              *)
(*                                                                         *)
(* The cases: the rows that are read and the rows that are committed may   *)
(* differ, and what a reader is shown may be taken back.  The invariant    *)
(* says that whatever is read but not committed is the write of a request  *)
(* that ended in an error; that both rows of a decision are at least as    *)
(* new as every answer says, by the order of the updates; and that an      *)
(* update that is still to be read back is in both.                        *)
(*                                                                         *)
(* The incidents: the fields and comments of an incident only go on, so    *)
(* what a handler wrote is there at each of its later steps, or something  *)
(* newer; a handler that has not come to a field has written none.         *)
(***************************************************************************)
EXTENDS OperatorConsole, SequenceTheorems, FiniteSetTheorems, TLAPS

(* The cases.                                                              *)

\* As Place, in the order of the updates `updates`.
PlaceIn(updates, row) ==
  IF row.by = "record" THEN 0 ELSE CHOOSE i \in DOMAIN updates : updates[i] = row.by

Logged(h) == \E i \in DOMAIN log : log[i] = h

CaseRequests == [decision : Decisions, status : Statuses \cup {Unset}]

\* A row that decision d may have, or may have had.
RowOf(d, row) ==
  /\ row \in Cases!Rows
  /\ row.by = "record" => row = Cases!NewRow
  /\ row.by # "record" => Logged(row.by) /\ asked[row.by] = [decision |-> d, status |-> row.status]

Reached(row, n) == row # Unset /\ PlaceIn(log, row) >= n

\* What the connection reads of d, and what is committed, is of the n-th update or later.
AtLeast(d, n) == Reached(disk[d], n) /\ Reached(view[d], n)

NoRow(d) == disk[d] = Unset /\ view[d] = Unset

CasesTypeOK ==
  /\ memory \in BOOLEAN
  /\ storage \in {"writable", "full", "down"}
  /\ disk \in [Decisions -> Cases!Rows \cup {Unset}] /\ view \in [Decisions -> Cases!Rows \cup {Unset}]
  /\ recording \in [Decisions -> {"none", "recorded", "failed"}]
  /\ DOMAIN asked = Handlers /\ DOMAIN answer = Handlers
  /\ phase \in [Handlers -> {"none", "updated", "answered", "lost"}]
  /\ life \in [Handlers -> Nat] /\ crashes \in Nat
  /\ log \in Seq(Handlers)

UpdatesOnce == \A i, j \in DOMAIN log : log[i] = log[j] => i = j

RowsWhole ==
  \A d \in Decisions : \A row \in {disk[d], view[d]} \ {Unset} :
    RowOf(d, row) /\ recording[d] # "none"

\* What is read but not committed is the write of a request that ended in an error.
AheadIsBroken ==
  \A d \in Decisions : view[d] # disk[d] => view[d] # Unset /\ Cases!Broken(view[d].by, d)

\* A request that was shown `row` of d sees it again, or one after it, unless the
\* row's writer ended in an error.
ShownStays(h, d, row) ==
  Cases!Held(h) => AtLeast(d, PlaceIn(log, row)) \/ Cases!Broken(row.by, d)

UpdateStays(h, d, row) ==
  LET own == PlaceIn(log, [by |-> h]) IN
  /\ Logged(h)
  /\ PlaceIn(log, row) >= own
  /\ Cases!Held(h) => AtLeast(d, own)

AnswerOK(h, d) ==
  LET row == answer[h].row IN
  IF answer[h].outcome = "row"
  THEN /\ RowOf(d, row) /\ life[h] <= crashes
       /\ ShownStays(h, d, row)
       /\ Cases!Updates(h) => UpdateStays(h, d, row)
  ELSE answer[h].outcome \in {"invalid_case_status", "evidence_not_found", "internal_error"}

RequestOK(h) ==
  LET d == asked[h].decision IN
  /\ phase[h] = "none" => ~Logged(h)
  /\ phase[h] # "none" => asked[h] \in CaseRequests /\ recording[d] # "none"
  /\ phase[h] = "updated" => Logged(h) /\ (NoRow(d) \/ AtLeast(d, PlaceIn(log, [by |-> h])))
  /\ phase[h] = "answered" => AnswerOK(h, d)

CasesInv ==
  /\ CasesTypeOK /\ UpdatesOnce /\ RowsWhole /\ AheadIsBroken
  /\ \A h \in Handlers : RequestOK(h)
-----------------------------------------------------------------------------
(* The order of the updates.                                               *)

KnownIn(updates, row) == row.by = "record" \/ \E i \in DOMAIN updates : updates[i] = row.by

Once(list) == \A i, j \in DOMAIN list : list[i] = list[j] => i = j

\* The place of an update is where it stands.
LEMMA PlaceIs ==
  ASSUME NEW updates, Once(updates), NEW row, row.by # "record",
         NEW i \in DOMAIN updates, updates[i] = row.by
  PROVE  PlaceIn(updates, row) = i
<1> DEFINE k == CHOOSE j \in DOMAIN updates : updates[j] = row.by
<1>1. k \in DOMAIN updates /\ updates[k] = row.by
  OBVIOUS
<1>2. k = i
  BY <1>1 DEF Once
<1> QED  BY <1>2 DEF PlaceIn

\* A place is not before the first update, nor after the last.
LEMMA PlaceRange ==
  ASSUME NEW updates \in Seq(Handlers), NEW row, KnownIn(updates, row)
  PROVE  PlaceIn(updates, row) \in 0 .. Len(updates)
<1>1. CASE row.by = "record"
  BY <1>1 DEF PlaceIn
<1>2. CASE row.by # "record"
  <2> DEFINE k == CHOOSE j \in DOMAIN updates : updates[j] = row.by
  <2>1. k \in DOMAIN updates
    BY <1>2 DEF KnownIn
  <2>2. DOMAIN updates = 1 .. Len(updates) /\ Len(updates) \in Nat
    OBVIOUS
  <2>3. PlaceIn(updates, row) = k
    BY <1>2 DEF PlaceIn
  <2> HIDE DEF k
  <2> QED  BY <2>1, <2>2, <2>3
<1> QED  BY <1>1, <1>2

\* One update more: those before it stay where they are, and it comes last.
LEMMA UpdateAppended ==
  ASSUME NEW updates \in Seq(Handlers), Once(updates), NEW h \in Handlers,
         \A i \in DOMAIN updates : updates[i] # h
  PROVE  LET longer == Append(updates, h) IN
         /\ longer \in Seq(Handlers) /\ Once(longer)
         /\ \A g : (\E i \in DOMAIN longer : longer[i] = g)
                     <=> (g = h \/ \E i \in DOMAIN updates : updates[i] = g)
         /\ \A row : KnownIn(updates, row) => /\ KnownIn(longer, row)
                                              /\ PlaceIn(longer, row) = PlaceIn(updates, row)
         /\ \A row : row.by = h => PlaceIn(longer, row) = Len(updates) + 1
<1> DEFINE longer == Append(updates, h)
<1>1. /\ longer \in Seq(Handlers) /\ DOMAIN longer = 1 .. Len(updates) + 1
      /\ \A i \in 1 .. Len(updates) : longer[i] = updates[i]
      /\ longer[Len(updates) + 1] = h
      /\ DOMAIN updates = 1 .. Len(updates) /\ Len(updates) \in Nat
  BY AppendProperties
<1> HIDE DEF longer
<1>2. DOMAIN updates \subseteq DOMAIN longer /\ Len(updates) + 1 \in DOMAIN longer
  BY <1>1
<1>3. \A i \in DOMAIN longer : i \in DOMAIN updates \/ i = Len(updates) + 1
  BY <1>1
<1>4. Once(longer)
  BY <1>1, <1>2, <1>3 DEF Once
<1>5. \A g : (\E i \in DOMAIN longer : longer[i] = g)
               <=> (g = h \/ \E i \in DOMAIN updates : updates[i] = g)
  BY <1>1, <1>2, <1>3
<1>6. ASSUME NEW row, KnownIn(updates, row)
      PROVE  KnownIn(longer, row) /\ PlaceIn(longer, row) = PlaceIn(updates, row)
  <2>1. CASE row.by = "record"
    BY <2>1 DEF PlaceIn, KnownIn
  <2>2. CASE row.by # "record"
    <3>1. PICK i \in DOMAIN updates : updates[i] = row.by
      BY <1>6, <2>2 DEF KnownIn
    <3>2. i \in DOMAIN longer /\ longer[i] = row.by
      BY <1>1, <1>2, <3>1
    <3>3. PlaceIn(updates, row) = i
      BY <2>2, <3>1, PlaceIs
    <3>4. PlaceIn(longer, row) = i
      BY <2>2, <3>2, <1>4, PlaceIs
    <3> QED  BY <3>2, <3>3, <3>4 DEF KnownIn
  <2> QED  BY <2>1, <2>2
<1>7. ASSUME NEW row, row.by = h
      PROVE  PlaceIn(longer, row) = Len(updates) + 1
  BY <1>1, <1>2, <1>4, <1>7, PlaceIs, ConsoleAssumption
<1> QED  BY <1>1, <1>4, <1>5, <1>6, <1>7 DEF longer
-----------------------------------------------------------------------------
(* Every step keeps the cases.                                             *)

LEMMA CasesStart == Cases!Init => CasesInv
<1> SUFFICES ASSUME Cases!Init PROVE CasesInv
  OBVIOUS
<1> USE DEF Cases!Init
<1>1. CasesTypeOK
  BY EmptySeq DEF CasesTypeOK
<1>2. DOMAIN log = {}
  OBVIOUS
<1>3. UpdatesOnce
  BY <1>2 DEF UpdatesOnce
<1>4. RowsWhole /\ AheadIsBroken
  BY DEF RowsWhole, AheadIsBroken
<1>5. \A h \in Handlers : RequestOK(h)
  BY <1>2 DEF RequestOK, Logged
<1> QED  BY <1>1, <1>3, <1>4, <1>5 DEF CasesInv

\* What a step leaves of the rows: who wrote them, and where the updates stand.
RowsStay ==
  /\ \A h \in Handlers : Logged(h) => Logged(h)' /\ asked'[h] = asked[h]
  /\ \A row : KnownIn(log, row) =>
       KnownIn(log', row) /\ PlaceIn(log', row) = PlaceIn(log, row)
  /\ \A d \in Decisions : recording[d] # "none" => recording'[d] = recording[d]

\* What it leaves of the evidence of decisions that operators know.
EvidenceStays ==
  \A d \in Decisions : recording[d] # "none" =>
    /\ NoRow(d) => NoRow(d)'
    /\ \A n \in 0 .. Len(log) : AtLeast(d, n) => AtLeast(d, n)'

\* A request that ended in an error, or was lost, has ended so.
ErrorsStay ==
  \A d \in Decisions, by \in Handlers \cup {"record"} : Cases!Broken(by, d) => Cases!Broken(by, d)'

\* A row of a decision is one in any later state.
LEMMA RowStays ==
  ASSUME RowsStay, NEW d \in Decisions, NEW row, RowOf(d, row)
  PROVE  RowOf(d, row)'
<1>1. row \in Cases!Rows /\ row.by \in Handlers \cup {"record"}
  BY DEF RowOf, Cases!Rows
<1>2. CASE row.by = "record"
  BY <1>1, <1>2 DEF RowOf
<1>3. CASE row.by # "record"
  BY <1>1, <1>3 DEF RowOf, RowsStay
<1> QED  BY <1>2, <1>3

\* Its writer is known in the order of the updates.
LEMMA RowKnown ==
  ASSUME NEW d, NEW row, RowOf(d, row)
  PROVE  KnownIn(log, row)
BY DEF RowOf, KnownIn, Logged

\* A request whose own state a step leaves alone keeps what it was promised.
LEMMA RequestKept ==
  ASSUME CasesInv, RowsStay, ErrorsStay, NEW g \in Handlers,
         phase'[g] = phase[g], asked'[g] = asked[g], answer'[g] = answer[g], life'[g] = life[g],
         crashes' \in Nat, crashes <= crashes',
         Cases!Held(g)' => Cases!Held(g),
         Cases!Held(g)' \/ phase[g] = "updated" => EvidenceStays,
         Logged(g)' => Logged(g)
  PROVE  RequestOK(g)'
<1> DEFINE me == [by |-> g]
<1>d. PICK d : d = asked[g].decision
  OBVIOUS
<1>r. PICK row : row = answer[g].row
  OBVIOUS
<1>e. d = asked'[g].decision /\ row = answer'[g].row
  BY <1>d, <1>r
<1>1. RequestOK(g) /\ log \in Seq(Handlers) /\ g # "record" /\ me.by = g
  BY ConsoleAssumption DEF CasesInv, CasesTypeOK
<1>2. phase[g] # "none" => d \in Decisions /\ asked[g] \in CaseRequests /\ recording[d] # "none"
                           /\ recording'[d] = recording[d]
  BY <1>1, <1>d DEF RequestOK, CaseRequests, RowsStay
<1>3. Logged(g) => /\ PlaceIn(log', me) = PlaceIn(log, me)
                   /\ PlaceIn(log, me) \in 0 .. Len(log) /\ Logged(g)'
  <2> SUFFICES ASSUME Logged(g) PROVE /\ PlaceIn(log', me) = PlaceIn(log, me)
                   /\ PlaceIn(log, me) \in 0 .. Len(log) /\ Logged(g)'
    OBVIOUS
  <2>1. KnownIn(log, me)
    BY <1>1 DEF Logged, KnownIn
  <2> HIDE DEF me
  <2> QED  BY <2>1, <1>1, PlaceRange DEF RowsStay
<1>p. PICK own : own = PlaceIn(log, me)
  OBVIOUS
<1>q. Logged(g) => own = PlaceIn(log', me) /\ own \in 0 .. Len(log)
  BY <1>3, <1>p
<1>4. phase[g] = "updated" => Logged(g)' /\ (NoRow(d)' \/ AtLeast(d, own)')
  BY <1>1, <1>2, <1>3, <1>d, <1>p DEF RequestOK, EvidenceStays, me
<1>5. ASSUME phase[g] = "answered", answer[g].outcome = "row"
      PROVE  AnswerOK(g, d)'
  <2>1. /\ RowOf(d, row) /\ life[g] \in Nat /\ crashes \in Nat /\ life[g] <= crashes
        /\ ShownStays(g, d, row)
        /\ Cases!Updates(g) => UpdateStays(g, d, row)
    BY <1>1, <1>5, <1>d, <1>r DEF RequestOK, AnswerOK, CasesInv, CasesTypeOK
  <2>2. RowOf(d, row)' /\ row.by \in Handlers \cup {"record"}
        /\ PlaceIn(log', row) = PlaceIn(log, row) /\ PlaceIn(log, row) \in 0 .. Len(log)
    <3>1. KnownIn(log, row)
      BY <2>1, RowKnown
    <3> QED  BY <1>1, <1>2, <1>5, <2>1, <3>1, RowStays, PlaceRange DEF RowsStay, RowOf, Cases!Rows
  <2>3. life'[g] <= crashes'
    BY <2>1
  <2>p. PICK shown : shown = PlaceIn(log, row)
    OBVIOUS
  <2>4. ShownStays(g, d, row)'
    <3> SUFFICES ASSUME Cases!Held(g)' PROVE AtLeast(d, shown)' \/ Cases!Broken(row.by, d)'
      BY <2>2, <2>p DEF ShownStays
    <3>1. AtLeast(d, shown) \/ Cases!Broken(row.by, d)
      BY <2>1, <2>p DEF ShownStays
    <3>2. EvidenceStays
      OBVIOUS
    <3>3. AtLeast(d, shown) => AtLeast(d, shown)'
      BY <1>2, <1>5, <2>2, <2>p, <3>2 DEF EvidenceStays
    <3>4. Cases!Broken(row.by, d) => Cases!Broken(row.by, d)'
      BY <1>2, <1>5, <2>2 DEF ErrorsStay
    <3> QED  BY <3>1, <3>3, <3>4
  <2>5. ASSUME Cases!Updates(g)'
        PROVE  UpdateStays(g, d, row)'
    <3>1. Cases!Updates(g)
      BY <2>5 DEF Cases!Updates
    <3>2. /\ Logged(g) /\ PlaceIn(log, row) >= own
          /\ Cases!Held(g) => AtLeast(d, own)
      BY <2>1, <3>1, <1>p DEF UpdateStays, me
    <3>3. PlaceIn(log', row) >= own
      BY <2>2, <3>2
    <3>4. ASSUME Cases!Held(g)' PROVE AtLeast(d, own)'
      <4>1. EvidenceStays /\ AtLeast(d, own)
        BY <3>2, <3>4
      <4> QED  BY <4>1, <1>2, <1>5, <1>q, <3>2 DEF EvidenceStays
    <3>5. Logged(g)' /\ own = PlaceIn(log', [by |-> g])
      BY <1>3, <1>q, <3>2 DEF me
    <3> QED  BY <3>3, <3>4, <3>5 DEF UpdateStays
  <2> QED  BY <2>2, <2>3, <2>4, <2>5, <1>5, <1>e DEF AnswerOK
<1>6. ASSUME phase[g] = "answered", answer[g].outcome # "row"
      PROVE  AnswerOK(g, d)'
  BY <1>1, <1>6, <1>d DEF RequestOK, AnswerOK
<1>7. phase[g] # "none" => asked'[g] \in CaseRequests /\ recording'[d] # "none"
  BY <1>2
<1>8. phase'[g] = "updated" => Logged(g)' /\ (NoRow(d)' \/ AtLeast(d, PlaceIn(log, [by |-> g]))')
  <2> SUFFICES ASSUME phase[g] = "updated"
               PROVE  Logged(g)' /\ (NoRow(d)' \/ AtLeast(d, PlaceIn(log, [by |-> g]))')
    OBVIOUS
  <2>1. own = PlaceIn(log', [by |-> g])
    BY <1>1, <1>q DEF RequestOK, me
  <2> QED  BY <1>4, <2>1 DEF AtLeast, Reached
<1>9. phase'[g] = "none" => ~Logged(g)'
  BY <1>1 DEF RequestOK
<1> QED  BY <1>5, <1>6, <1>7, <1>8, <1>9, <1>e DEF RequestOK

\* A write of one decision's row, whether it is committed or fails.
LEMMA RowWritten ==
  ASSUME CasesInv, RowsStay, ErrorsStay, log' \in Seq(Handlers),
         NEW d \in Decisions, NEW row \in Cases!Rows \cup {Unset},
         \/ Cases!Commit([view EXCEPT ![d] = row])
         \/ /\ Cases!Fail([view EXCEPT ![d] = row])
            /\ row # Unset => Cases!Broken(row.by, d)',
         row # Unset => RowOf(d, row)' /\ recording'[d] # "none",
         row = Unset => view[d] = Unset,
         recording[d] # "none" /\ row # Unset => view[d] # Unset /\ PlaceIn(log', row) >= Len(log)
  PROVE  /\ disk' \in [Decisions -> Cases!Rows \cup {Unset}]
         /\ view' \in [Decisions -> Cases!Rows \cup {Unset}]
         /\ RowsWhole' /\ AheadIsBroken' /\ EvidenceStays
<1> DEFINE w == [view EXCEPT ![d] = row]
<1>1. /\ disk \in [Decisions -> Cases!Rows \cup {Unset}] /\ view \in [Decisions -> Cases!Rows \cup {Unset}]
      /\ log \in Seq(Handlers) /\ Len(log) \in Nat
  BY DEF CasesInv, CasesTypeOK
<1>2. /\ w \in [Decisions -> Cases!Rows \cup {Unset}] /\ w[d] = row
      /\ \A e \in Decisions : e # d => w[e] = view[e]
  BY <1>1
<1> HIDE DEF w
<1>3. \/ view' = w /\ disk' = w
      \/ /\ disk' = disk /\ view' \in {view, w, disk}
         /\ row # Unset => Cases!Broken(row.by, d)'
  BY DEF w, Cases!Commit, Cases!Fail
<1>4. ASSUME NEW e \in Decisions, NEW r, r \in {disk'[e], view'[e]}, r # Unset
      PROVE  RowOf(e, r)' /\ recording'[e] # "none"
  <2>1. r \in {disk[e], view[e]} \/ (e = d /\ r = row)
    BY <1>2, <1>3, <1>4
  <2>2. CASE r \in {disk[e], view[e]}
    <3>1. RowOf(e, r) /\ recording[e] # "none"
      BY <1>4, <2>2 DEF CasesInv, RowsWhole
    <3> QED  BY <3>1, RowStays DEF RowsStay
  <2>3. CASE e = d /\ r = row
    BY <1>4, <2>3
  <2> QED  BY <2>1, <2>2, <2>3
<1>5. RowsWhole'
  BY <1>4 DEF RowsWhole
<1>6. ASSUME NEW e \in Decisions, view'[e] # disk'[e], NEW r, r = view'[e]
      PROVE  r # Unset /\ Cases!Broken(r.by, e)'
  <2>1. disk' = disk /\ view' \in {view, w} /\ (row # Unset => Cases!Broken(row.by, d)')
    BY <1>3, <1>6
  <2>2. CASE r = view[e]
    <3>1. r # Unset /\ Cases!Broken(r.by, e) /\ r.by \in Handlers \cup {"record"}
      <4>1. view[e] # disk[e] /\ view[e] \in Cases!Rows \cup {Unset}
        BY <1>1, <1>6, <2>1, <2>2
      <4> QED  BY <2>2, <4>1 DEF CasesInv, AheadIsBroken, Cases!Rows
    <3> QED  BY <3>1 DEF ErrorsStay
  <2>3. CASE r # view[e]
    <3>1. e = d /\ r = row
      BY <1>2, <1>6, <2>1, <2>3
    <3>2. row # Unset
      <4>1. row = Unset => view[d] = Unset
        OBVIOUS
      <4> QED  BY <3>1, <2>3, <4>1
    <3> QED  BY <2>1, <3>1, <3>2
  <2> QED  BY <2>2, <2>3
<1>7. AheadIsBroken'
  <2> SUFFICES ASSUME NEW e \in Decisions, view'[e] # disk'[e]
               PROVE  view'[e] # Unset /\ Cases!Broken(view[e].by, e)'
    BY DEF AheadIsBroken
  <2>1. PICK r : r = view'[e]
    OBVIOUS
  <2>2. r # Unset /\ Cases!Broken(r.by, e)'
    BY <1>6, <2>1
  <2> QED  BY <2>1, <2>2 DEF Cases!Broken
<1>8. EvidenceStays
  <2> SUFFICES ASSUME NEW e \in Decisions, recording[e] # "none"
               PROVE  /\ NoRow(e) => NoRow(e)'
                      /\ \A n \in 0 .. Len(log) : AtLeast(e, n) => AtLeast(e, n)'
    BY DEF EvidenceStays
  <2>1. ASSUME NoRow(e) PROVE NoRow(e)'
    <3>1. view[e] = Unset /\ disk[e] = Unset /\ (e = d => row = Unset)
      BY <2>1 DEF NoRow
    <3>2. w[e] = Unset
      BY <1>2, <3>1
    <3> QED  BY <1>3, <3>1, <3>2 DEF NoRow
  <2>2. ASSUME NEW n \in 0 .. Len(log), AtLeast(e, n) PROVE AtLeast(e, n)'
    <3>1. ASSUME NEW r, r \in {disk[e], view[e]} PROVE r # Unset /\ PlaceIn(log', r) >= n
      <4>1. r # Unset /\ PlaceIn(log, r) >= n
        BY <2>2, <3>1 DEF AtLeast, Reached
      <4>2. RowOf(e, r)
        BY <3>1, <4>1 DEF CasesInv, RowsWhole
      <4>3. PlaceIn(log', r) = PlaceIn(log, r)
        BY <4>2, RowKnown DEF RowsStay
      <4> QED  BY <4>1, <4>3
    <3>2. ASSUME e = d, row # Unset PROVE PlaceIn(log', row) >= n
      <4>1. PlaceIn(log', row) >= Len(log) /\ KnownIn(log', row)
        BY <3>2, RowKnown DEF RowOf, KnownIn, Logged
      <4>2. PlaceIn(log', row) \in Int
        BY <4>1, PlaceRange
      <4> QED  BY <4>1, <4>2, <1>1
    <3>3. w[e] # Unset /\ PlaceIn(log', w[e]) >= n
      <4>1. CASE e = d
        <5>1. view[e] # Unset
          BY <3>1
        <5> QED  BY <5>1, <4>1, <3>2, <1>2
      <4> QED  BY <4>1, <3>1, <1>2
    <3> QED  BY <1>3, <3>1, <3>3 DEF AtLeast, Reached
  <2> QED  BY <2>1, <2>2
<1>9. disk' \in [Decisions -> Cases!Rows \cup {Unset}] /\ view' \in [Decisions -> Cases!Rows \cup {Unset}]
  BY <1>1, <1>2, <1>3
<1> QED  BY <1>5, <1>7, <1>8, <1>9

\* Steps that leave the evidence as it is.
LEMMA EvidenceUntouched ==
  ASSUME CasesInv, UNCHANGED <<disk, view, log>>, RowsStay, ErrorsStay
  PROVE  RowsWhole' /\ AheadIsBroken' /\ UpdatesOnce' /\ EvidenceStays
<1>1. RowsWhole'
  <2> SUFFICES ASSUME NEW d \in Decisions, NEW row \in {disk[d], view[d]} \ {Unset}
               PROVE  RowOf(d, row)' /\ recording'[d] # "none"
    BY DEF RowsWhole
  <2>1. RowOf(d, row) /\ recording[d] # "none"
    BY DEF CasesInv, RowsWhole
  <2> QED  BY <2>1, RowStays DEF RowsStay
<1>2. AheadIsBroken'
  <2> SUFFICES ASSUME NEW d \in Decisions, view[d] # disk[d]
               PROVE  view[d] # Unset /\ Cases!Broken(view[d].by, d)'
    BY DEF AheadIsBroken
  <2>1. PICK r : r = view[d]
    OBVIOUS
  <2>2. r # Unset /\ Cases!Broken(r.by, d) /\ r.by \in Handlers \cup {"record"}
    BY <2>1 DEF CasesInv, CasesTypeOK, AheadIsBroken, Cases!Rows
  <2>3. Cases!Broken(r.by, d)'
    BY <2>2 DEF ErrorsStay
  <2> QED  BY <2>1, <2>2, <2>3 DEF Cases!Broken
<1>3. UpdatesOnce'
  BY DEF CasesInv, UpdatesOnce
<1>4. EvidenceStays
  BY DEF EvidenceStays, NoRow, AtLeast, Reached
<1> QED  BY <1>1, <1>2, <1>3, <1>4

\* The gateway records a decision: no operator knew of it.
LEMMA RecordKeeps ==
  ASSUME CasesInv, NEW d \in Decisions, Cases!Record(d)
  PROVE  CasesInv'
<1> USE DEF Cases!Record, Cases!requests
<1>1. recording[d] = "none" /\ UNCHANGED <<memory, storage, asked, phase, answer, life, crashes, log>>
  OBVIOUS
<1>2. recording' \in [Decisions -> {"none", "recorded", "failed"}] /\ recording'[d] # "none"
      /\ \A e \in Decisions : e # d => recording'[e] = recording[e]
  BY DEF CasesInv, CasesTypeOK
<1>3. RowsStay
  BY <1>1, <1>2 DEF RowsStay, Logged
<1>4. ErrorsStay
  BY <1>1, <1>2 DEF ErrorsStay, Cases!Broken
<1>5. Cases!NewRow \in Cases!Rows /\ Cases!NewRow # Unset /\ Cases!NewRow.by = "record"
  BY ConsoleAssumption DEF Cases!NewRow, Cases!Rows, Cases!Controlled
<1>6. RowOf(d, Cases!NewRow)'
  BY <1>5 DEF RowOf
<1>7. \/ Cases!Commit([view EXCEPT ![d] = Cases!NewRow])
      \/ /\ Cases!Fail([view EXCEPT ![d] = Cases!NewRow])
         /\ Cases!Broken("record", d)'
  <2>1. recording'[d] = "failed" => Cases!Broken("record", d)'
    BY DEF Cases!Broken
  <2>2. DOMAIN recording = Decisions
    BY DEF CasesInv, CasesTypeOK
  <2> QED  BY <2>1, <2>2 DEF Cases!WithRow
<1>8. /\ disk' \in [Decisions -> Cases!Rows \cup {Unset}] /\ view' \in [Decisions -> Cases!Rows \cup {Unset}]
      /\ RowsWhole' /\ AheadIsBroken' /\ EvidenceStays
  BY <1>1, <1>2, <1>3, <1>4, <1>5, <1>6, <1>7, RowWritten DEF CasesInv, CasesTypeOK
<1>9. CasesTypeOK' /\ UpdatesOnce'
  BY <1>1, <1>2, <1>8 DEF CasesInv, CasesTypeOK, UpdatesOnce
<1>10. ASSUME NEW g \in Handlers PROVE RequestOK(g)'
  BY <1>1, <1>3, <1>4, <1>8, RequestKept DEF CasesInv, CasesTypeOK, Cases!Held, Logged
<1> QED  BY <1>8, <1>9, <1>10 DEF CasesInv

\* What an answer leaves: the evidence, and every other request.
LEMMA OnlyAnswered ==
  ASSUME CasesInv, NEW h \in Handlers, phase[h] \in {"none", "updated"},
         UNCHANGED <<memory, storage, disk, view, recording, crashes, log>>,
         phase' = [phase EXCEPT ![h] = "answered"],
         DOMAIN asked' = Handlers, \A g \in Handlers : g # h \/ Logged(h) => asked'[g] = asked[g],
         DOMAIN answer' = Handlers, \A g \in Handlers : g # h => answer'[g] = answer[g],
         life' = [life EXCEPT ![h] = crashes],
         asked'[h] \in CaseRequests, recording[asked'[h].decision] # "none",
         AnswerOK(h, asked[h].decision)'
  PROVE  CasesInv'
<1>1. /\ phase' \in [Handlers -> {"none", "updated", "answered", "lost"}] /\ phase'[h] = "answered"
      /\ life' \in [Handlers -> Nat]
      /\ \A g \in Handlers : g # h => phase'[g] = phase[g] /\ life'[g] = life[g]
  BY DEF CasesInv, CasesTypeOK
<1>2. CasesTypeOK'
  BY <1>1 DEF CasesInv, CasesTypeOK
<1>3. RowsStay
  BY DEF RowsStay, Logged
<1>4. ErrorsStay
  <2> SUFFICES ASSUME NEW d \in Decisions, NEW by \in Handlers \cup {"record"}, Cases!Broken(by, d)
               PROVE  Cases!Broken(by, d)'
    BY DEF ErrorsStay
  <2> QED  BY <1>1 DEF Cases!Broken
<1>5. RowsWhole' /\ AheadIsBroken' /\ UpdatesOnce' /\ EvidenceStays
  BY <1>3, <1>4, EvidenceUntouched
<1>6. ASSUME NEW g \in Handlers, g # h PROVE RequestOK(g)'
  BY <1>1, <1>3, <1>4, <1>5, <1>6, RequestKept DEF CasesInv, CasesTypeOK, Cases!Held, Logged
<1>7. RequestOK(h)'
  BY <1>1 DEF RequestOK
<1> QED  BY <1>2, <1>5, <1>6, <1>7 DEF CasesInv

\* EvidenceStore.get shows what the connection reads, which is never older than the
\* update that the request itself made.
LEMMA GetAnswers ==
  ASSUME CasesInv, NEW h \in Handlers, NEW d \in Decisions, Cases!Get(h, d),
         \A g \in Handlers : Logged(g) => asked'[g] = asked[g],
         phase[h] \in {"none", "updated"},
         Cases!Updates(h)' =>
           Logged(h) /\ (NoRow(d) \/ AtLeast(d, PlaceIn(log, [by |-> h])))
  PROVE  AnswerOK(h, d)'
<1> DEFINE me == [by |-> h]
<1>1. /\ UNCHANGED <<memory, storage, disk, view, recording, crashes, log>>
      /\ answer'[h].outcome # "row" => answer'[h].outcome \in {"internal_error", "evidence_not_found"}
      /\ answer'[h].outcome = "row" => answer'[h].row = view[d] /\ view[d] # Unset
      /\ life'[h] = crashes /\ crashes \in Nat
      /\ phase' = [phase EXCEPT ![h] = "answered"]
      /\ \A g \in Handlers : g # h => answer'[g] = answer[g]
  BY DEF Cases!Get, Cases!Answer, Cases!database, CasesInv, CasesTypeOK
<1>2. CASE answer'[h].outcome # "row"
  BY <1>1, <1>2 DEF AnswerOK
<1>3. CASE answer'[h].outcome = "row"
  <2>1. PICK row : row = view[d]
    OBVIOUS
  <2>2. row # Unset /\ row = answer'[h].row /\ RowOf(d, row) /\ log \in Seq(Handlers)
        /\ row.by \in Handlers \cup {"record"}
    BY <1>1, <1>3, <2>1 DEF CasesInv, CasesTypeOK, RowsWhole, RowOf, Cases!Rows
  <2>3. RowOf(d, row)'
    BY <1>1, <2>2 DEF RowOf, Logged
  <2>4. PICK shown : shown = PlaceIn(log, row)
    OBVIOUS
  <2>5. shown \in Int /\ UNCHANGED PlaceIn(log, row)
    BY <1>1, <2>2, <2>4, RowKnown, PlaceRange
  <2>6. AtLeast(d, shown) \/ Cases!Broken(row.by, d)
    <3>1. CASE disk[d] = view[d]
      BY <3>1, <2>1, <2>2, <2>4, <2>5 DEF AtLeast, Reached
    <3>2. CASE disk[d] # view[d]
      BY <3>2, <2>1 DEF CasesInv, AheadIsBroken
    <3> QED  BY <3>1, <3>2
  <2>7. AtLeast(d, shown)' \/ Cases!Broken(row.by, d)'
    <3>1. AtLeast(d, shown) => AtLeast(d, shown)'
      BY <1>1 DEF AtLeast, Reached
    <3>2. Cases!Broken(row.by, d) => Cases!Broken(row.by, d)'
      BY <1>1, <2>2 DEF Cases!Broken, CasesInv, CasesTypeOK
    <3> QED  BY <2>6, <3>1, <3>2
  <2>8. ShownStays(h, d, row)'
    BY <1>1, <2>4, <2>7 DEF ShownStays
  <2>9. ASSUME Cases!Updates(h)' PROVE UpdateStays(h, d, row)'
    <3>1. Logged(h) /\ AtLeast(d, PlaceIn(log, me))
      BY <2>1, <2>2, <2>9 DEF NoRow
    <3>2. PlaceIn(log, row) >= PlaceIn(log, me)
      BY <2>1, <3>1 DEF AtLeast, Reached
    <3>3. Logged(h)' /\ AtLeast(d, PlaceIn(log, me))' /\ PlaceIn(log', row) >= PlaceIn(log', me)
      BY <1>1, <3>1, <3>2 DEF Logged, AtLeast, Reached
    <3> QED  BY <3>3 DEF UpdateStays
  <2> QED  BY <1>1, <1>3, <2>2, <2>3, <2>8, <2>9 DEF AnswerOK
<1> QED  BY <1>2, <1>3

\* The second part of an update shows the row of its own update or of a later one.
LEMMA ReadBackKeeps ==
  ASSUME CasesInv, NEW h \in Handlers, Cases!ReadBack(h)
  PROVE  CasesInv'
<1>1. PICK d : d = asked[h].decision
  OBVIOUS
<1>2. /\ phase[h] = "updated" /\ Cases!Get(h, d) /\ asked' = asked
      /\ asked[h] \in CaseRequests /\ d \in Decisions /\ recording[d] # "none"
      /\ Logged(h) /\ (NoRow(d) \/ AtLeast(d, PlaceIn(log, [by |-> h])))
  BY <1>1 DEF Cases!ReadBack, CasesInv, RequestOK, CaseRequests
<1>3. AnswerOK(h, d)'
  BY <1>2, GetAnswers
<1>4. AnswerOK(h, asked[h].decision)'
  BY <1>1, <1>2, <1>3
<1>5. /\ UNCHANGED <<memory, storage, disk, view, recording, crashes, log>>
      /\ phase' = [phase EXCEPT ![h] = "answered"] /\ life' = [life EXCEPT ![h] = crashes]
      /\ DOMAIN answer' = Handlers /\ \A g \in Handlers : g # h => answer'[g] = answer[g]
  BY <1>2 DEF Cases!Get, Cases!Answer, Cases!database, CasesInv, CasesTypeOK
<1> QED  BY <1>1, <1>2, <1>4, <1>5, OnlyAnswered DEF CasesInv, CasesTypeOK

\* A reader changes nothing and makes no update.
LEMMA LookKeeps ==
  ASSUME CasesInv, NEW h \in Handlers, NEW d \in Cases!Known, Cases!Look(h, d)
  PROVE  CasesInv'
<1>1. /\ phase[h] = "none" /\ Cases!Get(h, d) /\ ~Logged(h)
      /\ d \in Decisions /\ recording[d] # "none"
  BY DEF Cases!Look, Cases!Known, CasesInv, RequestOK
<1>2. /\ DOMAIN asked' = Handlers /\ \A g \in Handlers : g # h => asked'[g] = asked[g]
      /\ asked'[h] = [decision |-> d, status |-> Unset] /\ asked'[h] \in CaseRequests
      /\ recording[asked'[h].decision] # "none"
      /\ \A g \in Handlers : g # h \/ Logged(g) => asked'[g] = asked[g]
      /\ recording[asked'[h].decision] # "none"
  BY <1>1 DEF Cases!Look, CasesInv, CasesTypeOK, CaseRequests
<1>3. AnswerOK(h, d)'
  <2>1. ~Cases!Updates(h)'
    BY <1>2 DEF Cases!Updates
  <2> QED  BY <1>1, <1>2, <2>1, GetAnswers
<1>4. AnswerOK(h, asked[h].decision)'
  BY <1>2, <1>3
<1>5. /\ UNCHANGED <<memory, storage, disk, view, recording, crashes, log>>
      /\ phase' = [phase EXCEPT ![h] = "answered"] /\ life' = [life EXCEPT ![h] = crashes]
      /\ DOMAIN answer' = Handlers /\ \A g \in Handlers : g # h => answer'[g] = answer[g]
  BY <1>1 DEF Cases!Get, Cases!Answer, Cases!database, CasesInv, CasesTypeOK
<1> QED  BY <1>1, <1>2, <1>4, <1>5, OnlyAnswered

\* The update of a case, up to the end of its first part: refused, written or failed.
LEMMA UpdateCaseKeeps ==
  ASSUME CasesInv, NEW h \in Handlers, NEW d \in Cases!Known, NEW s \in Statuses, Cases!UpdateCase(h, d, s)
  PROVE  CasesInv'
<1>1. /\ phase[h] = "none" /\ ~Logged(h) /\ d \in Decisions /\ recording[d] # "none"
      /\ UNCHANGED <<memory, storage, recording, crashes>>
      /\ log \in Seq(Handlers)
  BY DEF Cases!UpdateCase, Cases!Known, CasesInv, CasesTypeOK, RequestOK
<1>2. /\ DOMAIN asked' = Handlers /\ \A g \in Handlers : g # h => asked'[g] = asked[g]
      /\ asked'[h] = [decision |-> d, status |-> s] /\ asked'[h] \in CaseRequests
      /\ recording[asked'[h].decision] # "none"
      /\ \A g \in Handlers : g # h \/ Logged(g) => asked'[g] = asked[g]
  BY <1>1 DEF Cases!UpdateCase, CasesInv, CasesTypeOK, CaseRequests
<1>3. CASE s \notin Cases!Controlled
  <2>1. /\ UNCHANGED <<disk, view, log>> /\ Cases!Answer(h, "invalid_case_status", Unset)
    BY <1>3 DEF Cases!UpdateCase
  <2>2. /\ phase' = [phase EXCEPT ![h] = "answered"] /\ life' = [life EXCEPT ![h] = crashes]
        /\ DOMAIN answer' = Handlers /\ \A g \in Handlers : g # h => answer'[g] = answer[g]
        /\ answer'[h].outcome = "invalid_case_status"
    BY <2>1 DEF Cases!Answer, CasesInv, CasesTypeOK
  <2>3. AnswerOK(h, asked[h].decision)'
    BY <2>2 DEF AnswerOK
  <2> QED  BY <1>1, <1>2, <2>1, <2>2, <2>3, OnlyAnswered
<1>4. CASE s \in Cases!Controlled
  <2> DEFINE new == [status |-> s, by |-> h]
  <2>0. PICK row : row = IF view[d] = Unset THEN Unset ELSE new
    OBVIOUS
  <2>1. /\ log' = Append(log, h)
        /\ Cases!Updated(h, d, s) = [view EXCEPT ![d] = row]
        /\ \/ /\ Cases!Commit([view EXCEPT ![d] = row])
              /\ phase' = [phase EXCEPT ![h] = "updated"] /\ UNCHANGED <<answer, life>>
           \/ /\ Cases!Fail([view EXCEPT ![d] = row])
              /\ Cases!Answer(h, "internal_error", Unset)
    BY <1>4, <2>0 DEF Cases!UpdateCase, Cases!Updated
  <2>2. /\ phase' \in [Handlers -> {"none", "updated", "answered", "lost"}]
        /\ life' \in [Handlers -> Nat] /\ DOMAIN answer' = Handlers
        /\ \A g \in Handlers : g # h =>
             phase'[g] = phase[g] /\ answer'[g] = answer[g] /\ life'[g] = life[g]
        /\ \/ phase'[h] = "updated" /\ view' = [view EXCEPT ![d] = row] /\ disk' = view'
           \/ phase'[h] = "answered" /\ answer'[h].outcome = "internal_error"
    <3>1. CASE phase' = [phase EXCEPT ![h] = "updated"] /\ UNCHANGED <<answer, life>>
                 /\ Cases!Commit([view EXCEPT ![d] = row])
      BY <3>1 DEF Cases!Commit, CasesInv, CasesTypeOK
    <3>2. CASE Cases!Answer(h, "internal_error", Unset)
      BY <3>2 DEF Cases!Answer, CasesInv, CasesTypeOK
    <3> QED  BY <2>1, <3>1, <3>2
  <2>3. /\ log' \in Seq(Handlers) /\ Once(log')
        /\ \A g : Logged(g)' <=> g = h \/ Logged(g)
        /\ \A r : KnownIn(log, r) => KnownIn(log', r) /\ PlaceIn(log', r) = PlaceIn(log, r)
        /\ \A r : r.by = h => PlaceIn(log', r) = Len(log) + 1
    BY <1>1, <2>1, UpdateAppended DEF Logged, Once, CasesInv, UpdatesOnce
  <2>4. new \in Cases!Rows /\ new.by = h /\ h # "record" /\ new # Unset /\ new.status = s
    BY <1>4, ConsoleAssumption DEF Cases!Rows
  <2>5. RowOf(d, new)'
    BY <1>2, <2>3, <2>4 DEF RowOf
  <2>6. RowsStay
    BY <1>1, <1>2, <2>3 DEF RowsStay
  <2>7. ErrorsStay
    <3> SUFFICES ASSUME NEW e \in Decisions, NEW by \in Handlers \cup {"record"}, Cases!Broken(by, e)
                 PROVE  Cases!Broken(by, e)'
      BY DEF ErrorsStay
    <3> QED  BY <1>1, <2>2 DEF Cases!Broken
  <2>8. \/ Cases!Commit([view EXCEPT ![d] = row])
        \/ /\ Cases!Fail([view EXCEPT ![d] = row])
           /\ row # Unset => Cases!Broken(row.by, d)'
    <3>1. phase'[h] = "answered" /\ answer'[h].outcome = "internal_error" => Cases!Broken(h, d)'
      BY <2>4 DEF Cases!Broken
    <3>2. Cases!Answer(h, "internal_error", Unset) => phase'[h] = "answered" /\ answer'[h].outcome = "internal_error"
      BY DEF Cases!Answer, CasesInv, CasesTypeOK
    <3>3. row # Unset => row.by = h
      BY <2>0, <2>4
    <3> QED  BY <2>1, <3>1, <3>2, <3>3
  <2>9. /\ row \in Cases!Rows \cup {Unset} /\ (row = Unset => view[d] = Unset)
        /\ row # Unset => row = new /\ view[d] # Unset
    BY <2>0, <2>4
  <2>10. row # Unset => PlaceIn(log', row) >= Len(log) /\ PlaceIn(log', row) = Len(log) + 1
    BY <1>1, <2>3, <2>4, <2>9
  <2>11. /\ disk' \in [Decisions -> Cases!Rows \cup {Unset}] /\ view' \in [Decisions -> Cases!Rows \cup {Unset}]
         /\ RowsWhole' /\ AheadIsBroken' /\ EvidenceStays
    <3>1. row # Unset => RowOf(d, row)' /\ recording'[d] # "none"
      BY <1>1, <2>5, <2>9
    <3> QED  BY <1>1, <2>3, <2>6, <2>7, <2>8, <2>9, <2>10, <3>1, RowWritten
  <2>12. CasesTypeOK' /\ UpdatesOnce'
    BY <1>1, <1>2, <2>2, <2>3, <2>11 DEF CasesInv, CasesTypeOK, UpdatesOnce, Once
  <2>13. ASSUME NEW g \in Handlers, g # h PROVE RequestOK(g)'
    <3>1. /\ phase'[g] = phase[g] /\ asked'[g] = asked[g] /\ answer'[g] = answer[g] /\ life'[g] = life[g]
          /\ Cases!Held(g)' => Cases!Held(g)
          /\ Logged(g)' => Logged(g)
          /\ crashes' \in Nat /\ crashes <= crashes'
      BY <1>1, <1>2, <2>2, <2>3, <2>13 DEF CasesInv, CasesTypeOK, Cases!Held
    <3> QED  BY <2>6, <2>7, <2>11, <3>1, RequestKept
  <2>14. RequestOK(h)'
    <3>1. CASE phase'[h] = "answered" /\ answer'[h].outcome = "internal_error"
      BY <1>1, <1>2, <3>1 DEF RequestOK, AnswerOK
    <3>2. CASE phase'[h] = "updated" /\ view' = [view EXCEPT ![d] = row] /\ disk' = view'
      <4>1. view'[d] = row /\ disk'[d] = row
        BY <1>1, <3>2 DEF CasesInv, CasesTypeOK
      <4>2. PICK own : own = PlaceIn(log', [by |-> h])
        OBVIOUS
      <4>3. own = Len(log) + 1 /\ Len(log) \in Nat
        BY <1>1, <2>3, <4>2
      <4>4. NoRow(d)' \/ AtLeast(d, own)'
        BY <2>10, <4>1, <4>3 DEF NoRow, AtLeast, Reached
      <4>5. Logged(h)'
        BY <2>3
      <4> QED  BY <1>1, <1>2, <3>2, <4>2, <4>4, <4>5 DEF RequestOK, AtLeast, Reached
    <3> QED  BY <2>2, <3>1, <3>2
  <2> QED  BY <2>11, <2>12, <2>13, <2>14 DEF CasesInv
<1> QED  BY <1>3, <1>4

\* The state of the storage matters to what is written next only.
LEMMA StorageKeeps == CasesInv /\ Cases!StorageChanges => CasesInv'
<1> SUFFICES ASSUME CasesInv, Cases!StorageChanges PROVE CasesInv'
  OBVIOUS
<1>1. /\ UNCHANGED <<memory, disk, view, recording, asked, phase, answer, life, crashes, log>>
      /\ storage' \in {"writable", "full", "down"}
  BY DEF Cases!StorageChanges, Cases!requests
<1>2. RowsStay /\ ErrorsStay
  <2>1. RowsStay
    BY <1>1 DEF RowsStay, Logged
  <2>2. ErrorsStay
    BY <1>1 DEF ErrorsStay, Cases!Broken
  <2> QED  BY <2>1, <2>2
<1>3. RowsWhole' /\ AheadIsBroken' /\ UpdatesOnce' /\ EvidenceStays
  BY <1>1, <1>2, EvidenceUntouched
<1>4. CasesTypeOK'
  BY <1>1 DEF CasesInv, CasesTypeOK
<1>5. ASSUME NEW g \in Handlers PROVE RequestOK(g)'
  BY <1>1, <1>2, <1>3, RequestKept DEF CasesInv, CasesTypeOK, Cases!Held, Logged
<1> QED  BY <1>3, <1>4, <1>5 DEF CasesInv

\* A crash takes evidence in memory with it, and from a file only what was not
\* committed: the writes of requests that ended in an error.
LEMMA CrashKeeps == CasesInv /\ Cases!Crash => CasesInv'
<1> SUFFICES ASSUME CasesInv, Cases!Crash PROVE CasesInv'
  OBVIOUS
<1>1. /\ UNCHANGED <<memory, recording, asked, answer, life, log>>
      /\ storage' = "writable" /\ crashes \in Nat /\ crashes' = crashes + 1 /\ view' = disk'
      /\ disk' = IF memory THEN [d \in Decisions |-> Unset] ELSE disk
      /\ \A h \in Handlers : phase'[h] = IF phase[h] = "updated" THEN "lost" ELSE phase[h]
  BY DEF Cases!Crash, CasesInv, CasesTypeOK
<1>2. CasesTypeOK'
  <2>1. phase' \in [Handlers -> {"none", "updated", "answered", "lost"}]
    BY DEF Cases!Crash, CasesInv, CasesTypeOK
  <2> QED  BY <1>1, <2>1 DEF CasesInv, CasesTypeOK
<1>3. RowsStay
  BY <1>1 DEF RowsStay, Logged
<1>4. ErrorsStay
  <2> SUFFICES ASSUME NEW e \in Decisions, NEW by \in Handlers \cup {"record"}, Cases!Broken(by, e)
               PROVE  Cases!Broken(by, e)'
    BY DEF ErrorsStay
  <2> QED  BY <1>1 DEF Cases!Broken
<1>5. \A d \in Decisions : view'[d] = disk'[d] /\ disk'[d] \in {disk[d], Unset}
  BY <1>1
<1>6. RowsWhole'
  <2> SUFFICES ASSUME NEW d \in Decisions, NEW row \in {disk[d]} \ {Unset}
               PROVE  RowOf(d, row)' /\ recording'[d] # "none"
    BY <1>5 DEF RowsWhole
  <2>1. RowOf(d, row) /\ recording[d] # "none"
    BY DEF CasesInv, RowsWhole
  <2> QED  BY <1>3, <2>1, RowStays DEF RowsStay
<1>7. AheadIsBroken' /\ UpdatesOnce'
  BY <1>1, <1>5 DEF AheadIsBroken, CasesInv, UpdatesOnce
<1>8. ~memory => EvidenceStays
  BY <1>1 DEF EvidenceStays, NoRow, AtLeast, Reached
<1>9. ASSUME NEW g \in Handlers PROVE RequestOK(g)'
  <2>1. CASE phase[g] = "updated"
    BY <1>1, <2>1 DEF CasesInv, RequestOK, Logged
  <2>2. CASE phase[g] # "updated" /\ (memory => life[g] <= crashes)
    <3>1. /\ phase'[g] = phase[g] /\ life[g] \in Nat
          /\ Cases!Held(g)' => ~memory
          /\ Cases!Held(g)' => Cases!Held(g)
          /\ Logged(g)' => Logged(g)
      BY <1>1, <2>2 DEF CasesInv, CasesTypeOK, Cases!Held, Logged
    <3> QED  BY <1>1, <1>3, <1>4, <1>8, <2>2, <3>1, RequestKept
  <2>3. CASE phase[g] # "updated" /\ memory /\ ~(life[g] <= crashes)
    BY <1>1, <2>3 DEF CasesInv, RequestOK, AnswerOK, Logged, CaseRequests
  <2> QED  BY <2>1, <2>2, <2>3
<1> QED  BY <1>2, <1>6, <1>7, <1>9 DEF CasesInv

\* The invariant is inductive.
LEMMA CasesKept == CasesInv /\ [Cases!Next]_casesVars => CasesInv'
<1> SUFFICES ASSUME CasesInv, [Cases!Next]_casesVars PROVE CasesInv'
  OBVIOUS
<1>1. CASE Cases!Next
  <2>1. CASE \E d \in Decisions : Cases!Record(d)
    BY <2>1, RecordKeeps
  <2>2. ASSUME NEW h \in Handlers, NEW d \in Cases!Known, Cases!Look(h, d) PROVE CasesInv'
    BY <2>2, LookKeeps
  <2>3. ASSUME NEW h \in Handlers, NEW d \in Cases!Known, NEW s \in Statuses, Cases!UpdateCase(h, d, s)
        PROVE  CasesInv'
    BY <2>3, UpdateCaseKeeps
  <2>4. ASSUME NEW h \in Handlers, Cases!ReadBack(h) PROVE CasesInv'
    BY <2>4, ReadBackKeeps
  <2> QED  BY <1>1, <2>1, <2>2, <2>3, <2>4, StorageKeeps, CrashKeeps DEF Cases!Next
<1>2. CASE UNCHANGED casesVars
  <2>1. UNCHANGED <<memory, storage, disk, view, recording, asked, phase, answer, crashes, life, log>>
    BY <1>2 DEF casesVars
  <2>2. RowsStay
    BY <2>1 DEF RowsStay, Logged
  <2>3. ErrorsStay
    BY <2>1 DEF ErrorsStay, Cases!Broken
  <2>4. RowsWhole' /\ AheadIsBroken' /\ UpdatesOnce' /\ EvidenceStays
    BY <2>1, <2>2, <2>3, EvidenceUntouched
  <2>5. CasesTypeOK'
    BY <2>1 DEF CasesInv, CasesTypeOK
  <2>6. ASSUME NEW g \in Handlers PROVE RequestOK(g)'
    BY <2>1, <2>2, <2>3, <2>4, RequestKept DEF CasesInv, CasesTypeOK, Cases!Held, Logged
  <2> QED  BY <2>4, <2>5, <2>6 DEF CasesInv
<1> QED  BY <1>1, <1>2

\* What the invariant says is what operators rely on.
LEMMA CasesInvImplies == CasesInv => CasesAgree
<1> SUFFICES ASSUME CasesInv PROVE CasesAgree
  OBVIOUS
<1>1. Cases!CasesAreWhole
  <2>1. ASSUME NEW d \in Decisions, NEW row \in {disk[d], view[d]} \ {Unset}
        PROVE  /\ row \in Cases!Rows
               /\ row.by # "record" => asked[row.by] = [decision |-> d, status |-> row.status]
               /\ row.by = "record" => row = Cases!NewRow
    BY DEF CasesInv, RowsWhole, RowOf
  <2>2. ASSUME NEW h \in Handlers, phase[h] = "answered"
        PROVE  IF answer[h].outcome = "row" THEN answer[h].row \in Cases!Rows
               ELSE answer[h].outcome \in {"invalid_case_status", "evidence_not_found", "internal_error"}
    BY <2>2 DEF CasesInv, RequestOK, AnswerOK, RowOf
  <2> QED  BY <2>1, <2>2 DEF Cases!CasesAreWhole
<1>2. \A row : Cases!Place(row) = PlaceIn(log, row)
  BY DEF Cases!Place, PlaceIn
<1>3. ASSUME NEW h \in Handlers, Cases!HasRow(h)
      PROVE  /\ asked[h].decision \in Decisions
             /\ RowOf(asked[h].decision, answer[h].row)
             /\ ShownStays(h, asked[h].decision, answer[h].row)
             /\ Cases!Updates(h) => UpdateStays(h, asked[h].decision, answer[h].row)
  BY <1>3 DEF CasesInv, RequestOK, AnswerOK, CaseRequests, Cases!HasRow
<1>4. Cases!AnsweredUpdatesLast
  BY <1>2, <1>3 DEF Cases!AnsweredUpdatesLast, UpdateStays, AtLeast, Reached
<1>5. Cases!SeenStaysOrBroke
  BY <1>2, <1>3 DEF Cases!SeenStaysOrBroke, ShownStays, AtLeast, Reached
<1> QED  BY <1>1, <1>4, <1>5 DEF CasesAgree

\* CasesAgree, of the whole console (evidence.py 178-236): a case is what one request
\* made of it, an answered update is committed and stays but for later ones, and what a
\* reader was shown stays unless its writer was told of an error.
THEOREM CasesHold == Spec => []CasesAgree
<1>1. Init => CasesInv
  BY CasesStart DEF Init
<1>2. CasesInv /\ [Next]_<<casesVars, incidentsVars>> => CasesInv'
  BY CasesKept DEF Next
<1> QED  BY <1>1, <1>2, CasesInvImplies, PTL DEF Spec
-----------------------------------------------------------------------------
(* The incidents.                                                          *)

Request(h) == incidentAsked[h]

\* The handler of h has set its status, its owner, added its comment.
StatusDone(h) ==
  incidentPhase[h] \in {"owner", "comment", "as_dict", "serialize"} \/ Incidents!Done(h, "incident")

OwnerDone(h) ==
  incidentPhase[h] \in {"comment", "as_dict", "serialize"} \/ Incidents!Done(h, "incident")

CommentDone(h) == incidentPhase[h] \in {"as_dict", "serialize"} \/ Incidents!Done(h, "incident")

Holds(h) == incidentPhase[h] = "status" \/ StatusDone(h)

\* Where a write stands among the writes.
Written(h, field) == \E i \in DOMAIN writes : writes[i] = <<h, field>>

\* `by` wrote the field not before h did.
NotBefore(by, h, field) ==
  /\ by \in Handlers /\ Written(by, field) /\ Written(h, field)
  /\ \A i, j \in DOMAIN writes : writes[i] = <<h, field>> /\ writes[j] = <<by, field>> => i <= j

IncidentsTypeOK ==
  /\ incidents \in [Decisions -> Handlers \cup {Unset}]
  /\ opened \in Seq(Decisions)
  /\ status \in [Handlers -> Handlers \cup {Unset}] /\ owner \in [Handlers -> Handlers \cup {Unset}]
  /\ comments \in [Handlers -> Seq(Handlers)]
  /\ DOMAIN incidentAsked = Handlers /\ DOMAIN incidentAnswer = Handlers /\ DOMAIN mine = Handlers
  /\ incidentPhase \in [Handlers -> {"none", "incident_for", "status", "owner", "comment", "as_dict",
                                     "serialize", "list", "answered"}]
  /\ writes \in Seq(Handlers \X {"status", "owner"})
  /\ begun \in [Handlers -> Nat]

WritesOnce == \A i, j \in DOMAIN writes : writes[i] = writes[j] => i = j

WritesDone ==
  \A h \in Handlers :
    /\ Written(h, "status") => StatusDone(h)
    /\ Written(h, "owner") => OwnerDone(h)

FieldsWritten ==
  \A i \in Handlers :
    /\ status[i] # Unset => Written(status[i], "status")
    /\ owner[i] # Unset => Written(owner[i], "owner")

CommentsDone ==
  \A i \in Handlers :
    /\ \A k \in DOMAIN comments[i] : CommentDone(comments[i][k])
    /\ \A k, l \in DOMAIN comments[i] : comments[i][k] = comments[i][l] => k = l

HasComment(h, list) == \E k \in DOMAIN list : list[k] = h

Begins(list, longer) == Len(list) <= Len(longer) /\ \A i \in 1 .. Len(list) : list[i] = longer[i]

UpdateOK(h) ==
  LET change == Request(h).change
      got == incidentAnswer[h]
      shows == incidentPhase[h] = "serialize" \/ Incidents!Done(h, "incident")
  IN
  /\ incidentPhase[h] = "incident_for" \/ Holds(h) => Request(h).decision \in Decisions
  /\ Holds(h) => mine[h] \in Handlers /\ mine[h] = incidents[Request(h).decision]
  /\ StatusDone(h) /\ change.status # Unset => NotBefore(status[mine[h]], h, "status")
  /\ OwnerDone(h) /\ change.owner # Unset => NotBefore(owner[mine[h]], h, "owner")
  /\ CommentDone(h) /\ change.comment # Unset => HasComment(h, comments[mine[h]])
  /\ shows /\ change.status # Unset => NotBefore(got.status, h, "status")
  /\ shows /\ change.owner # Unset => NotBefore(got.owner, h, "owner")
  /\ Incidents!Done(h, "incident") =>
       /\ got.comments \in Seq(Handlers) /\ Begins(got.comments, comments[mine[h]])
       /\ change.comment # Unset => HasComment(h, got.comments)

ListOK(h) ==
  LET got == incidentAnswer[h] IN
  /\ begun[h] <= Len(opened)
  /\ incidentPhase[h] = "list" =>
       /\ got.outcome = "list" /\ got.listed \in Seq(Decisions)
       /\ Len(got.listed) <= begun[h] /\ Begins(got.listed, opened)
  /\ Incidents!Done(h, "list") =>
       got.listed \in Seq(Decisions) /\ Len(got.listed) = begun[h] /\ Begins(got.listed, opened)
  /\ Incidents!Done(h, "internal_error") => Len(opened) > begun[h]

IncidentsInv ==
  /\ IncidentsTypeOK /\ WritesOnce /\ WritesDone /\ FieldsWritten /\ CommentsDone
  /\ \A h \in Handlers : UpdateOK(h) /\ ListOK(h)

LEMMA IncidentsStart == Incidents!Init => IncidentsInv
<1> SUFFICES ASSUME Incidents!Init PROVE IncidentsInv
  OBVIOUS
<1> USE DEF Incidents!Init
<1>1. IncidentsTypeOK
  BY EmptySeq DEF IncidentsTypeOK
<1>2. DOMAIN writes = {} /\ \A i \in Handlers : DOMAIN comments[i] = {}
  OBVIOUS
<1>3. WritesOnce /\ WritesDone /\ FieldsWritten /\ CommentsDone
  BY <1>2 DEF WritesOnce, WritesDone, FieldsWritten, CommentsDone, Written
<1>4. \A h \in Handlers : UpdateOK(h) /\ ListOK(h)
  BY DEF UpdateOK, ListOK, Holds, StatusDone, OwnerDone, CommentDone, Incidents!Done
<1> QED  BY <1>1, <1>3, <1>4 DEF IncidentsInv

\* A list is a beginning of itself and of what it grows to.
LEMMA BeginsLonger ==
  ASSUME NEW S, NEW list \in Seq(S), NEW x \in S
  PROVE  /\ Begins(list, list) /\ Begins(list, Append(list, x))
         /\ \A shorter \in Seq(S) : Begins(shorter, list) => Begins(shorter, Append(list, x))
BY AppendProperties DEF Begins

\* What every step does with the incidents: each stays, and its fields and comments
\* only go on.
IncidentsGrow ==
  /\ \A d \in Decisions : incidents[d] # Unset => incidents'[d] = incidents[d]
  /\ \A by, field : \A h \in Handlers : NotBefore(by, h, field) => NotBefore(by, h, field)'
  /\ \A h, i \in Handlers :
       /\ NotBefore(status[i], h, "status") => NotBefore(status[i], h, "status")'
       /\ NotBefore(owner[i], h, "owner") => NotBefore(owner[i], h, "owner")'
  /\ \A i \in Handlers :
       comments'[i] = comments[i] \/ \E by \in Handlers : comments'[i] = Append(comments[i], by)
  /\ opened' = opened \/ \E d \in Decisions : opened' = Append(opened, d)

\* A request whose own state a step leaves alone keeps what it was promised.
LEMMA OthersKept ==
  ASSUME IncidentsInv, IncidentsGrow, NEW g \in Handlers,
         incidentPhase'[g] = incidentPhase[g], incidentAsked'[g] = incidentAsked[g],
         incidentAnswer'[g] = incidentAnswer[g], mine'[g] = mine[g], begun'[g] = begun[g]
  PROVE  UpdateOK(g)' /\ ListOK(g)'
<1>1. UpdateOK(g) /\ ListOK(g) /\ IncidentsTypeOK
  BY DEF IncidentsInv
<1>2. PICK m : m = mine[g]
  OBVIOUS
<1>3. PICK got : got = incidentAnswer[g]
  OBVIOUS
<1>4. PICK request : request = Request(g)
  OBVIOUS
<1>5. m = mine'[g] /\ got = incidentAnswer'[g] /\ request = Request(g)'
  BY <1>2, <1>3, <1>4 DEF Request
<1>6. ASSUME NEW i \in Handlers
      PROVE  /\ comments[i] \in Seq(Handlers) /\ comments'[i] \in Seq(Handlers)
             /\ Begins(comments[i], comments'[i])
             /\ \A shorter \in Seq(Handlers) : Begins(shorter, comments[i]) => Begins(shorter, comments'[i])
             /\ \A h : HasComment(h, comments[i]) => HasComment(h, comments'[i])
  <2>1. comments[i] \in Seq(Handlers)
    BY <1>1 DEF IncidentsTypeOK
  <2>2. CASE comments'[i] = comments[i]
    BY <2>1, <2>2 DEF Begins
  <2>3. ASSUME NEW by \in Handlers, comments'[i] = Append(comments[i], by)
        PROVE  /\ comments[i] \in Seq(Handlers) /\ comments'[i] \in Seq(Handlers)
               /\ Begins(comments[i], comments'[i])
               /\ \A shorter \in Seq(Handlers) : Begins(shorter, comments[i]) => Begins(shorter, comments'[i])
               /\ \A h : HasComment(h, comments[i]) => HasComment(h, comments'[i])
    <3>1. PICK old \in Seq(Handlers) : old = comments[i]
      BY <2>1
    <3>2. Append(old, by) \in Seq(Handlers) /\ Begins(old, Append(old, by))
          /\ \A shorter \in Seq(Handlers) : Begins(shorter, old) => Begins(shorter, Append(old, by))
      BY BeginsLonger, AppendProperties
    <3>3. \A h : HasComment(h, old) => HasComment(h, Append(old, by))
      BY AppendProperties DEF HasComment
    <3> QED  BY <2>3, <3>1, <3>2, <3>3
  <2> QED  BY <2>2, <2>3 DEF IncidentsGrow
<1>7. /\ Len(opened) \in Nat /\ Len(opened') \in Nat /\ Len(opened) <= Len(opened')
      /\ \A shorter \in Seq(Decisions) : Begins(shorter, opened) => Begins(shorter, opened')
  <2>1. opened \in Seq(Decisions)
    BY <1>1 DEF IncidentsTypeOK
  <2>2. ASSUME NEW d \in Decisions, opened' = Append(opened, d)
        PROVE  /\ Len(opened') = Len(opened) + 1
               /\ \A shorter \in Seq(Decisions) : Begins(shorter, opened) => Begins(shorter, opened')
    BY <2>1, <2>2, BeginsLonger, AppendProperties
  <2>3. Len(opened) \in Nat
    BY <2>1
  <2> QED  BY <2>2, <2>3 DEF IncidentsGrow
<1>8. UpdateOK(g)'
  <2> DEFINE shows == incidentPhase[g] = "serialize" \/ Incidents!Done(g, "incident")
  <2>1. /\ StatusDone(g)' <=> StatusDone(g)
        /\ OwnerDone(g)' <=> OwnerDone(g)
        /\ CommentDone(g)' <=> CommentDone(g)
        /\ Holds(g)' <=> Holds(g)
        /\ \A outcome : Incidents!Done(g, outcome)' <=> Incidents!Done(g, outcome)
    BY DEF StatusDone, OwnerDone, CommentDone, Holds, Incidents!Done
  <2>2. /\ StatusDone(g) => Holds(g)
        /\ OwnerDone(g) => Holds(g)
        /\ CommentDone(g) => Holds(g)
        /\ Incidents!Done(g, "incident") => Holds(g)
    BY DEF StatusDone, OwnerDone, CommentDone, Holds
  <2>3. /\ incidentPhase[g] = "incident_for" \/ Holds(g) => request.decision \in Decisions
        /\ Holds(g) => m \in Handlers /\ m = incidents[request.decision]
        /\ StatusDone(g) /\ request.change.status # Unset => NotBefore(status[m], g, "status")
        /\ OwnerDone(g) /\ request.change.owner # Unset => NotBefore(owner[m], g, "owner")
        /\ CommentDone(g) /\ request.change.comment # Unset => HasComment(g, comments[m])
        /\ shows /\ request.change.status # Unset => NotBefore(got.status, g, "status")
        /\ shows /\ request.change.owner # Unset => NotBefore(got.owner, g, "owner")
        /\ Incidents!Done(g, "incident") =>
             /\ got.comments \in Seq(Handlers) /\ Begins(got.comments, comments[m])
             /\ request.change.comment # Unset => HasComment(g, got.comments)
    BY <1>1, <1>2, <1>3, <1>4 DEF UpdateOK
  <2>4. /\ incidentPhase'[g] = "incident_for" \/ Holds(g)' => request.decision \in Decisions
        /\ Holds(g)' => m \in Handlers /\ m = incidents'[request.decision]
        /\ CommentDone(g)' /\ request.change.comment # Unset => HasComment(g, comments'[m])
        /\ Incidents!Done(g, "incident")' =>
             /\ got.comments \in Seq(Handlers) /\ Begins(got.comments, comments'[m])
             /\ request.change.comment # Unset => HasComment(g, got.comments)
    BY <1>6, <2>1, <2>2, <2>3, ConsoleAssumption DEF IncidentsGrow
  <2>5. StatusDone(g)' /\ request.change.status # Unset => NotBefore(status[m], g, "status")'
    BY <2>1, <2>2, <2>3 DEF IncidentsGrow
  <2>6. OwnerDone(g)' /\ request.change.owner # Unset => NotBefore(owner[m], g, "owner")'
    BY <2>1, <2>2, <2>3 DEF IncidentsGrow
  <2>7. shows' /\ request.change.status # Unset => NotBefore(got.status, g, "status")'
    BY <2>1, <2>3 DEF IncidentsGrow
  <2>8. shows' /\ request.change.owner # Unset => NotBefore(got.owner, g, "owner")'
    BY <2>1, <2>3 DEF IncidentsGrow
  <2>9. UpdateOK(g)' <=>
         /\ incidentPhase'[g] = "incident_for" \/ Holds(g)' => request.decision \in Decisions
         /\ Holds(g)' => m \in Handlers /\ m = incidents'[request.decision]
         /\ StatusDone(g)' /\ request.change.status # Unset => NotBefore(status[m], g, "status")'
         /\ OwnerDone(g)' /\ request.change.owner # Unset => NotBefore(owner[m], g, "owner")'
         /\ CommentDone(g)' /\ request.change.comment # Unset => HasComment(g, comments'[m])
         /\ shows' /\ request.change.status # Unset => NotBefore(got.status, g, "status")'
         /\ shows' /\ request.change.owner # Unset => NotBefore(got.owner, g, "owner")'
         /\ Incidents!Done(g, "incident")' =>
             /\ got.comments \in Seq(Handlers) /\ Begins(got.comments, comments'[m])
             /\ request.change.comment # Unset => HasComment(g, got.comments)
    BY <1>5 DEF UpdateOK, NotBefore
  <2> QED  BY <2>4, <2>5, <2>6, <2>7, <2>8, <2>9
<1>9. ListOK(g)'
  <2>1. begun[g] \in Nat
    BY <1>1 DEF IncidentsTypeOK
  <2> QED  BY <1>1, <1>7, <2>1 DEF ListOK, Incidents!Done
<1> QED  BY <1>8, <1>9

\* Only the handler of h runs.
Others(h) ==
  \A g \in Handlers : g # h =>
    /\ incidentPhase'[g] = incidentPhase[g] /\ incidentAsked'[g] = incidentAsked[g]
    /\ incidentAnswer'[g] = incidentAnswer[g] /\ mine'[g] = mine[g] /\ begun'[g] = begun[g]

LEMMA StepKeeps ==
  ASSUME IncidentsInv, IncidentsGrow, NEW h \in Handlers, Others(h), UpdateOK(h)', ListOK(h)',
         IncidentsTypeOK', WritesOnce', WritesDone', FieldsWritten', CommentsDone'
  PROVE  IncidentsInv'
<1>1. ASSUME NEW g \in Handlers PROVE UpdateOK(g)' /\ ListOK(g)'
  BY OthersKept DEF Others
<1> QED  BY <1>1 DEF IncidentsInv

\* What a request has done, it has done for good.
Stays(h) ==
  /\ StatusDone(h) => StatusDone(h)'
  /\ OwnerDone(h) => OwnerDone(h)'
  /\ CommentDone(h) => CommentDone(h)'

LEMMA AllStay ==
  ASSUME NEW h \in Handlers, Others(h), Stays(h)
  PROVE  \A g \in Handlers : Stays(g)
BY DEF Others, Stays, StatusDone, OwnerDone, CommentDone, Incidents!Done

\* Comments that a step leaves alone are of requests that have added theirs.
LEMMA CommentsUntouched ==
  ASSUME IncidentsInv, \A g \in Handlers : Stays(g), UNCHANGED comments
  PROVE  CommentsDone'
<1>1. ASSUME NEW i \in Handlers, NEW k \in DOMAIN comments[i]
      PROVE  comments[i][k] \in Handlers /\ CommentDone(comments[i][k])
  BY DEF IncidentsInv, IncidentsTypeOK, CommentsDone
<1>2. ASSUME NEW i \in Handlers, NEW k \in DOMAIN comments[i]
      PROVE  CommentDone(comments[i][k])'
  <2>1. PICK g \in Handlers : g = comments[i][k]
    BY <1>1
  <2>2. CommentDone(g)'
    BY <1>1, <2>1 DEF Stays
  <2> QED  BY <2>1, <2>2 DEF CommentDone, Incidents!Done
<1> QED  BY <1>2 DEF CommentsDone, IncidentsInv

\* A handler that reads, decides or answers leaves the incidents as they are.
LEMMA NothingWritten ==
  ASSUME IncidentsInv, \A g \in Handlers : Stays(g),
         UNCHANGED <<incidents, opened, status, owner, comments, writes>>
  PROVE  /\ IncidentsGrow
         /\ WritesOnce' /\ WritesDone' /\ FieldsWritten' /\ CommentsDone'
<1>1. IncidentsGrow
  BY DEF IncidentsGrow, NotBefore, Written
<1>2. WritesOnce' /\ FieldsWritten'
  BY DEF IncidentsInv, WritesOnce, FieldsWritten, Written
<1>3. WritesDone'
  BY DEF IncidentsInv, WritesDone, Written, Stays
<1>4. CommentsDone'
  BY CommentsUntouched
<1> QED  BY <1>1, <1>2, <1>3, <1>4

\* A write is the last one.
LEMMA WriteAdded ==
  ASSUME IncidentsInv, NEW h \in Handlers, NEW field \in {"status", "owner"}, ~Written(h, field),
         writes' = Append(writes, <<h, field>>)
  PROVE  /\ writes' \in Seq(Handlers \X {"status", "owner"}) /\ WritesOnce'
         /\ \A g, f : Written(g, f)' <=> Written(g, f) \/ (g = h /\ f = field)
         /\ \A g, by, f : NotBefore(by, g, f) => NotBefore(by, g, f)'
         /\ \A g : Written(g, field)' => NotBefore(h, g, field)'
<1> DEFINE last == Len(writes) + 1
<1>1. /\ writes \in Seq(Handlers \X {"status", "owner"}) /\ Len(writes) \in Nat
      /\ <<h, field>> \in Handlers \X {"status", "owner"}
  BY DEF IncidentsInv, IncidentsTypeOK
<1>2. /\ writes' \in Seq(Handlers \X {"status", "owner"}) /\ DOMAIN writes' = 1 .. last
      /\ \A i \in 1 .. Len(writes) : writes'[i] = writes[i]
      /\ writes'[last] = <<h, field>>
      /\ DOMAIN writes = 1 .. Len(writes)
  BY <1>1, AppendProperties
<1>3. \A i \in DOMAIN writes : writes[i] # <<h, field>>
  BY DEF Written
<1>4. /\ DOMAIN writes \subseteq DOMAIN writes' /\ last \in DOMAIN writes'
      /\ \A i \in DOMAIN writes' : i \in DOMAIN writes \/ i = last
      /\ \A i \in DOMAIN writes' : i <= last
  BY <1>1, <1>2
<1> HIDE DEF last
<1>5. WritesOnce'
  BY <1>2, <1>3, <1>4 DEF WritesOnce, IncidentsInv
<1>6. \A g, f : Written(g, f)' <=> Written(g, f) \/ (g = h /\ f = field)
  <2> TAKE g, f
  <2>1. <<g, f>> = <<h, field>> <=> g = h /\ f = field
    OBVIOUS
  <2> QED  BY <1>2, <1>4, <2>1, Zenon DEF Written
<1>7. ASSUME NEW g, NEW by, NEW f, NotBefore(by, g, f)
      PROVE  NotBefore(by, g, f)'
  <2>1. /\ \A i \in DOMAIN writes' : writes'[i] = <<g, f>> => i \in DOMAIN writes /\ writes[i] = <<g, f>>
        /\ \A i \in DOMAIN writes' : writes'[i] = <<by, f>> => i \in DOMAIN writes /\ writes[i] = <<by, f>>
    BY <1>2, <1>3, <1>4, <1>7 DEF NotBefore, Written
  <2> QED  BY <1>6, <1>7, <2>1 DEF NotBefore
<1>8. ASSUME NEW g, Written(g, field)'
      PROVE  NotBefore(h, g, field)'
  <2>1. \A j \in DOMAIN writes' : writes'[j] = <<h, field>> => j = last
    BY <1>2, <1>3, <1>4
  <2>2. Written(h, field)'
    BY <1>6
  <2> QED  BY <1>4, <1>8, <2>1, <2>2 DEF NotBefore
<1> QED  BY <1>2, <1>5, <1>6, <1>7, <1>8

\* A request that a viewer sends gets no further; another's handler begins.
LEMMA UpdateKeeps ==
  ASSUME IncidentsInv, NEW h \in Handlers, NEW d \in Decisions, NEW change, NEW role,
         Incidents!Update(h, d, change, role)
  PROVE  IncidentsInv'
<1>1. /\ incidentPhase[h] = "none"
      /\ UNCHANGED <<incidents, opened, status, owner, comments, writes, mine, begun>>
      /\ incidentAsked' = [incidentAsked EXCEPT ![h] = [decision |-> d, change |-> change]]
      /\ \/ incidentPhase' = [incidentPhase EXCEPT ![h] = "incident_for"] /\ UNCHANGED incidentAnswer
         \/ /\ incidentPhase' = [incidentPhase EXCEPT ![h] = "answered"]
            /\ incidentAnswer' = [incidentAnswer EXCEPT ![h] = [outcome |-> "insufficient_role"]]
  BY DEF Incidents!Update, Incidents!Goto, Incidents!Answer, Incidents!store
<1>2. /\ IncidentsTypeOK' /\ Others(h)
      /\ incidentAsked'[h] = [decision |-> d, change |-> change]
      /\ \/ incidentPhase'[h] = "incident_for"
         \/ incidentPhase'[h] = "answered" /\ incidentAnswer'[h].outcome = "insufficient_role"
  <2>1. /\ incidentPhase' \in [Handlers -> {"none", "incident_for", "status", "owner", "comment", "as_dict",
                                             "serialize", "list", "answered"}]
        /\ DOMAIN incidentAnswer' = Handlers
        /\ \/ incidentPhase'[h] = "incident_for"
           \/ incidentPhase'[h] = "answered" /\ incidentAnswer'[h].outcome = "insufficient_role"
        /\ \A g \in Handlers : g # h =>
             incidentPhase'[g] = incidentPhase[g] /\ incidentAnswer'[g] = incidentAnswer[g]
    <3>1. CASE incidentPhase' = [incidentPhase EXCEPT ![h] = "incident_for"] /\ UNCHANGED incidentAnswer
      BY <3>1 DEF IncidentsInv, IncidentsTypeOK
    <3>2. CASE /\ incidentPhase' = [incidentPhase EXCEPT ![h] = "answered"]
               /\ incidentAnswer' = [incidentAnswer EXCEPT ![h] = [outcome |-> "insufficient_role"]]
      BY <3>2 DEF IncidentsInv, IncidentsTypeOK
    <3> QED  BY <1>1, <3>1, <3>2
  <2>2. DOMAIN incidentAsked = Handlers
    BY DEF IncidentsInv, IncidentsTypeOK
  <2> QED  BY <1>1, <2>1, <2>2 DEF IncidentsInv, IncidentsTypeOK, Others
<1>3. Stays(h)
  BY <1>1 DEF Stays, StatusDone, OwnerDone, CommentDone, Incidents!Done
<1>4. UpdateOK(h)' /\ ListOK(h)'
  BY <1>1, <1>2 DEF IncidentsInv, UpdateOK, ListOK, Holds, StatusDone, OwnerDone, CommentDone,
                    Incidents!Done, Request
<1> QED  BY <1>1, <1>2, <1>3, <1>4, AllStay, NothingWritten, StepKeeps

\* setdefault: the incident is there from now on, whoever made it.
LEMMA IncidentForKeeps ==
  ASSUME IncidentsInv, NEW h \in Handlers, Incidents!IncidentFor(h)
  PROVE  IncidentsInv'
<1>1. PICK d : d = incidentAsked[h].decision
  OBVIOUS
<1>2. /\ incidentPhase[h] = "incident_for" /\ d \in Decisions
      /\ UNCHANGED <<status, owner, comments, writes, incidentAsked, incidentAnswer, begun>>
      /\ incidentPhase' = [incidentPhase EXCEPT ![h] = "status"]
      /\ \/ /\ incidents[d] = Unset /\ incidents' = [incidents EXCEPT ![d] = h]
            /\ opened' = Append(opened, d) /\ mine' = [mine EXCEPT ![h] = h]
         \/ /\ incidents[d] # Unset /\ mine' = [mine EXCEPT ![h] = incidents[d]]
            /\ UNCHANGED <<incidents, opened>>
  BY <1>1 DEF Incidents!IncidentFor, Incidents!Goto, IncidentsInv, UpdateOK, Request
<1>3. /\ incidents' \in [Decisions -> Handlers \cup {Unset}] /\ opened' \in Seq(Decisions)
      /\ \A e \in Decisions : incidents[e] # Unset => incidents'[e] = incidents[e]
      /\ mine'[h] = incidents'[d] /\ mine'[h] \in Handlers
      /\ incidentPhase'[h] = "status" /\ DOMAIN mine' = Handlers
  <2>1. /\ incidents \in [Decisions -> Handlers \cup {Unset}] /\ opened \in Seq(Decisions)
        /\ DOMAIN mine = Handlers /\ incidentPhase'[h] = "status"
    BY <1>2 DEF IncidentsInv, IncidentsTypeOK
  <2>2. CASE /\ incidents[d] = Unset /\ incidents' = [incidents EXCEPT ![d] = h]
             /\ opened' = Append(opened, d) /\ mine' = [mine EXCEPT ![h] = h]
    BY <1>2, <2>1, <2>2
  <2>3. CASE /\ incidents[d] # Unset /\ mine' = [mine EXCEPT ![h] = incidents[d]]
             /\ UNCHANGED <<incidents, opened>>
    BY <1>2, <2>1, <2>3
  <2> QED  BY <1>2, <2>2, <2>3
<1>4. IncidentsTypeOK' /\ Others(h)
  BY <1>2, <1>3 DEF IncidentsInv, IncidentsTypeOK, Others
<1>5. \A g \in Handlers : Stays(g)
  <2>1. Stays(h)
    BY <1>2 DEF Stays, StatusDone, OwnerDone, CommentDone, Incidents!Done
  <2> QED  BY <1>4, <2>1, AllStay
<1>6. IncidentsGrow
  BY <1>2, <1>3 DEF IncidentsGrow, NotBefore, Written
<1>7. WritesOnce' /\ WritesDone' /\ FieldsWritten' /\ CommentsDone'
  <2>1. WritesOnce' /\ WritesDone' /\ FieldsWritten'
    BY <1>2, <1>5 DEF IncidentsInv, WritesOnce, WritesDone, FieldsWritten, Written, Stays
  <2>2. CommentsDone'
    BY <1>2, <1>5, CommentsUntouched
  <2> QED  BY <2>1, <2>2
<1>8. UpdateOK(h)' /\ ListOK(h)'
  <2>1. UpdateOK(h)'
    BY <1>1, <1>2, <1>3 DEF UpdateOK, Holds, StatusDone, OwnerDone, CommentDone, Incidents!Done, Request
  <2>2. begun'[h] <= Len(opened')
    <3>1. begun[h] \in Nat /\ begun[h] <= Len(opened) /\ opened \in Seq(Decisions)
      BY DEF IncidentsInv, ListOK, IncidentsTypeOK
    <3>2. Len(opened') \in {Len(opened), Len(opened) + 1}
      BY <1>2, <3>1, AppendProperties
    <3> QED  BY <1>2, <3>1, <3>2
  <2> QED  BY <1>3, <2>1, <2>2 DEF ListOK, Incidents!Done
<1> QED  BY <1>4, <1>6, <1>7, <1>8, StepKeeps

\* The status is refused, left alone or written.
LEMMA SetStatusKeeps ==
  ASSUME IncidentsInv, NEW h \in Handlers, Incidents!SetStatus(h)
  PROVE  IncidentsInv'
<1>1. PICK change : change = incidentAsked[h].change
  OBVIOUS
<1>2. PICK m : m = mine[h]
  OBVIOUS
<1>3. /\ incidentPhase[h] = "status" /\ m \in Handlers
      /\ UNCHANGED <<incidents, opened, owner, comments, incidentAsked, mine, begun>>
      /\ \/ /\ change.status = Unset
            /\ incidentPhase' = [incidentPhase EXCEPT ![h] = "owner"]
            /\ UNCHANGED <<status, writes, incidentAnswer>>
         \/ /\ incidentPhase' = [incidentPhase EXCEPT ![h] = "answered"]
            /\ incidentAnswer' = [incidentAnswer EXCEPT ![h] = [outcome |-> "invalid_incident_status"]]
            /\ UNCHANGED <<status, writes>>
         \/ /\ incidentPhase' = [incidentPhase EXCEPT ![h] = "owner"]
            /\ status' = [status EXCEPT ![m] = h] /\ writes' = Append(writes, <<h, "status">>)
            /\ UNCHANGED incidentAnswer
  BY <1>1, <1>2 DEF Incidents!SetStatus, Incidents!Goto, Incidents!Answer, Incidents!Change,
     IncidentsInv, UpdateOK, Holds
<1>4. /\ Others(h) /\ Stays(h)
      /\ ~StatusDone(h) /\ ~OwnerDone(h) /\ ~CommentDone(h) /\ Holds(h)
      /\ DOMAIN incidentAnswer' = Handlers
      /\ incidentPhase' \in [Handlers -> {"none", "incident_for", "status", "owner", "comment", "as_dict",
                                          "serialize", "list", "answered"}]
      /\ incidentPhase'[h] \in {"owner", "answered"}
  BY <1>3 DEF IncidentsInv, IncidentsTypeOK, Others, Stays, StatusDone, OwnerDone, CommentDone, Holds,
              Incidents!Done
<1>5. \A g \in Handlers : Stays(g)
  BY <1>4, AllStay
<1>6. UpdateOK(h) /\ ListOK(h)
  BY DEF IncidentsInv
<1>7. CASE UNCHANGED <<status, writes>>
  <2>1. IncidentsTypeOK'
    BY <1>3, <1>4, <1>7 DEF IncidentsInv, IncidentsTypeOK
  <2>2. \/ incidentPhase'[h] = "owner" /\ change.status = Unset
        \/ incidentPhase'[h] = "answered" /\ incidentAnswer'[h].outcome = "invalid_incident_status"
    BY <1>3, <1>7 DEF IncidentsInv, IncidentsTypeOK
  <2>3. UpdateOK(h)' /\ ListOK(h)'
    BY <1>1, <1>3, <1>4, <1>6, <2>2 DEF UpdateOK, ListOK, Holds, StatusDone, OwnerDone, CommentDone,
       Incidents!Done, Request
  <2> QED  BY <1>3, <1>4, <1>5, <1>7, <2>1, <2>3, NothingWritten, StepKeeps
<1>8. CASE /\ status' = [status EXCEPT ![m] = h] /\ writes' = Append(writes, <<h, "status">>)
           /\ incidentPhase' = [incidentPhase EXCEPT ![h] = "owner"]
  <2>0. ~Written(h, "status")
    BY <1>4 DEF IncidentsInv, WritesDone
  <2>1. /\ writes' \in Seq(Handlers \X {"status", "owner"}) /\ WritesOnce'
        /\ \A g, f : Written(g, f)' <=> Written(g, f) \/ (g = h /\ f = "status")
        /\ \A g, by, f : NotBefore(by, g, f) => NotBefore(by, g, f)'
        /\ \A g : Written(g, "status")' => NotBefore(h, g, "status")'
    BY <1>8, <2>0, WriteAdded
  <2>2. /\ status' \in [Handlers -> Handlers \cup {Unset}] /\ status'[m] = h
        /\ \A i \in Handlers : i # m => status'[i] = status[i]
        /\ incidentPhase'[h] = "owner"
    BY <1>3, <1>8 DEF IncidentsInv, IncidentsTypeOK
  <2>3. IncidentsTypeOK'
    BY <1>3, <1>4, <2>1, <2>2 DEF IncidentsInv, IncidentsTypeOK
  <2>4. ASSUME NEW g \in Handlers, NEW i \in Handlers, NotBefore(status[i], g, "status")
        PROVE  NotBefore(status[i], g, "status")'
    <3>1. PICK by : by = status'[i]
      OBVIOUS
    <3>2. NotBefore(by, g, "status")'
      <4>1. CASE i = m
        BY <2>1, <2>2, <2>4, <3>1, <4>1 DEF NotBefore
      <4>2. CASE i # m
        BY <2>1, <2>2, <2>4, <3>1, <4>2
      <4> QED  BY <4>1, <4>2
    <3> QED  BY <3>1, <3>2 DEF NotBefore, Written
  <2>5. ASSUME NEW g \in Handlers, NEW i \in Handlers, NotBefore(owner[i], g, "owner")
        PROVE  NotBefore(owner[i], g, "owner")'
    <3>1. PICK by : by = owner[i]
      OBVIOUS
    <3>2. NotBefore(by, g, "owner")'
      BY <2>1, <2>5, <3>1
    <3> QED  BY <1>3, <3>1, <3>2
  <2>6. IncidentsGrow
    BY <1>3, <2>1, <2>4, <2>5 DEF IncidentsGrow
  <2>7. WritesDone' /\ FieldsWritten'
    <3>1. WritesDone'
      <4>1. StatusDone(h)'
        BY <2>2 DEF StatusDone
      <4> QED  BY <1>5, <2>1, <4>1 DEF WritesDone, IncidentsInv, Stays
    <3>2. FieldsWritten'
      <4> SUFFICES ASSUME NEW i \in Handlers
                   PROVE  /\ status'[i] # Unset => Written(status[i], "status")'
                          /\ owner'[i] # Unset => Written(owner[i], "owner")'
        BY DEF FieldsWritten
      <4>1. PICK by : by = status'[i]
        OBVIOUS
      <4>2. PICK its : its = owner[i]
        OBVIOUS
      <4>3. by # Unset => Written(by, "status")'
        BY <2>1, <2>2, <4>1 DEF IncidentsInv, FieldsWritten
      <4>4. its # Unset => Written(its, "owner")'
        BY <2>1, <4>2 DEF IncidentsInv, FieldsWritten
      <4> QED  BY <1>3, <4>1, <4>2, <4>3, <4>4 DEF Written
    <3> QED  BY <3>1, <3>2
  <2>8. CommentsDone'
    BY <1>3, <1>5, CommentsUntouched
  <2>9. NotBefore(status[m], h, "status")'
    <3>1. NotBefore(h, h, "status")'
      BY <2>1
    <3> QED  BY <2>2, <3>1 DEF NotBefore, Written
  <2>10. UpdateOK(h)' /\ ListOK(h)'
    <3>1. /\ ~OwnerDone(h)' /\ ~CommentDone(h)' /\ StatusDone(h)' /\ Holds(h)'
          /\ \A outcome : ~Incidents!Done(h, outcome)'
          /\ incidentPhase'[h] = "owner"
      BY <2>2 DEF StatusDone, OwnerDone, CommentDone, Holds, Incidents!Done
    <3>2. NotBefore(status[mine[h]], h, "status")'
      BY <1>2, <1>3, <2>9
    <3> QED  BY <1>3, <1>4, <1>6, <3>1, <3>2 DEF UpdateOK, ListOK, Request
  <2> QED  BY <1>4, <2>1, <2>3, <2>6, <2>7, <2>8, <2>10, StepKeeps
<1> QED  BY <1>3, <1>7, <1>8

\* The owner is left alone or written.
LEMMA SetOwnerKeeps ==
  ASSUME IncidentsInv, NEW h \in Handlers, Incidents!SetOwner(h)
  PROVE  IncidentsInv'
<1>1. PICK change : change = incidentAsked[h].change
  OBVIOUS
<1>2. PICK m : m = mine[h]
  OBVIOUS
<1>3. /\ incidentPhase[h] = "owner" /\ m \in Handlers
      /\ UNCHANGED <<incidents, opened, status, comments, incidentAsked, incidentAnswer, mine, begun>>
      /\ incidentPhase' = [incidentPhase EXCEPT ![h] = "comment"]
      /\ \/ change.owner = Unset /\ UNCHANGED <<owner, writes>>
         \/ owner' = [owner EXCEPT ![m] = h] /\ writes' = Append(writes, <<h, "owner">>)
  BY <1>1, <1>2 DEF Incidents!SetOwner, Incidents!Goto, Incidents!Change,
     IncidentsInv, UpdateOK, Holds, StatusDone
<1>4. /\ Others(h) /\ Stays(h)
      /\ StatusDone(h) /\ ~OwnerDone(h) /\ ~CommentDone(h) /\ Holds(h)
      /\ incidentPhase' \in [Handlers -> {"none", "incident_for", "status", "owner", "comment", "as_dict",
                                          "serialize", "list", "answered"}]
      /\ incidentPhase'[h] = "comment"
  BY <1>3 DEF IncidentsInv, IncidentsTypeOK, Others, Stays, StatusDone, OwnerDone, CommentDone, Holds,
              Incidents!Done
<1>5. \A g \in Handlers : Stays(g)
  BY <1>4, AllStay
<1>6. /\ UpdateOK(h) /\ ListOK(h)
      /\ change.status # Unset => NotBefore(status[m], h, "status")
  BY <1>1, <1>2, <1>4 DEF IncidentsInv, UpdateOK, Request
<1>7. /\ ~CommentDone(h)' /\ OwnerDone(h)' /\ StatusDone(h)' /\ Holds(h)'
      /\ \A outcome : ~Incidents!Done(h, outcome)'
  BY <1>4 DEF StatusDone, OwnerDone, CommentDone, Holds, Incidents!Done
<1>8. CASE change.owner = Unset /\ UNCHANGED <<owner, writes>>
  <2>1. IncidentsTypeOK'
    BY <1>3, <1>4, <1>8 DEF IncidentsInv, IncidentsTypeOK
  <2>2. NotBefore(status[mine[h]], h, "status") <=> NotBefore(status[mine[h]], h, "status")'
    BY <1>3, <1>8 DEF NotBefore, Written
  <2>3. UpdateOK(h)' /\ ListOK(h)'
    BY <1>1, <1>3, <1>4, <1>6, <1>7, <1>8, <2>2 DEF UpdateOK, ListOK, Request
  <2> QED  BY <1>3, <1>4, <1>5, <1>8, <2>1, <2>3, NothingWritten, StepKeeps
<1>9. CASE owner' = [owner EXCEPT ![m] = h] /\ writes' = Append(writes, <<h, "owner">>)
  <2>0. ~Written(h, "owner")
    BY <1>4 DEF IncidentsInv, WritesDone
  <2>1. /\ writes' \in Seq(Handlers \X {"status", "owner"}) /\ WritesOnce'
        /\ \A g, f : Written(g, f)' <=> Written(g, f) \/ (g = h /\ f = "owner")
        /\ \A g, by, f : NotBefore(by, g, f) => NotBefore(by, g, f)'
        /\ \A g : Written(g, "owner")' => NotBefore(h, g, "owner")'
    BY <1>9, <2>0, WriteAdded
  <2>2. /\ owner' \in [Handlers -> Handlers \cup {Unset}] /\ owner'[m] = h
        /\ \A i \in Handlers : i # m => owner'[i] = owner[i]
    BY <1>3, <1>9 DEF IncidentsInv, IncidentsTypeOK
  <2>3. IncidentsTypeOK'
    BY <1>3, <1>4, <2>1, <2>2 DEF IncidentsInv, IncidentsTypeOK
  <2>4. ASSUME NEW g \in Handlers, NEW i \in Handlers, NotBefore(owner[i], g, "owner")
        PROVE  NotBefore(owner[i], g, "owner")'
    <3>1. PICK by : by = owner'[i]
      OBVIOUS
    <3>2. NotBefore(by, g, "owner")'
      <4>1. CASE i = m
        BY <2>1, <2>2, <2>4, <3>1, <4>1 DEF NotBefore
      <4>2. CASE i # m
        BY <2>1, <2>2, <2>4, <3>1, <4>2
      <4> QED  BY <4>1, <4>2
    <3> QED  BY <3>1, <3>2 DEF NotBefore, Written
  <2>5. ASSUME NEW g \in Handlers, NEW i \in Handlers, NotBefore(status[i], g, "status")
        PROVE  NotBefore(status[i], g, "status")'
    <3>1. PICK by : by = status[i]
      OBVIOUS
    <3>2. NotBefore(by, g, "status")'
      BY <2>1, <2>5, <3>1
    <3> QED  BY <1>3, <3>1, <3>2
  <2>6. IncidentsGrow
    BY <1>3, <2>1, <2>4, <2>5 DEF IncidentsGrow
  <2>7. WritesDone' /\ FieldsWritten'
    <3>1. WritesDone'
      BY <1>5, <1>7, <2>1 DEF WritesDone, IncidentsInv, Stays
    <3>2. FieldsWritten'
      <4> SUFFICES ASSUME NEW i \in Handlers
                   PROVE  /\ status'[i] # Unset => Written(status[i], "status")'
                          /\ owner'[i] # Unset => Written(owner[i], "owner")'
        BY DEF FieldsWritten
      <4>1. PICK by : by = owner'[i]
        OBVIOUS
      <4>2. PICK its : its = status[i]
        OBVIOUS
      <4>3. by # Unset => Written(by, "owner")'
        BY <2>1, <2>2, <4>1 DEF IncidentsInv, FieldsWritten
      <4>4. its # Unset => Written(its, "status")'
        BY <2>1, <4>2 DEF IncidentsInv, FieldsWritten
      <4> QED  BY <1>3, <4>1, <4>2, <4>3, <4>4 DEF Written
    <3> QED  BY <3>1, <3>2
  <2>8. CommentsDone'
    BY <1>3, <1>5, CommentsUntouched
  <2>9. NotBefore(owner[m], h, "owner")'
    <3>1. NotBefore(h, h, "owner")'
      BY <2>1
    <3> QED  BY <2>2, <3>1 DEF NotBefore, Written
  <2>10. UpdateOK(h)' /\ ListOK(h)'
    <3>1. NotBefore(owner[mine[h]], h, "owner")'
      BY <1>2, <1>3, <2>9
    <3>2. change.status # Unset => NotBefore(status[mine[h]], h, "status")'
      <4>1. change.status # Unset => NotBefore(status[m], h, "status")'
        BY <1>3, <1>6, <2>5
      <4> QED  BY <1>2, <1>3, <4>1
    <3> QED  BY <1>1, <1>3, <1>4, <1>6, <1>7, <3>1, <3>2 DEF UpdateOK, ListOK, Request
  <2> QED  BY <1>4, <2>1, <2>3, <2>6, <2>7, <2>8, <2>10, StepKeeps
<1> QED  BY <1>3, <1>8, <1>9

\* The comment is left out or added.
LEMMA AddCommentKeeps ==
  ASSUME IncidentsInv, NEW h \in Handlers, Incidents!AddComment(h)
  PROVE  IncidentsInv'
<1>1. PICK change : change = incidentAsked[h].change
  OBVIOUS
<1>2. PICK m : m = mine[h]
  OBVIOUS
<1>3. /\ incidentPhase[h] = "comment" /\ m \in Handlers
      /\ UNCHANGED <<incidents, opened, status, owner, writes, incidentAsked, incidentAnswer, mine, begun>>
      /\ incidentPhase' = [incidentPhase EXCEPT ![h] = "as_dict"]
      /\ \/ change.comment = Unset /\ UNCHANGED comments
         \/ comments' = [comments EXCEPT ![m] = Append(comments[m], h)]
  BY <1>1, <1>2 DEF Incidents!AddComment, Incidents!Goto, Incidents!Change,
     IncidentsInv, UpdateOK, Holds, StatusDone
<1>4. /\ Others(h) /\ Stays(h)
      /\ StatusDone(h) /\ OwnerDone(h) /\ ~CommentDone(h) /\ Holds(h)
      /\ incidentPhase' \in [Handlers -> {"none", "incident_for", "status", "owner", "comment", "as_dict",
                                          "serialize", "list", "answered"}]
      /\ incidentPhase'[h] = "as_dict"
  BY <1>3 DEF IncidentsInv, IncidentsTypeOK, Others, Stays, StatusDone, OwnerDone, CommentDone, Holds,
              Incidents!Done
<1>5. \A g \in Handlers : Stays(g)
  BY <1>4, AllStay
<1>6. /\ CommentDone(h)' /\ OwnerDone(h)' /\ StatusDone(h)' /\ Holds(h)'
      /\ \A outcome : ~Incidents!Done(h, outcome)'
  BY <1>4 DEF StatusDone, OwnerDone, CommentDone, Holds, Incidents!Done
<1>7. /\ UpdateOK(h) /\ ListOK(h)
      /\ NotBefore(status[mine[h]], h, "status") <=> NotBefore(status[mine[h]], h, "status")'
      /\ NotBefore(owner[mine[h]], h, "owner") <=> NotBefore(owner[mine[h]], h, "owner")'
  BY <1>3 DEF IncidentsInv, NotBefore, Written
<1>8. CASE change.comment = Unset /\ UNCHANGED comments
  <2>1. IncidentsTypeOK'
    BY <1>3, <1>4, <1>8 DEF IncidentsInv, IncidentsTypeOK
  <2>2. UpdateOK(h)' /\ ListOK(h)'
    BY <1>1, <1>3, <1>4, <1>6, <1>7, <1>8 DEF UpdateOK, ListOK, Request
  <2> QED  BY <1>3, <1>4, <1>5, <1>8, <2>1, <2>2, NothingWritten, StepKeeps
<1>9. CASE comments' = [comments EXCEPT ![m] = Append(comments[m], h)]
  <2>1. PICK old \in Seq(Handlers) : old = comments[m]
    BY <1>3 DEF IncidentsInv, IncidentsTypeOK
  <2>2. /\ comments' \in [Handlers -> Seq(Handlers)] /\ comments'[m] = Append(old, h)
        /\ \A i \in Handlers : i # m => comments'[i] = comments[i]
    BY <1>3, <1>9, <2>1, AppendProperties DEF IncidentsInv, IncidentsTypeOK
  <2>3. IncidentsTypeOK'
    BY <1>3, <1>4, <2>2 DEF IncidentsInv, IncidentsTypeOK
  <2>4. IncidentsGrow
    <3>1. \A i \in Handlers :
            comments'[i] = comments[i] \/ \E by \in Handlers : comments'[i] = Append(comments[i], by)
      BY <2>1, <2>2
    <3> QED  BY <1>3, <3>1 DEF IncidentsGrow, NotBefore, Written
  <2>5. WritesOnce' /\ WritesDone' /\ FieldsWritten'
    BY <1>3, <1>5 DEF IncidentsInv, WritesOnce, WritesDone, FieldsWritten, Written, Stays
  <2>6. /\ DOMAIN Append(old, h) = DOMAIN old \cup {Len(old) + 1} /\ Append(old, h)[Len(old) + 1] = h
        /\ \A k \in DOMAIN old : Append(old, h)[k] = old[k]
        /\ \A k \in DOMAIN old : old[k] \in Handlers /\ old[k] # h
    <3>1. \A k \in DOMAIN old : old[k] \in Handlers /\ CommentDone(old[k])
      BY <1>3, <2>1 DEF IncidentsInv, IncidentsTypeOK, CommentsDone
    <3>2. \A k \in DOMAIN old : old[k] # h
      BY <1>4, <3>1
    <3>3. DOMAIN old = 1 .. Len(old) /\ Len(old) \in Nat
      OBVIOUS
    <3> QED  BY <3>1, <3>2, <3>3, AppendProperties
  <2>7. CommentsDone'
    <3>1. ASSUME NEW i \in Handlers, NEW k \in DOMAIN comments'[i]
          PROVE  CommentDone(comments[i][k])'
      <4>1. PICK g : g = comments'[i][k]
        OBVIOUS
      <4>2. g = h \/ (g \in Handlers /\ CommentDone(g))
        <5>1. CASE i = m
          <6>1. \A j \in DOMAIN old : CommentDone(old[j])
            BY <1>3, <2>1 DEF IncidentsInv, CommentsDone
          <6>2. k \in DOMAIN Append(old, h) /\ g = Append(old, h)[k]
            BY <2>2, <4>1, <5>1
          <6> QED  BY <2>6, <6>1, <6>2
        <5>2. CASE i # m
          <6>1. comments'[i] = comments[i] /\ comments[i] \in Seq(Handlers)
            BY <2>2, <5>2 DEF IncidentsInv, IncidentsTypeOK
          <6>2. CommentDone(comments[i][k]) /\ comments[i][k] \in Handlers
            BY <6>1 DEF IncidentsInv, CommentsDone
          <6> QED  BY <4>1, <6>1, <6>2
        <5> QED  BY <5>1, <5>2
      <4>3. CommentDone(g)'
        BY <1>5, <1>6, <4>2 DEF Stays
      <4> QED  BY <4>1, <4>3 DEF CommentDone, Incidents!Done
    <3>2. ASSUME NEW i \in Handlers, NEW k \in DOMAIN comments'[i], NEW l \in DOMAIN comments'[i],
                 comments'[i][k] = comments'[i][l]
          PROVE  k = l
      <4>1. CASE i = m
        <5>1. \A x, y \in DOMAIN old : old[x] = old[y] => x = y
          BY <1>3, <2>1 DEF IncidentsInv, CommentsDone
        <5>2. /\ k \in DOMAIN Append(old, h) /\ l \in DOMAIN Append(old, h)
              /\ Append(old, h)[k] = Append(old, h)[l]
          BY <2>2, <3>2, <4>1
        <5> QED  BY <2>6, <5>1, <5>2
      <4>2. CASE i # m
        <5>1. comments'[i] = comments[i]
          BY <2>2, <4>2
        <5> QED  BY <3>2, <5>1 DEF IncidentsInv, CommentsDone
      <4> QED  BY <4>1, <4>2
    <3> QED  BY <3>1, <3>2 DEF CommentsDone
  <2>8. HasComment(h, comments'[mine'[h]])
    BY <1>2, <1>3, <2>2, <2>6 DEF HasComment
  <2>9. UpdateOK(h)' /\ ListOK(h)'
    BY <1>1, <1>3, <1>4, <1>6, <1>7, <2>8 DEF UpdateOK, ListOK, Request
  <2> QED  BY <1>4, <2>3, <2>4, <2>5, <2>7, <2>9, StepKeeps
<1> QED  BY <1>3, <1>8, <1>9

\* The answer copies the status and the owner ...
LEMMA AsDictKeeps ==
  ASSUME IncidentsInv, NEW h \in Handlers, Incidents!AsDict(h)
  PROVE  IncidentsInv'
<1>1. PICK m : m = mine[h]
  OBVIOUS
<1>2. /\ incidentPhase[h] = "as_dict" /\ m \in Handlers
      /\ UNCHANGED <<incidents, opened, status, owner, comments, writes, incidentAsked, mine, begun>>
      /\ incidentPhase' = [incidentPhase EXCEPT ![h] = "serialize"]
      /\ incidentAnswer' = [incidentAnswer EXCEPT ![h] =
           [outcome |-> "incident", status |-> status[m], owner |-> owner[m]]]
  BY <1>1 DEF Incidents!AsDict, Incidents!Goto, Incidents!store,
     IncidentsInv, UpdateOK, Holds, StatusDone
<1>3. /\ Others(h) /\ Stays(h) /\ IncidentsTypeOK'
      /\ StatusDone(h) /\ OwnerDone(h) /\ CommentDone(h) /\ Holds(h)
      /\ incidentPhase'[h] = "serialize"
      /\ incidentAnswer'[h].status = status[m] /\ incidentAnswer'[h].owner = owner[m]
  BY <1>2 DEF IncidentsInv, IncidentsTypeOK, Others, Stays, StatusDone, OwnerDone, CommentDone, Holds,
              Incidents!Done
<1>4. /\ CommentDone(h)' /\ OwnerDone(h)' /\ StatusDone(h)' /\ Holds(h)'
      /\ \A outcome : ~Incidents!Done(h, outcome)'
  BY <1>3 DEF StatusDone, OwnerDone, CommentDone, Holds, Incidents!Done
<1>5. UpdateOK(h)' /\ ListOK(h)'
  <2>1. UpdateOK(h) /\ ListOK(h)
    BY DEF IncidentsInv
  <2>2. /\ NotBefore(status[m], h, "status") =>
             NotBefore(incidentAnswer[h].status, h, "status")' /\ NotBefore(status[mine[h]], h, "status")'
        /\ NotBefore(owner[m], h, "owner") =>
             NotBefore(incidentAnswer[h].owner, h, "owner")' /\ NotBefore(owner[mine[h]], h, "owner")'
    BY <1>1, <1>2, <1>3 DEF NotBefore, Written
  <2> QED  BY <1>1, <1>2, <1>3, <1>4, <2>1, <2>2 DEF UpdateOK, ListOK, Request
<1> QED  BY <1>2, <1>3, <1>5, AllStay, NothingWritten, StepKeeps

\* ... and when it is written, the comments there are.
LEMMA SerializeKeeps ==
  ASSUME IncidentsInv, NEW h \in Handlers, Incidents!Serialize(h)
  PROVE  IncidentsInv'
<1>1. PICK m : m = mine[h]
  OBVIOUS
<1>2. /\ incidentPhase[h] = "serialize" /\ m \in Handlers
      /\ UNCHANGED <<incidents, opened, status, owner, comments, writes, incidentAsked, mine, begun>>
      /\ incidentPhase' = [incidentPhase EXCEPT ![h] = "answered"]
      /\ incidentAnswer' = [incidentAnswer EXCEPT ![h] =
           [outcome |-> "incident", status |-> incidentAnswer[h].status,
            owner |-> incidentAnswer[h].owner, comments |-> comments[m]]]
  BY <1>1 DEF Incidents!Serialize, Incidents!Answer, Incidents!Goto, Incidents!store,
     IncidentsInv, UpdateOK, Holds, StatusDone
<1>3. /\ Others(h) /\ IncidentsTypeOK'
      /\ StatusDone(h) /\ OwnerDone(h) /\ CommentDone(h) /\ Holds(h)
      /\ incidentPhase'[h] = "answered" /\ incidentAnswer'[h].outcome = "incident"
      /\ incidentAnswer'[h].status = incidentAnswer[h].status
      /\ incidentAnswer'[h].owner = incidentAnswer[h].owner
      /\ incidentAnswer'[h].comments = comments[m]
  BY <1>2 DEF IncidentsInv, IncidentsTypeOK, Others, StatusDone, OwnerDone, CommentDone, Holds
<1>4. /\ Incidents!Done(h, "incident")' /\ Stays(h)
      /\ CommentDone(h)' /\ OwnerDone(h)' /\ StatusDone(h)' /\ Holds(h)'
      /\ \A outcome : outcome # "incident" => ~Incidents!Done(h, outcome)'
  BY <1>3 DEF StatusDone, OwnerDone, CommentDone, Holds, Stays, Incidents!Done
<1>5. UpdateOK(h)' /\ ListOK(h)'
  <2>1. UpdateOK(h) /\ ListOK(h)
    BY DEF IncidentsInv
  <2>2. /\ NotBefore(incidentAnswer[h].status, h, "status") => NotBefore(incidentAnswer[h].status, h, "status")'
        /\ NotBefore(incidentAnswer[h].owner, h, "owner") => NotBefore(incidentAnswer[h].owner, h, "owner")'
        /\ NotBefore(status[mine[h]], h, "status") => NotBefore(status[mine[h]], h, "status")'
        /\ NotBefore(owner[mine[h]], h, "owner") => NotBefore(owner[mine[h]], h, "owner")'
    BY <1>1, <1>2, <1>3 DEF NotBefore, Written
  <2>3. comments[m] \in Seq(Handlers) /\ Begins(comments[m], comments[m])
    BY <1>2 DEF IncidentsInv, IncidentsTypeOK, Begins
  <2> QED  BY <1>1, <1>2, <1>3, <1>4, <2>1, <2>2, <2>3 DEF UpdateOK, ListOK, Request
<1> QED  BY <1>2, <1>3, <1>4, <1>5, AllStay, NothingWritten, StepKeeps

\* A list begins with the incidents there are in mind.
LEMMA ListKeeps ==
  ASSUME IncidentsInv, NEW h \in Handlers, Incidents!List(h)
  PROVE  IncidentsInv'
<1>1. /\ incidentPhase[h] = "none"
      /\ UNCHANGED <<incidents, opened, status, owner, comments, writes, incidentAsked, mine>>
      /\ incidentPhase' = [incidentPhase EXCEPT ![h] = "list"]
      /\ incidentAnswer' = [incidentAnswer EXCEPT ![h] = [outcome |-> "list", listed |-> <<>>]]
      /\ begun' = [begun EXCEPT ![h] = Len(opened)]
  BY DEF Incidents!List, Incidents!Goto, Incidents!store
<1>2. /\ Others(h) /\ Stays(h) /\ IncidentsTypeOK'
      /\ incidentPhase'[h] = "list" /\ begun'[h] = Len(opened) /\ Len(opened) \in Nat
      /\ incidentAnswer'[h].outcome = "list" /\ incidentAnswer'[h].listed = <<>>
  BY <1>1 DEF IncidentsInv, IncidentsTypeOK, Others, Stays, StatusDone, OwnerDone, CommentDone,
              Incidents!Done
<1>3. UpdateOK(h)'
  BY <1>2 DEF UpdateOK, Holds, StatusDone, OwnerDone, CommentDone, Incidents!Done
<1>4. PICK none : none = <<>>
  OBVIOUS
<1>n. none \in Seq(Decisions) /\ Begins(none, opened) /\ Len(none) = 0
  BY <1>2, <1>4, EmptySeq DEF Begins
<1>5. ListOK(h)'
  <2>1. /\ incidentAnswer'[h].listed = none /\ Len(none) = 0 /\ begun'[h] = Len(opened')
        /\ Len(none) <= begun'[h] /\ begun'[h] <= Len(opened') /\ Begins(none, opened')
    BY <1>1, <1>2, <1>4, <1>n
  <2> QED  BY <1>2, <1>n, <2>1 DEF ListOK, Incidents!Done
<1> QED  BY <1>1, <1>2, <1>3, <1>5, AllStay, NothingWritten, StepKeeps

\* A turn of it takes the next one, ends it, or finds that there are more.
LEMMA ListNextKeeps ==
  ASSUME IncidentsInv, NEW h \in Handlers, Incidents!ListNext(h)
  PROVE  IncidentsInv'
<1>1. PICK listed : listed = incidentAnswer[h].listed
  OBVIOUS
<1>2. PICK n : n = begun[h]
  OBVIOUS
<1>3. /\ incidentPhase[h] = "list" /\ incidentAnswer[h].outcome = "list"
      /\ listed \in Seq(Decisions) /\ n \in Nat /\ n <= Len(opened)
      /\ Len(listed) <= n /\ Begins(listed, opened)
      /\ opened \in Seq(Decisions) /\ Len(opened) \in Nat /\ Len(listed) \in Nat
  BY <1>1, <1>2 DEF Incidents!ListNext, IncidentsInv, IncidentsTypeOK, ListOK
<1>4. /\ UNCHANGED <<incidents, opened, status, owner, comments, writes, incidentAsked, mine, begun>>
      /\ \/ /\ Len(opened) # n /\ incidentPhase' = [incidentPhase EXCEPT ![h] = "answered"]
            /\ incidentAnswer' = [incidentAnswer EXCEPT ![h] = [outcome |-> "internal_error"]]
         \/ /\ Len(listed) = n /\ incidentPhase' = [incidentPhase EXCEPT ![h] = "answered"]
            /\ incidentAnswer' = [incidentAnswer EXCEPT ![h] = incidentAnswer[h]]
         \/ /\ Len(opened) = n /\ Len(listed) < n /\ incidentPhase' = incidentPhase
            /\ incidentAnswer' = [incidentAnswer EXCEPT ![h].listed = Append(listed, opened[Len(listed) + 1])]
  BY <1>1, <1>2, <1>3 DEF Incidents!ListNext, Incidents!Answer, Incidents!Goto, Incidents!store
<1>5. /\ Others(h) /\ IncidentsTypeOK'
      /\ \/ /\ Len(opened) # n /\ incidentPhase'[h] = "answered"
            /\ incidentAnswer'[h].outcome = "internal_error"
         \/ /\ Len(listed) = n /\ incidentPhase'[h] = "answered"
            /\ incidentAnswer'[h] = incidentAnswer[h]
         \/ /\ Len(listed) < n /\ incidentPhase'[h] = "list"
            /\ incidentAnswer'[h].outcome = "list"
            /\ incidentAnswer'[h].listed = Append(listed, opened[Len(listed) + 1])
  <2>1. DOMAIN incidentAnswer = Handlers /\ DOMAIN incidentPhase = Handlers /\ IncidentsTypeOK
    BY DEF IncidentsInv, IncidentsTypeOK
  <2>2. CASE /\ Len(opened) # n /\ incidentPhase' = [incidentPhase EXCEPT ![h] = "answered"]
             /\ incidentAnswer' = [incidentAnswer EXCEPT ![h] = [outcome |-> "internal_error"]]
    BY <1>4, <2>1, <2>2 DEF IncidentsTypeOK, Others
  <2>3. CASE /\ Len(listed) = n /\ incidentPhase' = [incidentPhase EXCEPT ![h] = "answered"]
             /\ incidentAnswer' = [incidentAnswer EXCEPT ![h] = incidentAnswer[h]]
    BY <1>4, <2>1, <2>3 DEF IncidentsTypeOK, Others
  <2>4. CASE /\ Len(opened) = n /\ Len(listed) < n /\ incidentPhase' = incidentPhase
             /\ incidentAnswer' = [incidentAnswer EXCEPT ![h].listed = Append(listed, opened[Len(listed) + 1])]
    BY <1>3, <1>4, <2>1, <2>4 DEF IncidentsTypeOK, Others
  <2> QED  BY <1>4, <2>2, <2>3, <2>4
<1>6. Stays(h)
  BY <1>3 DEF Stays, StatusDone, OwnerDone, CommentDone, Incidents!Done
<1>7. UpdateOK(h)'
  BY <1>3, <1>5 DEF UpdateOK, Holds, StatusDone, OwnerDone, CommentDone, Incidents!Done
<1>8. ListOK(h)'
  <2>1. CASE Len(listed) < n /\ incidentAnswer'[h].listed = Append(listed, opened[Len(listed) + 1])
             /\ incidentPhase'[h] = "list" /\ incidentAnswer'[h].outcome = "list"
    <3> DEFINE longer == Append(listed, opened[Len(listed) + 1])
    <3>1. opened[Len(listed) + 1] \in Decisions
      BY <1>3, <2>1
    <3>2. /\ longer \in Seq(Decisions) /\ Len(longer) = Len(listed) + 1
          /\ \A i \in 1 .. Len(listed) : longer[i] = listed[i]
          /\ longer[Len(listed) + 1] = opened[Len(listed) + 1]
      BY <1>3, <3>1, AppendProperties
    <3> HIDE DEF longer
    <3>3. Begins(longer, opened) /\ Len(longer) <= n
      BY <1>3, <2>1, <3>2 DEF Begins
    <3> QED  BY <1>2, <1>3, <1>4, <2>1, <3>2, <3>3 DEF ListOK, Incidents!Done, longer
  <2> QED  BY <1>1, <1>2, <1>3, <1>4, <1>5, <2>1 DEF ListOK, Incidents!Done
<1> QED  BY <1>4, <1>5, <1>6, <1>7, <1>8, AllStay, NothingWritten, StepKeeps

\* The invariant is inductive.
LEMMA IncidentsKept == IncidentsInv /\ [Incidents!Next]_incidentsVars => IncidentsInv'
<1> SUFFICES ASSUME IncidentsInv, [Incidents!Next]_incidentsVars PROVE IncidentsInv'
  OBVIOUS
<1>1. ASSUME NEW h \in Handlers, NEW d \in Decisions, NEW change \in Changes, NEW role \in {"admin", "viewer"},
             Incidents!Update(h, d, change, role)
      PROVE  IncidentsInv'
  BY <1>1, UpdateKeeps
<1>2. ASSUME NEW h \in Handlers, Incidents!Handle(h) PROVE IncidentsInv'
  BY <1>2, IncidentForKeeps, SetStatusKeeps, SetOwnerKeeps, AddCommentKeeps, AsDictKeeps, SerializeKeeps,
     ListNextKeeps DEF Incidents!Handle
<1>3. CASE UNCHANGED incidentsVars
  <2>1. UNCHANGED <<incidents, opened, status, owner, comments, incidentAsked, incidentPhase, mine,
                    incidentAnswer, writes, begun>>
    BY <1>3 DEF incidentsVars
  <2>2. \A g \in Handlers : Stays(g)
    BY <2>1 DEF Stays, StatusDone, OwnerDone, CommentDone, Incidents!Done
  <2>3. IncidentsTypeOK'
    BY <2>1 DEF IncidentsInv, IncidentsTypeOK
  <2>4. IncidentsGrow /\ WritesOnce' /\ WritesDone' /\ FieldsWritten' /\ CommentsDone'
    BY <2>1, <2>2, NothingWritten
  <2>5. \A g \in Handlers : UpdateOK(g)' /\ ListOK(g)'
    BY <2>1, <2>4, OthersKept
  <2> QED  BY <2>3, <2>4, <2>5 DEF IncidentsInv
<1>4. CASE Incidents!Next
  BY <1>1, <1>2, <1>4, ListKeeps DEF Incidents!Next
<1> QED  BY <1>3, <1>4

\* The module of the incidents counts as this one does.
LEMMA SameCount == \A S : Incidents!Cardinality(S) = Cardinality(S)
BY Zenon DEF Incidents!Cardinality, Cardinality

\* A list without repetitions has what is in it once.
LEMMA OnceInList ==
  ASSUME NEW h, NEW list, \A k, l \in DOMAIN list : list[k] = list[l] => k = l
  PROVE  Incidents!Times(h, list) = IF HasComment(h, list) THEN 1 ELSE 0
<1> DEFINE at == {i \in DOMAIN list : list[i] = h}
<1>1. CASE HasComment(h, list)
  <2>1. PICK k \in DOMAIN list : list[k] = h
    BY <1>1 DEF HasComment
  <2>2. at = {k}
    BY <2>1
  <2> QED  BY <1>1, <2>2, FS_Singleton, SameCount DEF Incidents!Times
<1>2. CASE ~HasComment(h, list)
  <2>1. at = {}
    BY <1>2 DEF HasComment
  <2> QED  BY <1>2, <2>1, FS_EmptySet, SameCount DEF Incidents!Times
<1> QED  BY <1>1, <1>2

\* What was not written before it stands behind it.
LEMMA LaterWrite ==
  ASSUME NEW by, NEW h, NEW field, NotBefore(by, h, field)
  PROVE  Incidents!Wrote(by, field) >= Incidents!Wrote(h, field)
<1> DEFINE At(g) == CHOOSE i \in DOMAIN writes : writes[i] = <<g, field>>
<1>1. /\ At(h) \in DOMAIN writes /\ writes[At(h)] = <<h, field>>
      /\ At(by) \in DOMAIN writes /\ writes[At(by)] = <<by, field>>
  BY DEF NotBefore, Written
<1>2. Incidents!Wrote(by, field) = At(by) /\ Incidents!Wrote(h, field) = At(h)
  BY DEF Incidents!Wrote, NotBefore, Written
<1> HIDE DEF At
<1>3. At(h) <= At(by)
  BY <1>1 DEF NotBefore
<1> QED  BY <1>2, <1>3

\* A list that is a beginning of another, of its length, is a part of it.
LEMMA WholeBeginning ==
  ASSUME NEW S, NEW list \in Seq(S), NEW shorter \in Seq(S), NEW n \in Nat,
         Len(shorter) = n, Begins(shorter, list)
  PROVE  shorter = SubSeq(list, 1, n)
<1>1. n <= Len(list) /\ Len(list) \in Nat
  BY DEF Begins
<1>2. /\ SubSeq(list, 1, n) \in Seq(S) /\ Len(SubSeq(list, 1, n)) = n
      /\ \A i \in 1 .. n : SubSeq(list, 1, n)[i] = list[i]
  BY <1>1, SubSeqProperties
<1>3. \A i \in 1 .. n : shorter[i] = SubSeq(list, 1, n)[i]
  BY <1>2 DEF Begins
<1> QED  BY <1>2, <1>3, SeqEqual

\* What the invariant says is what operators rely on.
LEMMA IncidentsInvImplies == IncidentsInv => IncidentsAgree
<1> SUFFICES ASSUME IncidentsInv PROVE IncidentsAgree
  OBVIOUS
<1>1. ASSUME NEW h \in Handlers, Incidents!Done(h, "incident")
      PROVE  /\ Holds(h) /\ StatusDone(h) /\ OwnerDone(h) /\ CommentDone(h) /\ UpdateOK(h)
             /\ mine[h] \in Handlers /\ incidents[Request(h).decision] = mine[h]
  BY <1>1 DEF IncidentsInv, UpdateOK, Holds, StatusDone, OwnerDone, CommentDone
<1>2. ASSUME NEW i \in Handlers
      PROVE  /\ comments[i] \in Seq(Handlers)
             /\ \A k \in DOMAIN comments[i] : CommentDone(comments[i][k])
             /\ \A k, l \in DOMAIN comments[i] : comments[i][k] = comments[i][l] => k = l
  BY DEF IncidentsInv, IncidentsTypeOK, CommentsDone
<1>3. Incidents!CommentsKept
  <2> SUFFICES ASSUME NEW h \in Handlers, Incidents!Done(h, "incident")
               PROVE  LET here == comments[mine[h]]
                          got == incidentAnswer[h].comments
                      IN  /\ Request(h).change.comment # Unset =>
                               Incidents!Times(h, here) = 1 /\ Incidents!Times(h, got) = 1
                          /\ Len(got) <= Len(here)
                          /\ \A i \in DOMAIN got : got[i] = here[i]
    BY <1>1 DEF Incidents!CommentsKept, Incidents!Change, Request
  <2>1. PICK here : here = comments[mine[h]]
    OBVIOUS
  <2>2. PICK got : got = incidentAnswer[h].comments
    OBVIOUS
  <2>3. /\ got \in Seq(Handlers) /\ Begins(got, here)
        /\ Request(h).change.comment # Unset => HasComment(h, here) /\ HasComment(h, got)
        /\ here \in Seq(Handlers)
        /\ \A k, l \in DOMAIN here : here[k] = here[l] => k = l
    BY <1>1, <1>2, <2>1, <2>2 DEF UpdateOK
  <2>4. /\ Len(got) <= Len(here) /\ DOMAIN got \subseteq DOMAIN here
        /\ \A i \in DOMAIN got : got[i] = here[i]
    <3>1. DOMAIN got = 1 .. Len(got) /\ DOMAIN here = 1 .. Len(here) /\ Len(got) \in Nat /\ Len(here) \in Nat
      BY <2>3
    <3> QED  BY <2>3, <3>1 DEF Begins
  <2>5. \A k, l \in DOMAIN got : got[k] = got[l] => k = l
    BY <2>3, <2>4
  <2> QED  BY <2>1, <2>2, <2>3, <2>4, <2>5, OnceInList
<1>4. Incidents!RefusedWritesNothing
  <2> SUFFICES ASSUME NEW h \in Handlers,
                      Incidents!Done(h, "invalid_incident_status") \/ Incidents!Done(h, "insufficient_role"),
                      NEW i \in Handlers
               PROVE  h # status[i] /\ h # owner[i] /\ Incidents!Times(h, comments[i]) = 0
    BY DEF Incidents!RefusedWritesNothing
  <2>1. ~StatusDone(h) /\ ~OwnerDone(h) /\ ~CommentDone(h)
    BY DEF StatusDone, OwnerDone, CommentDone, Incidents!Done
  <2>2. h # status[i] /\ h # owner[i]
    BY <2>1, ConsoleAssumption DEF IncidentsInv, WritesDone, FieldsWritten
  <2>3. ~HasComment(h, comments[i])
    BY <1>2, <2>1 DEF HasComment
  <2> QED  BY <1>2, <2>2, <2>3, OnceInList
<1>5. Incidents!AnswersShowOwnOrLater
  <2>1. ASSUME NEW h \in Handlers, Incidents!Done(h, "incident"), Request(h).change.status # Unset,
               NEW by \in {incidentAnswer[h].status, status[mine[h]]}
        PROVE  by # Unset /\ Incidents!Wrote(by, "status") >= Incidents!Wrote(h, "status")
    <3>1. NotBefore(by, h, "status")
      BY <1>1, <2>1 DEF UpdateOK
    <3> QED  BY <3>1, LaterWrite, ConsoleAssumption DEF NotBefore
  <2>2. ASSUME NEW h \in Handlers, Incidents!Done(h, "incident"), Request(h).change.owner # Unset,
               NEW by \in {incidentAnswer[h].owner, owner[mine[h]]}
        PROVE  by # Unset /\ Incidents!Wrote(by, "owner") >= Incidents!Wrote(h, "owner")
    <3>1. NotBefore(by, h, "owner")
      BY <1>1, <2>2 DEF UpdateOK
    <3> QED  BY <3>1, LaterWrite, ConsoleAssumption DEF NotBefore
  <2> QED  BY <1>1, <2>1, <2>2 DEF Incidents!AnswersShowOwnOrLater, Incidents!Change, Request
<1>6. Incidents!ListsAreWhole
  <2> SUFFICES ASSUME NEW h \in Handlers
               PROVE  /\ Incidents!Done(h, "list") => incidentAnswer[h].listed = SubSeq(opened, 1, begun[h])
                      /\ Incidents!Done(h, "internal_error") => Len(opened) > begun[h]
    BY DEF Incidents!ListsAreWhole
  <2>1. ListOK(h) /\ opened \in Seq(Decisions) /\ begun[h] \in Nat
    BY DEF IncidentsInv, IncidentsTypeOK
  <2> QED  BY <2>1, WholeBeginning DEF ListOK
<1> QED  BY <1>3, <1>4, <1>5, <1>6 DEF IncidentsAgree

\* IncidentsAgree, of the whole console (app.py 583-604, operations.py 103-104): however
\* the requests interleave, comments stay and come once, a refused request leaves
\* nothing, an answer has its request's fields or later ones, and lists are whole.
THEOREM IncidentsHold == Spec => []IncidentsAgree
<1>1. Init => IncidentsInv
  BY IncidentsStart DEF Init
<1>2. IncidentsInv /\ [Next]_<<casesVars, incidentsVars>> => IncidentsInv'
  BY IncidentsKept DEF Next
<1> QED  BY <1>1, <1>2, IncidentsInvImplies, PTL DEF Spec
=============================================================================
