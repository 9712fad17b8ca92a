------------------------------ MODULE LogFile ------------------------------
(***************************************************************************)
(* One log file of the development server (frontend/vite.config.ts): the   *)
(* entries of a payload are appended, a line each, and a file that became  *)
(* too large keeps its newest lines.  The disk may fail under an append or *)
(* under a trim; the failed append is the caller's (a 400), the failed     *)
(* trim is ignored.                                                        *)
(*                                                                         *)
(* A text is what split("\n") makes of it: a sequence of pieces, where the *)
(* last one is empty when the text ends with a newline.  A piece is a      *)
(* sequence of fragments, for what a failed append or trim leaves without  *)
(* a newline has the next line glued to it, a whole entry too.  Of an      *)
(* entry only the bytes of its line matter.                                *)
(***************************************************************************)
EXTENDS Naturals, SequencesExt

CONSTANTS Batches,      \* the payloads: non-empty sequences of line sizes
          MaxLogSize,   \* MAX_LOG_SIZE_BYTES
          MaxWrites     \* bound on the writes

ASSUME LogFileAssumption ==
  /\ MaxLogSize \in Nat \ {0, 1} /\ MaxWrites \in Nat
  /\ Batches \subseteq Seq(Nat \ {0}) \ {<<>>}

VARIABLES
  file,     \* the pieces of the file
  whole,    \* history: the pieces of the file had it not been trimmed since it was
            \* made, or since the last trim that failed
  writes,   \* how many writes were tried
  newest,   \* history: the bytes of the last entry written
  outcome   \* how the last write ended

logVars == <<file, whole, writes, newest, outcome>>

\* What stands of an entry, all of it or not, and whether the write of it failed here.
Fragments == [bytes : Nat, complete : BOOLEAN, cut : BOOLEAN]

Empty == <<>>

TrimTarget == (MaxLogSize * 6) \div 10

\* The sum of a sequence of numbers.
Total(numbers) ==
  LET sum[n \in 0 .. Len(numbers)] == IF n = 0 THEN 0 ELSE sum[n - 1] + numbers[n]
  IN  sum[Len(numbers)]

\* The bytes of a piece, and of pieces with a newline after each.
Bytes(piece) == Total([j \in DOMAIN piece |-> piece[j].bytes])

Cost(text) == Total([i \in DOMAIN text |-> Bytes(text[i]) + 1])

\* The last piece has no newline after it.
FileSize(text) == Cost(text) - 1

From(text, first) == SubSeq(text, first, Len(text))

\* Appending: the first new piece continues the last one of the file.
Joined(text, pieces) ==
  [i \in 1 .. Len(text) + Len(pieces) - 1 |->
     IF i < Len(text) THEN text[i]
     ELSE IF i = Len(text) THEN text[i] \o pieces[1]
     ELSE pieces[i - Len(text) + 1]]

Line(bytes) == <<[bytes |-> bytes, complete |-> TRUE, cut |-> FALSE]>>

\* Mutated form (of LinesOf): `lines.join("\n")`.
LinesUnterminated(batch) == [i \in 1 .. Len(batch) |-> Line(batch[i])]

\* `${lines.join("\n")}\n`
LinesOf(batch) ==
  [i \in 1 .. Len(batch) + 1 |-> IF i <= Len(batch) THEN Line(batch[i]) ELSE Empty]

\* What is left of a piece when its writing fails before the newline: nothing, or all
\* up to some byte, be it the last.
Stumps(piece) ==
  {Empty} \cup
  UNION {{Append(SubSeq(piece, 1, j - 1),
                 [bytes |-> b, complete |-> piece[j].complete /\ b = piece[j].bytes, cut |-> TRUE]) :
            b \in 1 .. piece[j].bytes} : j \in 1 .. Len(piece)}

\* What is left of a text when its writing fails.
Torn(text) ==
  UNION {{SubSeq(text, 1, n - 1) \o <<rest>> : rest \in Stumps(text[n])} : n \in 1 .. Len(text)}

\* The loop of trimLogFile, from the end as long as the lines fit: the one place
\* where it ends.
FirstKept(text) ==
  {first \in 1 .. Len(text) + 1 :
    /\ Cost(From(text, first)) <= TrimTarget
    /\ \A longer \in 1 .. first - 1 : Cost(From(text, longer)) > TrimTarget}

\* Mutated form (of Kept): lines are pushed instead of unshifted.
KeptReversed(text) ==
  {Reverse(SubSeq(text, first, Len(text) - 1)) \o <<Empty>> : first \in FirstKept(text)}

\* keptLines.join("\n"): no line at all is the empty text.
Kept(text) ==
  {IF first > Len(text) THEN <<Empty>> ELSE From(text, first) : first \in FirstKept(text)}

\* trimLogFile, when nothing fails.
Trimmed(text) == IF FileSize(text) <= MaxLogSize THEN {text} ELSE Kept(text)

\* What a trim that fails leaves: everything, or the part that was written.
BrokenTrims(text) ==
  IF FileSize(text) <= MaxLogSize THEN {} ELSE {text} \cup UNION {Torn(kept) : kept \in Kept(text)}

LogInit ==
  /\ file = <<Empty>> /\ whole = <<Empty>>
  /\ writes = 0 /\ newest = 0 /\ outcome = "none"

Appended(text, batch) == Joined(text, LinesOf(batch))

\* writeToLogFile: the append, then the trim.
WriteToLogFile(batch) ==
  /\ writes < MaxWrites
  /\ writes' = writes + 1
  /\ file' \in Trimmed(Appended(file, batch))
  /\ whole' = Appended(whole, batch)
  /\ newest' = batch[Len(batch)]
  /\ outcome' = "written"

\* The append goes through and the trim fails: nobody is told.
TrimFails(batch) ==
  /\ writes < MaxWrites
  /\ writes' = writes + 1
  /\ file' \in BrokenTrims(Appended(file, batch))
  /\ whole' = file'
  /\ newest' = batch[Len(batch)]
  /\ outcome' = "untrimmed"

\* The directory cannot be made, or the append fails somewhere: there is no trim.
WriteFails(batch) ==
  /\ writes < MaxWrites
  /\ writes' = writes + 1
  /\ \E pieces \in Torn(LinesOf(batch)) :
       file' = Joined(file, pieces) /\ whole' = Joined(whole, pieces)
  /\ outcome' = "failed"
  /\ UNCHANGED newest

LogNext ==
  \E batch \in Batches : WriteToLogFile(batch) \/ TrimFails(batch) \/ WriteFails(batch)

LogSpec == LogInit /\ [][LogNext]_logVars

-----------------------------------------------------------------------------
Pieces == Seq(Fragments)

LogTypeOK ==
  /\ file \in Seq(Pieces) \ {<<>>} /\ whole \in Seq(Pieces) \ {<<>>}
  /\ writes \in 0 .. MaxWrites /\ newest \in Nat
  /\ outcome \in {"none", "written", "untrimmed", "failed"}

\* The file is the newest part of everything that was appended, in its order and
\* without a gap, over any number of appends, tears and trims: since it was made, or,
\* with what that left of it, since the last trim that failed (vite.config.ts 33-46).
NewestPart ==
  /\ Len(file) <= Len(whole)
  /\ file = From(whole, Len(whole) - Len(file) + 1)

\* An entry is torn, or shares its line with one that comes after it, only where an
\* append or a trim failed before the newline of its line.
SharedWhereCut ==
  \A i \in 1 .. Len(file) : \A j \in 1 .. Len(file[i]) :
    j < Len(file[i]) \/ ~file[i][j].complete => file[i][j].cut

\* The last entry of a successful write, unless its line, with what a torn one may
\* have left in front of it, is alone more than the target of a trim.
NewestEntryKept ==
  /\ Len(whole) >= 2
  /\ Bytes(whole[Len(whole) - 1]) + 2 <= TrimTarget =>
       /\ Len(file) >= 2
       /\ file[Len(file) - 1] # Empty
       /\ file[Len(file) - 1][Len(file[Len(file) - 1])].bytes = newest

\* Whatever failed before it, a write that was answered with success leaves a
\* file within its limit that ends with the last entry, unless its line is too
\* large to be kept by any trim; and no entry of such a write loses its line to
\* another, unless a later trim fails in it (27-69).
LinesSurvive ==
  /\ LogTypeOK
  /\ SharedWhereCut
  /\ outcome = "written" => NewestEntryKept /\ FileSize(file) <= MaxLogSize
=============================================================================
