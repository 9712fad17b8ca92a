--------------------------- MODULE CollectorProofs --------------------------
(***************************************************************************)
(* The debug collector and its log file, for every payload, every limit,   *)
(* every number of writes, of reports and of requests.                     *)
(*                                                                         *)
(* The file: it is the newest part of all that was appended to it since    *)
(* the last trim that failed; and an entry is torn, or shares its line,    *)
(* only where a write failed.  Both are kept by what is done to a text: an *)
(* append continues the last piece of the file and of the whole alike, and *)
(* that piece holds only what failed writes left, which is what SafeText   *)
(* adds to SharedWhereCut; a trim takes the end of a text, a failed one a  *)
(* torn end.                                                               *)
(*                                                                         *)
(* The reports: no entry vanishes between the page and the file but with a *)
(* report that could not be written, and none overtakes another.  One      *)
(* report at most is under way, and what it carries is older than what is  *)
(* buffered; what was evicted is older than both, or the buffer is full,   *)
(* and then what is put back finds no room.                                *)
(*                                                                         *)
(* The requests of the page: each is recorded once for each time it was    *)
(* sent, and what failed is marked as often.                               *)
(*                                                                         *)
(* The entries of the page: along a path a value and what is recorded of   *)
(* it go together until the path ends or leads to what does not show, and  *)
(* scrolling is sampled by the time of the last scroll recorded.           *)
(***************************************************************************)
EXTENDS MCDebugCollector, SequenceTheorems, FiniteSetTheorems, WellFoundedInduction, TLAPS

FileTexts == Seq(Pieces) \ {<<>>}

\* A text is the end of another.
EndOf(text, longer) ==
  /\ Len(text) <= Len(longer)
  /\ \A i \in 1 .. Len(text) : text[i] = longer[Len(longer) - Len(text) + i]

SafePiece(piece) ==
  \A j \in 1 .. Len(piece) : j < Len(piece) \/ ~piece[j].complete => piece[j].cut

OpenPiece(piece) == \A j \in 1 .. Len(piece) : piece[j].cut

SafeText(text) ==
  /\ \A i \in 1 .. Len(text) : SafePiece(text[i])
  /\ OpenPiece(text[Len(text)])

LogInv ==
  /\ file \in FileTexts /\ whole \in FileTexts
  /\ writes \in 0 .. MaxWrites /\ newest \in Nat
  /\ outcome \in {"none", "written", "untrimmed", "failed"}
  /\ file[Len(file)] = whole[Len(whole)]
  /\ EndOf(file, whole)
  /\ SafeText(file)
  /\ outcome = "written" => NewestEntryKept /\ FileSize(file) <= MaxLogSize

-----------------------------------------------------------------------------
(* Texts and pieces.                                                     *)

\* A function on 1 .. n is a sequence.
LEMMA FunctionIsSeq ==
  ASSUME NEW S, NEW n \in Nat, NEW f \in [1 .. n -> S]
  PROVE  f \in Seq(S) /\ Len(f) = n
OBVIOUS

LEMMA NonEmpty ==
  ASSUME NEW S, NEW s \in Seq(S), Len(s) >= 1
  PROVE  s # <<>>
BY EmptySeq

LEMMA TextFacts ==
  ASSUME NEW text \in FileTexts
  PROVE  /\ text \in Seq(Pieces) /\ Len(text) \in Nat /\ Len(text) >= 1
         /\ \A i \in 1 .. Len(text) : text[i] \in Pieces
<1>1. text \in Seq(Pieces) /\ text # <<>>
  BY DEF FileTexts
<1>2. Len(text) \in Nat \ {0}
  BY <1>1, EmptySeq
<1> QED  BY <1>1, <1>2

\* The empty piece, and a line.
LEMMA SinglePieces ==
  /\ Empty \in Pieces /\ Len(Empty) = 0
  /\ \A b \in Nat : /\ Line(b) \in Pieces /\ Len(Line(b)) = 1
                    /\ Line(b)[1].bytes = b /\ Line(b)[1].complete
BY DEF Empty, Line, Pieces, Fragments

LEMMA EmptyIsOpen == OpenPiece(Empty) /\ SafePiece(Empty)
BY SinglePieces DEF OpenPiece, SafePiece

\* What is glued to an open piece decides whether the result is safe, or open.
LEMMA Glued ==
  ASSUME NEW left \in Pieces, NEW right \in Pieces, OpenPiece(left), SafePiece(right)
  PROVE  /\ left \o right \in Pieces /\ SafePiece(left \o right)
         /\ OpenPiece(right) => OpenPiece(left \o right)
<1> DEFINE both == left \o right
<1>1. /\ both \in Seq(Fragments) /\ Len(both) = Len(left) + Len(right)
      /\ \A j \in 1 .. Len(left) + Len(right) :
           both[j] = IF j <= Len(left) THEN left[j] ELSE right[j - Len(left)]
  BY ConcatProperties DEF Pieces
<1>2. Len(left) \in Nat /\ Len(right) \in Nat
  BY DEF Pieces
<1>3. ASSUME NEW j \in 1 .. Len(both), j < Len(both) \/ ~both[j].complete
      PROVE  both[j].cut
  <2>1. CASE j <= Len(left)
    BY <1>1, <1>2, <2>1 DEF OpenPiece
  <2>2. CASE ~(j <= Len(left))
    <3>1. both[j] = right[j - Len(left)] /\ j - Len(left) \in 1 .. Len(right)
      BY <1>1, <1>2, <2>2
    <3>2. j < Len(both) => j - Len(left) < Len(right)
      BY <1>1, <1>2
    <3> HIDE DEF both
    <3> QED  BY <1>3, <3>1, <3>2 DEF SafePiece
  <2> QED  BY <2>1, <2>2
<1>4. ASSUME OpenPiece(right), NEW j \in 1 .. Len(both)
      PROVE  both[j].cut
  <2>1. CASE j <= Len(left)
    BY <1>1, <1>2, <2>1 DEF OpenPiece
  <2>2. CASE ~(j <= Len(left))
    BY <1>1, <1>2, <1>4, <2>2 DEF OpenPiece
  <2> QED  BY <2>1, <2>2
<1>5. OpenPiece(right) => OpenPiece(both)
  BY <1>4 DEF OpenPiece
<1>6. SafePiece(both)
  BY <1>3 DEF SafePiece
<1> QED  BY <1>1, <1>5, <1>6 DEF Pieces

-----------------------------------------------------------------------------
(* Sums of sequences.                                                      *)

\* A set of numbers with 0 and the successor of each of its numbers holds them all.
LEMMA NatSetInduction ==
  ASSUME NEW S, 0 \in S, \A n \in Nat : n \in S => n + 1 \in S
  PROVE  Nat \subseteq S
<1> SUFFICES ASSUME Nat \ S # {} PROVE FALSE
  OBVIOUS
<1> DEFINE R == OpToRel(<, Nat)
           T == Nat \ S
<1>1. IsWellFoundedOn(R, Nat)
  BY NatLessThanWellFounded
<1>2. T \subseteq Nat /\ T # {}
  OBVIOUS
<1>3. \A x, y \in Nat : x < y => <<x, y>> \in R
  BY DEF OpToRel
<1> HIDE DEF R, T
<1>4. PICK m \in T : \A y \in T : ~(<<y, m>> \in R)
  BY <1>1, <1>2, WFMin
<1>5. m \in Nat \ {0} /\ m - 1 \in Nat /\ m - 1 < m
  BY <1>2, <1>4 DEF T
<1>6. m - 1 \in T
  BY <1>4, <1>5 DEF T
<1> QED  BY <1>2, <1>3, <1>4, <1>5, <1>6

\* The sums of the first numbers of a sequence are defined by its recursion.
LEMMA SumExists ==
  ASSUME NEW numbers, NEW length \in Nat
  PROVE  \E sum : sum = [n \in 0 .. length |-> IF n = 0 THEN 0 ELSE sum[n - 1] + numbers[n]]
<1> DEFINE Sums(k, sum) ==
             sum = [n \in 0 .. k |-> IF n = 0 THEN 0 ELSE sum[n - 1] + numbers[n]]
           S == {k \in Nat : \E sum : Sums(k, sum)}
<1>1. 0 \in S
  <2>1. PICK sum : sum = [n \in 0 .. 0 |-> 0]
    OBVIOUS
  <2>2. \A n \in 0 .. 0 : n = 0
    OBVIOUS
  <2>3. Sums(0, sum)
    BY <2>1, <2>2
  <2> QED  BY <2>3
<1>2. ASSUME NEW k \in Nat, k \in S PROVE k + 1 \in S
  <2>1. PICK f : Sums(k, f)
    BY <1>2
  <2>2. PICK g : g = [n \in 0 .. k + 1 |-> IF n <= k THEN f[n] ELSE f[k] + numbers[k + 1]]
    OBVIOUS
  <2>3. ASSUME NEW n \in 0 .. k + 1
        PROVE  g[n] = IF n = 0 THEN 0 ELSE g[n - 1] + numbers[n]
    <3>1. CASE n = 0
      <4>1. 0 \in 0 .. k + 1 /\ 0 \in 0 .. k /\ 0 <= k
        OBVIOUS
      <4>2. g[0] = f[0] /\ f[0] = 0
        BY <2>1, <2>2, <4>1
      <4> QED  BY <3>1, <4>2
    <3>2. CASE n # 0 /\ n <= k
      <4>1. n \in 0 .. k /\ n - 1 \in 0 .. k + 1 /\ n - 1 <= k
        BY <3>2
      <4>2. g[n] = f[n] /\ g[n - 1] = f[n - 1]
        BY <2>2, <3>2, <4>1
      <4>3. f[n] = f[n - 1] + numbers[n]
        BY <2>1, <3>2, <4>1
      <4> QED  BY <3>2, <4>2, <4>3
    <3>3. CASE n # 0 /\ ~(n <= k)
      <4>1. n = k + 1 /\ n - 1 = k /\ k \in 0 .. k + 1 /\ k <= k
        BY <3>3
      <4>2. g[n] = f[k] + numbers[k + 1] /\ g[k] = f[k]
        BY <2>2, <3>3, <4>1
      <4> QED  BY <3>3, <4>1, <4>2
    <3> QED  BY <3>1, <3>2, <3>3
  <2>4. Sums(k + 1, g)
    BY <2>2, <2>3
  <2> HIDE DEF Sums
  <2> QED  BY <2>4
<1> HIDE DEF S
<1>3. length \in S
  BY <1>1, <1>2, NatSetInduction
<1> QED  BY <1>3 DEF S

\* The sum of natural numbers is one; of no number it is 0, of one that number,
\* of two their sum.
LEMMA TotalFacts ==
  ASSUME NEW numbers \in Seq(Nat)
  PROVE  /\ Total(numbers) \in Nat
         /\ Len(numbers) = 0 => Total(numbers) = 0
         /\ Len(numbers) = 1 => Total(numbers) = numbers[1]
         /\ Len(numbers) = 2 => Total(numbers) = numbers[1] + numbers[2]
<1> DEFINE length == Len(numbers)
           sum == CHOOSE sum : sum = [n \in 0 .. length |->
                                        IF n = 0 THEN 0 ELSE sum[n - 1] + numbers[n]]
<1>1. length \in Nat /\ \A n \in 1 .. length : numbers[n] \in Nat
  BY ElementOfSeq, LenProperties
<1>2. Total(numbers) = sum[length]
  BY DEF Total
<1> HIDE DEF length
<1>3. sum = [n \in 0 .. length |-> IF n = 0 THEN 0 ELSE sum[n - 1] + numbers[n]]
  BY <1>1, SumExists
<1> HIDE DEF sum
<1>4. /\ sum[0] = 0
      /\ \A n \in 1 .. length : sum[n] = sum[n - 1] + numbers[n]
  <2>1. 0 \in 0 .. length
    BY <1>1
  <2>2. ASSUME NEW n \in 1 .. length PROVE n \in 0 .. length /\ n # 0
    BY <1>1
  <2> QED  BY <1>3, <2>1, <2>2
<1>5. sum[length] \in Nat
  <2> DEFINE S == {k \in Nat : k <= length => sum[k] \in Nat}
  <2>1. 0 \in S
    BY <1>4
  <2>2. ASSUME NEW k \in Nat, k \in S PROVE k + 1 \in S
    <3>1. SUFFICES ASSUME k + 1 <= length PROVE sum[k + 1] \in Nat
      OBVIOUS
    <3>2. k + 1 \in 1 .. length /\ k <= length /\ (k + 1) - 1 = k
      BY <1>1, <3>1
    <3>3. sum[k] \in Nat /\ numbers[k + 1] \in Nat
      BY <1>1, <2>2, <3>2
    <3> QED  BY <1>4, <3>2, <3>3
  <2> HIDE DEF S
  <2>3. length \in S
    BY <1>1, <2>1, <2>2, NatSetInduction
  <2> QED  BY <1>1, <2>3 DEF S
<1>6. ASSUME length = 1 PROVE sum[length] = numbers[1]
  <2>1. 1 \in 1 .. length /\ 1 - 1 = 0 /\ numbers[1] \in Nat
    BY <1>1, <1>6
  <2> QED  BY <1>4, <1>6, <2>1
<1>7. ASSUME length = 2 PROVE sum[length] = numbers[1] + numbers[2]
  <2>1. 1 \in 1 .. length /\ 2 \in 1 .. length /\ 1 - 1 = 0 /\ 2 - 1 = 1
        /\ numbers[1] \in Nat /\ numbers[2] \in Nat
    BY <1>1, <1>7
  <2> QED  BY <1>4, <1>7, <2>1
<1> QED  BY <1>2, <1>4, <1>5, <1>6, <1>7 DEF length

\* A piece has some bytes, and a text costs some; the texts of one piece and of
\* two cost their pieces and newlines.
LEMMA BytesFacts ==
  ASSUME NEW piece \in Pieces
  PROVE  Bytes(piece) \in Nat /\ (piece = Empty => Bytes(piece) = 0)
<1> DEFINE numbers == [j \in DOMAIN piece |-> piece[j].bytes]
<1>1. piece \in Seq(Fragments) /\ DOMAIN piece = 1 .. Len(piece) /\ Len(piece) \in Nat
  BY LenProperties DEF Pieces
<1>2. \A j \in 1 .. Len(piece) : piece[j].bytes \in Nat
  <2> TAKE j \in 1 .. Len(piece)
  <2>1. piece[j] \in Fragments
    BY <1>1, ElementOfSeq
  <2> QED  BY <2>1 DEF Fragments
<1>3. numbers \in [1 .. Len(piece) -> Nat]
  BY <1>1, <1>2
<1>4. numbers \in Seq(Nat) /\ Len(numbers) = Len(piece)
  BY <1>1, <1>3, FunctionIsSeq
<1>5. Bytes(piece) = Total(numbers)
  BY DEF Bytes
<1> HIDE DEF numbers
<1>6. piece = Empty => Len(piece) = 0
  BY SinglePieces
<1> QED  BY <1>4, <1>5, <1>6, TotalFacts

LEMMA CostFacts ==
  ASSUME NEW text \in Seq(Pieces)
  PROVE  /\ Cost(text) \in Nat
         /\ Len(text) = 1 => Cost(text) = Bytes(text[1]) + 1
         /\ Len(text) = 2 => Cost(text) = Bytes(text[1]) + 1 + (Bytes(text[2]) + 1)
<1> DEFINE numbers == [i \in DOMAIN text |-> Bytes(text[i]) + 1]
<1>1. DOMAIN text = 1 .. Len(text) /\ Len(text) \in Nat
  BY LenProperties
<1>2. \A i \in 1 .. Len(text) : Bytes(text[i]) + 1 \in Nat
  BY ElementOfSeq, BytesFacts
<1>3. numbers \in [1 .. Len(text) -> Nat]
  BY <1>1, <1>2
<1>4. numbers \in Seq(Nat) /\ Len(numbers) = Len(text)
  BY <1>1, <1>3, FunctionIsSeq
<1>5. Cost(text) = Total(numbers) /\ \A i \in 1 .. Len(text) : numbers[i] = Bytes(text[i]) + 1
  BY <1>1 DEF Cost
<1> HIDE DEF numbers
<1>6. CASE Len(text) = 1
  <2>1. 1 \in 1 .. Len(text)
    BY <1>6
  <2> QED  BY <1>4, <1>5, <1>6, <2>1, TotalFacts
<1>7. CASE Len(text) = 2
  <2>1. 1 \in 1 .. Len(text) /\ 2 \in 1 .. Len(text)
    BY <1>7
  <2> QED  BY <1>4, <1>5, <1>7, <2>1, TotalFacts
<1> QED  BY <1>4, <1>5, <1>6, <1>7, TotalFacts

-----------------------------------------------------------------------------
(* The ends of a text.                                                     *)

\* To be the end of a text is what NewestPart says.
LEMMA EndIsFrom ==
  ASSUME NEW text \in FileTexts, NEW longer \in FileTexts, EndOf(text, longer)
  PROVE  Len(text) <= Len(longer) /\ text = From(longer, Len(longer) - Len(text) + 1)
<1> DEFINE m == Len(longer) - Len(text) + 1
           n == Len(longer)
<1>1. Len(text) \in Nat /\ n \in Nat /\ Len(text) >= 1 /\ Len(text) <= n
  BY TextFacts DEF EndOf
<1>2. m \in Int /\ n \in Int /\ m >= 1 /\ m <= n /\ n - m + 1 = Len(text)
  BY <1>1
<1>3. \A i \in m .. n : longer[i] \in Pieces
  BY <1>1, <1>2, TextFacts
<1> HIDE DEF m, n
<1>4. /\ SubSeq(longer, m, n) \in Seq(Pieces) /\ Len(SubSeq(longer, m, n)) = n - m + 1
      /\ \A i \in 1 .. n - m + 1 : SubSeq(longer, m, n)[i] = longer[m + i - 1]
  BY <1>2, <1>3, SubSeqProperties
<1>5. \A i \in 1 .. Len(text) : text[i] = SubSeq(longer, m, n)[i]
  <2> TAKE i \in 1 .. Len(text)
  <2>1. text[i] = longer[n - Len(text) + i]
    BY DEF EndOf, n
  <2>2. n - Len(text) + i = m + i - 1
    BY <1>1 DEF m, n
  <2> QED  BY <1>2, <1>4, <2>1, <2>2
<1>6. text = SubSeq(longer, m, n)
  BY <1>2, <1>4, <1>5, SeqEqual, TextFacts
<1> QED  BY <1>1, <1>6 DEF From, m, n

\* From a line of a text on.
LEMMA FromEnd ==
  ASSUME NEW text \in FileTexts, NEW first \in 1 .. Len(text)
  PROVE  From(text, first) \in FileTexts /\ EndOf(From(text, first), text)
<1> DEFINE n == Len(text)
           rest == SubSeq(text, first, n)
<1>1. n \in Nat /\ first \in 1 .. n /\ \A i \in first .. n : text[i] \in Pieces
  BY TextFacts
<1>2. /\ rest \in Seq(Pieces) /\ Len(rest) = n - first + 1
      /\ \A i \in 1 .. n - first + 1 : rest[i] = text[first + i - 1]
  BY <1>1, SubSeqProperties
<1>3. rest \in FileTexts
  <2> HIDE DEF rest
  <2>1. Len(rest) >= 1
    BY <1>1, <1>2
  <2> QED  BY <1>2, <2>1, NonEmpty DEF FileTexts
<1>4. \A i \in 1 .. Len(rest) : first + i - 1 = n - Len(rest) + i
  BY <1>1, <1>2
<1> QED  BY <1>1, <1>2, <1>3, <1>4 DEF From, EndOf

\* The end of an end is an end.
LEMMA EndOfEnd ==
  ASSUME NEW a \in FileTexts, NEW b \in FileTexts, NEW c \in FileTexts, EndOf(a, b), EndOf(b, c)
  PROVE  EndOf(a, c)
<1>1. /\ Len(a) \in Nat /\ Len(b) \in Nat /\ Len(c) \in Nat
      /\ Len(a) <= Len(b) /\ Len(b) <= Len(c)
  BY TextFacts DEF EndOf
<1>2. ASSUME NEW i \in 1 .. Len(a)
      PROVE  a[i] = c[Len(c) - Len(a) + i]
  <2>1. Len(b) - Len(a) + i \in 1 .. Len(b)
    BY <1>1
  <2>2. a[i] = b[Len(b) - Len(a) + i]
    BY DEF EndOf
  <2>3. b[Len(b) - Len(a) + i] = c[Len(c) - Len(b) + (Len(b) - Len(a) + i)]
    BY <2>1 DEF EndOf
  <2>4. Len(c) - Len(b) + (Len(b) - Len(a) + i) = Len(c) - Len(a) + i
    BY <1>1
  <2> QED  BY <2>2, <2>3, <2>4
<1> QED  BY <1>1, <1>2 DEF EndOf

\* The empty text is the end of what ends with a newline.
LEMMA EmptyEnd ==
  ASSUME NEW text \in FileTexts, text[Len(text)] = Empty
  PROVE  <<Empty>> \in FileTexts /\ EndOf(<<Empty>>, text)
<1>1. <<Empty>> \in Seq(Pieces) /\ Len(<<Empty>>) = 1 /\ <<Empty>>[1] = Empty
  BY SinglePieces
<1>2. <<Empty>> # <<>>
  BY <1>1, EmptySeq
<1>3. Len(text) \in Nat /\ Len(text) >= 1 /\ Len(text) - 1 + 1 = Len(text)
  BY TextFacts
<1> QED  BY <1>1, <1>2, <1>3 DEF EndOf, FileTexts

\* The end of a text has its last piece.
LEMMA EndLast ==
  ASSUME NEW text \in FileTexts, NEW longer \in FileTexts, EndOf(text, longer)
  PROVE  text[Len(text)] = longer[Len(longer)]
<1>1. Len(text) \in Nat /\ Len(longer) \in Nat /\ Len(text) >= 1
  BY TextFacts
<1>2. Len(text) \in 1 .. Len(text) /\ Len(longer) - Len(text) + Len(text) = Len(longer)
  BY <1>1
<1> QED  BY <1>2 DEF EndOf

\* The end of a safe text is safe.
LEMMA EndSafe ==
  ASSUME NEW text \in FileTexts, NEW longer \in FileTexts, EndOf(text, longer), SafeText(longer)
  PROVE  SafeText(text)
<1>1. /\ Len(text) \in Nat /\ Len(longer) \in Nat /\ Len(text) >= 1
      /\ Len(text) <= Len(longer)
  BY TextFacts DEF EndOf
<1>2. ASSUME NEW i \in 1 .. Len(text)
      PROVE  SafePiece(text[i])
  <2>1. Len(longer) - Len(text) + i \in 1 .. Len(longer)
    BY <1>1
  <2> QED  BY <2>1 DEF EndOf, SafeText
<1> QED  BY <1>2, EndLast DEF SafeText

-----------------------------------------------------------------------------
(* Appending.                                                              *)

\* An append gives a text: the pieces before the last, the last continued, the
\* new ones.
LEMMA JoinedFacts ==
  ASSUME NEW text \in FileTexts, NEW new \in FileTexts
  PROVE  /\ Joined(text, new) \in FileTexts
         /\ Len(Joined(text, new)) = Len(text) + Len(new) - 1
         /\ \A i \in 1 .. Len(text) + Len(new) - 1 :
              Joined(text, new)[i] = IF i < Len(text) THEN text[i]
                                     ELSE IF i = Len(text) THEN text[i] \o new[1]
                                     ELSE new[i - Len(text) + 1]
<1> DEFINE n == Len(text) + Len(new) - 1
<1>1. /\ Len(text) \in Nat /\ Len(text) >= 1 /\ \A i \in 1 .. Len(text) : text[i] \in Pieces
      /\ Len(new) \in Nat /\ Len(new) >= 1 /\ \A i \in 1 .. Len(new) : new[i] \in Pieces
  BY TextFacts
<1>2. text[Len(text)] \o new[1] \in Pieces
  <2>1. text[Len(text)] \in Seq(Fragments) /\ new[1] \in Seq(Fragments)
    BY <1>1 DEF Pieces
  <2> QED  BY <2>1, ConcatProperties DEF Pieces
<1>3. \A i \in 1 .. n : (IF i < Len(text) THEN text[i]
                         ELSE IF i = Len(text) THEN text[i] \o new[1]
                         ELSE new[i - Len(text) + 1]) \in Pieces
  <2> TAKE i \in 1 .. n
  <2>1. CASE i < Len(text)
    BY <1>1, <2>1
  <2>2. CASE i = Len(text)
    BY <1>2, <2>2
  <2>3. CASE i > Len(text)
    <3>1. i - Len(text) + 1 \in 1 .. Len(new)
      BY <1>1, <2>3
    <3> QED  BY <1>1, <2>3, <3>1
  <2> QED  BY <1>1, <2>1, <2>2, <2>3
<1>4. n \in Nat /\ n >= 1
  BY <1>1
<1>5. Joined(text, new) \in [1 .. n -> Pieces]
  BY <1>3 DEF Joined
<1>6. Joined(text, new) \in Seq(Pieces) /\ Len(Joined(text, new)) = n
  BY <1>4, <1>5, FunctionIsSeq
<1> HIDE DEF n
<1>7. Joined(text, new) # <<>>
  BY <1>4, <1>6, NonEmpty
<1> QED  BY <1>6, <1>7 DEF FileTexts, Joined, n

\* What is appended to a text is appended to its end.
LEMMA JoinedEnds ==
  ASSUME NEW text \in FileTexts, NEW longer \in FileTexts, NEW new \in FileTexts, EndOf(text, longer)
  PROVE  EndOf(Joined(text, new), Joined(longer, new))
<1> DEFINE a == Joined(text, new)
           b == Joined(longer, new)
<1>1. /\ Len(text) \in Nat /\ Len(text) >= 1 /\ Len(longer) \in Nat /\ Len(text) <= Len(longer)
      /\ Len(new) \in Nat /\ Len(new) >= 1
      /\ Len(a) = Len(text) + Len(new) - 1 /\ Len(b) = Len(longer) + Len(new) - 1
  BY TextFacts, JoinedFacts DEF EndOf
<1>2. ASSUME NEW i \in 1 .. Len(a)
      PROVE  a[i] = b[Len(b) - Len(a) + i]
  <2> DEFINE k == Len(longer) - Len(text) + i
  <2>1. Len(b) - Len(a) + i = k /\ i \in 1 .. Len(text) + Len(new) - 1
        /\ k \in 1 .. Len(longer) + Len(new) - 1
    BY <1>1
  <2>2. a[i] = IF i < Len(text) THEN text[i]
               ELSE IF i = Len(text) THEN text[i] \o new[1]
               ELSE new[i - Len(text) + 1]
    BY <2>1, JoinedFacts
  <2>3. b[k] = IF k < Len(longer) THEN longer[k]
               ELSE IF k = Len(longer) THEN longer[k] \o new[1]
               ELSE new[k - Len(longer) + 1]
    BY <2>1, JoinedFacts
  <2>4. /\ i < Len(text) <=> k < Len(longer)
        /\ i = Len(text) <=> k = Len(longer)
        /\ i - Len(text) + 1 = k - Len(longer) + 1
    BY <1>1
  <2>5. i \in 1 .. Len(text) => text[i] = longer[k]
    BY DEF EndOf
  <2>6. i < Len(text) \/ i = Len(text) => i \in 1 .. Len(text)
    BY <1>1
  <2> HIDE DEF k, a, b
  <2> QED  BY <2>1, <2>2, <2>3, <2>4, <2>5, <2>6
<1> QED  BY <1>1, <1>2 DEF EndOf

\* What is appended to texts with the same last piece leaves the same last piece.
LEMMA JoinedLast ==
  ASSUME NEW text \in FileTexts, NEW longer \in FileTexts, NEW new \in FileTexts,
         text[Len(text)] = longer[Len(longer)]
  PROVE  Joined(text, new)[Len(Joined(text, new))] = Joined(longer, new)[Len(Joined(longer, new))]
<1>1. ASSUME NEW t \in FileTexts
      PROVE  Joined(t, new)[Len(Joined(t, new))]
               = IF Len(new) = 1 THEN t[Len(t)] \o new[1] ELSE new[Len(new)]
  <2> DEFINE both == Joined(t, new)
             k == Len(t) + Len(new) - 1
  <2>1. Len(t) \in Nat /\ Len(t) >= 1 /\ Len(new) \in Nat /\ Len(new) >= 1
    BY TextFacts
  <2>2. /\ Len(both) = k
        /\ \A i \in 1 .. k : both[i] = IF i < Len(t) THEN t[i]
                                     ELSE IF i = Len(t) THEN t[i] \o new[1]
                                     ELSE new[i - Len(t) + 1]
    BY JoinedFacts
  <2>3. k \in 1 .. k /\ ~(k < Len(t)) /\ k - Len(t) + 1 = Len(new)
    BY <2>1
  <2>4. (k = Len(t)) <=> (Len(new) = 1)
    <3>1. \A i, j \in Nat : (i + j - 1 = i) <=> (j = 1)
      OBVIOUS
    <3> QED  BY <2>1, <3>1
  <2> HIDE DEF both, k
  <2> QED  BY <2>2, <2>3, <2>4 DEF both
<1> QED  BY <1>1

\* A safe text to which safe pieces are appended stays safe, if the last piece
\* is open.
LEMMA JoinedSafe ==
  ASSUME NEW text \in FileTexts, NEW new \in FileTexts, SafeText(text), SafeText(new)
  PROVE  SafeText(Joined(text, new))
<1> DEFINE both == Joined(text, new)
           n == Len(text)
<1>1. /\ n \in Nat /\ n >= 1 /\ Len(new) \in Nat /\ Len(new) >= 1
      /\ n \in 1 .. n /\ 1 \in 1 .. Len(new)
  BY TextFacts
<1>2. /\ Len(both) = n + Len(new) - 1
      /\ \A i \in 1 .. n + Len(new) - 1 :
           both[i] = IF i < n THEN text[i]
                     ELSE IF i = n THEN text[i] \o new[1]
                     ELSE new[i - n + 1]
  BY JoinedFacts
<1>3. text[n] \in Pieces /\ new[1] \in Pieces
  BY <1>1, TextFacts
<1>4. OpenPiece(text[n]) /\ SafePiece(new[1])
  BY <1>1 DEF SafeText
<1>5. /\ SafePiece(text[n] \o new[1])
      /\ OpenPiece(new[1]) => OpenPiece(text[n] \o new[1])
  BY <1>3, <1>4, Glued
<1> HIDE DEF both, n
<1>6. ASSUME NEW i \in 1 .. Len(both)
      PROVE  SafePiece(both[i])
  <2>1. CASE i < n
    <3>1. i \in 1 .. n /\ i \in 1 .. n + Len(new) - 1
      BY <1>1, <1>2, <2>1
    <3>2. both[i] = text[i]
      BY <1>2, <2>1, <3>1
    <3> QED  BY <3>1, <3>2 DEF SafeText, n
  <2>2. CASE i = n
    BY <1>1, <1>2, <1>5, <2>2
  <2>3. CASE i > n
    <3>1. i - n + 1 \in 1 .. Len(new) /\ i \in 1 .. n + Len(new) - 1 /\ ~(i < n) /\ i # n
      BY <1>1, <1>2, <2>3
    <3>2. both[i] = new[i - n + 1]
      BY <1>2, <3>1
    <3> QED  BY <3>1, <3>2 DEF SafeText
  <2> QED  BY <1>1, <2>1, <2>2, <2>3
<1>7. OpenPiece(both[Len(both)])
  <2>1. CASE Len(new) = 1
    <3>1. Len(both) = n /\ n \in 1 .. n + Len(new) - 1
      BY <1>1, <1>2, <2>1
    <3>2. ~(n < n)
      BY <1>1
    <3>3. both[n] = text[n] \o new[1]
      BY <1>2, <3>1, <3>2, Zenon
    <3>4. OpenPiece(new[1])
      BY <2>1, Zenon DEF SafeText
    <3> QED  BY <1>5, <3>1, <3>3, <3>4, Zenon
  <2>2. CASE Len(new) > 1
    <3>1. /\ Len(both) \in 1 .. n + Len(new) - 1 /\ ~(Len(both) < n) /\ Len(both) # n
          /\ Len(both) - n + 1 = Len(new)
      BY <1>1, <1>2, <2>2
    <3>2. both[Len(both)] = new[Len(new)]
      BY <1>2, <3>1
    <3> QED  BY <3>2, Zenon DEF SafeText
  <2>3. \A k \in Nat : k >= 1 => k = 1 \/ k > 1
    OBVIOUS
  <2> QED  BY <1>1, <2>1, <2>2, <2>3, Zenon
<1> QED  BY <1>6, <1>7 DEF SafeText, both

-----------------------------------------------------------------------------
(* What is appended.                                                       *)

\* A payload: at least one line, each of some bytes.
LEMMA BatchFacts ==
  ASSUME NEW batch \in Batches
  PROVE  /\ Len(batch) \in Nat /\ Len(batch) >= 1
         /\ \A i \in 1 .. Len(batch) : batch[i] \in Nat
<1>1. batch \in Seq(Nat \ {0}) /\ batch # <<>>
  BY LogFileAssumption
<1>2. Len(batch) \in Nat \ {0}
  BY <1>1, EmptySeq
<1> QED  BY <1>1, <1>2

\* A line is a safe piece.
LEMMA LineFacts ==
  ASSUME NEW b \in Nat
  PROVE  Line(b) \in Pieces /\ SafePiece(Line(b))
<1>1. Line(b) \in Pieces /\ Len(Line(b)) = 1 /\ Line(b)[1].complete
  BY SinglePieces
<1>2. \A j \in 1 .. 1 : j = 1 /\ ~(j < 1)
  OBVIOUS
<1> QED  BY <1>1, <1>2 DEF SafePiece

\* What a failed write leaves of a safe piece is safe, and open.
LEMMA StumpFacts ==
  ASSUME NEW piece \in Pieces, SafePiece(piece), NEW rest \in Stumps(piece)
  PROVE  rest \in Pieces /\ SafePiece(rest) /\ OpenPiece(rest)
<1>1. CASE rest = Empty
  BY <1>1, SinglePieces, EmptyIsOpen
<1>2. ASSUME NEW j \in 1 .. Len(piece), NEW b \in 1 .. piece[j].bytes,
             rest = Append(SubSeq(piece, 1, j - 1),
                           [bytes |-> b, complete |-> piece[j].complete /\ b = piece[j].bytes,
                            cut |-> TRUE])
      PROVE  rest \in Pieces /\ OpenPiece(rest)
  <2> DEFINE start == SubSeq(piece, 1, j - 1)
             last == [bytes |-> b, complete |-> piece[j].complete /\ b = piece[j].bytes,
                      cut |-> TRUE]
  <2>1. piece \in Seq(Fragments) /\ Len(piece) \in Nat /\ j - 1 \in Nat /\ j - 1 <= Len(piece)
    BY LenProperties DEF Pieces
  <2>2. \A i \in 1 .. j - 1 : piece[i] \in Fragments
    BY <2>1
  <2>3. /\ start \in Seq(Fragments) /\ Len(start) = j - 1
        /\ \A i \in 1 .. j - 1 : start[i] = piece[i]
    BY <2>1, <2>2, SubSeqProperties
  <2>4. b \in Nat
    <3>1. piece[j] \in Fragments
      BY <2>1
    <3>2. piece[j].bytes \in Nat
      BY <3>1 DEF Fragments
    <3> QED  BY <3>2
  <2>5. last \in Fragments /\ last.cut = TRUE
    <3>1. (piece[j].complete /\ b = piece[j].bytes) \in BOOLEAN
      BY Zenon
    <3> QED  BY <2>4, <3>1, Zenon DEF Fragments
  <2> HIDE DEF start, last
  <2>6. /\ rest \in Seq(Fragments) /\ Len(rest) = j
        /\ \A i \in 1 .. j - 1 : rest[i] = start[i]
        /\ rest[j] = last
    BY <1>2, <2>1, <2>3, <2>5, AppendProperties DEF start, last
  <2>7. ASSUME NEW i \in 1 .. Len(rest)
        PROVE  rest[i].cut
    <3>1. CASE i = j
      BY <2>5, <2>6, <3>1
    <3>2. CASE i # j
      <4>1. i \in 1 .. j - 1 /\ i \in 1 .. Len(piece) /\ i < Len(piece)
        BY <2>1, <2>6, <3>2
      <4>2. piece[i].cut
        BY <4>1, Zenon DEF SafePiece
      <4> QED  BY <2>3, <2>6, <4>1, <4>2
    <3> QED  BY <3>1, <3>2
  <2> QED  BY <2>6, <2>7 DEF Pieces, OpenPiece
<1>3. OpenPiece(rest) => SafePiece(rest)
  BY DEF OpenPiece, SafePiece
<1> QED  BY <1>1, <1>2, <1>3 DEF Stumps

\* A text whose pieces are safe and whose last is open.
LEMMA MadeSafe ==
  ASSUME NEW n \in Nat, n >= 1, NEW text \in [1 .. n -> Pieces],
         \A i \in 1 .. n : SafePiece(text[i]), OpenPiece(text[n])
  PROVE  text \in FileTexts /\ Len(text) = n /\ SafeText(text)
<1>1. text \in Seq(Pieces) /\ Len(text) = n
  BY FunctionIsSeq
<1>2. text # <<>>
  BY <1>1, NonEmpty
<1>3. SafeText(text)
  BY <1>1, Zenon DEF SafeText
<1> QED  BY <1>1, <1>2, <1>3 DEF FileTexts

\* The lines of a payload end with a newline.
LEMMA LinesOfFacts ==
  ASSUME NEW batch \in Batches
  PROVE  /\ LinesOf(batch) \in FileTexts /\ SafeText(LinesOf(batch)) /\ Len(LinesOf(batch)) >= 2
         /\ LinesOf(batch)[Len(LinesOf(batch))] = Empty
<1> DEFINE n == Len(batch) + 1
           lines == LinesOf(batch)
<1>1. n \in Nat /\ n >= 2 /\ n \in 1 .. n /\ ~(n <= Len(batch))
  BY BatchFacts
<1>2. \A i \in 1 .. n : /\ lines[i] = IF i <= Len(batch) THEN Line(batch[i]) ELSE Empty
                        /\ lines[i] \in Pieces /\ SafePiece(lines[i])
  <2> TAKE i \in 1 .. n
  <2>1. lines[i] = IF i <= Len(batch) THEN Line(batch[i]) ELSE Empty
    BY DEF LinesOf
  <2>2. CASE i <= Len(batch)
    <3>1. i \in 1 .. Len(batch)
      BY <1>1, <2>2
    <3>2. batch[i] \in Nat
      BY <3>1, BatchFacts
    <3>3. lines[i] = Line(batch[i])
      BY <2>1, <2>2
    <3> HIDE DEF lines
    <3> QED  BY <2>1, <3>2, <3>3, LineFacts, Zenon
  <2>3. CASE ~(i <= Len(batch))
    <3> HIDE DEF lines
    <3> QED  BY <2>1, <2>3, EmptyIsOpen, SinglePieces, Zenon
  <2> QED  BY <2>2, <2>3
<1>3. lines \in [1 .. n -> Pieces]
  BY <1>2 DEF LinesOf
<1> HIDE DEF n, lines
<1>4. lines[n] = Empty
  BY <1>1, <1>2
<1>5. OpenPiece(lines[n])
  BY <1>4, EmptyIsOpen, Zenon
<1>6. lines \in FileTexts /\ Len(lines) = n /\ SafeText(lines)
  BY <1>1, <1>2, <1>3, <1>5, MadeSafe
<1> QED  BY <1>1, <1>4, <1>6 DEF lines

\* Whatever is left of a safe text is safe.
LEMMA TornSafe ==
  ASSUME NEW text \in FileTexts, SafeText(text), NEW left \in Torn(text)
  PROVE  left \in FileTexts /\ SafeText(left)
<1>0. PICK n \in 1 .. Len(text) : left \in {SubSeq(text, 1, n - 1) \o <<end>> : end \in Stumps(text[n])}
  BY DEF Torn
<1>1. PICK rest \in Stumps(text[n]) : left = SubSeq(text, 1, n - 1) \o <<rest>>
  BY <1>0
<1> DEFINE start == SubSeq(text, 1, n - 1)
           both == start \o <<rest>>
<1>2. /\ Len(text) \in Nat /\ n \in Nat /\ n >= 1 /\ n - 1 \in Nat /\ n - 1 <= Len(text)
      /\ \A i \in 1 .. n - 1 : text[i] \in Pieces
      /\ text \in Seq(Pieces) /\ text[n] \in Pieces
  BY TextFacts
<1>3. SafePiece(text[n])
  BY Zenon DEF SafeText
<1>4. rest \in Pieces /\ SafePiece(rest) /\ OpenPiece(rest)
  BY <1>2, <1>3, StumpFacts
<1>5. start \in Seq(Pieces) /\ Len(start) = n - 1 /\ \A i \in 1 .. n - 1 : start[i] = text[i]
  BY <1>2, SubSeqProperties
<1>6. <<rest>> \in Seq(Pieces) /\ Len(<<rest>>) = 1 /\ <<rest>>[1] = rest
  BY <1>4
<1> HIDE DEF start
<1>7. /\ both \in Seq(Pieces) /\ Len(both) = n
      /\ \A i \in 1 .. n : both[i] = IF i <= n - 1 THEN start[i] ELSE <<rest>>[i - (n - 1)]
  <2>1. /\ both \in Seq(Pieces) /\ Len(both) = n - 1 + 1
        /\ \A i \in 1 .. n - 1 + 1 : both[i] = IF i <= n - 1 THEN start[i] ELSE <<rest>>[i - (n - 1)]
    BY <1>5, <1>6, ConcatProperties
  <2>2. n - 1 + 1 = n
    BY <1>2
  <2> HIDE DEF both
  <2> QED  BY <2>1, <2>2
<1>8. n \in 1 .. n /\ ~(n <= n - 1) /\ n - (n - 1) = 1
  BY <1>2
<1> HIDE DEF both
<1>9. both \in [1 .. n -> Pieces]
  BY <1>7
<1>10. both[n] = rest
  BY <1>6, <1>7, <1>8
<1>11. ASSUME NEW i \in 1 .. n
       PROVE  SafePiece(both[i])
  <2>1. CASE i <= n - 1
    <3>1. i \in 1 .. n - 1 /\ i \in 1 .. Len(text)
      BY <1>2, <2>1
    <3>2. both[i] = text[i]
      BY <1>5, <1>7, <2>1, <3>1
    <3>3. SafePiece(text[i])
      BY <3>1, Zenon DEF SafeText
    <3> QED  BY <3>2, <3>3, Zenon
  <2>2. CASE ~(i <= n - 1)
    <3>1. i = n
      BY <1>2, <2>2
    <3> QED  BY <1>4, <1>10, <3>1, Zenon
  <2> QED  BY <2>1, <2>2, Zenon
<1>12. OpenPiece(both[n])
  BY <1>4, <1>10, Zenon
<1> QED  BY <1>1, <1>2, <1>9, <1>11, <1>12, MadeSafe DEF both, start


-----------------------------------------------------------------------------
(* What a trim leaves.                                                     *)

\* What a trim keeps of a text that ends with a newline is an end of it.
LEMMA KeptIsEnd ==
  ASSUME NEW text \in FileTexts, text[Len(text)] = Empty, NEW kept \in Kept(text)
  PROVE  kept \in FileTexts /\ EndOf(kept, text)
<1>1. PICK first \in FirstKept(text) :
        kept = IF first > Len(text) THEN <<Empty>> ELSE From(text, first)
  BY DEF Kept
<1>2. first \in 1 .. Len(text) + 1 /\ Len(text) \in Nat
  BY TextFacts DEF FirstKept
<1>3. CASE first > Len(text)
  BY <1>1, <1>3, EmptyEnd, Zenon
<1>4. CASE ~(first > Len(text))
  <2>1. first \in 1 .. Len(text)
    BY <1>2, <1>4
  <2> QED  BY <1>1, <1>4, <2>1, FromEnd, Zenon
<1> QED  BY <1>3, <1>4

LEMMA TextIsItsEnd ==
  ASSUME NEW text \in FileTexts
  PROVE  EndOf(text, text)
BY TextFacts DEF EndOf

LEMMA TrimmedIsEnd ==
  ASSUME NEW text \in FileTexts, text[Len(text)] = Empty, NEW trimmed \in Trimmed(text)
  PROVE  trimmed \in FileTexts /\ EndOf(trimmed, text)
<1>1. trimmed = text \/ trimmed \in Kept(text)
  BY DEF Trimmed
<1> QED  BY <1>1, KeptIsEnd, TextIsItsEnd

\* Whatever a failed trim leaves of a safe text is safe.
LEMMA BrokenTrimsSafe ==
  ASSUME NEW text \in FileTexts, text[Len(text)] = Empty, SafeText(text), NEW left \in BrokenTrims(text)
  PROVE  left \in FileTexts /\ SafeText(left)
<1>1. left = text \/ \E kept \in Kept(text) : left \in Torn(kept)
  BY DEF BrokenTrims
<1>2. ASSUME NEW kept \in Kept(text), left \in Torn(kept)
      PROVE  left \in FileTexts /\ SafeText(left)
  <2>1. kept \in FileTexts /\ SafeText(kept)
    BY KeptIsEnd, EndSafe
  <2> QED  BY <1>2, <2>1, TornSafe
<1> QED  BY <1>1, <1>2

\* A payload that is appended leaves a text that is safe, ends with a newline
\* and with the end of the whole.
LEMMA AppendedFacts ==
  ASSUME NEW text \in FileTexts, NEW batch \in Batches
  PROVE  /\ Appended(text, batch) \in FileTexts
         /\ Appended(text, batch)[Len(Appended(text, batch))] = Empty
         /\ SafeText(text) => SafeText(Appended(text, batch))
<1> DEFINE lines == LinesOf(batch)
           both == Joined(text, lines)
<1>1. lines \in FileTexts /\ SafeText(lines) /\ Len(lines) >= 2 /\ lines[Len(lines)] = Empty
  BY LinesOfFacts
<1> HIDE DEF lines
<1>2. Len(text) \in Nat /\ Len(text) >= 1 /\ Len(lines) \in Nat
  BY <1>1, TextFacts
<1>3. /\ both \in FileTexts /\ Len(both) = Len(text) + Len(lines) - 1
      /\ \A i \in 1 .. Len(text) + Len(lines) - 1 :
           both[i] = IF i < Len(text) THEN text[i]
                     ELSE IF i = Len(text) THEN text[i] \o lines[1]
                     ELSE lines[i - Len(text) + 1]
  BY <1>1, JoinedFacts
<1>4. SafeText(text) => SafeText(both)
  BY <1>1, JoinedSafe
<1> HIDE DEF both
<1>5. /\ Len(both) \in 1 .. Len(text) + Len(lines) - 1 /\ ~(Len(both) < Len(text))
      /\ Len(both) # Len(text) /\ Len(both) - Len(text) + 1 = Len(lines)
  BY <1>1, <1>2, <1>3
<1>6. both[Len(both)] = Empty
  BY <1>1, <1>3, <1>5
<1> QED  BY <1>3, <1>4, <1>6 DEF Appended, both, lines

-----------------------------------------------------------------------------
(* What a write leaves at the end of the file.                             *)

\* The line of the last entry of a payload, after the last piece of a text.
LastLine(piece, batch) ==
  IF Len(batch) = 1 THEN piece \o Line(batch[1]) ELSE Line(batch[Len(batch)])

LEMMA LastLineFacts ==
  ASSUME NEW piece \in Pieces, NEW batch \in Batches
  PROVE  /\ LastLine(piece, batch) \in Pieces /\ LastLine(piece, batch) # Empty
         /\ LastLine(piece, batch)[Len(LastLine(piece, batch))].bytes = batch[Len(batch)]
<1>1. /\ Len(batch) \in Nat /\ Len(batch) \in 1 .. Len(batch) /\ batch[Len(batch)] \in Nat
  BY BatchFacts
<1>2. PICK line : line = Line(batch[Len(batch)])
  OBVIOUS
<1>3. line \in Seq(Fragments) /\ Len(line) = 1 /\ line[1].bytes = batch[Len(batch)]
  BY <1>1, <1>2, SinglePieces DEF Pieces
<1>4. Len(Empty) = 0
  BY SinglePieces
<1>5. CASE Len(batch) # 1
  <2>1. LastLine(piece, batch) = line
    BY <1>2, <1>5 DEF LastLine
  <2>2. line # Empty
    <3>1. line = Empty => Len(line) = Len(Empty)
      BY Zenon
    <3> QED  BY <1>3, <1>4, <3>1
  <2> QED  BY <1>3, <2>1, <2>2 DEF Pieces
<1>6. CASE Len(batch) = 1
  <2>1. LastLine(piece, batch) = piece \o line
    BY <1>2, <1>6 DEF LastLine
  <2>2. piece \in Seq(Fragments) /\ Len(piece) \in Nat
    BY LenProperties DEF Pieces
  <2> DEFINE both == piece \o line
             n == Len(piece) + 1
  <2>3. /\ both \in Seq(Fragments) /\ Len(both) = Len(piece) + Len(line)
        /\ \A j \in 1 .. Len(piece) + Len(line) :
             both[j] = IF j <= Len(piece) THEN piece[j] ELSE line[j - Len(piece)]
    BY <1>3, <2>2, ConcatProperties
  <2>4. n \in 1 .. Len(piece) + Len(line) /\ ~(n <= Len(piece)) /\ n - Len(piece) = 1 /\ n # 0
        /\ n = Len(piece) + Len(line)
    BY <1>3, <2>2
  <2> HIDE DEF both, n
  <2>5. both[n] = line[1]
    BY <2>3, <2>4
  <2>6. both # Empty
    BY <2>3, <2>4, <1>4
  <2> QED  BY <1>3, <2>1, <2>3, <2>4, <2>5, <2>6 DEF both, Pieces
<1> QED  BY <1>5, <1>6

\* After an append that line stands before the newline that ends the text.
LEMMA AppendedLast ==
  ASSUME NEW text \in FileTexts, NEW batch \in Batches
  PROVE  /\ Len(Appended(text, batch)) >= 2
         /\ Appended(text, batch)[Len(Appended(text, batch)) - 1]
              = LastLine(text[Len(text)], batch)
<1> DEFINE lines == LinesOf(batch)
           both == Joined(text, lines)
           n == Len(batch)
<1>1. n \in Nat /\ n >= 1
  BY BatchFacts
<1>2. lines \in FileTexts
  BY LinesOfFacts
<1>3. \A i \in 1 .. n : lines[i] = Line(batch[i])
  <2> TAKE i \in 1 .. n
  <2>1. i \in 1 .. n + 1 /\ i <= n
    BY <1>1
  <2> QED  BY <2>1 DEF LinesOf
<1>4. Len(lines) = n + 1
  <2>1. lines \in [1 .. n + 1 -> {lines[i] : i \in 1 .. n + 1}] /\ n + 1 \in Nat
    BY <1>1 DEF LinesOf
  <2> HIDE DEF lines, n
  <2> QED  BY <2>1, FunctionIsSeq
<1> HIDE DEF lines
<1>5. Len(text) \in Nat /\ Len(text) >= 1
  BY TextFacts
<1>6. /\ Len(both) = Len(text) + Len(lines) - 1
      /\ \A i \in 1 .. Len(text) + Len(lines) - 1 :
           both[i] = IF i < Len(text) THEN text[i]
                     ELSE IF i = Len(text) THEN text[i] \o lines[1]
                     ELSE lines[i - Len(text) + 1]
  BY <1>2, JoinedFacts
<1> HIDE DEF both
<1>7. Len(both) >= 2 /\ Len(both) - 1 = Len(text) + n - 1
  BY <1>1, <1>4, <1>5, <1>6
<1>8. CASE n = 1
  <2>1. /\ Len(both) - 1 = Len(text) /\ Len(text) \in 1 .. Len(text) + Len(lines) - 1
        /\ ~(Len(text) < Len(text)) /\ 1 \in 1 .. n
    BY <1>4, <1>5, <1>7, <1>8
  <2>2. both[Len(text)] = text[Len(text)] \o lines[1]
    BY <1>6, <2>1
  <2>3. both[Len(both) - 1] = text[Len(text)] \o Line(batch[1])
    BY <1>3, <2>1, <2>2
  <2> QED  BY <1>7, <1>8, <2>3 DEF Appended, LastLine, both, lines, n
<1>9. CASE n # 1
  <2> DEFINE k == Len(text) + n - 1
  <2> HIDE DEF n
  <2>0. n >= 2 /\ Len(both) - 1 = k
    BY <1>1, <1>7, <1>9
  <2>1. /\ k \in 1 .. Len(text) + Len(lines) - 1 /\ ~(k < Len(text)) /\ k # Len(text)
        /\ k - Len(text) + 1 = n /\ n \in 1 .. n
    BY <1>1, <1>4, <1>5, <2>0
  <2>2. both[k] = lines[n]
    BY <1>6, <2>1
  <2>3. both[Len(both) - 1] = Line(batch[n])
    BY <1>3, <2>0, <2>1, <2>2
  <2> QED  BY <1>7, <1>9, <2>3 DEF Appended, LastLine, both, lines, n
<1> QED  BY <1>8, <1>9

\* A trim leaves a file within the limit.
LEMMA TrimmedFits ==
  ASSUME NEW text \in FileTexts, text[Len(text)] = Empty, NEW trimmed \in Trimmed(text)
  PROVE  FileSize(trimmed) <= MaxLogSize
<1>1. TrimTarget \in Nat /\ TrimTarget <= MaxLogSize /\ MaxLogSize \in Nat
  BY LogFileAssumption DEF TrimTarget
<1>2. CASE FileSize(text) <= MaxLogSize
  BY <1>2 DEF Trimmed
<1>3. CASE ~(FileSize(text) <= MaxLogSize)
  <2>1. PICK first \in FirstKept(text) :
          trimmed = IF first > Len(text) THEN <<Empty>> ELSE From(text, first)
    BY <1>3 DEF Trimmed, Kept
  <2>2. Cost(From(text, first)) <= TrimTarget
    BY DEF FirstKept
  <2>3. CASE first > Len(text)
    <3>1. <<Empty>> \in Seq(Pieces) /\ Len(<<Empty>>) = 1 /\ <<Empty>>[1] = Empty
      BY SinglePieces
    <3>2. Cost(<<Empty>>) = 1
      <4>1. PICK one \in Seq(Pieces) : one = <<Empty>> /\ Len(one) = 1 /\ one[1] = Empty
        BY <3>1
      <4>2. Cost(one) = Bytes(one[1]) + 1
        BY <4>1, CostFacts
      <4>3. Bytes(Empty) = 0
        BY BytesFacts, SinglePieces
      <4> QED  BY <4>1, <4>2, <4>3
    <3> QED  BY <1>1, <2>1, <2>3, <3>2 DEF FileSize
  <2>4. CASE ~(first > Len(text))
    <3>1. trimmed = From(text, first) /\ trimmed \in Seq(Pieces)
      BY <2>1, <2>4, TrimmedIsEnd, TextFacts
    <3>2. Cost(trimmed) \in Nat /\ Cost(trimmed) <= TrimTarget
      BY <2>2, <3>1, CostFacts
    <3> QED  BY <1>1, <3>2 DEF FileSize
  <2> QED  BY <2>3, <2>4
<1> QED  BY <1>2, <1>3

\* A trim leaves the last line where it was, when the line alone fits.
LEMMA TrimmedKeepsLast ==
  ASSUME NEW text \in FileTexts, text[Len(text)] = Empty, Len(text) >= 2,
         Bytes(text[Len(text) - 1]) + 2 <= TrimTarget, NEW trimmed \in Trimmed(text)
  PROVE  Len(trimmed) >= 2 /\ trimmed[Len(trimmed) - 1] = text[Len(text) - 1]
<1> DEFINE n == Len(text)
<1>1. n \in Nat /\ n - 1 \in 1 .. n /\ n - 1 \in 1 .. n + 1 /\ text[n - 1] \in Pieces
  BY TextFacts
<1>2. TrimTarget \in Nat
  BY LogFileAssumption DEF TrimTarget
<1>3. trimmed \in FileTexts /\ EndOf(trimmed, text)
  BY TrimmedIsEnd
<1>4. ASSUME Len(trimmed) >= 2 PROVE trimmed[Len(trimmed) - 1] = text[n - 1]
  <2>1. Len(trimmed) \in Nat /\ Len(trimmed) - 1 \in 1 .. Len(trimmed)
        /\ n - Len(trimmed) + (Len(trimmed) - 1) = n - 1
    BY <1>1, <1>3, <1>4, TextFacts
  <2> QED  BY <1>3, <2>1 DEF EndOf
<1>5. Len(trimmed) >= 2
  <2>1. CASE trimmed = text
    BY <2>1
  <2>2. CASE trimmed \in Kept(text)
    <3>1. PICK first \in FirstKept(text) :
            trimmed = IF first > n THEN <<Empty>> ELSE From(text, first)
      BY <2>2 DEF Kept
    <3>2. first \in 1 .. n + 1 /\ \A longer \in 1 .. first - 1 : Cost(From(text, longer)) > TrimTarget
      BY DEF FirstKept
    <3>3. Cost(From(text, n - 1)) = Bytes(text[n - 1]) + 2
      <4> DEFINE rest == From(text, n - 1)
      <4>1. \A i \in n - 1 .. n : text[i] \in Pieces
        BY <1>1, TextFacts
      <4>2. /\ rest \in Seq(Pieces) /\ Len(rest) = n - (n - 1) + 1
            /\ \A i \in 1 .. n - (n - 1) + 1 : rest[i] = text[(n - 1) + i - 1]
        BY <1>1, <4>1, SubSeqProperties DEF From
      <4> HIDE DEF rest
      <4>3. Len(rest) = 2 /\ rest[1] = text[n - 1] /\ rest[2] = text[n]
        <5>1. n - (n - 1) + 1 = 2 /\ (n - 1) + 1 - 1 = n - 1 /\ (n - 1) + 2 - 1 = n
              /\ 1 \in 1 .. 2 /\ 2 \in 1 .. 2
          BY <1>1
        <5> QED  BY <4>2, <5>1
      <4>4. Cost(rest) = Bytes(text[n - 1]) + 1 + (Bytes(Empty) + 1)
        BY <4>2, <4>3, CostFacts
      <4>5. Bytes(Empty) = 0 /\ Bytes(text[n - 1]) \in Nat
        BY <1>1, BytesFacts, SinglePieces
      <4> QED  BY <4>4, <4>5 DEF rest
    <3>4. ~(Cost(From(text, n - 1)) > TrimTarget)
      <4>1. Bytes(text[n - 1]) \in Nat
        BY <1>1, BytesFacts
      <4> QED  BY <1>2, <3>3, <4>1
    <3>5. first <= n - 1
      <4>1. n - 1 \notin 1 .. first - 1
        BY <3>2, <3>4
      <4> QED  BY <1>1, <3>2, <4>1
    <3>6. trimmed = From(text, first) /\ first \in 1 .. n
      BY <1>1, <3>1, <3>2, <3>5
    <3>7. Len(trimmed) = n - first + 1
      <4>1. \A i \in first .. n : text[i] \in Pieces
        BY <1>1, <3>6, TextFacts
      <4> QED  BY <1>1, <3>6, <4>1, SubSeqProperties DEF From
    <3> QED  BY <1>1, <3>5, <3>6, <3>7
  <2> QED  BY <2>1, <2>2 DEF Trimmed
<1> QED  BY <1>4, <1>5

-----------------------------------------------------------------------------
(* The actions.                                                            *)

\* writeToLogFile, when nothing fails.
LEMMA WriteKeeps ==
  ASSUME LogInv, NEW batch \in Batches, WriteToLogFile(batch)
  PROVE  LogInv'
<1> DEFINE a == Appended(file, batch)
           b == Appended(whole, batch)
           line == LastLine(whole[Len(whole)], batch)
<1>1. /\ file \in FileTexts /\ whole \in FileTexts /\ SafeText(file)
      /\ file[Len(file)] = whole[Len(whole)]
  BY DEF LogInv
<1>2. file' \in Trimmed(a) /\ whole' = b
  BY DEF WriteToLogFile
<1>3. /\ a \in FileTexts /\ a[Len(a)] = Empty /\ SafeText(a)
      /\ b \in FileTexts /\ b[Len(b)] = Empty
  BY <1>1, AppendedFacts
<1>4. EndOf(a, b)
  BY <1>1, LinesOfFacts, JoinedEnds DEF LogInv, Appended
<1>a. Len(a) >= 2 /\ Len(b) >= 2 /\ a[Len(a) - 1] = line /\ b[Len(b) - 1] = line
  BY <1>1, AppendedLast
<1>b. line # Empty /\ line[Len(line)].bytes = batch[Len(batch)]
  <2>1. whole[Len(whole)] \in Pieces
    BY <1>1, TextFacts
  <2> QED  BY <2>1, LastLineFacts
<1> HIDE DEF a, b, line
<1>5. file' \in FileTexts /\ EndOf(file', a) /\ FileSize(file') <= MaxLogSize
  BY <1>2, <1>3, TrimmedIsEnd, TrimmedFits
<1>6. SafeText(file')
  BY <1>3, <1>5, EndSafe
<1>7. EndOf(file', b)
  BY <1>3, <1>4, <1>5, EndOfEnd
<1>8. file'[Len(file')] = whole'[Len(whole')]
  <2>1. file'[Len(file')] = a[Len(a)]
    BY <1>3, <1>5, EndLast
  <2> QED  BY <1>2, <1>3, <2>1
<1>9. NewestEntryKept'
  <2>1. newest' = batch[Len(batch)]
    BY DEF WriteToLogFile
  <2>2. ASSUME Bytes(line) + 2 <= TrimTarget
        PROVE  Len(file') >= 2 /\ file'[Len(file') - 1] = line
    BY <1>2, <1>3, <1>a, <2>2, TrimmedKeepsLast
  <2> QED  BY <1>2, <1>a, <1>b, <2>1, <2>2 DEF NewestEntryKept
<1>10. writes' \in 0 .. MaxWrites /\ newest' \in Nat /\ outcome' = "written"
  BY LogFileAssumption, BatchFacts DEF LogInv, WriteToLogFile
<1> QED  BY <1>2, <1>3, <1>5, <1>6, <1>7, <1>8, <1>9, <1>10 DEF LogInv

\* The append, and a trim that fails.
LEMMA FailedTrimKeeps ==
  ASSUME LogInv, NEW batch \in Batches, TrimFails(batch)
  PROVE  LogInv'
<1> DEFINE a == Appended(file, batch)
<1>1. file \in FileTexts /\ SafeText(file)
  BY DEF LogInv
<1>2. file' \in BrokenTrims(a) /\ whole' = file'
  BY DEF TrimFails
<1>3. a \in FileTexts /\ a[Len(a)] = Empty /\ SafeText(a)
  BY <1>1, AppendedFacts
<1> HIDE DEF a
<1>4. file' \in FileTexts /\ SafeText(file')
  BY <1>2, <1>3, BrokenTrimsSafe
<1>5. EndOf(file', whole')
  BY <1>2, <1>4, TextIsItsEnd
<1>6. writes' \in 0 .. MaxWrites /\ newest' \in Nat /\ outcome' = "untrimmed"
  BY LogFileAssumption, BatchFacts DEF LogInv, TrimFails
<1> QED  BY <1>2, <1>4, <1>5, <1>6 DEF LogInv

\* An append that fails.
LEMMA FailedWriteKeeps ==
  ASSUME LogInv, NEW batch \in Batches, WriteFails(batch)
  PROVE  LogInv'
<1>1. /\ file \in FileTexts /\ whole \in FileTexts /\ SafeText(file)
      /\ file[Len(file)] = whole[Len(whole)]
  BY DEF LogInv
<1>2. writes' \in 0 .. MaxWrites /\ newest' \in Nat /\ outcome' = "failed"
  BY LogFileAssumption DEF LogInv, WriteFails
<1>3. PICK pieces \in Torn(LinesOf(batch)) :
        file' = Joined(file, pieces) /\ whole' = Joined(whole, pieces)
  BY DEF WriteFails
<1>4. pieces \in FileTexts /\ SafeText(pieces)
  BY LinesOfFacts, TornSafe
<1>5. file' \in FileTexts /\ whole' \in FileTexts
  BY <1>1, <1>3, <1>4, JoinedFacts
<1>6. SafeText(file')
  BY <1>1, <1>3, <1>4, JoinedSafe
<1>7. EndOf(file', whole')
  BY <1>1, <1>3, <1>4, JoinedEnds DEF LogInv
<1>8. file'[Len(file')] = whole'[Len(whole')]
  BY <1>1, <1>3, <1>4, JoinedLast
<1> QED  BY <1>2, <1>5, <1>6, <1>7, <1>8 DEF LogInv

LEMMA LogStarts == LogInit => LogInv
<1> SUFFICES ASSUME LogInit PROVE LogInv
  OBVIOUS
<1>1. <<Empty>> \in FileTexts /\ Len(<<Empty>>) = 1 /\ <<Empty>>[1] = Empty
  <2>1. <<Empty>> \in Seq(Pieces) /\ Len(<<Empty>>) = 1 /\ <<Empty>>[1] = Empty
    BY SinglePieces
  <2>2. <<Empty>> # <<>>
    BY <2>1, EmptySeq
  <2> QED  BY <2>1, <2>2 DEF FileTexts
<1>2. SafeText(<<Empty>>)
  <2>1. \A i \in 1 .. 1 : i = 1
    OBVIOUS
  <2> QED  BY <1>1, <2>1, EmptyIsOpen, Zenon DEF SafeText
<1>3. EndOf(file, whole)
  BY <1>1, TextIsItsEnd DEF LogInit
<1>4. 0 \in 0 .. MaxWrites
  BY LogFileAssumption
<1> QED  BY <1>1, <1>2, <1>3, <1>4 DEF LogInit, LogInv

LEMMA LogKept == LogInv /\ [LogNext]_logVars => LogInv'
<1> SUFFICES ASSUME LogInv, [LogNext]_logVars PROVE LogInv'
  OBVIOUS
<1>1. CASE UNCHANGED logVars
  BY <1>1 DEF logVars, LogInv, NewestEntryKept
<1>2. ASSUME NEW batch \in Batches, WriteToLogFile(batch) \/ TrimFails(batch) \/ WriteFails(batch)
      PROVE  LogInv'
  BY <1>2, WriteKeeps, FailedTrimKeeps, FailedWriteKeeps
<1> QED  BY <1>1, <1>2 DEF LogNext

-----------------------------------------------------------------------------
\* The file is the newest part of everything that was appended to it since it was
\* made, or since the last trim that failed, without a gap and in its order, whatever
\* the payloads and the limit (vite.config.ts 33-46).
THEOREM FileIsNewestPart == LogSpec => []NewestPart
<1>1. LogInv => NewestPart
  BY EndIsFrom DEF LogInv, NewestPart
<1> QED  BY <1>1, LogStarts, LogKept, PTL DEF LogSpec

\* Whatever failed before, a write that was answered with success leaves a file
\* within its limit that ends with the last entry, unless its line is too large for
\* any trim; and an entry is torn, or shares its line with a later one, only where an
\* append or a trim failed before the newline of its line (27-69).
THEOREM LinesAlwaysSurvive == LogSpec => []LinesSurvive
<1>1. LogInv => LogTypeOK
  BY DEF LogInv, LogTypeOK, FileTexts
<1>2. LogInv => SharedWhereCut
  BY DEF LogInv, SafeText, SafePiece, SharedWhereCut
<1>3. LogInv => LinesSurvive
  BY <1>1, <1>2 DEF LogInv, LinesSurvive
<1> QED  BY <1>3, LogStarts, LogKept, PTL DEF LogSpec

-----------------------------------------------------------------------------
(* Sequences of entries: of numbers, which rise in the order of creation.  *)

Below(S, T) == \A x \in S : \A y \in T : x < y

Rising(s) == \A i, j \in DOMAIN s : i < j => s[i] < s[j]

Entry1 == Seq(Entries)

LEMMA EntriesOfSeq ==
  ASSUME NEW s \in Entry1
  PROVE  /\ Len(s) \in Nat /\ DOMAIN s = 1 .. Len(s)
         /\ Range(s) \subseteq Entries /\ Range(s) \subseteq Nat
         /\ \A x \in Range(s) : \E i \in 1 .. Len(s) : x = s[i]
         /\ \A i \in 1 .. Len(s) : s[i] \in Range(s)
<1>1. Len(s) \in Nat /\ DOMAIN s = 1 .. Len(s) /\ \A i \in 1 .. Len(s) : s[i] \in Entries
  BY DEF Entry1
<1>2. Entries \subseteq Nat
  BY ReportingAssumption DEF Entries
<1> HIDE DEF Entries, Entry1
<1> QED  BY <1>1, <1>2 DEF Range

LEMMA NoneOfEmpty == <<>> \in Entry1 /\ Range(<<>>) = {} /\ Rising(<<>>) /\ Len(<<>>) = 0
BY DEF Entry1, Range, Rising

\* One after the other.
LEMMA JoinedRise ==
  ASSUME NEW s \in Entry1, NEW t \in Entry1
  PROVE  /\ s \o t \in Entry1 /\ Range(s \o t) = Range(s) \cup Range(t)
         /\ Len(s \o t) = Len(s) + Len(t)
         /\ Rising(s) /\ Rising(t) /\ Below(Range(s), Range(t)) => Rising(s \o t)
<1>1. /\ s \o t \in Entry1 /\ Len(s \o t) = Len(s) + Len(t)
      /\ \A i \in 1 .. Len(s) + Len(t) : (s \o t)[i] = IF i <= Len(s) THEN s[i] ELSE t[i - Len(s)]
  BY ConcatProperties DEF Entry1
<1>2. Range(s \o t) = Range(s) \cup Range(t)
  BY RangeConcatenation DEF Entry1
<1>3. /\ Len(s) \in Nat /\ Len(t) \in Nat /\ DOMAIN s = 1 .. Len(s) /\ DOMAIN t = 1 .. Len(t)
      /\ DOMAIN (s \o t) = 1 .. Len(s) + Len(t)
      /\ \A i \in 1 .. Len(s) : s[i] \in Range(s)
      /\ \A i \in 1 .. Len(t) : t[i] \in Range(t)
  BY <1>1, EntriesOfSeq
<1>4. ASSUME Rising(s), Rising(t), Below(Range(s), Range(t)), NEW i \in 1 .. Len(s) + Len(t),
             NEW j \in 1 .. Len(s) + Len(t), i < j
      PROVE  (s \o t)[i] < (s \o t)[j]
  <2>1. CASE j <= Len(s)
    <3>1. i \in 1 .. Len(s) /\ j \in 1 .. Len(s) /\ i <= Len(s)
      BY <1>3, <1>4, <2>1
    <3> QED  BY <1>1, <1>3, <1>4, <2>1, <3>1 DEF Rising
  <2>2. CASE i <= Len(s) /\ ~(j <= Len(s))
    <3>1. i \in 1 .. Len(s) /\ j - Len(s) \in 1 .. Len(t)
      BY <1>3, <1>4, <2>2
    <3> QED  BY <1>1, <1>3, <1>4, <2>2, <3>1 DEF Below
  <2>3. CASE ~(i <= Len(s))
    <3>1. i - Len(s) \in 1 .. Len(t) /\ j - Len(s) \in 1 .. Len(t) /\ i - Len(s) < j - Len(s) /\ ~(j <= Len(s))
      BY <1>3, <1>4, <2>3
    <3> QED  BY <1>1, <1>3, <1>4, <2>3, <3>1 DEF Rising
  <2> QED  BY <1>3, <2>1, <2>2, <2>3
<1> QED  BY <1>1, <1>2, <1>3, <1>4 DEF Rising

\* The end of a sequence: what is not in it came before it.
LEMMA EndRises ==
  ASSUME NEW s \in Entry1, NEW m \in 1 .. Len(s) + 1
  PROVE  LET t == SubSeq(s, m, Len(s)) IN
         /\ t \in Entry1 /\ Len(t) = Len(s) - m + 1 /\ Range(t) \subseteq Range(s)
         /\ Rising(s) => Rising(t) /\ Below(Range(s) \ Range(t), Range(t))
<1> DEFINE t == SubSeq(s, m, Len(s))
<1>1. /\ Len(s) \in Nat /\ m \in Nat /\ 1 <= m /\ m <= Len(s) + 1 /\ DOMAIN s = 1 .. Len(s)
      /\ \A x \in Range(s) : \E i \in 1 .. Len(s) : x = s[i]
      /\ \A i \in 1 .. Len(s) : s[i] \in Range(s) /\ s[i] \in Entries /\ s[i] \in Nat
  BY EntriesOfSeq
<1>2. /\ t \in Entry1 /\ Len(t) = Len(s) - m + 1
      /\ \A i \in 1 .. Len(s) - m + 1 : t[i] = s[m + i - 1]
  <2>1. \A i \in m .. Len(s) : s[i] \in Entries
    BY <1>1
  <2>2. /\ t \in Seq(Entries) /\ Len(t) = IF m <= Len(s) THEN Len(s) - m + 1 ELSE 0
        /\ \A i \in 1 .. Len(s) - m + 1 : t[i] = s[m + i - 1]
    BY <1>1, <2>1, SubSeqProperties
  <2>3. (IF m <= Len(s) THEN Len(s) - m + 1 ELSE 0) = Len(s) - m + 1
    BY <1>1
  <2> QED  BY <2>2, <2>3 DEF Entry1
<1> HIDE DEF t
<1>3. /\ DOMAIN t = 1 .. Len(t)
      /\ \A x \in Range(t) : \E i \in 1 .. Len(t) : x = t[i]
      /\ \A i \in 1 .. Len(t) : t[i] \in Range(t)
  BY <1>2, EntriesOfSeq
<1>4. ASSUME NEW i \in 1 .. Len(t)
      PROVE  m + i - 1 \in 1 .. Len(s) /\ t[i] = s[m + i - 1]
  BY <1>1, <1>2
<1>5. Range(t) \subseteq Range(s)
  BY <1>1, <1>3, <1>4
<1>6. ASSUME Rising(s) PROVE Rising(t)
  <2>1. ASSUME NEW i \in 1 .. Len(t), NEW j \in 1 .. Len(t), i < j PROVE t[i] < t[j]
    <3>1. m + i - 1 < m + j - 1
      BY <1>1, <2>1
    <3>2. m + i - 1 \in DOMAIN s /\ m + j - 1 \in DOMAIN s
      BY <1>1, <1>4, <2>1
    <3>3. s[m + i - 1] < s[m + j - 1]
      BY <1>6, <3>1, <3>2 DEF Rising
    <3> QED  BY <1>4, <2>1, <3>3
  <2> QED  BY <1>3, <2>1 DEF Rising
<1>7. ASSUME Rising(s), NEW x \in Range(s) \ Range(t), NEW y \in Range(t) PROVE x < y
  <2>1. PICK i \in 1 .. Len(s) : x = s[i]
    BY <1>1
  <2>2. PICK j \in 1 .. Len(t) : y = t[j]
    BY <1>3
  <2>3. i < m
    <3>1. SUFFICES ASSUME ~(i < m) PROVE FALSE
      OBVIOUS
    <3>2. i - m + 1 \in 1 .. Len(t) /\ m + (i - m + 1) - 1 = i
      BY <1>1, <1>2, <3>1
    <3>3. t[i - m + 1] = s[i]
      BY <1>4, <3>2
    <3> QED  BY <1>3, <1>7, <2>1, <3>2, <3>3
  <2>4. m + j - 1 \in 1 .. Len(s) /\ y = s[m + j - 1] /\ i < m + j - 1
    BY <1>1, <1>4, <2>2, <2>3
  <2> QED  BY <1>1, <1>7, <2>1, <2>4 DEF Rising
<1>8. Below(Range(s) \ Range(t), Range(t)) \/ ~Rising(s)
  BY <1>7 DEF Below
<1> QED  BY <1>2, <1>5, <1>6, <1>8 DEF t

\* What pruneBuffer leaves, and what fits in a beacon, is the end of a buffer.
LEMMA LatestRises ==
  ASSUME NEW s \in Entry1, NEW n \in Nat
  PROVE  /\ Latest(s, n) \in Entry1 /\ Range(Latest(s, n)) \subseteq Range(s)
         /\ Len(Latest(s, n)) = IF Len(s) > n THEN n ELSE Len(s)
         /\ Rising(s) => Rising(Latest(s, n)) /\ Below(Range(s) \ Range(Latest(s, n)), Range(Latest(s, n)))
<1> DEFINE m == IF Len(s) > n THEN Len(s) - n + 1 ELSE 1
<1>1. Len(s) \in Nat
  BY EntriesOfSeq
<1>2. m \in 1 .. Len(s) + 1 /\ Len(s) - m + 1 = IF Len(s) > n THEN n ELSE Len(s)
  BY <1>1
<1>3. Latest(s, n) = SubSeq(s, m, Len(s))
  BY DEF Latest
<1> HIDE DEF m
<1> QED  BY <1>2, <1>3, EndRises

\* A short sequence is all of its end.
LEMMA ShortIsLatest ==
  ASSUME NEW s \in Entry1, NEW n \in Nat, Len(s) <= n
  PROVE  Latest(s, n) = s
<1>1. Len(s) \in Nat /\ ~(Len(s) > n)
  BY EntriesOfSeq
<1>2. SubSeq(s, 1, Len(s)) = s
  BY SubSeqFull DEF Entry1
<1> QED  BY <1>1, <1>2 DEF Latest

\* Of two sequences one after the other, the end that is no longer than the second is
\* the end of the second.
LEMMA LatestOfSecond ==
  ASSUME NEW s \in Entry1, NEW t \in Entry1, NEW n \in Nat, Len(t) = n
  PROVE  Latest(s \o t, n) = t
<1>1. /\ s \o t \in Entry1 /\ Len(s \o t) = Len(s) + Len(t) /\ Len(s) \in Nat /\ Len(t) \in Nat
      /\ \A i \in 1 .. Len(s) + Len(t) : (s \o t)[i] = IF i <= Len(s) THEN s[i] ELSE t[i - Len(s)]
  BY ConcatProperties, EntriesOfSeq DEF Entry1
<1> DEFINE m == IF Len(s \o t) > n THEN Len(s \o t) - n + 1 ELSE 1
           u == SubSeq(s \o t, m, Len(s \o t))
<1>2. m = Len(s) + 1
  BY <1>1
<1>3. \A i \in m .. Len(s \o t) : (s \o t)[i] \in Entries
  BY <1>1, <1>2, EntriesOfSeq DEF Entry1
<1>4. /\ u \in Entry1 /\ Len(u) = Len(t)
      /\ \A i \in 1 .. Len(t) : u[i] = (s \o t)[Len(s) + i]
  <2>1. /\ u \in Seq(Entries) /\ Len(u) = IF m <= Len(s \o t) THEN Len(s \o t) - m + 1 ELSE 0
        /\ \A i \in 1 .. Len(s \o t) - m + 1 : u[i] = (s \o t)[m + i - 1]
    BY <1>1, <1>2, <1>3, SubSeqProperties
  <2>2. /\ (IF m <= Len(s \o t) THEN Len(s \o t) - m + 1 ELSE 0) = Len(t)
        /\ Len(s \o t) - m + 1 = Len(t)
        /\ \A i \in 1 .. Len(t) : m + i - 1 = Len(s) + i
    BY <1>1, <1>2
  <2> HIDE DEF u, m
  <2>3. \A i \in 1 .. Len(t) : u[i] = (s \o t)[Len(s) + i]
    BY <2>1, <2>2
  <2> QED  BY <2>1, <2>2, <2>3, Zenon DEF Entry1
<1>5. \A i \in 1 .. Len(t) : u[i] = t[i]
  <2> TAKE i \in 1 .. Len(t)
  <2>1. Len(s) + i \in 1 .. Len(s) + Len(t) /\ ~(Len(s) + i <= Len(s)) /\ Len(s) + i - Len(s) = i
    BY <1>1
  <2> HIDE DEF u
  <2> QED  BY <1>1, <1>4, <2>1
<1>6. Latest(s \o t, n) = u
  BY DEF Latest
<1> HIDE DEF u
<1>7. u = t
  BY <1>4, <1>5, SeqEqual DEF Entry1
<1> QED  BY <1>6, <1>7

-----------------------------------------------------------------------------
(* Reporting: no entry vanishes, and none overtakes another.               *)
(*                                                                         *)
(* What is under way is older than what is buffered, and both are younger  *)
(* than what was evicted, or the buffer is full: then what is put back     *)
(* finds no room.                                                          *)

States == {"free", "sent", "beacon", "written", "refused", "lost"}

EntriesByKind == [Kind -> Entry1]

ReportStates == [state : States, data : EntriesByKind]

ReportingShape ==
  /\ store \in EntriesByKind /\ logged \in EntriesByKind
  /\ \A k \in Kind : Len(store[k]) <= BufferSize[k]
  /\ created \in [Kind -> 0 .. MaxEntries]
  /\ report \in [Reports -> ReportStates]
  /\ page \in {"open", "gone"} /\ faults \in 0 .. MaxFaults
  /\ evicted \in [Kind -> SUBSET Entries] /\ refused \in [Kind -> SUBSET Entries]
  /\ overlapped \in BOOLEAN /\ doubtful \in BOOLEAN
  /\ unwritable \in [Kind -> SUBSET Entries] /\ thrown \in [Kind -> SUBSET Entries]

EntryIsSomewhere(k, id) ==
  \/ Kept1(k, id)
  \/ id \in Range(logged[k]) \/ id \in evicted[k] \/ id \in refused[k]
  \/ LostToThrow(k, id)
  \/ page = "gone"

NoneVanished == \A k \in Kind : \A id \in 1 .. created[k] : EntryIsSomewhere(k, id)

BufferInOrder(k) ==
  /\ Rising(store[k]) /\ Below(evicted[k], Range(store[k]))
  /\ \A id \in Range(store[k]) \cup Range(logged[k]) \cup evicted[k] : id <= created[k]

ReportInOrder(k, r) ==
  report[r].state # "free" =>
    /\ Rising(report[r].data[k])
    /\ \A id \in Range(report[r].data[k]) : id <= created[k]
    /\ report[r].state # "beacon" =>
         /\ Below(Range(report[r].data[k]), Range(store[k]))
         /\ Below(evicted[k], Range(report[r].data[k])) \/ Len(store[k]) = BufferSize[k]

LogInOrder(k) ==
  /\ Rising(logged[k])
  /\ page = "open" => Below(Range(logged[k]), Range(store[k]))
  /\ \A r \in Reports :
       /\ report[r].state \in {"sent", "lost", "beacon"} => Below(Range(logged[k]), Range(report[r].data[k]))
       /\ report[r].state = "beacon" => page = "gone"

OneReport == \A r, q \in UnderWay : r = q

AllInOrder ==
  \A k \in Kind : /\ BufferInOrder(k) /\ \A r \in Reports : ReportInOrder(k, r)
                  /\ doubtful \/ LogInOrder(k)

OrderInv == overlapped \/ (OneReport /\ AllInOrder)

ReportingInv == ReportingShape /\ NoneVanished /\ OrderInv

LEMMA BufferFacts ==
  ASSUME NEW k \in Kind
  PROVE  BufferSize[k] \in Nat \ {0} /\ \A s : Pruned(s, k) = Latest(s, BufferSize[k])
BY ReportingAssumption DEF Kind, Pruned, Latest

LEMMA FreeIsAReport == Free \in ReportStates /\ Free.state = "free" /\ NoEntries \in EntriesByKind
<1>1. NoEntries \in EntriesByKind
  BY NoneOfEmpty DEF NoEntries, EntriesByKind
<1> HIDE DEF EntriesByKind, NoEntries
<1> QED  BY <1>1 DEF Free, ReportStates, States

LEMMA ReportingBegins == ReportingInit => ReportingInv
<1> SUFFICES ASSUME ReportingInit PROVE ReportingInv
  OBVIOUS
<1>1. /\ store = NoEntries /\ logged = NoEntries /\ created = [k \in Kind |-> 0]
      /\ report = [r \in Reports |-> Free] /\ page = "open" /\ faults = 0
      /\ evicted = [k \in Kind |-> {}] /\ refused = [k \in Kind |-> {}]
      /\ overlapped = FALSE /\ doubtful = FALSE
      /\ unwritable = [k \in Kind |-> {}] /\ thrown = [k \in Kind |-> {}]
  BY DEF ReportingInit
<1>2. \A k \in Kind : NoEntries[k] = <<>>
  BY DEF NoEntries
<1>3. \A k \in Kind : Len(<<>>) <= BufferSize[k] /\ BufferSize[k] \in Nat
  BY BufferFacts, NoneOfEmpty
<1>4. ReportingShape
  <2>1. 0 \in 0 .. MaxEntries /\ 0 \in 0 .. MaxFaults
    BY ReportingAssumption
  <2>2. \A k \in Kind : Len(store[k]) <= BufferSize[k]
    BY <1>1, <1>2, <1>3
  <2>3. report \in [Reports -> ReportStates] /\ store \in EntriesByKind /\ logged \in EntriesByKind
    BY <1>1, FreeIsAReport, Zenon
  <2>4. created \in [Kind -> 0 .. MaxEntries]
    BY <1>1, <2>1
  <2>5. /\ evicted \in [Kind -> SUBSET Entries] /\ refused \in [Kind -> SUBSET Entries]
        /\ unwritable \in [Kind -> SUBSET Entries] /\ thrown \in [Kind -> SUBSET Entries]
    BY <1>1
  <2> QED  BY <1>1, <2>1, <2>2, <2>3, <2>4, <2>5, Zenon DEF ReportingShape
<1>5. NoneVanished
  BY <1>1 DEF NoneVanished
<1>6. OrderInv
  <2>1. UnderWay = {}
    BY <1>1, FreeIsAReport DEF UnderWay
  <2>2. ASSUME NEW k \in Kind PROVE BufferInOrder(k) /\ LogInOrder(k) /\ \A r \in Reports : ReportInOrder(k, r)
    <3>1. store[k] = <<>> /\ logged[k] = <<>> /\ evicted[k] = {}
      BY <1>1, <1>2
    <3>2. \A r \in Reports : report[r].state = "free"
      BY <1>1, FreeIsAReport
    <3> QED  BY <3>1, <3>2, NoneOfEmpty DEF BufferInOrder, LogInOrder, ReportInOrder, Below
  <2> QED  BY <2>1, <2>2 DEF OrderInv, OneReport, AllInOrder
<1> QED  BY <1>4, <1>5, <1>6 DEF ReportingInv

-----------------------------------------------------------------------------
(* What a step does to the buffers.                                        *)

\* The buffers become the ends of what they are given; what is lost of it is evicted.
LEMMA BufferEnds ==
  ASSUME ReportingShape, NEW data \in EntriesByKind, Buffer(data)
  PROVE  /\ store' \in EntriesByKind /\ evicted' \in [Kind -> SUBSET Entries]
         /\ \A k \in Kind : /\ store'[k] = Latest(data[k], BufferSize[k])
                            /\ evicted'[k] = evicted[k] \cup (Range(data[k]) \ Range(store'[k]))
                            /\ Len(store'[k]) <= BufferSize[k]
<1>1. \A k \in Kind : data[k] \in Entry1 /\ BufferSize[k] \in Nat
  BY BufferFacts DEF EntriesByKind
<1>2. \A k \in Kind : Pruned(data[k], k) = Latest(data[k], BufferSize[k])
  BY BufferFacts
<1>3. \A k \in Kind : /\ store'[k] = Latest(data[k], BufferSize[k])
                      /\ evicted'[k] = evicted[k] \cup (Range(data[k]) \ Range(store'[k]))
  BY <1>2 DEF Buffer
<1>4. \A k \in Kind : /\ Latest(data[k], BufferSize[k]) \in Entry1
                      /\ Len(Latest(data[k], BufferSize[k])) <= BufferSize[k]
  <2> TAKE k \in Kind
  <2>1. /\ Latest(data[k], BufferSize[k]) \in Entry1 /\ Len(data[k]) \in Nat
        /\ Len(Latest(data[k], BufferSize[k]))
             = IF Len(data[k]) > BufferSize[k] THEN BufferSize[k] ELSE Len(data[k])
    BY <1>1, LatestRises, EntriesOfSeq
  <2> QED  BY <1>1, <2>1
<1>5. store' \in EntriesByKind
  <2>1. store' = [k \in Kind |-> store'[k]]
    BY DEF Buffer
  <2>2. \A k \in Kind : store'[k] \in Entry1
    BY <1>3, <1>4, Zenon
  <2> QED  BY <2>1, <2>2 DEF EntriesByKind
<1>6. evicted' \in [Kind -> SUBSET Entries]
  <2>1. evicted' = [k \in Kind |-> evicted'[k]]
    BY DEF Buffer
  <2>2. \A k \in Kind : evicted'[k] \subseteq Entries
    BY <1>1, <1>3, EntriesOfSeq DEF ReportingShape
  <2> QED  BY <2>1, <2>2
<1>7. \A k \in Kind : Len(store'[k]) <= BufferSize[k]
  BY <1>3, <1>4, Zenon
<1> QED  BY <1>3, <1>5, <1>6, <1>7

\* A report becomes another, the others stay as they are.
LEMMA OneReportChanges ==
  ASSUME ReportingShape, NEW r \in Reports, NEW changed \in ReportStates,
         report' = [report EXCEPT ![r] = changed]
  PROVE  /\ report' \in [Reports -> ReportStates] /\ report'[r] = changed
         /\ \A q \in Reports \ {r} : report'[q] = report[q]
BY DEF ReportingShape

\* What is carried is the same while only the state of a report changes.
LEMMA StateChanges ==
  ASSUME ReportingShape, NEW r \in Reports, NEW state \in States
  PROVE  /\ [report[r] EXCEPT !.state = state] \in ReportStates
         /\ [report[r] EXCEPT !.state = state].state = state
         /\ [report[r] EXCEPT !.state = state].data = report[r].data
BY DEF ReportingShape, ReportStates

LEMMA DataAreEntries ==
  ASSUME ReportingShape, NEW r \in Reports, NEW k \in Kind
  PROVE  /\ report[r].data \in EntriesByKind /\ report[r].data[k] \in Entry1 /\ report[r].state \in States
         /\ store[k] \in Entry1 /\ logged[k] \in Entry1 /\ BufferSize[k] \in Nat \ {0}
         /\ created[k] \in 0 .. MaxEntries
<1>1. report[r] \in ReportStates /\ created[k] \in 0 .. MaxEntries
  BY DEF ReportingShape
<1>2. report[r].data \in EntriesByKind /\ report[r].state \in States
  BY <1>1 DEF ReportStates
<1> QED  BY <1>1, <1>2, BufferFacts DEF ReportingShape, EntriesByKind

\* A report under way is written, refused or lost, or is over: the order is kept, for it
\* is the only one under way, and what it carries comes after what is logged.
LEMMA SettledKeepsOrder ==
  ASSUME ReportingInv, NEW r \in Reports, NEW changed \in ReportStates,
         report[r].state # "free", report' = [report EXCEPT ![r] = changed],
         UNCHANGED <<store, evicted, created, overlapped, page>>,
         \/ changed.state = "free"
         \/ /\ changed.data = report[r].data /\ changed.state \in {"written", "refused", "lost"}
            /\ report[r].state # "beacon",
         \A k \in Kind :
           \/ logged'[k] = logged[k]
           \/ /\ report[r].state \in {"sent", "beacon"} /\ changed.state # "lost"
              /\ logged'[k] = logged[k] \o report[r].data[k],
         doubtful' \in BOOLEAN, doubtful => doubtful',
         changed.state = "lost" => report[r].state = "sent" \/ doubtful'
  PROVE  OrderInv'
<1>1. CASE overlapped
  BY <1>1 DEF OrderInv
<1>2. CASE ~overlapped
  <2>1. /\ report' \in [Reports -> ReportStates] /\ report'[r] = changed
        /\ \A q \in Reports \ {r} : report'[q] = report[q]
    BY OneReportChanges DEF ReportingInv
  <2>2. OneReport /\ AllInOrder
    BY <1>2 DEF ReportingInv, OrderInv
  <2>3. \A q \in Reports \ {r} : report[q].state = "free" /\ report'[q].state = "free"
    BY <2>1, <2>2 DEF OneReport, UnderWay
  <2>4. OneReport'
    BY <2>3 DEF OneReport, UnderWay
  <2>5. ASSUME NEW k \in Kind
        PROVE  /\ BufferInOrder(k)' /\ (\A q \in Reports : ReportInOrder(k, q)')
               /\ (doubtful' \/ LogInOrder(k)')
    <3>1. /\ BufferInOrder(k) /\ ReportInOrder(k, r) /\ (doubtful \/ LogInOrder(k))
          /\ UNCHANGED <<store, evicted, created, page>>
      BY <2>2 DEF AllInOrder
    <3>2. /\ logged[k] \in Entry1 /\ report[r].data[k] \in Entry1 /\ store[k] \in Entry1
          /\ logged[k] \o report[r].data[k] \in Entry1
          /\ Range(logged[k] \o report[r].data[k]) = Range(logged[k]) \cup Range(report[r].data[k])
      BY DataAreEntries, JoinedRise DEF ReportingInv
    <3>3. BufferInOrder(k)'
      BY <3>1, <3>2 DEF BufferInOrder, ReportInOrder
    <3>4. ReportInOrder(k, r)'
      BY <2>1, <3>1 DEF ReportInOrder
    <3>5. \A q \in Reports : ReportInOrder(k, q)'
      BY <2>3, <3>4 DEF ReportInOrder
    <3>6. ASSUME ~doubtful' PROVE LogInOrder(k)'
      <4>1. LogInOrder(k) /\ ~doubtful
        BY <3>1, <3>6 DEF ReportingInv, ReportingShape
      <4>2. \A q \in Reports : report'[q].state = "beacon" => page' = "gone"
        BY <2>1, <2>3
      <4>3. CASE logged'[k] = logged[k]
        <5>1. ASSUME NEW q \in Reports, report'[q].state \in {"sent", "lost", "beacon"}
              PROVE  Below(Range(logged'[k]), Range(report'[q].data[k]))
          <6>1. q = r
            BY <2>3, <5>1
          <6>2. report[r].state = "sent" /\ report'[q].data = report[r].data
            BY <2>1, <3>6, <5>1, <6>1
          <6> QED  BY <4>1, <4>3, <6>2 DEF LogInOrder
        <5> QED  BY <3>1, <4>1, <4>2, <4>3, <5>1 DEF LogInOrder
      <4>4. CASE /\ report[r].state \in {"sent", "beacon"} /\ changed.state # "lost"
                 /\ logged'[k] = logged[k] \o report[r].data[k]
        <5>1. Below(Range(logged[k]), Range(report[r].data[k])) /\ Rising(logged[k])
          BY <4>1, <4>4 DEF LogInOrder
        <5>2. Rising(logged'[k])
          BY <3>1, <3>2, <4>4, <5>1, JoinedRise DEF ReportInOrder
        <5>3. Range(logged'[k]) = Range(logged[k]) \cup Range(report[r].data[k])
          BY <3>2, <4>4
        <5>4. page = "open" => Below(Range(logged'[k]), Range(store[k]))
          <6>1. page = "open" => report[r].state # "beacon" /\ Below(Range(logged[k]), Range(store[k]))
            BY <4>1 DEF LogInOrder
          <6> QED  BY <3>1, <4>4, <5>3, <6>1 DEF ReportInOrder, Below
        <5>5. \A q \in Reports : report'[q].state \notin {"sent", "lost", "beacon"}
          BY <2>1, <2>3, <4>4
        <5> QED  BY <3>1, <5>2, <5>4, <5>5 DEF LogInOrder
      <4> QED  BY <4>3, <4>4
    <3> QED  BY <3>3, <3>5, <3>6 DEF ReportingInv
  <2> QED  BY <2>4, <2>5 DEF OrderInv, AllInOrder
<1> QED  BY <1>1, <1>2 DEF ReportingInv, ReportingShape

\* A report is sent while no other is under way: it carries the end of the buffers.
LEMMA DispatchKeepsOrder ==
  ASSUME ReportingInv, NEW r \in Reports, NEW state \in {"sent", "beacon"}, NEW data \in EntriesByKind,
         Dispatch(r, state, data), UNCHANGED <<evicted, created, logged>>,
         \A k \in Kind : Rising(store[k]) => Rising(data[k]) /\ Range(data[k]) \subseteq Range(store[k]),
         \/ state = "sent" /\ page = "open" /\ store' = NoEntries /\ UNCHANGED <<page, doubtful>>
         \/ /\ state = "beacon" /\ page = "open" /\ UNCHANGED store
            /\ doubtful' \in BOOLEAN /\ (doubtful => doubtful') /\ (page' = "gone" \/ doubtful')
  PROVE  OrderInv'
<1>1. /\ report[r].state = "free" /\ overlapped' = (overlapped \/ UnderWay # {})
      /\ report' = [report EXCEPT ![r] = [state |-> state, data |-> data]]
  BY DEF Dispatch
<1>2. CASE overlapped'
  BY <1>2 DEF OrderInv
<1>3. CASE ~overlapped'
  <2>1. PICK changed \in ReportStates : changed = [state |-> state, data |-> data]
    BY DEF ReportStates, States
  <2>2. changed.state = state /\ changed.data = data /\ report' = [report EXCEPT ![r] = changed]
    BY <1>1, <2>1
  <2>3. /\ report'[r] = changed /\ \A q \in Reports \ {r} : report'[q] = report[q]
    BY <2>2, OneReportChanges DEF ReportingInv
  <2>4. ~overlapped /\ \A q \in Reports : report[q].state = "free"
    BY <1>1, <1>3 DEF UnderWay, ReportingInv, ReportingShape
  <2>5. AllInOrder /\ (\A q \in Reports \ {r} : report'[q].state = "free")
    BY <2>3, <2>4 DEF ReportingInv, OrderInv
  <2>6. OneReport'
    BY <2>5 DEF OneReport, UnderWay
  <2>7. ASSUME NEW k \in Kind
        PROVE  /\ BufferInOrder(k)' /\ (\A q \in Reports : ReportInOrder(k, q)')
               /\ (doubtful' \/ LogInOrder(k)')
    <3>1. /\ Rising(store[k]) /\ Below(evicted[k], Range(store[k]))
          /\ (\A id \in Range(store[k]) \cup Range(logged[k]) \cup evicted[k] : id <= created[k])
          /\ doubtful \/ LogInOrder(k)
      BY <2>5 DEF AllInOrder, BufferInOrder
    <3>2. /\ Rising(data[k]) /\ Range(data[k]) \subseteq Range(store[k])
          /\ (state = "sent" => store'[k] = <<>> /\ Range(store'[k]) = {} /\ page = "open" /\ page' = "open")
          /\ (state = "beacon" => store' = store)
      BY <3>1, NoneOfEmpty DEF NoEntries
    <3>3. BufferInOrder(k)'
      BY <3>1, <3>2, NoneOfEmpty DEF BufferInOrder, Below
    <3>4. ReportInOrder(k, r)'
      BY <2>2, <2>3, <3>1, <3>2 DEF ReportInOrder, Below
    <3>5. \A q \in Reports : ReportInOrder(k, q)'
      BY <2>5, <3>4 DEF ReportInOrder
    <3>6. ASSUME ~doubtful' PROVE LogInOrder(k)'
      <4>1. LogInOrder(k) /\ page = "open" /\ Below(Range(logged[k]), Range(store[k]))
        BY <3>1, <3>6 DEF ReportingInv, ReportingShape, LogInOrder
      <4>2. Below(Range(logged[k]), Range(data[k]))
        BY <3>2, <4>1 DEF Below
      <4>3. page' = "open" => Below(Range(logged'[k]), Range(store'[k]))
        BY <3>2, <3>6, <4>1 DEF Below
      <4>4. state = "beacon" => page' = "gone"
        BY <3>6
      <4> QED  BY <2>2, <2>3, <2>5, <4>1, <4>2, <4>3, <4>4 DEF LogInOrder
    <3> QED  BY <3>3, <3>5, <3>6 DEF ReportingInv
  <2> QED  BY <2>6, <2>7 DEF OrderInv, AllInOrder
<1> QED  BY <1>1, <1>2, <1>3 DEF ReportingInv, ReportingShape

\* The buffers become the ends of rising sequences that are younger than what was evicted;
\* whatever is under way stays older than what is buffered.
LEMMA BufferKeepsOrder ==
  ASSUME ReportingInv, ~overlapped, NEW k \in Kind, NEW s \in Entry1,
         store'[k] = Latest(s, BufferSize[k]),
         evicted'[k] = evicted[k] \cup (Range(s) \ Range(store'[k])),
         Rising(s), Below(evicted[k], Range(store'[k])),
         logged' = logged, page' = page, doubtful' = doubtful,
         \A id \in Range(s) : id <= created'[k], created[k] <= created'[k], created'[k] \in Nat,
         page = "open", doubtful \/ Below(Range(logged[k]), Range(s)),
         \A r \in Reports : report'[r].state # "free" =>
           /\ report'[r] = report[r]
           /\ report[r].state # "beacon" =>
                /\ Below(Range(report[r].data[k]), Range(s))
                /\ \/ Len(store'[k]) = BufferSize[k]
                   \/ evicted'[k] = evicted[k] /\ Len(store[k]) # BufferSize[k]
  PROVE  /\ BufferInOrder(k)' /\ (\A r \in Reports : ReportInOrder(k, r)')
         /\ (doubtful' \/ LogInOrder(k)')
<1>1. /\ store'[k] \in Entry1 /\ Range(store'[k]) \subseteq Range(s)
      /\ Rising(store'[k]) /\ Below(Range(s) \ Range(store'[k]), Range(store'[k]))
  <2>1. BufferSize[k] \in Nat
    BY BufferFacts
  <2>2. PICK n \in Nat : n = BufferSize[k]
    BY <2>1
  <2>3. store'[k] = Latest(s, n)
    BY <2>2
  <2>4. /\ Latest(s, n) \in Entry1 /\ Range(Latest(s, n)) \subseteq Range(s)
        /\ Rising(s) =>
             Rising(Latest(s, n)) /\ Below(Range(s) \ Range(Latest(s, n)), Range(Latest(s, n)))
    BY LatestRises
  <2> QED  BY <2>3, <2>4
<1>2. BufferInOrder(k) /\ (\A r \in Reports : ReportInOrder(k, r)) /\ (doubtful \/ LogInOrder(k))
  BY DEF ReportingInv, OrderInv, AllInOrder
<1>3. BufferInOrder(k)'
  <2>1. Below(evicted'[k], Range(store'[k]))
    BY <1>1 DEF Below
  <2>2. \A id \in Range(store'[k]) : id <= created'[k]
    BY <1>1
  <2>3. \A id \in Range(logged[k]) \cup evicted[k] : id <= created'[k]
    <3>1. Range(logged[k]) \subseteq Nat /\ created[k] \in Nat /\ evicted[k] \subseteq Nat
      <4>1. evicted[k] \subseteq Entries
        BY DEF ReportingInv, ReportingShape
      <4>2. Range(logged[k]) \subseteq Nat /\ created[k] \in 0 .. MaxEntries
        <5>1. logged \in EntriesByKind /\ created[k] \in 0 .. MaxEntries
          BY DEF ReportingInv, ReportingShape
        <5>2. logged[k] \in Entry1
          BY <5>1 DEF EntriesByKind
        <5> QED  BY <5>1, <5>2, EntriesOfSeq
      <4> QED  BY <4>1, <4>2, ReportingAssumption DEF Entries
    <3> QED  BY <1>2, <3>1 DEF BufferInOrder
  <2>4. \A id \in evicted'[k] : id <= created'[k]
    BY <2>3
  <2> QED  BY <1>1, <2>1, <2>2, <2>3, <2>4 DEF BufferInOrder
<1>4. ASSUME NEW r \in Reports, report'[r].state # "free" PROVE ReportInOrder(k, r)'
  <2>1. report'[r] = report[r] /\ ReportInOrder(k, r)
    BY <1>2, <1>4
  <2>2. Range(report[r].data[k]) \subseteq Nat /\ created[k] \in Nat
    BY DataAreEntries, EntriesOfSeq, ReportingAssumption DEF ReportingInv, ReportingShape
  <2>3. Rising(report[r].data[k]) /\ \A id \in Range(report[r].data[k]) : id <= created'[k]
    BY <1>4, <2>1, <2>2 DEF ReportInOrder
  <2>4. CASE report[r].state # "beacon"
    <3>1. Below(Range(report[r].data[k]), Range(store'[k]))
      BY <1>1, <1>4, <2>4 DEF Below
    <3>2. Below(evicted'[k], Range(report[r].data[k])) \/ Len(store'[k]) = BufferSize[k]
      BY <1>4, <2>1, <2>4 DEF ReportInOrder
    <3> QED  BY <2>1, <2>3, <3>1, <3>2 DEF ReportInOrder
  <2> QED  BY <2>1, <2>3, <2>4 DEF ReportInOrder
<1>5. \A r \in Reports : ReportInOrder(k, r)'
  BY <1>4 DEF ReportInOrder
<1>6. ASSUME ~doubtful PROVE LogInOrder(k)'
  <2>1. LogInOrder(k) /\ Below(Range(logged[k]), Range(store'[k]))
    BY <1>1, <1>2, <1>6 DEF Below
  <2>2. \A r \in Reports : report'[r].state \in {"sent", "lost", "beacon"} => report'[r] = report[r]
    OBVIOUS
  <2> QED  BY <2>1, <2>2 DEF LogInOrder
<1> QED  BY <1>3, <1>5, <1>6

-----------------------------------------------------------------------------
(* The page's steps.                                                       *)

LEMMA RecordKeeps ==
  ASSUME ReportingInv, NEW event \in Events, RecordEvent(event)
  PROVE  ReportingInv'
<1> DEFINE data == [k \in Kind |-> IF k \in event THEN Append(store[k], created[k] + 1) ELSE store[k]]
<1>1. /\ page = "open" /\ (\A k \in event : created[k] < MaxEntries)
      /\ created' = [k \in Kind |-> IF k \in event THEN created[k] + 1 ELSE created[k]]
      /\ Buffer(data) /\ event \subseteq Kind
      /\ UNCHANGED <<report, logged, page, refused, overlapped, doubtful, thrown>>
      /\ ReportingShape
  BY ReportingAssumption DEF RecordEvent, ReportingInv, Kind
<1>2. ASSUME NEW k \in Kind
      PROVE  /\ created'[k] \in 0 .. MaxEntries /\ created'[k] \in Nat /\ created[k] \in Nat
             /\ created[k] <= created'[k]
             /\ data[k] \in Entry1
             /\ k \in event => /\ created'[k] = created[k] + 1
                               /\ data[k] = store[k] \o <<created[k] + 1>>
                               /\ <<created[k] + 1>> \in Entry1
                               /\ Range(<<created[k] + 1>>) = {created[k] + 1}
                               /\ Len(data[k]) = Len(store[k]) + 1
             /\ k \notin event => created'[k] = created[k] /\ data[k] = store[k]
             /\ Range(data[k]) = Range(store[k]) \cup (IF k \in event THEN {created[k] + 1} ELSE {})
  <2>1. created[k] \in 0 .. MaxEntries /\ store[k] \in Entry1 /\ MaxEntries \in Nat
    BY <1>1, DataAreEntries, ReportingAssumption DEF ReportingShape, EntriesByKind
  <2>2. CASE k \in event
    <3>1. created[k] + 1 \in Entries /\ created'[k] = created[k] + 1 /\ created'[k] \in 0 .. MaxEntries
      BY <1>1, <2>1, <2>2 DEF Entries
    <3>2. <<created[k] + 1>> \in Entry1 /\ Range(<<created[k] + 1>>) = {created[k] + 1} /\ Len(<<created[k] + 1>>) = 1
      BY <3>1 DEF Entry1, Range
    <3>3. data[k] = store[k] \o <<created[k] + 1>>
      <4>1. data[k] = Append(store[k], created[k] + 1)
        BY <2>2
      <4> QED  BY <2>1, <3>1, <4>1, AppendIsConcat DEF Entry1
    <3>4. /\ data[k] \in Entry1 /\ Range(data[k]) = Range(store[k]) \cup {created[k] + 1}
          /\ Len(data[k]) = Len(store[k]) + 1
      <4> HIDE DEF data
      <4> QED  BY <2>1, <3>2, <3>3, JoinedRise
    <3> HIDE DEF data
    <3> QED  BY <2>1, <2>2, <3>1, <3>2, <3>3, <3>4
  <2>3. CASE k \notin event
    BY <1>1, <2>1, <2>3
  <2> QED  BY <2>2, <2>3
<1>3. data \in EntriesByKind
  BY <1>2 DEF EntriesByKind
<1> HIDE DEF data
<1>4. /\ store' \in EntriesByKind /\ evicted' \in [Kind -> SUBSET Entries]
      /\ \A k \in Kind : /\ store'[k] = Latest(data[k], BufferSize[k])
                         /\ evicted'[k] = evicted[k] \cup (Range(data[k]) \ Range(store'[k]))
                         /\ Len(store'[k]) <= BufferSize[k]
  BY <1>1, <1>3, BufferEnds
<1>a. /\ faults' \in 0 .. MaxFaults /\ unwritable' \in [Kind -> SUBSET Entries]
      /\ \A k \in Kind : unwritable[k] \subseteq unwritable'[k]
  <2>1. /\ faults \in 0 .. MaxFaults /\ MaxFaults \in Nat /\ unwritable \in [Kind -> SUBSET Entries]
    BY <1>1, ReportingAssumption DEF ReportingShape
  <2>2. CASE UNCHANGED <<unwritable, faults>>
    BY <2>1, <2>2
  <2>3. CASE ~UNCHANGED <<unwritable, faults>>
    <3>1. PICK k \in event :
            /\ faults < MaxFaults /\ faults' = faults + 1
            /\ unwritable' = [unwritable EXCEPT ![k] = @ \cup {created[k] + 1}]
      BY <2>3 DEF RecordEvent
    <3>2. k \in Kind /\ created[k] + 1 \in Entries
      <4>1. k \in Kind /\ created[k] < MaxEntries
        BY <1>1
      <4>2. created[k] \in Nat /\ MaxEntries \in Nat
        BY <1>2, <4>1, ReportingAssumption
      <4> QED  BY <4>1, <4>2 DEF Entries
    <3> QED  BY <2>1, <3>1, <3>2
  <2> QED  BY <2>2, <2>3
<1>5. ReportingShape'
  <2>1. created' \in [Kind -> 0 .. MaxEntries]
    <3>1. created' = [k \in Kind |-> created'[k]]
      BY <1>1
    <3> QED  BY <1>2, <3>1
  <2> QED  BY <1>1, <1>4, <1>a, <2>1 DEF ReportingShape
<1>6. NoneVanished'
  <2>1. SUFFICES ASSUME NEW k \in Kind, NEW id \in 1 .. created'[k] PROVE EntryIsSomewhere(k, id)'
    BY DEF NoneVanished
  <2>2. id \in 1 .. created[k] \/ id \in Range(data[k])
    <3>1. created[k] \in Nat /\ created'[k] \in Nat
      BY <1>2
    <3>2. CASE k \in event
      <4>1. created'[k] = created[k] + 1 /\ created[k] + 1 \in Range(data[k])
        BY <1>2, <3>2
      <4> QED  BY <2>1, <3>1, <4>1
    <3>3. CASE k \notin event
      <4>1. created'[k] = created[k]
        BY <1>2, <3>3
      <4> QED  BY <2>1, <4>1
    <3> QED  BY <3>2, <3>3
  <2>3. Range(store[k]) \subseteq Range(data[k])
    BY <1>2
  <2>4. CASE id \in Range(data[k])
    BY <1>4, <2>4 DEF EntryIsSomewhere, Kept1
  <2>5. CASE id \in 1 .. created[k]
    <3>1. EntryIsSomewhere(k, id)
      BY <2>5 DEF ReportingInv, NoneVanished
    <3>2. LostToThrow(k, id) => LostToThrow(k, id)'
      BY <1>1, <1>a DEF LostToThrow
    <3> QED  BY <1>1, <1>4, <2>3, <2>4, <3>1, <3>2 DEF EntryIsSomewhere, Kept1
  <2> QED  BY <2>2, <2>4, <2>5
<1>7. OrderInv'
  <2>1. SUFFICES ASSUME ~overlapped PROVE OneReport' /\ AllInOrder'
    BY <1>1 DEF OrderInv
  <2>2. OneReport /\ AllInOrder
    BY <2>1 DEF ReportingInv, OrderInv
  <2>3. OneReport'
    BY <1>1, <2>2 DEF OneReport, UnderWay
  <2>4. ASSUME NEW k \in Kind
        PROVE  /\ BufferInOrder(k)' /\ (\A q \in Reports : ReportInOrder(k, q)')
               /\ (doubtful' \/ LogInOrder(k)')
    <3>1. /\ BufferInOrder(k) /\ (\A r \in Reports : ReportInOrder(k, r)) /\ (doubtful \/ LogInOrder(k))
          /\ store[k] \in Entry1 /\ logged[k] \in Entry1
          /\ BufferSize[k] \in Nat \ {0} /\ Len(store[k]) <= BufferSize[k] /\ Len(store[k]) \in Nat
      BY <1>1, <2>2, DataAreEntries, BufferFacts, EntriesOfSeq DEF AllInOrder, ReportingShape, EntriesByKind
    <3>2. Range(store[k]) \subseteq Nat /\ Range(logged[k]) \subseteq Nat
      BY <3>1, EntriesOfSeq
    <3>a. created[k] \in Nat /\ created'[k] \in Nat /\ created[k] <= created'[k] /\ data[k] \in Entry1
      BY <1>2
    <3>b. \A id \in Range(store[k]) \cup Range(logged[k]) \cup evicted[k] : id \in Nat /\ id <= created[k]
      <4>1. evicted[k] \subseteq Nat
        BY <1>1 DEF ReportingShape, Entries
      <4> QED  BY <3>1, <3>2, <4>1 DEF BufferInOrder
    <3>c. \A id \in Range(data[k]) :
            id \in Range(store[k]) \/ (id = created[k] + 1 /\ created'[k] = created[k] + 1)
      BY <1>2
    <3>3. Rising(data[k])
      <4>1. CASE k \in event
        <5>1. Below(Range(store[k]), {created[k] + 1})
          BY <3>a, <3>b DEF Below
        <5>2. Rising(<<created[k] + 1>>)
          BY DEF Rising
        <5>3. /\ data[k] = store[k] \o <<created[k] + 1>> /\ <<created[k] + 1>> \in Entry1
              /\ Range(<<created[k] + 1>>) = {created[k] + 1}
          BY <1>2, <4>1
        <5>4. PICK t \in Entry1 : t = <<created[k] + 1>>
          BY <5>3
        <5>5. Rising(store[k]) /\ store[k] \in Entry1
          BY <3>1 DEF BufferInOrder
        <5>6. Rising(store[k] \o t)
          BY <5>1, <5>2, <5>3, <5>4, <5>5, JoinedRise
        <5> QED  BY <5>3, <5>4, <5>6
      <4>2. CASE k \notin event
        BY <1>2, <3>1, <4>2 DEF BufferInOrder
      <4> QED  BY <4>1, <4>2
    <3>d. PICK n \in Nat : n = BufferSize[k] /\ n > 0
      BY <3>1
    <3>e. /\ store'[k] = Latest(data[k], n) /\ evicted'[k] = evicted[k] \cup (Range(data[k]) \ Range(store'[k]))
          /\ Len(data[k]) \in Nat /\ Len(store[k]) \in Nat
      BY <1>4, <3>1, <3>a, <3>d, EntriesOfSeq
    <3>f. /\ Range(store'[k]) \subseteq Range(data[k])
          /\ Len(store'[k]) = IF Len(data[k]) > n THEN n ELSE Len(data[k])
      BY <3>a, <3>d, <3>e, LatestRises
    <3>4. Below(evicted[k], Range(store'[k]))
      <4>1. Below(evicted[k], Range(data[k]))
        <5>1. Below(evicted[k], Range(store[k]))
          BY <3>1 DEF BufferInOrder
        <5> QED  BY <3>a, <3>b, <3>c, <5>1 DEF Below
      <4> QED  BY <3>f, <4>1 DEF Below
    <3>5. \A id \in Range(data[k]) : id <= created'[k]
      BY <3>a, <3>b, <3>c
    <3>6. doubtful \/ Below(Range(logged[k]), Range(data[k]))
      <4>1. doubtful \/ Below(Range(logged[k]), Range(store[k]))
        BY <1>1, <3>1 DEF LogInOrder
      <4> QED  BY <3>a, <3>b, <3>c, <4>1 DEF Below
    <3>7. ASSUME NEW r \in Reports, report[r].state # "free", report[r].state # "beacon"
          PROVE  /\ Below(Range(report[r].data[k]), Range(data[k]))
                 /\ \/ Len(store'[k]) = BufferSize[k]
                    \/ evicted'[k] = evicted[k] /\ Len(store[k]) # BufferSize[k]
      <4>1. /\ Below(Range(report[r].data[k]), Range(store[k]))
            /\ \A id \in Range(report[r].data[k]) : id <= created[k]
        BY <3>1, <3>7 DEF ReportInOrder
      <4>2. Range(report[r].data[k]) \subseteq Nat
        BY <1>1, DataAreEntries, EntriesOfSeq
      <4>3. Below(Range(report[r].data[k]), Range(data[k]))
        BY <3>a, <3>c, <4>1, <4>2 DEF Below
      <4>4. ASSUME Len(store'[k]) # n
            PROVE  evicted'[k] = evicted[k] /\ Len(store[k]) # n
        <5>1. Len(data[k]) <= n /\ Len(data[k]) # n
          BY <3>d, <3>e, <3>f, <4>4
        <5>2. store'[k] = data[k]
          BY <3>a, <3>d, <3>e, <5>1, ShortIsLatest
        <5>3. evicted'[k] = evicted[k]
          BY <3>e, <5>2
        <5>4. Len(data[k]) = Len(store[k]) + 1 \/ Len(data[k]) = Len(store[k])
          BY <1>2
        <5>5. Len(store[k]) # n
          BY <3>d, <3>e, <5>1, <5>4
        <5> QED  BY <5>3, <5>5
      <4> QED  BY <3>d, <4>3, <4>4
    <3>8. \A r \in Reports : report'[r].state # "free" =>
           /\ report'[r] = report[r]
           /\ report[r].state # "beacon" =>
                /\ Below(Range(report[r].data[k]), Range(data[k]))
                /\ \/ Len(store'[k]) = BufferSize[k]
                   \/ evicted'[k] = evicted[k] /\ Len(store[k]) # BufferSize[k]
      BY <1>1, <3>7
    <3>9. created[k] <= created'[k] /\ created'[k] \in Nat /\ data[k] \in Entry1
      BY <3>a
    <3>10. /\ store'[k] = Latest(data[k], BufferSize[k])
           /\ evicted'[k] = evicted[k] \cup (Range(data[k]) \ Range(store'[k]))
      BY <1>4
    <3>11. logged' = logged /\ page' = page /\ doubtful' = doubtful /\ page = "open"
      BY <1>1
    <3> QED  BY <2>1, <3>3, <3>4, <3>5, <3>6, <3>8, <3>9, <3>10, <3>11, BufferKeepsOrder
  <2> QED  BY <2>3, <2>4 DEF AllInOrder
<1> QED  BY <1>5, <1>6, <1>7 DEF ReportingInv

LEMMA PutBackKeeps ==
  ASSUME ReportingInv, NEW r \in Reports, PutBack(r)
  PROVE  ReportingInv'
<1> DEFINE data == [k \in Kind |-> report[r].data[k] \o store[k]]
<1>1. /\ page = "open" /\ report[r].state = "lost" /\ Buffer(data) /\ Release(r)
      /\ UNCHANGED <<created, logged, page, faults, refused, overlapped, doubtful, unwritable, thrown>>
      /\ ReportingShape /\ NoneVanished
  BY DEF PutBack, ReportingInv
<1>2. ASSUME NEW k \in Kind
      PROVE  /\ data[k] = report[r].data[k] \o store[k] /\ data[k] \in Entry1
             /\ Range(data[k]) = Range(report[r].data[k]) \cup Range(store[k])
             /\ report[r].data[k] \in Entry1 /\ store[k] \in Entry1 /\ Range(logged[k]) \subseteq Nat
             /\ evicted[k] \subseteq Nat /\ created[k] \in Nat
  <2>1. report[r].data[k] \in Entry1 /\ store[k] \in Entry1 /\ logged[k] \in Entry1
    BY <1>1, DataAreEntries
  <2>2. evicted[k] \subseteq Nat /\ created[k] \in Nat
    BY <1>1, ReportingAssumption DEF ReportingShape, Entries
  <2> QED  BY <2>1, <2>2, JoinedRise, EntriesOfSeq
<1>3. data \in EntriesByKind
  BY <1>2 DEF EntriesByKind
<1> HIDE DEF data
<1>4. /\ store' \in EntriesByKind /\ evicted' \in [Kind -> SUBSET Entries]
      /\ \A k \in Kind : /\ store'[k] = Latest(data[k], BufferSize[k])
                         /\ evicted'[k] = evicted[k] \cup (Range(data[k]) \ Range(store'[k]))
                         /\ Len(store'[k]) <= BufferSize[k]
  BY <1>1, <1>3, BufferEnds
<1>5. /\ report' \in [Reports -> ReportStates] /\ report'[r].state = "free"
      /\ \A q \in Reports \ {r} : report'[q] = report[q]
  BY <1>1, FreeIsAReport, OneReportChanges DEF Release
<1>6. ReportingShape'
  BY <1>1, <1>4, <1>5 DEF ReportingShape
<1>7. NoneVanished'
  <2>1. SUFFICES ASSUME NEW k \in Kind, NEW id \in 1 .. created[k] PROVE EntryIsSomewhere(k, id)'
    BY <1>1 DEF NoneVanished
  <2>2. EntryIsSomewhere(k, id)
    BY <1>1, <2>1 DEF NoneVanished
  <2>3. CASE id \in Range(data[k])
    BY <1>4, <2>3 DEF EntryIsSomewhere, Kept1
  <2>4. CASE id \notin Range(data[k])
    <3>1. id \notin Range(store[k]) /\ id \notin Range(report[r].data[k])
      BY <1>2, <2>4
    <3>2. Kept1(k, id) => Kept1(k, id)'
      BY <1>5, <3>1 DEF Kept1
    <3>3. id \in evicted[k] => id \in evicted'[k]
      BY <1>4
    <3> QED  BY <1>1, <2>2, <3>2, <3>3 DEF EntryIsSomewhere, LostToThrow
  <2> QED  BY <2>3, <2>4
<1>8. OrderInv'
  <2>1. SUFFICES ASSUME ~overlapped PROVE OneReport' /\ AllInOrder'
    BY <1>1 DEF OrderInv
  <2>2. OneReport /\ AllInOrder
    BY <2>1 DEF ReportingInv, OrderInv
  <2>3. \A q \in Reports : report'[q].state = "free"
    BY <1>1, <1>5, <2>2 DEF OneReport, UnderWay
  <2>4. OneReport'
    BY <2>3 DEF OneReport, UnderWay
  <2>5. ASSUME NEW k \in Kind
        PROVE  /\ BufferInOrder(k)' /\ (\A q \in Reports : ReportInOrder(k, q)')
               /\ (doubtful' \/ LogInOrder(k)')
    <3>1. BufferInOrder(k) /\ ReportInOrder(k, r) /\ (doubtful \/ LogInOrder(k))
      BY <2>2 DEF AllInOrder
    <3>2. /\ Rising(report[r].data[k]) /\ Rising(store[k]) /\ Below(Range(report[r].data[k]), Range(store[k]))
          /\ Below(evicted[k], Range(store[k]))
          /\ Below(evicted[k], Range(report[r].data[k])) \/ Len(store[k]) = BufferSize[k]
          /\ \A id \in Range(report[r].data[k]) : id <= created[k]
          /\ \A id \in Range(store[k]) : id <= created[k]
      BY <1>1, <3>1 DEF BufferInOrder, ReportInOrder
    <3>3. Rising(data[k])
      BY <1>2, <3>2, JoinedRise
    <3>4. PICK n \in Nat : n = BufferSize[k]
      BY BufferFacts
    <3>5. Below(evicted[k], Range(store'[k]))
      <4>1. CASE Len(store[k]) = n
        <5>1. store'[k] = store[k]
          <6>1. store'[k] = Latest(report[r].data[k] \o store[k], n)
            BY <1>2, <1>4, <3>4
          <6>2. report[r].data[k] \in Entry1 /\ store[k] \in Entry1
            BY <1>2
          <6> QED  BY <4>1, <6>1, <6>2, LatestOfSecond
        <5> QED  BY <3>2, <5>1
      <4>2. CASE Len(store[k]) # n
        <5>1. Range(store'[k]) \subseteq Range(report[r].data[k]) \cup Range(store[k])
          BY <1>2, <1>4, <3>4, LatestRises
        <5> QED  BY <3>2, <3>4, <4>2, <5>1 DEF Below
      <4> QED  BY <4>1, <4>2
    <3>6. /\ created[k] <= created'[k] /\ created'[k] \in Nat
          /\ \A id \in Range(data[k]) : id <= created'[k]
      <4>1. created'[k] = created[k] /\ created[k] \in Nat
        BY <1>1, <1>2
      <4>2. \A id \in Range(data[k]) : id <= created[k]
        BY <1>2, <3>2
      <4> QED  BY <4>1, <4>2
    <3>7. doubtful \/ Below(Range(logged[k]), Range(data[k]))
      <4>1. doubtful \/ (Below(Range(logged[k]), Range(report[r].data[k])) /\ Below(Range(logged[k]), Range(store[k])))
        BY <1>1, <3>1 DEF LogInOrder
      <4> QED  BY <1>2, <4>1 DEF Below
    <3>8. /\ store'[k] = Latest(data[k], BufferSize[k]) /\ data[k] \in Entry1
          /\ evicted'[k] = evicted[k] \cup (Range(data[k]) \ Range(store'[k]))
          /\ logged' = logged /\ page' = page /\ doubtful' = doubtful /\ page = "open"
      BY <1>1, <1>2, <1>4
    <3> QED  BY <2>1, <2>3, <3>3, <3>5, <3>6, <3>7, <3>8, BufferKeepsOrder
  <2> QED  BY <2>4, <2>5 DEF AllInOrder
<1> QED  BY <1>6, <1>7, <1>8 DEF ReportingInv

\* Emptied buffers are within their limits.
LEMMA EmptiedFits ==
  /\ NoEntries \in EntriesByKind
  /\ \A k \in Kind : /\ NoEntries[k] = <<>> /\ Len(NoEntries[k]) <= BufferSize[k]
<1>1. \A k \in Kind : 0 <= BufferSize[k]
  BY BufferFacts
<1> QED  BY <1>1, FreeIsAReport, NoneOfEmpty DEF NoEntries

\* reportLogs, when the payload can be written.
LEMMA ReportSentKeeps ==
  ASSUME ReportingInv, NEW r \in Reports, ReportLogs(r), Writable(store)
  PROVE  ReportingInv'
<1>1. /\ page = "open" /\ Dispatch(r, "sent", store) /\ store' = NoEntries
      /\ UNCHANGED <<created, logged, page, faults, evicted, refused, doubtful, unwritable, thrown>>
      /\ ReportingShape /\ NoneVanished
  BY DEF ReportLogs, ReportingInv
<1>2. /\ report[r].state = "free" /\ overlapped' = (overlapped \/ UnderWay # {})
      /\ report' = [report EXCEPT ![r] = [state |-> "sent", data |-> store]]
  BY <1>1 DEF Dispatch
<1>3. store \in EntriesByKind
  BY <1>1 DEF ReportingShape
<1>4. PICK changed \in ReportStates : changed = [state |-> "sent", data |-> store]
  BY <1>3 DEF ReportStates, States
<1>5. /\ report' \in [Reports -> ReportStates] /\ report'[r].state = "sent" /\ report'[r].data = store
      /\ \A q \in Reports \ {r} : report'[q] = report[q]
  BY <1>1, <1>2, <1>4, OneReportChanges
<1>6. ReportingShape'
  <2>1. NoEntries \in EntriesByKind /\ \A k \in Kind : Len(NoEntries[k]) <= BufferSize[k]
    BY EmptiedFits
  <2>2. overlapped' \in BOOLEAN
    BY <1>2
  <2> QED  BY <1>1, <1>5, <2>1, <2>2 DEF ReportingShape
<1>7. NoneVanished'
  <2>1. SUFFICES ASSUME NEW k \in Kind, NEW id \in 1 .. created[k] PROVE EntryIsSomewhere(k, id)'
    BY <1>1 DEF NoneVanished
  <2>2. EntryIsSomewhere(k, id)
    BY <1>1, <2>1 DEF NoneVanished
  <2>3. Kept1(k, id) => Kept1(k, id)'
    BY <1>2, <1>5 DEF Kept1
  <2> QED  BY <1>1, <2>2, <2>3 DEF EntryIsSomewhere, LostToThrow
<1>8. OrderInv'
  BY <1>1, <1>3, DispatchKeepsOrder
<1> QED  BY <1>6, <1>7, <1>8 DEF ReportingInv

\* reportLogs, when it cannot.
LEMMA ReportThrowsKeeps ==
  ASSUME ReportingInv, NEW r \in Reports, ReportLogs(r), ~Writable(store)
  PROVE  ReportingInv'
<1>1. /\ page = "open" /\ store' = NoEntries
      /\ thrown' = [k \in Kind |-> thrown[k] \cup Range(store[k])]
      /\ UNCHANGED <<created, report, logged, page, faults, evicted, refused, doubtful, unwritable>>
      /\ overlapped' = (overlapped \/ UnderWay # {})
      /\ ReportingShape /\ NoneVanished /\ OrderInv
  BY DEF ReportLogs, ReportingInv
<1>2. /\ NoEntries \in EntriesByKind
      /\ \A k \in Kind : store'[k] = <<>> /\ Len(store'[k]) <= BufferSize[k]
  BY <1>1, EmptiedFits
<1>3. \A k \in Kind : Range(store[k]) \subseteq Entries /\ thrown'[k] = thrown[k] \cup Range(store[k])
  BY <1>1, EntriesOfSeq DEF ReportingShape, EntriesByKind
<1>4. ReportingShape'
  <2>1. thrown' \in [Kind -> SUBSET Entries]
    BY <1>1, <1>3 DEF ReportingShape
  <2>2. overlapped' \in BOOLEAN
    BY <1>1
  <2> QED  BY <1>1, <1>2, <2>1, <2>2 DEF ReportingShape
<1>5. NoneVanished'
  <2>1. SUFFICES ASSUME NEW k \in Kind, NEW id \in 1 .. created[k] PROVE EntryIsSomewhere(k, id)'
    BY <1>1 DEF NoneVanished
  <2>2. EntryIsSomewhere(k, id)
    BY <1>1, <2>1 DEF NoneVanished
  <2>3. PICK other \in Kind : Range(store[other]) \cap unwritable[other] # {}
    BY DEF Writable
  <2>4. LostToThrow(k, id) => LostToThrow(k, id)'
    BY <1>1, <1>3 DEF LostToThrow
  <2>5. CASE id \in Range(store[k])
    BY <1>1, <1>3, <2>3, <2>5 DEF EntryIsSomewhere, LostToThrow
  <2>6. CASE id \notin Range(store[k])
    <3>1. Kept1(k, id) => Kept1(k, id)'
      BY <1>1, <2>6 DEF Kept1
    <3> QED  BY <1>1, <2>2, <2>4, <3>1 DEF EntryIsSomewhere
  <2> QED  BY <2>5, <2>6
<1>6. OrderInv'
  <2>1. SUFFICES ASSUME ~overlapped' PROVE OneReport' /\ AllInOrder'
    BY DEF OrderInv
  <2>2. OneReport /\ AllInOrder /\ \A q \in Reports : report[q].state = "free"
    BY <1>1, <2>1 DEF OrderInv, UnderWay
  <2>3. OneReport'
    BY <1>1, <2>2 DEF OneReport, UnderWay
  <2>4. ASSUME NEW k \in Kind
        PROVE  /\ BufferInOrder(k)' /\ (\A q \in Reports : ReportInOrder(k, q)')
               /\ (doubtful' \/ LogInOrder(k)')
    <3>1. /\ BufferInOrder(k) /\ (\A q \in Reports : ReportInOrder(k, q)) /\ (doubtful \/ LogInOrder(k))
      BY <2>2 DEF AllInOrder
    <3>2. Rising(store'[k]) /\ Range(store'[k]) = {} /\ page' = page
      BY <1>1, <1>2, NoneOfEmpty
    <3>3. BufferInOrder(k)'
      BY <1>1, <3>1, <3>2 DEF BufferInOrder, Below
    <3>4. \A q \in Reports : ReportInOrder(k, q)'
      BY <1>1, <2>2 DEF ReportInOrder
    <3>5. doubtful' \/ LogInOrder(k)'
      BY <1>1, <2>2, <3>1, <3>2 DEF LogInOrder, Below
    <3> QED  BY <3>3, <3>4, <3>5
  <2> QED  BY <2>3, <2>4 DEF AllInOrder
<1> QED  BY <1>4, <1>5, <1>6 DEF ReportingInv

LEMMA BeaconEnds ==
  ASSUME ReportingShape
  PROVE  /\ BeaconData \in EntriesByKind
         /\ \A k \in Kind : Rising(store[k]) => Rising(BeaconData[k]) /\ Range(BeaconData[k]) \subseteq Range(store[k])
<1>1. store \in EntriesByKind /\ \A k \in Kind : store[k] \in Entry1 /\ BeaconKeeps[k] \in Nat
  BY ReportingAssumption DEF ReportingShape, EntriesByKind, Kind
<1>2. \A k \in Kind : /\ Latest(store[k], BeaconKeeps[k]) \in Entry1
                      /\ Range(Latest(store[k], BeaconKeeps[k])) \subseteq Range(store[k])
                      /\ Rising(store[k]) => Rising(Latest(store[k], BeaconKeeps[k]))
  BY <1>1, LatestRises
<1>3. CASE Count(store) > BeaconLimit
  <2>1. BeaconData = [k \in Kind |-> Latest(store[k], BeaconKeeps[k])]
    BY <1>3 DEF BeaconData
  <2> QED  BY <1>2, <2>1 DEF EntriesByKind
<1>4. CASE ~(Count(store) > BeaconLimit)
  <2>1. BeaconData = store
    BY <1>4 DEF BeaconData
  <2> QED  BY <1>1, <2>1
<1> QED  BY <1>3, <1>4

LEMMA UnloadKeeps ==
  ASSUME ReportingInv, NEW r \in Reports, Unload(r)
  PROVE  ReportingInv'
<1>1. /\ page = "open" /\ Dispatch(r, "beacon", BeaconData)
      /\ UNCHANGED <<store, created, evicted, logged, refused, unwritable, thrown>>
      /\ ReportingShape /\ NoneVanished
  BY DEF Unload, ReportingInv, buffers
<1>2. \/ page' = "gone" /\ UNCHANGED <<faults, doubtful>>
      \/ faults < MaxFaults /\ faults' = faults + 1 /\ doubtful' = TRUE /\ UNCHANGED page
  BY DEF Unload
<1>3. /\ report[r].state = "free" /\ overlapped' = (overlapped \/ UnderWay # {})
      /\ report' = [report EXCEPT ![r] = [state |-> "beacon", data |-> BeaconData]]
  BY <1>1 DEF Dispatch
<1>4. PICK data \in EntriesByKind : data = BeaconData
  BY <1>1, BeaconEnds
<1>5. PICK changed \in ReportStates : changed = [state |-> "beacon", data |-> data]
  BY <1>4 DEF ReportStates, States
<1>6. /\ report' \in [Reports -> ReportStates] /\ report'[r].state = "beacon"
      /\ \A q \in Reports \ {r} : report'[q] = report[q]
  BY <1>1, <1>3, <1>4, <1>5, OneReportChanges
<1>7. faults' \in 0 .. MaxFaults /\ page' \in {"open", "gone"} /\ doubtful' \in BOOLEAN /\ overlapped' \in BOOLEAN
  <2>1. faults \in 0 .. MaxFaults /\ page \in {"open", "gone"} /\ doubtful \in BOOLEAN
    BY <1>1 DEF ReportingShape
  <2>2. faults' \in 0 .. MaxFaults
    BY <1>2, <2>1, ReportingAssumption
  <2> QED  BY <1>2, <1>3, <2>1, <2>2
<1>8. ReportingShape'
  BY <1>1, <1>6, <1>7 DEF ReportingShape
<1>9. NoneVanished'
  <2>1. SUFFICES ASSUME NEW k \in Kind, NEW id \in 1 .. created[k] PROVE EntryIsSomewhere(k, id)'
    BY <1>1 DEF NoneVanished
  <2>2. EntryIsSomewhere(k, id)
    BY <1>1, <2>1 DEF NoneVanished
  <2>3. Kept1(k, id) => Kept1(k, id)'
    BY <1>1, <1>3, <1>6 DEF Kept1
  <2> QED  BY <1>1, <2>2, <2>3 DEF EntryIsSomewhere, LostToThrow
<1>10. OrderInv'
  <2>1. (doubtful => doubtful') /\ (page' = "gone" \/ doubtful')
    BY <1>2
  <2>2. \A k \in Kind : Rising(store[k]) => Rising(data[k]) /\ Range(data[k]) \subseteq Range(store[k])
    BY <1>1, <1>4, BeaconEnds
  <2>3. Dispatch(r, "beacon", data)
    BY <1>1, <1>4
  <2> QED  BY <1>1, <1>7, <2>1, <2>2, <2>3, DispatchKeepsOrder
<1> QED  BY <1>8, <1>9, <1>10 DEF ReportingInv

\* The page goes without a beacon.
LEMMA UnloadSilentKeeps ==
  ASSUME ReportingInv, UnloadSilent
  PROVE  ReportingInv'
<1>1. /\ page = "open" /\ page' = "gone"
      /\ UNCHANGED <<store, created, evicted, report, logged, faults, refused, overlapped, doubtful, unwritable, thrown>>
      /\ ReportingShape /\ NoneVanished /\ OrderInv
  BY DEF UnloadSilent, ReportingInv, buffers
<1>2. ReportingShape'
  BY <1>1 DEF ReportingShape
<1>3. NoneVanished'
  BY <1>1 DEF NoneVanished, EntryIsSomewhere
<1>4. OrderInv'
  BY <1>1 DEF OrderInv, OneReport, UnderWay, AllInOrder, BufferInOrder, ReportInOrder, LogInOrder
<1> QED  BY <1>2, <1>3, <1>4 DEF ReportingInv

\* A step that changes no variable changes nothing of the invariant.
LEMMA ReportingStutters ==
  ASSUME ReportingInv, UNCHANGED reportingVars
  PROVE  ReportingInv'
<1>1. /\ UNCHANGED <<store, created, evicted, report, logged, page, faults, refused, overlapped, doubtful, unwritable, thrown>>
      /\ ReportingShape /\ NoneVanished /\ OrderInv
  BY DEF ReportingInv, reportingVars
<1>2. ReportingShape'
  BY <1>1 DEF ReportingShape
<1>3. NoneVanished'
  BY <1>1 DEF NoneVanished, EntryIsSomewhere, Kept1, LostToThrow
<1>4. OrderInv'
  BY <1>1 DEF OrderInv, OneReport, UnderWay, AllInOrder, BufferInOrder, ReportInOrder, LogInOrder
<1> QED  BY <1>2, <1>3, <1>4 DEF ReportingInv

-----------------------------------------------------------------------------
(* The network's and the server's steps: a report is settled.              *)

\* What a settled report carried is in the log, was refused, or is still carried.
LEMMA SettledVanishesNot ==
  ASSUME ReportingInv, NEW r \in Reports, NEW changed \in ReportStates,
         report' = [report EXCEPT ![r] = changed],
         UNCHANGED <<store, evicted, created, unwritable, thrown>>, page' = page,
         \A k \in Kind : Range(logged[k]) \subseteq Range(logged'[k]) /\ refused[k] \subseteq refused'[k],
         report[r].state \in {"sent", "lost"} =>
           \/ changed.state \in {"sent", "lost"} /\ changed.data = report[r].data
           \/ \A k \in Kind : Range(report[r].data[k]) \subseteq Range(logged'[k]) \cup refused'[k]
           \/ page = "gone"
  PROVE  NoneVanished'
<1>1. /\ report'[r] = changed /\ \A q \in Reports \ {r} : report'[q] = report[q]
  BY OneReportChanges DEF ReportingInv
<1>2. SUFFICES ASSUME NEW k \in Kind, NEW id \in 1 .. created[k] PROVE EntryIsSomewhere(k, id)'
  BY DEF NoneVanished
<1>3. EntryIsSomewhere(k, id)
  BY <1>2 DEF ReportingInv, NoneVanished
<1>4. CASE Kept1(k, id)
  <2>1. CASE id \in Range(store[k])
    BY <2>1 DEF EntryIsSomewhere, LostToThrow, Kept1
  <2>2. CASE id \notin Range(store[k])
    <3>1. PICK q \in Reports : report[q].state \in {"sent", "lost"} /\ id \in Range(report[q].data[k])
      BY <1>4, <2>2 DEF Kept1
    <3>2. CASE q # r
      BY <1>1, <3>1, <3>2 DEF EntryIsSomewhere, LostToThrow, Kept1
    <3>3. CASE q = r
      BY <1>1, <3>1, <3>3 DEF EntryIsSomewhere, LostToThrow, Kept1
    <3> QED  BY <3>2, <3>3
  <2> QED  BY <2>1, <2>2
<1>5. CASE ~Kept1(k, id)
  BY <1>3, <1>5 DEF EntryIsSomewhere, LostToThrow
<1> QED  BY <1>4, <1>5

\* The shape of what a settling step leaves.
LEMMA SettledShape ==
  ASSUME ReportingShape, NEW r \in Reports, NEW changed \in ReportStates,
         report' = [report EXCEPT ![r] = changed],
         UNCHANGED <<store, evicted, created, unwritable, thrown>>, page' = page, overlapped' = overlapped,
         logged' \in EntriesByKind, refused' \in [Kind -> SUBSET Entries],
         faults' = faults \/ (faults < MaxFaults /\ faults' = faults + 1), doubtful' \in BOOLEAN
  PROVE  ReportingShape'
<1>1. report' \in [Reports -> ReportStates]
  BY OneReportChanges
<1>2. faults' \in 0 .. MaxFaults
  BY ReportingAssumption DEF ReportingShape
<1> QED  BY <1>1, <1>2 DEF ReportingShape

\* The report over, or in another state.
LEMMA Over ==
  ASSUME ReportingShape, NEW r \in Reports, NEW state \in {"written", "refused", "lost"},
         report' = [report EXCEPT ![r] = IF @.state = "beacon" THEN Free ELSE [@ EXCEPT !.state = state]]
  PROVE  \E changed \in ReportStates :
           /\ report' = [report EXCEPT ![r] = changed]
           /\ report[r].state = "beacon" => changed.state = "free"
           /\ report[r].state # "beacon" => changed.state = state /\ changed.data = report[r].data
<1>1. CASE report[r].state = "beacon"
  <2>1. report' = [report EXCEPT ![r] = Free]
    BY <1>1
  <2> QED  BY <1>1, <2>1, FreeIsAReport
<1>2. CASE report[r].state # "beacon"
  <2>1. PICK changed \in ReportStates : changed = [report[r] EXCEPT !.state = state]
    BY StateChanges DEF States
  <2>2. changed.state = state /\ changed.data = report[r].data
    BY <2>1, StateChanges DEF States
  <2>3. report' = [report EXCEPT ![r] = changed]
    BY <1>2, <2>1
  <2> QED  BY <1>2, <2>2, <2>3
<1> QED  BY <1>1, <1>2

LEMMA ReleaseKeeps ==
  ASSUME ReportingInv, NEW r \in Reports, ReportResolves(r) \/ Abandon(r)
  PROVE  ReportingInv'
<1>1. /\ report[r].state \in {"written", "refused", "lost"} /\ (report[r].state = "lost" => page = "gone")
      /\ Release(r) /\ UNCHANGED <<store, created, evicted, unwritable, thrown, logged, page, faults, refused, overlapped, doubtful>>
      /\ ReportingShape
  BY DEF ReportResolves, Abandon, buffers, ReportingInv
<1>2. PICK changed \in ReportStates : changed.state = "free" /\ report' = [report EXCEPT ![r] = changed]
  BY <1>1, FreeIsAReport DEF Release
<1>3. ReportingShape'
  <2>1. logged' \in EntriesByKind /\ refused' \in [Kind -> SUBSET Entries] /\ doubtful' \in BOOLEAN
    BY <1>1 DEF ReportingShape
  <2> QED  BY <1>1, <1>2, <2>1, SettledShape
<1>4. NoneVanished'
  BY <1>1, <1>2, SettledVanishesNot
<1>5. OrderInv'
  <2>1. doubtful' \in BOOLEAN /\ (doubtful => doubtful') /\ \A k \in Kind : logged'[k] = logged[k]
    BY <1>1 DEF ReportingShape
  <2> QED  BY <1>1, <1>2, <2>1, SettledKeepsOrder
<1> QED  BY <1>3, <1>4, <1>5 DEF ReportingInv

LEMMA HandleKeeps ==
  ASSUME ReportingInv, NEW r \in Reports, HandlePayload(r)
  PROVE  ReportingInv'
<1>1. /\ report[r].state \in {"sent", "beacon"}
      /\ logged' = [k \in Kind |-> Append1(k, report[r].data)]
      /\ report' = [report EXCEPT ![r] = IF @.state = "beacon" THEN Free ELSE [@ EXCEPT !.state = "written"]]
      /\ UNCHANGED <<store, created, evicted, unwritable, thrown, page, faults, refused, overlapped, doubtful>>
      /\ ReportingShape
  BY DEF HandlePayload, buffers, ReportingInv
<1>2. PICK changed \in ReportStates :
        /\ report' = [report EXCEPT ![r] = changed]
        /\ report[r].state = "beacon" => changed.state = "free"
        /\ report[r].state # "beacon" => changed.state = "written" /\ changed.data = report[r].data
  BY <1>1, Over
<1>3. \A k \in Kind : /\ logged'[k] = logged[k] \o report[r].data[k] /\ logged'[k] \in Entry1
                      /\ Range(logged'[k]) = Range(logged[k]) \cup Range(report[r].data[k])
  <2> TAKE k \in Kind
  <2>1. logged'[k] = logged[k] \o report[r].data[k]
    BY <1>1 DEF Append1
  <2>2. logged[k] \in Entry1 /\ report[r].data[k] \in Entry1
    BY <1>1, DataAreEntries
  <2> QED  BY <2>1, <2>2, JoinedRise
<1>4. ReportingShape'
  <2>1. logged' \in EntriesByKind
    <3>1. logged' = [k \in Kind |-> logged'[k]]
      BY <1>1
    <3> QED  BY <1>3, <3>1 DEF EntriesByKind
  <2>2. refused' \in [Kind -> SUBSET Entries] /\ doubtful' \in BOOLEAN
    BY <1>1 DEF ReportingShape
  <2> QED  BY <1>1, <1>2, <2>1, <2>2, SettledShape
<1>5. NoneVanished'
  <2>1. \A k \in Kind : Range(logged[k]) \subseteq Range(logged'[k]) /\ refused[k] \subseteq refused'[k]
    BY <1>1, <1>3
  <2>2. \A k \in Kind : Range(report[r].data[k]) \subseteq Range(logged'[k]) \cup refused'[k]
    BY <1>3
  <2> QED  BY <1>1, <1>2, <2>1, <2>2, SettledVanishesNot
<1>6. OrderInv'
  <2>1. \/ changed.state = "free"
        \/ /\ changed.data = report[r].data /\ changed.state \in {"written", "refused", "lost"}
           /\ report[r].state # "beacon"
    BY <1>1, <1>2
  <2>2. changed.state # "lost" /\ report[r].state # "free"
    BY <1>1, <1>2
  <2>3. doubtful' \in BOOLEAN /\ (doubtful => doubtful')
    BY <1>1 DEF ReportingShape
  <2> QED  BY <1>1, <1>2, <1>3, <2>1, <2>2, <2>3, SettledKeepsOrder
<1> QED  BY <1>4, <1>5, <1>6 DEF ReportingInv

LEMMA HandleFailsKeeps ==
  ASSUME ReportingInv, NEW r \in Reports, HandlePayloadFails(r)
  PROVE  ReportingInv'
<1>1. /\ report[r].state \in {"sent", "beacon"} /\ faults < MaxFaults /\ faults' = faults + 1
      /\ report' = [report EXCEPT ![r] = IF @.state = "beacon" THEN Free ELSE [@ EXCEPT !.state = "refused"]]
      /\ UNCHANGED <<store, created, evicted, unwritable, thrown, page, overlapped, doubtful>>
      /\ ReportingShape
  BY DEF HandlePayloadFails, buffers, ReportingInv
<1>2. PICK i \in DOMAIN Kinds :
        LET written == {Kinds[j] : j \in 1 .. i - 1} IN
        /\ logged' = [k \in Kind |-> IF k \in written THEN Append1(k, report[r].data) ELSE logged[k]]
        /\ refused' = [k \in Kind |->
                         IF k \in written THEN refused[k] ELSE refused[k] \cup Range(report[r].data[k])]
  BY DEF HandlePayloadFails
<1> DEFINE written == {Kinds[j] : j \in 1 .. i - 1}
<1>3. PICK changed \in ReportStates :
        /\ report' = [report EXCEPT ![r] = changed]
        /\ report[r].state = "beacon" => changed.state = "free"
        /\ report[r].state # "beacon" => changed.state = "refused" /\ changed.data = report[r].data
  BY <1>1, Over
<1>4. ASSUME NEW k \in Kind
      PROVE  /\ logged'[k] = logged[k] \/ logged'[k] = logged[k] \o report[r].data[k]
             /\ logged'[k] \in Entry1 /\ refused'[k] \subseteq Entries
             /\ Range(logged[k]) \subseteq Range(logged'[k]) /\ refused[k] \subseteq refused'[k]
             /\ Range(report[r].data[k]) \subseteq Range(logged'[k]) \cup refused'[k]
  <2>1. logged[k] \in Entry1 /\ report[r].data[k] \in Entry1
    BY <1>1, DataAreEntries
  <2>2. /\ logged[k] \o report[r].data[k] \in Entry1
        /\ Range(logged[k] \o report[r].data[k]) = Range(logged[k]) \cup Range(report[r].data[k])
        /\ Range(report[r].data[k]) \subseteq Entries /\ refused[k] \subseteq Entries
    BY <1>1, <2>1, JoinedRise, EntriesOfSeq DEF ReportingShape
  <2>3. CASE k \in written
    <3>1. logged'[k] = logged[k] \o report[r].data[k] /\ refused'[k] = refused[k]
      BY <1>2, <2>3 DEF Append1
    <3> QED  BY <2>2, <3>1
  <2>4. CASE k \notin written
    <3>1. logged'[k] = logged[k] /\ refused'[k] = refused[k] \cup Range(report[r].data[k])
      BY <1>2, <2>4
    <3> QED  BY <2>1, <2>2, <3>1
  <2> QED  BY <2>3, <2>4
<1>5. ReportingShape'
  <2>1. logged' = [k \in Kind |-> logged'[k]] /\ refused' = [k \in Kind |-> refused'[k]]
    BY <1>2
  <2>2. logged' \in EntriesByKind /\ refused' \in [Kind -> SUBSET Entries]
    BY <1>4, <2>1 DEF EntriesByKind
  <2>3. doubtful' \in BOOLEAN
    BY <1>1 DEF ReportingShape
  <2> QED  BY <1>1, <1>3, <2>2, <2>3, SettledShape
<1>6. NoneVanished'
  BY <1>1, <1>3, <1>4, SettledVanishesNot
<1>7. OrderInv'
  <2>1. \/ changed.state = "free"
        \/ /\ changed.data = report[r].data /\ changed.state \in {"written", "refused", "lost"}
           /\ report[r].state # "beacon"
    BY <1>1, <1>3
  <2>2. changed.state # "lost" /\ report[r].state # "free"
    BY <1>1, <1>3
  <2>3. doubtful' \in BOOLEAN /\ (doubtful => doubtful')
    BY <1>1 DEF ReportingShape
  <2> QED  BY <1>1, <1>3, <1>4, <2>1, <2>2, <2>3, SettledKeepsOrder
<1> QED  BY <1>5, <1>6, <1>7 DEF ReportingInv

LEMMA RequestLostKeeps ==
  ASSUME ReportingInv, NEW r \in Reports, RequestLost(r)
  PROVE  ReportingInv'
<1>1. /\ report[r].state \in {"sent", "beacon"} /\ faults < MaxFaults /\ faults' = faults + 1
      /\ report' = [report EXCEPT ![r] = IF @.state = "beacon" THEN Free ELSE [@ EXCEPT !.state = "lost"]]
      /\ UNCHANGED <<store, created, evicted, unwritable, thrown, logged, page, refused, overlapped, doubtful>>
      /\ ReportingShape
  BY DEF RequestLost, buffers, ReportingInv
<1>2. PICK changed \in ReportStates :
        /\ report' = [report EXCEPT ![r] = changed]
        /\ report[r].state = "beacon" => changed.state = "free"
        /\ report[r].state # "beacon" => changed.state = "lost" /\ changed.data = report[r].data
  BY <1>1, Over
<1>3. ReportingShape'
  <2>1. logged' \in EntriesByKind /\ refused' \in [Kind -> SUBSET Entries] /\ doubtful' \in BOOLEAN
    BY <1>1 DEF ReportingShape
  <2> QED  BY <1>1, <1>2, <2>1, SettledShape
<1>4. NoneVanished'
  BY <1>1, <1>2, SettledVanishesNot
<1>5. OrderInv'
  <2>1. \/ changed.state = "free"
        \/ /\ changed.data = report[r].data /\ changed.state \in {"written", "refused", "lost"}
           /\ report[r].state # "beacon"
    BY <1>1, <1>2
  <2>2. /\ changed.state = "lost" => report[r].state = "sent" \/ doubtful'
        /\ report[r].state # "free"
    BY <1>1, <1>2
  <2>3. doubtful' \in BOOLEAN /\ (doubtful => doubtful') /\ \A k \in Kind : logged'[k] = logged[k]
    BY <1>1 DEF ReportingShape
  <2> QED  BY <1>1, <1>2, <2>1, <2>2, <2>3, SettledKeepsOrder
<1> QED  BY <1>3, <1>4, <1>5 DEF ReportingInv

LEMMA AnswerLostKeeps ==
  ASSUME ReportingInv, NEW r \in Reports, AnswerLost(r)
  PROVE  ReportingInv'
<1>1. /\ report[r].state \in {"written", "refused"} /\ faults < MaxFaults /\ faults' = faults + 1
      /\ report' = [report EXCEPT ![r].state = "lost"] /\ doubtful' = TRUE
      /\ UNCHANGED <<store, created, evicted, unwritable, thrown, logged, page, refused, overlapped>>
      /\ ReportingShape
  BY DEF AnswerLost, buffers, ReportingInv
<1>2. PICK changed \in ReportStates :
        /\ report' = [report EXCEPT ![r] = changed]
        /\ changed.state = "lost" /\ changed.data = report[r].data
  <2>1. PICK c \in ReportStates : c = [report[r] EXCEPT !.state = "lost"]
    BY <1>1, StateChanges DEF States
  <2>2. c.state = "lost" /\ c.data = report[r].data
    BY <1>1, <2>1, StateChanges DEF States
  <2>3. report' = [report EXCEPT ![r] = c]
    BY <1>1, <2>1
  <2> QED  BY <2>2, <2>3
<1>3. ReportingShape'
  <2>1. logged' \in EntriesByKind /\ refused' \in [Kind -> SUBSET Entries] /\ doubtful' \in BOOLEAN
    BY <1>1 DEF ReportingShape
  <2> QED  BY <1>1, <1>2, <2>1, SettledShape
<1>4. NoneVanished'
  BY <1>1, <1>2, SettledVanishesNot
<1>5. OrderInv'
  <2>1. doubtful' \in BOOLEAN /\ doubtful' /\ \A k \in Kind : logged'[k] = logged[k]
    BY <1>1
  <2> QED  BY <1>1, <1>2, <2>1, SettledKeepsOrder
<1> QED  BY <1>3, <1>4, <1>5 DEF ReportingInv

-----------------------------------------------------------------------------
LEMMA ReportingContinues ==
  ASSUME ReportingInv, [ReportingNext]_reportingVars
  PROVE  ReportingInv'
<1>1. CASE UNCHANGED reportingVars
  BY <1>1, ReportingStutters
<1>2. CASE UnloadSilent
  BY <1>2, UnloadSilentKeeps
<1>3. CASE \E event \in Events : RecordEvent(event)
  BY <1>3, RecordKeeps
<1>4. ASSUME NEW r \in Reports,
             \/ ReportLogs(r) \/ Settle(r) \/ Unload(r)
             \/ HandlePayloadFails(r) \/ RequestLost(r) \/ AnswerLost(r) \/ Abandon(r)
      PROVE  ReportingInv'
  BY <1>4, ReportSentKeeps, ReportThrowsKeeps, ReleaseKeeps, PutBackKeeps, HandleKeeps, UnloadKeeps, HandleFailsKeeps,
     RequestLostKeeps, AnswerLostKeeps, Zenon DEF Settle
<1> QED  BY <1>1, <1>2, <1>3, <1>4, Zenon DEF ReportingNext

LEMMA ReportingInvariance == ReportingInit /\ [][ReportingNext]_reportingVars => []ReportingInv
BY ReportingBegins, ReportingContinues, PTL

\* What the invariant says of the properties the run checks.
LEMMA ReportingInvMeans == ReportingInv => NothingVanishes /\ OrderKept
<1> SUFFICES ASSUME ReportingInv PROVE NothingVanishes /\ OrderKept
  OBVIOUS
<1>1. ReportingTypeOK
  <2>1. \A r \in Reports : report[r].state \in States /\ report[r].data \in EntriesByKind
    BY DataAreEntries DEF ReportingInv, ReportingShape, ReportStates
  <2> QED  BY <2>1 DEF ReportingTypeOK, ReportingInv, ReportingShape, EntriesByKind, Entry1, States
<1>2. NothingVanishes
  BY <1>1 DEF NothingVanishes, ReportingInv, NoneVanished, EntryIsSomewhere
<1>3. ASSUME ~overlapped PROVE EvictedAreOldest /\ (doubtful \/ LoggedInOrder)
  <2>1. AllInOrder
    BY <1>3 DEF ReportingInv, OrderInv
  <2> QED  BY <2>1 DEF AllInOrder, BufferInOrder, LogInOrder, EvictedAreOldest, LoggedInOrder, Below, Rising
<1> QED  BY <1>2, <1>3 DEF OrderKept

\* No entry vanishes: while the page is open, each is buffered, on its way, in the log,
\* evicted by a full buffer, refused, or was in the buffers with an entry that cannot be
\* written as JSON, however requests and answers are lost, settled late or in another
\* order (debug-collector.js 716-754, vite.config.ts 86-100).
THEOREM NoEntryVanishes ==
  ReportingInit /\ [][ReportingNext]_reportingVars => []NothingVanishes
BY ReportingInvariance, ReportingInvMeans, PTL

\* As long as no report is made while another is under way, a full buffer loses its
\* oldest entries and the log has every entry once and in order, unless an answer is
\* lost or a page stays after its beacon (debug-collector.js 716-754).
THEOREM EntriesKeepTheirOrder ==
  ReportingInit /\ [][ReportingNext]_reportingVars => []OrderKept
BY ReportingInvariance, ReportingInvMeans, PTL

-----------------------------------------------------------------------------
(* The requests of the page.  What acts is one fetch or one object, and it *)
(* records under its own name and its present turn, of which no entry is   *)
(* there yet: an object that is not done has recorded nothing of this turn *)
(* and of no later one.                                                    *)

Sources == Fetches \cup Xhrs

RequestEntries ==
  [source : Sources, turn : Nat, body : AtOnce \cup Texts \cup {"error"}, failed : BOOLEAN]

Marks == [source : Sources, turn : Nat]

XhrStates ==
  [state : {"unsent", "opened", "sent", "done", "silent"}, url : {"page", "own", "object"},
   turn : 0 .. MaxTurns, listeners : 0 .. MaxSends, late : 0 .. MaxSends]

RequestShape ==
  /\ fetch \in [Fetches -> [stage : {"idle", "passed", "pending", "reading", "settled"},
                            internal : BOOLEAN, failed : BOOLEAN]]
  /\ xhr \in [Xhrs -> XhrStates] /\ \A x \in Xhrs : xhr[x].late <= xhr[x].listeners
  /\ network \in Seq(RequestEntries) /\ marks \in Seq(Marks)

FetchSays(f) ==
  /\ fetch[f].stage = "passed" => fetch[f].internal
  /\ fetch[f].stage \in {"idle", "passed", "pending"} => ~fetch[f].failed
  /\ fetch[f].stage = "settled" => Cardinality(Recorded(f, 1)) = 1
  /\ fetch[f].stage # "settled" => Recorded(f, 1) = {}
  /\ fetch[f].failed => Cardinality(MarkedFailures(f, 1)) = 1
  /\ ~fetch[f].failed => MarkedFailures(f, 1) = {}

Silent(x, turn) == Recorded(x, turn) = {} /\ MarkedFailures(x, turn) = {}

XhrSays(x) ==
  /\ xhr[x].state \in {"opened", "sent"} => xhr[x].late = 0
  /\ xhr[x].state = "done" =>
       Cardinality(Recorded(x, xhr[x].turn)) = xhr[x].listeners - xhr[x].late
  /\ xhr[x].state # "done" => Silent(x, xhr[x].turn)
  /\ \A turn \in Nat : turn > xhr[x].turn => Silent(x, turn)

RequestInv ==
  /\ RequestShape
  /\ \A f \in Fetches : FetchSays(f)
  /\ \A x \in Xhrs : XhrSays(x)
  /\ FailuresAgree

\* A log that gets an entry some times over, of a turn it had none of.
Grows(log, longer, e, n) == longer = log \o Times(n, e)

LEMMA Recording ==
  ASSUME NEW S, NEW log \in Seq(S), NEW e \in S, NEW n \in Nat,
         NEW longer, Grows(log, longer, e, n)
  PROVE  /\ longer \in Seq(S)
         /\ \A i \in DOMAIN longer : longer[i] = e \/ (i \in DOMAIN log /\ longer[i] = log[i])
         /\ \A source, turn : source # e.source \/ turn # e.turn =>
              Of(longer, source, turn) = Of(log, source, turn)
         /\ Of(log, e.source, e.turn) = {} =>
              /\ Cardinality(Of(longer, e.source, e.turn)) = n
              /\ n = 0 => Of(longer, e.source, e.turn) = {}
<1> DEFINE L == Len(log)
<1>1. Times(n, e) \in Seq(S) /\ Len(Times(n, e)) = n /\ \A i \in 1 .. n : Times(n, e)[i] = e
  <2>1. Times(n, e) = [i \in 1 .. n |-> e]
    BY DEF Times
  <2>2. Times(n, e) \in [1 .. n -> S] /\ \A i \in 1 .. n : Times(n, e)[i] = e
    BY <2>1
  <2> QED  BY <2>2, FunctionIsSeq
<1>2. /\ L \in Nat /\ DOMAIN log = 1 .. L
      /\ longer \in Seq(S) /\ Len(longer) = L + n /\ DOMAIN longer = 1 .. L + n
      /\ \A i \in 1 .. L : longer[i] = log[i]
      /\ \A i \in L + 1 .. L + n : longer[i] = Times(n, e)[i - L]
  <2>1. PICK more \in Seq(S) : more = Times(n, e)
    BY <1>1
  <2>2. longer = log \o more /\ Len(more) = n
    BY <1>1, <2>1 DEF Grows
  <2>3. longer \in Seq(S) /\ Len(longer) = L + n /\ L \in Nat /\ DOMAIN log = 1 .. L
    BY <2>2, ConcatProperties, LenProperties
  <2>4. DOMAIN longer = 1 .. L + n
    BY <2>3, LenProperties
  <2>5. \A i \in 1 .. L + n : longer[i] = IF i <= L THEN log[i] ELSE more[i - L]
    BY <2>2, ConcatProperties
  <2> HIDE DEF L
  <2>6. /\ \A i \in 1 .. L : longer[i] = log[i]
        /\ \A i \in L + 1 .. L + n : longer[i] = more[i - L]
    BY <2>3, <2>5
  <2> QED  BY <2>1, <2>3, <2>4, <2>6
<1>3. \A i \in L + 1 .. L + n : longer[i] = e
  <2> TAKE i \in L + 1 .. L + n
  <2>1. i - L \in 1 .. n /\ longer[i] = Times(n, e)[i - L]
    BY <1>2
  <2> QED  BY <1>1, <2>1
<1> HIDE DEF L
<1>4. \A i \in 1 .. L + n : i \in 1 .. L \/ i \in L + 1 .. L + n
  BY <1>2
<1>5. \A i \in DOMAIN longer : longer[i] = e \/ (i \in DOMAIN log /\ longer[i] = log[i])
  BY <1>2, <1>3, <1>4
<1>6. ASSUME NEW source, NEW turn, source # e.source \/ turn # e.turn
      PROVE  Of(longer, source, turn) = Of(log, source, turn)
  <2>1. 1 .. L \subseteq 1 .. L + n
    BY <1>2
  <2> QED  BY <1>2, <1>5, <1>6, <2>1 DEF Of
<1>7. ASSUME Of(log, e.source, e.turn) = {}
      PROVE  /\ Cardinality(Of(longer, e.source, e.turn)) = n
             /\ n = 0 => Of(longer, e.source, e.turn) = {}
  <2>1. Of(longer, e.source, e.turn) \subseteq L + 1 .. L + n
    BY <1>2, <1>4, <1>7 DEF Of
  <2>2. L + 1 .. L + n \subseteq Of(longer, e.source, e.turn)
    <3>1. L + 1 .. L + n \subseteq 1 .. L + n
      BY <1>2
    <3> QED  BY <1>2, <1>3, <3>1 DEF Of
  <2>3. Of(longer, e.source, e.turn) = L + 1 .. L + n
    BY <2>1, <2>2
  <2>4. Cardinality(L + 1 .. L + n) = n
    <3>1. L + 1 \in Int /\ L + n \in Int
      BY <1>2
    <3>2. Cardinality(L + 1 .. L + n) = IF L + 1 > L + n THEN 0 ELSE (L + n) - (L + 1) + 1
      BY <3>1, FS_Interval
    <3> QED  BY <1>2, <3>2
  <2>5. n = 0 => L + 1 .. L + n = {}
    BY <1>2
  <2> QED  BY <2>3, <2>4, <2>5
<1> QED  BY <1>2, <1>5, <1>6, <1>7

\* Entries and marks keep agreeing when a turn gets its entries and its marks.
LEMMA AgreeOn ==
  ASSUME RequestInv, NEW e \in RequestEntries, NEW n \in Nat, Recorded(e.source, e.turn) = {},
         Grows(network, network', e, n),
         \A source, turn : source # e.source \/ turn # e.turn =>
           Of(marks', source, turn) = Of(marks, source, turn),
         Cardinality(Of(marks', e.source, e.turn)) = IF e.failed THEN n ELSE 0
  PROVE  FailuresAgree'
<1>1. network \in Seq(RequestEntries) /\ Of(network, e.source, e.turn) = {}
  BY DEF RequestInv, RequestShape, Recorded
<1>2. PICK longer : longer = network'
  OBVIOUS
<1>3. /\ \A i \in DOMAIN longer :
           longer[i] = e \/ (i \in DOMAIN network /\ longer[i] = network[i])
      /\ \A source, turn : source # e.source \/ turn # e.turn =>
           Of(longer, source, turn) = Of(network, source, turn)
      /\ Cardinality(Of(longer, e.source, e.turn)) = n
  <2>1. Grows(network, longer, e, n)
    BY <1>2
  <2> QED  BY <1>1, <2>1, Recording
<1>4. ASSUME NEW i \in DOMAIN longer
      PROVE  Cardinality(Of(marks', longer[i].source, longer[i].turn))
               = IF longer[i].failed THEN Cardinality(Of(longer, longer[i].source, longer[i].turn))
                 ELSE 0
  <2>1. CASE longer[i] = e
    BY <1>3, <2>1
  <2>2. CASE i \in DOMAIN network /\ longer[i] = network[i]
    <3>1. longer[i].source # e.source \/ longer[i].turn # e.turn
      BY <1>1, <2>2 DEF Of
    <3>2. Cardinality(Of(marks, longer[i].source, longer[i].turn))
            = IF longer[i].failed THEN Cardinality(Of(network, longer[i].source, longer[i].turn))
              ELSE 0
      BY <2>2 DEF RequestInv, FailuresAgree, Recorded, MarkedFailures
    <3> QED  BY <1>3, <3>1, <3>2
  <2> QED  BY <1>3, <1>4, <2>1, <2>2
<1> QED  BY <1>2, <1>4 DEF FailuresAgree, Recorded, MarkedFailures

\* What one source does leaves what is known of the others.
LEMMA OneActs ==
  ASSUME RequestInv, NEW s \in Sources, RequestShape', FailuresAgree',
         \A f \in Fetches \ {s} : fetch'[f] = fetch[f],
         \A x \in Xhrs \ {s} : xhr'[x] = xhr[x],
         \A source, turn : source # s =>
           /\ Of(network', source, turn) = Of(network, source, turn)
           /\ Of(marks', source, turn) = Of(marks, source, turn),
         s \in Fetches => FetchSays(s)', s \in Xhrs => XhrSays(s)'
  PROVE  RequestInv'
<1>1. ASSUME NEW f \in Fetches PROVE FetchSays(f)'
  <2>1. CASE f = s
    BY <2>1
  <2>2. CASE f # s
    BY <2>2 DEF RequestInv, FetchSays, Recorded, MarkedFailures
  <2> QED  BY <2>1, <2>2
<1>2. ASSUME NEW x \in Xhrs PROVE XhrSays(x)'
  <2>1. CASE x = s
    BY <2>1
  <2>2. CASE x # s
    BY <2>2 DEF RequestInv, XhrSays, Silent, Recorded, MarkedFailures
  <2> QED  BY <2>1, <2>2
<1> QED  BY <1>1, <1>2 DEF RequestInv

\* Marks are like entries.
LEMMA Marking ==
  ASSUME RequestInv, NEW s \in Sources, NEW turn \in Nat, NEW failed \in BOOLEAN, NEW n \in Nat,
         MarkFailure(s, turn, failed, n), MarkedFailures(s, turn) = {}
  PROVE  /\ marks' \in Seq(Marks)
         /\ \A source, t : source # s \/ t # turn => Of(marks', source, t) = Of(marks, source, t)
         /\ Cardinality(Of(marks', s, turn)) = IF failed THEN n ELSE 0
         /\ ~failed => Of(marks', s, turn) = {}
<1>1. marks \in Seq(Marks) /\ Of(marks, s, turn) = {}
  BY DEF RequestInv, RequestShape, MarkedFailures
<1>2. CASE failed
  <2>1. PICK e : e = [source |-> s, turn |-> turn]
    OBVIOUS
  <2>2. e \in Marks /\ e.source = s /\ e.turn = turn
    BY <2>1 DEF Marks
  <2>3. Grows(marks, marks', e, n)
    BY <1>2, <2>1 DEF MarkFailure, Grows
  <2> QED  BY <1>1, <1>2, <2>2, <2>3, Recording
<1>3. CASE ~failed
  <2>1. marks' = marks
    BY <1>3 DEF MarkFailure
  <2> QED  BY <1>1, <1>3, <2>1, FS_EmptySet
<1> QED  BY <1>2, <1>3

-----------------------------------------------------------------------------
LEMMA FetchStartsKeeps ==
  ASSUME RequestInv, NEW f \in Fetches, NEW internal \in BOOLEAN, FetchStarts(f, internal)
  PROVE  RequestInv'
<1>1. UNCHANGED <<xhr, network, marks>> /\ fetch[f].stage = "idle"
  BY DEF FetchStarts
<1>2. RequestShape'
  <2>1. fetch' = [fetch EXCEPT ![f].stage = IF internal THEN "passed" ELSE "pending",
                               ![f].internal = internal]
    BY DEF FetchStarts
  <2>2. fetch' \in [Fetches -> [stage : {"idle", "passed", "pending", "reading", "settled"},
                                internal : BOOLEAN, failed : BOOLEAN]]
    <3>1. CASE internal
      <4>1. fetch' = [fetch EXCEPT ![f].stage = "passed", ![f].internal = internal]
        BY <2>1, <3>1
      <4> QED  BY <4>1 DEF RequestInv, RequestShape
    <3>2. CASE ~internal
      <4>1. fetch' = [fetch EXCEPT ![f].stage = "pending", ![f].internal = internal]
        BY <2>1, <3>2
      <4> QED  BY <4>1 DEF RequestInv, RequestShape
    <3> QED  BY <3>1, <3>2
  <2> QED  BY <1>1, <2>2 DEF RequestInv, RequestShape
<1>3. /\ \A g \in Fetches \ {f} : fetch'[g] = fetch[g]
      /\ fetch'[f].stage \in {"passed", "pending"} /\ fetch'[f].failed = fetch[f].failed
      /\ fetch'[f].stage = "passed" => fetch'[f].internal
  BY DEF FetchStarts, RequestInv, RequestShape
<1>4. FetchSays(f)'
  BY <1>1, <1>3 DEF RequestInv, FetchSays, Recorded, MarkedFailures
<1>5. FailuresAgree'
  BY <1>1 DEF RequestInv, FailuresAgree, Recorded, MarkedFailures
<1> QED  BY <1>1, <1>2, <1>3, <1>4, <1>5, OneActs, RequestAssumption DEF Sources

\* A fetch that settles: one entry, and a mark if it failed.
LEMMA FetchSettles ==
  ASSUME RequestInv, NEW f \in Fetches, fetch[f].stage \in {"pending", "reading"},
         NEW body \in AtOnce \cup Texts \cup {"error"}, NEW failed \in BOOLEAN,
         \A g \in Fetches \ {f} : fetch'[g] = fetch[g],
         fetch'[f].stage = "settled", fetch'[f].failed = failed,
         fetch' \in [Fetches -> [stage : {"idle", "passed", "pending", "reading", "settled"},
                                 internal : BOOLEAN, failed : BOOLEAN]],
         UNCHANGED xhr, RecordRequest(Entry(f, 1, body, failed), 1),
         \/ fetch[f].stage = "pending" /\ MarkFailure(f, 1, failed, 1)
         \/ fetch[f].stage = "reading" /\ failed = fetch[f].failed /\ UNCHANGED marks
  PROVE  RequestInv'
<1>1. PICK e : e = Entry(f, 1, body, failed)
  OBVIOUS
<1>2. /\ e \in RequestEntries /\ e.source = f /\ e.turn = 1 /\ e.failed = failed
      /\ f \in Sources
  BY <1>1 DEF Entry, RequestEntries, Sources
<1>3. network \in Seq(RequestEntries) /\ Of(network, f, 1) = {} /\ Grows(network, network', e, 1)
  BY <1>1 DEF RequestInv, RequestShape, FetchSays, RecordRequest, Grows, Recorded
<1>4. /\ network' \in Seq(RequestEntries)
      /\ \A source, turn : source # f \/ turn # 1 =>
           Of(network', source, turn) = Of(network, source, turn)
      /\ Cardinality(Of(network', f, 1)) = 1
  BY <1>2, <1>3, Recording
<1>5. /\ marks' \in Seq(Marks)
      /\ \A source, turn : source # f \/ turn # 1 => Of(marks', source, turn) = Of(marks, source, turn)
      /\ Cardinality(Of(marks', f, 1)) = IF failed THEN 1 ELSE 0
      /\ ~failed => Of(marks', f, 1) = {}
  <2>1. CASE fetch[f].stage = "pending" /\ MarkFailure(f, 1, failed, 1)
    <3>1. MarkedFailures(f, 1) = {}
      BY <2>1 DEF RequestInv, RequestShape, FetchSays
    <3> QED  BY <1>2, <2>1, <3>1, Marking
  <2>2. CASE fetch[f].stage = "reading" /\ failed = fetch[f].failed /\ UNCHANGED marks
    BY <2>2, FS_EmptySet DEF RequestInv, RequestShape, FetchSays, MarkedFailures
  <2> QED  BY <2>1, <2>2
<1>6. FailuresAgree'
  BY <1>2, <1>3, <1>5, AgreeOn DEF Recorded
<1>7. FetchSays(f)'
  BY <1>4, <1>5 DEF FetchSays, Recorded, MarkedFailures
<1>8. RequestShape'
  BY <1>4, <1>5 DEF RequestInv, RequestShape
<1>9. f \notin Xhrs
  BY RequestAssumption
<1> QED  BY <1>2, <1>4, <1>5, <1>6, <1>7, <1>8, <1>9, OneActs

LEMMA FetchAnswersKeeps ==
  ASSUME RequestInv, NEW f \in Fetches, NEW body \in AtOnce \cup {"text"}, NEW failed \in BOOLEAN,
         FetchAnswers(f, body, failed)
  PROVE  RequestInv'
<1>1. fetch[f].stage = "pending" /\ MarkFailure(f, 1, failed, 1) /\ UNCHANGED xhr
  BY DEF FetchAnswers
<1>2. CASE /\ body \in AtOnce
           /\ fetch' = [fetch EXCEPT ![f].stage = "settled", ![f].failed = failed]
           /\ RecordRequest(Entry(f, 1, body, failed), 1)
  <2>1. /\ fetch' \in [Fetches -> [stage : {"idle", "passed", "pending", "reading", "settled"},
                                   internal : BOOLEAN, failed : BOOLEAN]]
        /\ \A g \in Fetches \ {f} : fetch'[g] = fetch[g]
        /\ fetch'[f].stage = "settled" /\ fetch'[f].failed = failed
    BY <1>2 DEF RequestInv, RequestShape
  <2> QED  BY <1>1, <1>2, <2>1, FetchSettles
<1>3. CASE /\ fetch' = [fetch EXCEPT ![f].stage = "reading", ![f].failed = failed]
           /\ UNCHANGED network
  <2>1. /\ fetch' \in [Fetches -> [stage : {"idle", "passed", "pending", "reading", "settled"},
                                   internal : BOOLEAN, failed : BOOLEAN]]
        /\ \A g \in Fetches \ {f} : fetch'[g] = fetch[g]
        /\ fetch'[f].stage = "reading" /\ fetch'[f].failed = failed
    BY <1>3 DEF RequestInv, RequestShape
  <2>2. f \in Sources /\ f \notin Xhrs
    BY RequestAssumption DEF Sources
  <2>3. Recorded(f, 1) = {} /\ MarkedFailures(f, 1) = {}
    BY <1>1 DEF RequestInv, RequestShape, FetchSays
  <2>4. /\ marks' \in Seq(Marks)
        /\ \A source, turn : source # f \/ turn # 1 =>
             Of(marks', source, turn) = Of(marks, source, turn)
        /\ Cardinality(Of(marks', f, 1)) = IF failed THEN 1 ELSE 0
        /\ ~failed => Of(marks', f, 1) = {}
    BY <1>1, <2>2, <2>3, Marking
  <2>5. FailuresAgree'
    <3>1. ASSUME NEW i \in DOMAIN network
          PROVE  Of(marks', network[i].source, network[i].turn)
                   = Of(marks, network[i].source, network[i].turn)
      <4>1. network[i].source # f \/ network[i].turn # 1
        BY <2>3 DEF Recorded, Of
      <4> QED  BY <2>4, <4>1
    <3> QED  BY <1>3, <3>1 DEF RequestInv, FailuresAgree, Recorded, MarkedFailures
  <2>6. FetchSays(f)'
    BY <1>3, <2>1, <2>3, <2>4 DEF FetchSays, Recorded, MarkedFailures
  <2>7. RequestShape'
    BY <1>1, <1>3, <2>1, <2>4 DEF RequestInv, RequestShape
  <2> QED  BY <1>1, <1>3, <2>1, <2>2, <2>4, <2>5, <2>6, <2>7, OneActs
<1> QED  BY <1>2, <1>3 DEF FetchAnswers

LEMMA FetchBodyReadKeeps ==
  ASSUME RequestInv, NEW f \in Fetches, NEW body \in Texts, FetchBodyRead(f, body)
  PROVE  RequestInv'
<1>1. /\ fetch[f].stage = "reading" /\ UNCHANGED <<xhr, marks>>
      /\ RecordRequest(Entry(f, 1, body, fetch[f].failed), 1)
  BY DEF FetchBodyRead
<1>2. /\ fetch' \in [Fetches -> [stage : {"idle", "passed", "pending", "reading", "settled"},
                                 internal : BOOLEAN, failed : BOOLEAN]]
      /\ \A g \in Fetches \ {f} : fetch'[g] = fetch[g]
      /\ fetch'[f].stage = "settled" /\ fetch'[f].failed = fetch[f].failed
      /\ fetch[f].failed \in BOOLEAN
  BY DEF FetchBodyRead, RequestInv, RequestShape
<1> QED  BY <1>1, <1>2, FetchSettles

LEMMA FetchRejectsKeeps ==
  ASSUME RequestInv, NEW f \in Fetches, FetchRejects(f)
  PROVE  RequestInv'
<1>1. /\ fetch[f].stage = "pending" /\ UNCHANGED xhr
      /\ RecordRequest(Entry(f, 1, "error", TRUE), 1) /\ MarkFailure(f, 1, TRUE, 1)
  BY DEF FetchRejects
<1>2. /\ fetch' \in [Fetches -> [stage : {"idle", "passed", "pending", "reading", "settled"},
                                 internal : BOOLEAN, failed : BOOLEAN]]
      /\ \A g \in Fetches \ {f} : fetch'[g] = fetch[g]
      /\ fetch'[f].stage = "settled" /\ fetch'[f].failed = TRUE
  BY DEF FetchRejects, RequestInv, RequestShape
<1> QED  BY <1>1, <1>2, FetchSettles

-----------------------------------------------------------------------------
\* An object that records nothing, in the present turn or at the start of a new one.
LEMMA XhrGoesOn ==
  ASSUME RequestInv, NEW x \in Xhrs, UNCHANGED <<fetch, network, marks>>,
         \A y \in Xhrs \ {x} : xhr'[y] = xhr[y], RequestShape',
         xhr'[x].state # "done", xhr'[x].state \in {"opened", "sent"} => xhr'[x].late = 0,
         \/ xhr[x].state # "done" /\ xhr'[x].turn = xhr[x].turn
         \/ xhr'[x].turn = xhr[x].turn + 1
  PROVE  RequestInv'
<1>1. /\ xhr[x].turn \in Nat /\ xhr'[x].turn \in Nat /\ XhrSays(x)
      /\ xhr'[x].turn >= xhr[x].turn
  <2>1. xhr[x] \in XhrStates /\ xhr'[x] \in XhrStates
    BY DEF RequestInv, RequestShape
  <2> QED  BY <2>1, RequestAssumption DEF RequestInv, XhrStates
<1>2. Silent(x, xhr'[x].turn)
  BY <1>1 DEF XhrSays
<1>3. \A turn \in Nat : turn > xhr'[x].turn => Silent(x, turn)
  BY <1>1 DEF XhrSays
<1>4. XhrSays(x)'
  BY <1>2, <1>3 DEF XhrSays, Silent, Recorded, MarkedFailures
<1>5. FailuresAgree'
  BY DEF RequestInv, FailuresAgree, Recorded, MarkedFailures
<1>6. x \in Sources /\ x \notin Fetches
  BY RequestAssumption DEF Sources
<1> QED  BY <1>4, <1>5, <1>6, OneActs

LEMMA XhrOpenKeeps ==
  ASSUME RequestInv, NEW x \in Xhrs, NEW url \in {"page", "own", "object"}, XhrOpen(x, url)
  PROVE  RequestInv'
<1>1. UNCHANGED <<fetch, network, marks>> /\ xhr[x].turn < MaxTurns
  BY DEF XhrOpen
<1>2. xhr \in [Xhrs -> XhrStates] /\ xhr[x] \in XhrStates
  BY DEF RequestInv, RequestShape
<1>3. PICK next : next = [xhr[x] EXCEPT !.state = "opened", !.url = url, !.turn = @ + 1, !.late = 0]
  OBVIOUS
<1>4. xhr' = [xhr EXCEPT ![x] = next]
  BY <1>2, <1>3 DEF XhrOpen
<1>5. /\ next \in XhrStates /\ next.state = "opened" /\ next.turn = xhr[x].turn + 1
      /\ next.late = 0 /\ next.late <= next.listeners
  <2>1. /\ next.state = "opened" /\ next.url = url /\ next.turn = xhr[x].turn + 1
        /\ next.listeners = xhr[x].listeners /\ next.late = 0
        /\ next = [state |-> next.state, url |-> next.url, turn |-> next.turn,
                   listeners |-> next.listeners, late |-> next.late]
    BY <1>2, <1>3 DEF XhrStates
  <2>2. xhr[x].turn \in 0 .. MaxTurns /\ xhr[x].listeners \in 0 .. MaxSends
    BY <1>2 DEF XhrStates
  <2>3. /\ next.turn \in 0 .. MaxTurns /\ next.listeners \in 0 .. MaxSends
        /\ next.late \in 0 .. MaxSends /\ next.late <= next.listeners
    BY <1>1, <2>1, <2>2, RequestAssumption
  <2>4. next.state \in {"unsent", "opened", "sent", "done", "silent"}
        /\ next.url \in {"page", "own", "object"}
    BY <2>1
  <2>5. next \in XhrStates
    BY <2>1, <2>3, <2>4, Zenon DEF XhrStates
  <2> QED  BY <2>1, <2>3, <2>5
<1>6. xhr' \in [Xhrs -> XhrStates] /\ xhr'[x] = next /\ \A y \in Xhrs \ {x} : xhr'[y] = xhr[y]
  BY <1>2, <1>4, <1>5
<1>7. RequestShape'
  BY <1>1, <1>5, <1>6 DEF RequestInv, RequestShape
<1> QED  BY <1>1, <1>5, <1>6, <1>7, XhrGoesOn

LEMMA XhrSendKeeps ==
  ASSUME RequestInv, NEW x \in Xhrs, XhrSend(x)
  PROVE  RequestInv'
<1>1. UNCHANGED <<fetch, network, marks>>
  BY DEF XhrSend
<1>2. /\ xhr \in [Xhrs -> XhrStates] /\ xhr[x] \in XhrStates /\ XhrSays(x)
      /\ xhr[x].late <= xhr[x].listeners
  BY DEF RequestInv, RequestShape
<1>3. PICK more \in {0, 1} :
        /\ more = 1 => xhr[x].listeners < MaxSends
        /\ xhr' = [xhr EXCEPT ![x].state = IF @ = "opened" THEN "sent" ELSE @,
                              ![x].listeners = @ + more,
                              ![x].late = IF xhr[x].state = "done" THEN @ + more ELSE @]
  <2>1. CASE xhr[x].url = "page"
    <3>1. WITNESS 1 \in {0, 1}
    <3> QED  BY <2>1 DEF XhrSend
  <2>2. CASE xhr[x].url # "page"
    <3>1. WITNESS 0 \in {0, 1}
    <3> QED  BY <2>2 DEF XhrSend
  <2> QED  BY <2>1, <2>2
<1>4. PICK next : next = [xhr[x] EXCEPT !.state = IF @ = "opened" THEN "sent" ELSE @,
                                       !.listeners = @ + more,
                                       !.late = IF xhr[x].state = "done" THEN @ + more ELSE @]
  OBVIOUS
<1>5. xhr' = [xhr EXCEPT ![x] = next]
  BY <1>2, <1>3, <1>4
<1>6. /\ next.state = IF xhr[x].state = "opened" THEN "sent" ELSE xhr[x].state
      /\ next.turn = xhr[x].turn /\ next.listeners = xhr[x].listeners + more
      /\ next.late = IF xhr[x].state = "done" THEN xhr[x].late + more ELSE xhr[x].late
      /\ next.url = xhr[x].url
      /\ next = [state |-> next.state, url |-> next.url, turn |-> next.turn,
                 listeners |-> next.listeners, late |-> next.late]
  BY <1>2, <1>4 DEF XhrStates
<1>7. /\ xhr[x].listeners \in 0 .. MaxSends /\ xhr[x].late \in 0 .. MaxSends /\ MaxSends \in Nat
      /\ xhr[x].state \in {"unsent", "opened", "sent", "done", "silent"}
      /\ xhr[x].url \in {"page", "own", "object"} /\ xhr[x].turn \in 0 .. MaxTurns
  BY <1>2, RequestAssumption DEF XhrStates
<1>8. /\ next.listeners \in 0 .. MaxSends /\ next.late \in 0 .. MaxSends /\ next.late <= next.listeners
  BY <1>2, <1>3, <1>6, <1>7
<1>9. next \in XhrStates
  BY <1>6, <1>7, <1>8, Zenon DEF XhrStates
<1>10. xhr' \in [Xhrs -> XhrStates] /\ xhr'[x] = next /\ \A y \in Xhrs \ {x} : xhr'[y] = xhr[y]
  BY <1>2, <1>5, <1>9
<1>11. RequestShape'
  BY <1>1, <1>8, <1>10 DEF RequestInv, RequestShape
<1>12. CASE xhr[x].state # "done"
  <2>1. next.state # "done" /\ (next.state \in {"opened", "sent"} => next.late = 0)
    BY <1>2, <1>6, <1>12 DEF XhrSays
  <2> QED  BY <1>1, <1>6, <1>10, <1>11, <1>12, <2>1, XhrGoesOn
<1>13. CASE xhr[x].state = "done"
  <2>1. next.state = "done" /\ next.listeners - next.late = xhr[x].listeners - xhr[x].late
    BY <1>6, <1>7, <1>13
  <2>2. XhrSays(x)'
    BY <1>1, <1>2, <1>6, <1>10, <1>13, <2>1 DEF XhrSays, Silent, Recorded, MarkedFailures
  <2>3. FailuresAgree'
    BY <1>1 DEF RequestInv, FailuresAgree, Recorded, MarkedFailures
  <2>4. x \in Sources /\ x \notin Fetches
    BY RequestAssumption DEF Sources
  <2> QED  BY <1>1, <1>10, <1>11, <2>2, <2>3, <2>4, OneActs
<1> QED  BY <1>12, <1>13

LEMMA XhrAbortsKeeps ==
  ASSUME RequestInv, NEW x \in Xhrs, XhrAborts(x)
  PROVE  RequestInv'
<1>1. UNCHANGED <<fetch, network, marks>> /\ xhr[x].state # "done"
  BY DEF XhrAborts
<1>2. /\ \A y \in Xhrs \ {x} : xhr'[y] = xhr[y]
      /\ xhr'[x].state = "silent" /\ xhr'[x].turn = xhr[x].turn
  BY DEF XhrAborts, RequestInv, RequestShape, XhrStates
<1>3. RequestShape'
  <2>1. xhr' \in [Xhrs -> XhrStates] /\ \A y \in Xhrs : xhr'[y].late <= xhr'[y].listeners
    BY DEF XhrAborts, RequestInv, RequestShape, XhrStates
  <2> QED  BY <1>1, <2>1 DEF RequestInv, RequestShape
<1> QED  BY <1>1, <1>2, <1>3, XhrGoesOn

\* An object that is done: an entry for each of its listeners, and a mark each if
\* the request failed.
LEMMA XhrDone ==
  ASSUME RequestInv, NEW x \in Xhrs, xhr[x].state = "sent",
         NEW body \in AtOnce \cup Texts \cup {"error"}, NEW failed \in BOOLEAN,
         xhr' = [xhr EXCEPT ![x].state = "done"],
         RecordRequest(Entry(x, xhr[x].turn, body, failed), xhr[x].listeners),
         MarkFailure(x, xhr[x].turn, failed, xhr[x].listeners), UNCHANGED fetch
  PROVE  RequestInv'
<1>1. PICK e, n, now : now = xhr[x].turn /\ n = xhr[x].listeners /\ e = Entry(x, now, body, failed)
  OBVIOUS
<1>2. n \in Nat /\ now \in Nat
  <2>1. xhr[x] \in XhrStates
    BY DEF RequestInv, RequestShape
  <2> QED  BY <1>1, <2>1, RequestAssumption DEF XhrStates
<1>3. /\ e \in RequestEntries /\ e.source = x /\ e.turn = now /\ e.failed = failed
      /\ x \in Sources
  BY <1>1, <1>2 DEF Entry, RequestEntries, Sources
<1>4. XhrSays(x) /\ Silent(x, now)
  BY <1>1 DEF RequestInv, XhrSays
<1>5. network \in Seq(RequestEntries) /\ Of(network, x, now) = {} /\ Grows(network, network', e, n)
  BY <1>1, <1>4 DEF RequestInv, RequestShape, Silent, RecordRequest, Grows, Recorded
<1>6. /\ network' \in Seq(RequestEntries)
      /\ \A source, turn : source # x \/ turn # now =>
           Of(network', source, turn) = Of(network, source, turn)
      /\ Cardinality(Of(network', x, now)) = n
  BY <1>2, <1>3, <1>5, Recording
<1>7. /\ marks' \in Seq(Marks)
      /\ \A source, turn : source # x \/ turn # now => Of(marks', source, turn) = Of(marks, source, turn)
      /\ Cardinality(Of(marks', x, now)) = IF failed THEN n ELSE 0
  BY <1>1, <1>2, <1>3, <1>4, Marking DEF Silent
<1>8. FailuresAgree'
  BY <1>2, <1>3, <1>5, <1>7, AgreeOn DEF Recorded
<1>9. /\ \A y \in Xhrs \ {x} : xhr'[y] = xhr[y]
      /\ xhr'[x].state = "done" /\ xhr'[x].turn = now /\ xhr'[x].listeners = n
      /\ xhr'[x].late = 0 /\ n - 0 = n
      /\ xhr' \in [Xhrs -> XhrStates] /\ \A y \in Xhrs : xhr'[y].late <= xhr'[y].listeners
  <2>1. xhr \in [Xhrs -> XhrStates] /\ xhr[x] \in XhrStates
        /\ \A y \in Xhrs : xhr[y].late <= xhr[y].listeners
    BY DEF RequestInv, RequestShape
  <2>2. PICK next : next = [xhr[x] EXCEPT !.state = "done"]
    OBVIOUS
  <2>3. xhr' = [xhr EXCEPT ![x] = next]
    BY <2>1, <2>2
  <2>4. next \in XhrStates /\ next.state = "done" /\ next.turn = xhr[x].turn
        /\ next.listeners = xhr[x].listeners /\ next.late = xhr[x].late
    BY <2>1, <2>2 DEF XhrStates
  <2>5. xhr[x].late = 0
    BY <1>4 DEF XhrSays
  <2>6. xhr' \in [Xhrs -> XhrStates] /\ xhr'[x] = next /\ \A y \in Xhrs \ {x} : xhr'[y] = xhr[y]
    BY <2>1, <2>3, <2>4
  <2>7. n - 0 = n
    BY <1>2
  <2> QED  BY <1>1, <2>1, <2>4, <2>5, <2>6, <2>7
<1>10. XhrSays(x)'
  <2>1. \A turn \in Nat : turn > now => Silent(x, turn)
    BY <1>1, <1>4 DEF XhrSays
  <2>2. \A turn \in Nat : turn > now => Silent(x, turn)'
    BY <1>2, <1>6, <1>7, <2>1 DEF Silent, Recorded, MarkedFailures
  <2> QED  BY <1>6, <1>9, <2>2 DEF XhrSays, Recorded
<1>11. RequestShape'
  BY <1>6, <1>7, <1>9 DEF RequestInv, RequestShape
<1>12. x \notin Fetches
  BY RequestAssumption
<1> QED  BY <1>3, <1>6, <1>7, <1>8, <1>9, <1>10, <1>11, <1>12, OneActs

-----------------------------------------------------------------------------
LEMMA RequestInvHolds == RequestInit /\ [][RequestNext]_requestVars => []RequestInv
<1>1. RequestInit => RequestInv
  <2> SUFFICES ASSUME RequestInit PROVE RequestInv
    OBVIOUS
  <2>1. network = <<>> /\ marks = <<>>
    BY DEF RequestInit
  <2>2. \A source, turn : Recorded(source, turn) = {} /\ MarkedFailures(source, turn) = {}
    BY <2>1 DEF Recorded, MarkedFailures, Of
  <2>3. RequestShape
    BY RequestAssumption DEF RequestInit, RequestShape, XhrStates
  <2>4. FailuresAgree
    BY <2>1 DEF FailuresAgree
  <2>5. \A f \in Fetches : FetchSays(f)
    BY <2>2 DEF RequestInit, FetchSays
  <2>6. \A x \in Xhrs : XhrSays(x)
    BY <2>2 DEF RequestInit, XhrSays, Silent
  <2> QED  BY <2>3, <2>4, <2>5, <2>6 DEF RequestInv
<1>2. ASSUME RequestInv, [RequestNext]_requestVars PROVE RequestInv'
  <2>1. ASSUME NEW x \in Xhrs, XhrFails(x) PROVE RequestInv'
    BY <1>2, <2>1, XhrDone DEF XhrFails
  <2>2. ASSUME NEW x \in Xhrs, NEW body \in AtOnce \cup Texts, NEW failed \in BOOLEAN,
               XhrLoads(x, body, failed)
        PROVE  RequestInv'
    BY <1>2, <2>2, XhrDone DEF XhrLoads
  <2>3. CASE UNCHANGED requestVars
    BY <1>2, <2>3 DEF requestVars, RequestInv, RequestShape, FetchSays, XhrSays, Silent,
       FailuresAgree, Recorded, MarkedFailures
  <2> QED  BY <1>2, <2>1, <2>2, <2>3, FetchStartsKeeps, FetchAnswersKeeps, FetchBodyReadKeeps,
              FetchRejectsKeeps, XhrOpenKeeps, XhrSendKeeps, XhrAbortsKeeps DEF RequestNext
<1> QED  BY <1>1, <1>2, PTL

\* Of any number of fetches and objects, opened, sent and aborted in any order, each
\* fetch of the page that settled is recorded once, each turn of an object that is done
\* once for each call of send that the object had by then, those that threw included,
\* and what failed is marked as often as it is recorded (debug-collector.js 453-710).
THEOREM RequestsAreRecorded ==
  RequestInit /\ [][RequestNext]_requestVars => []RequestsRecorded
<1>1. ASSUME RequestInv PROVE RequestsRecorded
  <2>1. RequestTypeOK
    <3>1. \A f \in Fetches :
            /\ fetch[f].stage \in {"idle", "passed", "pending", "reading", "settled"}
            /\ fetch[f].stage = "passed" => fetch[f].internal
      BY <1>1 DEF RequestInv, RequestShape, FetchSays
    <3>2. \A x \in Xhrs :
            /\ xhr[x].state \in {"unsent", "opened", "sent", "done", "silent"}
            /\ xhr[x].url \in {"page", "own", "object"} /\ xhr[x].turn \in 0 .. MaxTurns
            /\ xhr[x].listeners \in 0 .. MaxSends /\ xhr[x].late \in 0 .. xhr[x].listeners
      <4> SUFFICES ASSUME NEW x \in Xhrs
                   PROVE  /\ xhr[x].state \in {"unsent", "opened", "sent", "done", "silent"}
                          /\ xhr[x].url \in {"page", "own", "object"}
                          /\ xhr[x].turn \in 0 .. MaxTurns /\ xhr[x].listeners \in 0 .. MaxSends
                          /\ xhr[x].late \in 0 .. xhr[x].listeners
        OBVIOUS
      <4>1. xhr[x] \in XhrStates /\ xhr[x].late <= xhr[x].listeners
        BY <1>1 DEF RequestInv, RequestShape
      <4> QED  BY <4>1, RequestAssumption DEF XhrStates
    <3>3. \A i \in DOMAIN network : network[i].source \in Sources
      <4>1. network \in Seq(RequestEntries)
        BY <1>1 DEF RequestInv, RequestShape
      <4>2. \A i \in DOMAIN network : network[i] \in RequestEntries
        <5> HIDE DEF RequestEntries
        <5> QED  BY <4>1
      <4> QED  BY <4>2 DEF RequestEntries
    <3> QED  BY <3>1, <3>2, <3>3 DEF RequestTypeOK, Sources
  <2>2. FetchRecordedOnce
    BY <1>1, FS_EmptySet DEF RequestInv, RequestShape, FetchSays, FetchRecordedOnce
  <2>3. XhrRecordedPerSend
    BY <1>1, FS_EmptySet DEF RequestInv, XhrSays, Silent, XhrRecordedPerSend
  <2> QED  BY <1>1, <2>1, <2>2, <2>3 DEF RequestInv, RequestsRecorded
<1> QED  BY <1>1, RequestInvHolds, PTL

-----------------------------------------------------------------------------
(* What the sanitizer makes of a value.                                    *)

IsAlong(value, path, length, f) ==
  f = [n \in 0 .. length |-> IF n = 0 THEN value ELSE Child(f[n - 1], path[n])]

\* What stands along a path is defined by its recursion.
LEMMA AlongExists ==
  ASSUME NEW value, NEW path, NEW length \in Nat
  PROVE  \E f : IsAlong(value, path, length, f)
<1> DEFINE Defined(k, f) ==
             f = [n \in 0 .. k |-> IF n = 0 THEN value ELSE Child(f[n - 1], path[n])]
           S == {k \in Nat : \E f : Defined(k, f)}
<1>1. 0 \in S
  <2>1. PICK f : f = [n \in 0 .. 0 |-> value]
    OBVIOUS
  <2>2. \A n \in 0 .. 0 : n = 0
    OBVIOUS
  <2>3. Defined(0, f)
    BY <2>1, <2>2
  <2> QED  BY <2>3
<1>2. ASSUME NEW k \in Nat, k \in S PROVE k + 1 \in S
  <2>1. PICK f : Defined(k, f)
    BY <1>2
  <2>2. PICK g : g = [n \in 0 .. k + 1 |-> IF n <= k THEN f[n] ELSE Child(f[k], path[k + 1])]
    OBVIOUS
  <2>3. ASSUME NEW n \in 0 .. k + 1
        PROVE  g[n] = IF n = 0 THEN value ELSE Child(g[n - 1], path[n])
    <3>1. CASE n = 0
      <4>1. 0 \in 0 .. k + 1 /\ 0 \in 0 .. k /\ 0 <= k
        OBVIOUS
      <4>2. g[0] = f[0] /\ f[0] = value
        BY <2>1, <2>2, <4>1
      <4> QED  BY <3>1, <4>2
    <3>2. CASE n # 0 /\ n <= k
      <4>1. n \in 0 .. k /\ n - 1 \in 0 .. k + 1 /\ n - 1 <= k
        BY <3>2
      <4>2. g[n] = f[n] /\ g[n - 1] = f[n - 1]
        BY <2>2, <3>2, <4>1
      <4>3. f[n] = Child(f[n - 1], path[n])
        BY <2>1, <3>2, <4>1
      <4> QED  BY <3>2, <4>2, <4>3
    <3>3. CASE n # 0 /\ ~(n <= k)
      <4>1. n = k + 1 /\ n - 1 = k /\ k \in 0 .. k + 1 /\ k <= k
        BY <3>3
      <4>2. g[n] = Child(f[k], path[k + 1]) /\ g[k] = f[k]
        BY <2>2, <3>3, <4>1
      <4> QED  BY <3>3, <4>1, <4>2
    <3> QED  BY <3>1, <3>2, <3>3
  <2>4. Defined(k + 1, g)
    BY <2>2, <2>3
  <2> HIDE DEF Defined
  <2> QED  BY <2>4
<1> HIDE DEF S
<1>3. length \in S
  BY <1>1, <1>2, NatSetInduction
<1>4. PICK f : Defined(length, f)
  BY <1>3 DEF S
<1>5. IsAlong(value, path, length, f)
  BY <1>4 DEF IsAlong
<1> QED  BY <1>5

\* Along a path stands the value itself, then at each step the child of what
\* stands before it.
LEMMA AlongFacts ==
  ASSUME NEW value, NEW path, Len(path) \in Nat
  PROVE  /\ Along(value, path)[0] = value
         /\ \A n \in 1 .. Len(path) :
              Along(value, path)[n] = Child(Along(value, path)[n - 1], path[n])
<1> DEFINE length == Len(path)
           f == CHOOSE g : IsAlong(value, path, length, g)
<1>1. Along(value, path) = f
  BY DEF Along, IsAlong
<1> HIDE DEF length
<1>2. length \in Nat
  BY DEF length
<1>3. f = [n \in 0 .. length |-> IF n = 0 THEN value ELSE Child(f[n - 1], path[n])]
  <2>1. \E g : IsAlong(value, path, length, g)
    BY <1>2, AlongExists
  <2>2. IsAlong(value, path, length, f)
    BY <2>1, Zenon
  <2> QED  BY <2>2 DEF IsAlong
<1> HIDE DEF f
<1>4. f[0] = value
  <2>1. 0 \in 0 .. length
    BY <1>2
  <2> QED  BY <1>3, <2>1
<1>5. \A n \in 1 .. length : f[n] = Child(f[n - 1], path[n])
  <2> TAKE n \in 1 .. length
  <2>1. n \in 0 .. length /\ n # 0
    BY <1>2
  <2> QED  BY <1>3, <2>1
<1> QED  BY <1>1, <1>4, <1>5 DEF length

IsMet(value, depths, f) ==
  f = [n \in 0 .. depths |->
         IF n = 0 THEN {value} ELSE UNION {Inside(v) : v \in f[n - 1]}]

\* The sets of values that are met on the way down are defined by their recursion.
LEMMA MetExists ==
  ASSUME NEW value, NEW depths \in Nat
  PROVE  \E f : IsMet(value, depths, f)
<1> DEFINE Further(met) == UNION {Inside(v) : v \in met}
           Defined(k, f) ==
             f = [n \in 0 .. k |-> IF n = 0 THEN {value} ELSE Further(f[n - 1])]
           S == {k \in Nat : \E f : Defined(k, f)}
<1> HIDE DEF Further
<1>1. 0 \in S
  <2>1. PICK f : f = [n \in 0 .. 0 |-> {value}]
    OBVIOUS
  <2>2. \A n \in 0 .. 0 : n = 0
    OBVIOUS
  <2>3. Defined(0, f)
    BY <2>1, <2>2
  <2> QED  BY <2>3
<1>2. ASSUME NEW k \in Nat, k \in S PROVE k + 1 \in S
  <2>1. PICK f : Defined(k, f)
    BY <1>2
  <2>2. PICK g : g = [n \in 0 .. k + 1 |-> IF n <= k THEN f[n] ELSE Further(f[k])]
    OBVIOUS
  <2>3. ASSUME NEW n \in 0 .. k + 1
        PROVE  g[n] = IF n = 0 THEN {value} ELSE Further(g[n - 1])
    <3>1. CASE n = 0
      <4>1. 0 \in 0 .. k + 1 /\ 0 \in 0 .. k /\ 0 <= k
        OBVIOUS
      <4>2. g[0] = f[0] /\ f[0] = {value}
        BY <2>1, <2>2, <4>1
      <4> QED  BY <3>1, <4>2
    <3>2. CASE n # 0 /\ n <= k
      <4>1. n \in 0 .. k /\ n - 1 \in 0 .. k + 1 /\ n - 1 <= k
        BY <3>2
      <4>2. g[n] = f[n] /\ g[n - 1] = f[n - 1]
        BY <2>2, <3>2, <4>1
      <4>3. f[n] = Further(f[n - 1])
        BY <2>1, <3>2, <4>1
      <4> QED  BY <3>2, <4>2, <4>3
    <3>3. CASE n # 0 /\ ~(n <= k)
      <4>1. n = k + 1 /\ n - 1 = k /\ k \in 0 .. k + 1 /\ k <= k
        BY <3>3
      <4>2. g[n] = Further(f[k]) /\ g[k] = f[k]
        BY <2>2, <3>3, <4>1
      <4> QED  BY <3>3, <4>1, <4>2
    <3> QED  BY <3>1, <3>2, <3>3
  <2>4. Defined(k + 1, g)
    BY <2>2, <2>3
  <2> HIDE DEF Defined
  <2> QED  BY <2>4
<1> HIDE DEF S
<1>3. depths \in S
  BY <1>1, <1>2, NatSetInduction
<1>4. PICK f : Defined(depths, f)
  BY <1>3 DEF S
<1>5. IsMet(value, depths, f)
  BY <1>4 DEF IsMet, Further
<1> QED  BY <1>5

IsSanitized(met, last, f) ==
  f = [depth \in 0 .. last |->
         [v \in met[depth] |->
            IF TooFarDown(depth) THEN TooDeep ELSE Sanitized(v, f[depth + 1])]]

\* What becomes of the values at every depth is defined from the last depth up.
LEMMA SanitizedExists ==
  ASSUME NEW met, NEW last \in Nat, \A depth \in Nat : depth >= last => TooFarDown(depth)
  PROVE  \E f : IsSanitized(met, last, f)
<1> DEFINE Level(depth, below) ==
             [v \in met[depth] |-> IF TooFarDown(depth) THEN TooDeep ELSE Sanitized(v, below)]
           Defined(k, f) == f = [depth \in (last - k) .. last |-> Level(depth, f[depth + 1])]
           S == {k \in Nat : k <= last => \E f : Defined(k, f)}
<1>0. \A below, other : Level(last, below) = Level(last, other)
  BY DEF TooFarDown
<1> HIDE DEF Level
<1>1. 0 \in S
  <2>1. PICK f : f = [depth \in last .. last |-> Level(last, <<>>)]
    OBVIOUS
  <2>2. \A depth \in last .. last : depth = last
    OBVIOUS
  <2>3. last - 0 = last
    OBVIOUS
  <2>4. \A depth \in last .. last : Level(last, <<>>) = Level(depth, f[depth + 1])
    BY <2>2, <1>0
  <2>5. Defined(0, f)
    BY <2>1, <2>3, <2>4
  <2> QED  BY <2>5
<1>2. ASSUME NEW k \in Nat, k \in S PROVE k + 1 \in S
  <2> SUFFICES ASSUME k + 1 <= last PROVE \E f : Defined(k + 1, f)
    OBVIOUS
  <2>1. PICK f : Defined(k, f)
    BY <1>2
  <2> DEFINE low == last - (k + 1)
  <2>2. PICK g : g = [depth \in low .. last |->
                        IF depth > low THEN f[depth] ELSE Level(low, f[low + 1])]
    OBVIOUS
  <2>3. low \in Nat /\ last - k = low + 1
    OBVIOUS
  <2> HIDE DEF low
  <2>4. ASSUME NEW depth \in low .. last
        PROVE  g[depth] = Level(depth, g[depth + 1])
    <3>1. CASE depth = last /\ depth > low
      <4>1. depth \in (last - k) .. last
        BY <3>1, <2>3
      <4>2. g[depth] = f[depth] /\ f[depth] = Level(depth, f[depth + 1])
        BY <2>1, <2>2, <3>1, <4>1
      <4> QED  BY <1>0, <3>1, <4>2
    <3>2. CASE depth < last /\ depth > low
      <4>1. depth \in (last - k) .. last /\ depth + 1 \in low .. last /\ depth + 1 > low
        BY <3>2, <2>3
      <4>2. g[depth] = f[depth] /\ f[depth] = Level(depth, f[depth + 1])
        BY <2>1, <2>2, <3>2, <4>1
      <4>3. g[depth + 1] = f[depth + 1]
        BY <2>2, <4>1
      <4> QED  BY <4>2, <4>3
    <3>3. CASE depth = low
      <4>1. low \in low .. last /\ ~(low > low) /\ low + 1 \in low .. last /\ low + 1 > low
        BY <2>3
      <4>2. g[low] = Level(low, f[low + 1]) /\ g[low + 1] = f[low + 1]
        BY <2>2, <4>1
      <4> QED  BY <3>3, <4>2
    <3> QED  BY <3>1, <3>2, <3>3, <2>3
  <2>5. Defined(k + 1, g)
    BY <2>2, <2>4 DEF low
  <2> HIDE DEF Defined
  <2> QED  BY <2>5
<1> HIDE DEF S
<1>3. last \in S
  BY <1>1, <1>2, NatSetInduction
<1>4. PICK f : Defined(last, f)
  BY <1>3 DEF S
<1>5. last - last = 0
  OBVIOUS
<1>6. f = [depth \in 0 .. last |-> Level(depth, f[depth + 1])]
  BY <1>4, <1>5
<1>7. IsSanitized(met, last, f)
  BY <1>6 DEF Level, IsSanitized
<1> QED  BY <1>7

\* sanitizeValue as the recursion it is: what is met at a depth is sanitized with
\* what becomes of what is met one depth further down.
Unfolded(value, met, sanitized) ==
  /\ met[0] = {value} /\ SanitizeValue(value) = sanitized[0][value]
  /\ \A depth \in 0 .. MaxNesting : \A v \in met[depth] :
       /\ Inside(v) \subseteq met[depth + 1]
       /\ sanitized[depth][v] = Sanitized(v, sanitized[depth + 1])
  /\ \A v \in met[MaxNesting + 1] : sanitized[MaxNesting + 1][v] = TooDeep

LEMMA SanitizeUnfolds ==
  ASSUME NEW value
  PROVE  \E met, sanitized : Unfolded(value, met, sanitized)
<1> DEFINE last == MaxNesting + 1
           met == CHOOSE f : IsMet(value, last, f)
           sanitized == CHOOSE f : IsSanitized(met, last, f)
<1>1. SanitizeValue(value) = sanitized[0][value]
  BY DEF SanitizeValue, IsMet, IsSanitized
<1>2. MaxNesting \in Nat /\ last \in Nat /\ last = MaxNesting + 1
  BY SanitizerAssumption
<1>3. \A depth \in 0 .. last : TooFarDown(depth) <=> depth = last
  BY <1>2 DEF TooFarDown
<1>4. \A depth \in Nat : depth >= last => TooFarDown(depth)
  BY <1>2 DEF TooFarDown
<1> HIDE DEF last
<1>5. met = [depth \in 0 .. last |->
               IF depth = 0 THEN {value} ELSE UNION {Inside(v) : v \in met[depth - 1]}]
  <2>1. \E f : IsMet(value, last, f)
    BY <1>2, MetExists
  <2>2. IsMet(value, last, met)
    BY <2>1, Zenon
  <2> QED  BY <2>2 DEF IsMet
<1> HIDE DEF met
<1>6. sanitized = [depth \in 0 .. last |->
                     [v \in met[depth] |->
                        IF TooFarDown(depth) THEN TooDeep ELSE Sanitized(v, sanitized[depth + 1])]]
  <2>1. \E f : IsSanitized(met, last, f)
    BY <1>2, <1>4, SanitizedExists
  <2>2. IsSanitized(met, last, sanitized)
    BY <2>1, Zenon
  <2> QED  BY <2>2 DEF IsSanitized
<1> HIDE DEF sanitized
<1>7. met[0] = {value}
  <2>1. 0 \in 0 .. last
    BY <1>2
  <2> QED  BY <1>5, <2>1
<1>8. ASSUME NEW depth \in 0 .. MaxNesting, NEW v \in met[depth]
      PROVE  /\ Inside(v) \subseteq met[depth + 1]
             /\ sanitized[depth][v] = Sanitized(v, sanitized[depth + 1])
  <2>1. /\ depth \in 0 .. last /\ depth # last /\ depth + 1 \in 0 .. last
        /\ depth + 1 # 0 /\ (depth + 1) - 1 = depth
    BY <1>2
  <2>2. met[depth + 1] = UNION {Inside(w) : w \in met[depth]}
    BY <1>5, <2>1
  <2>3. sanitized[depth][v] = IF TooFarDown(depth) THEN TooDeep
                              ELSE Sanitized(v, sanitized[depth + 1])
    BY <1>6, <2>1
  <2> QED  BY <1>3, <2>1, <2>2, <2>3
<1>9. ASSUME NEW v \in met[last] PROVE sanitized[last][v] = TooDeep
  <2>1. last \in 0 .. last
    BY <1>2
  <2> QED  BY <1>3, <1>6, <2>1
<1>10. Unfolded(value, met, sanitized)
  BY <1>1, <1>2, <1>7, <1>8, <1>9 DEF Unfolded
<1> QED  BY <1>10

-----------------------------------------------------------------------------
(* Along a path the value and the result go together until the path ends,  *)
(* or leads to something hidden or too deep.                               *)

\* Of a value at a depth, the result shows the same child, unless the step hides it.
LEMMA ChildSanitized ==
  ASSUME NEW values, AreValues(values), NEW v \in values, NEW step, NEW inside
  PROVE  LET is == Child(Sanitized(v, inside), step)
             hides == \/ v.kind = "object" /\ step.key \in SensitiveKeys
                      \/ v.kind = "list" /\ step.index > MaxItems
         IN  /\ is # Missing => Child(v, step) # Missing
             /\ Child(v, step) # Missing /\ hides => is \in {Redacted, Missing}
             /\ Child(v, step) # Missing /\ ~hides =>
                  /\ Child(v, step) \in Inside(v) \cap values
                  /\ is = inside[Child(v, step)]
<1> DEFINE child == Child(v, step)
           is == Child(Sanitized(v, inside), step)
           hides == \/ v.kind = "object" /\ step.key \in SensitiveKeys
                    \/ v.kind = "list" /\ step.index > MaxItems
<1>1. \A w \in values : w # Missing
  BY DEF AreValues, Missing
<1>2. CASE v.kind = "leaf"
  <2>1. Sanitized(v, inside) = Truncated(v) /\ Truncated(v).kind = "leaf"
    BY <1>2 DEF Sanitized, Truncated, Leaf
  <2>2. child = Missing /\ is = Missing
    BY <1>2, <2>1 DEF Child
  <2> QED  BY <2>2
<1>3. CASE v.kind = "list" /\ v.items \in Seq(values)
  <2> DEFINE kept == KeptItems(v)
             result == [i \in 1 .. kept |-> inside[v.items[i]]]
  <2>1. Sanitized(v, inside) = List(result)
    BY <1>3 DEF Sanitized
  <2>2. List(result).kind = "list" /\ List(result).items = result
    BY DEF List
  <2>3. /\ Len(v.items) \in Nat /\ DOMAIN v.items = 1 .. Len(v.items)
        /\ \A i \in 1 .. Len(v.items) : v.items[i] \in values
    BY <1>3, ElementOfSeq, LenProperties
  <2>4. kept \in Nat /\ kept <= Len(v.items) /\ kept <= MaxItems
        /\ (kept < Len(v.items) => kept = MaxItems)
    BY <2>3, SanitizerAssumption DEF KeptItems
  <2>5. child = IF step.index \in 1 .. Len(v.items) THEN v.items[step.index] ELSE Missing
    BY <1>3, <2>3 DEF Child
  <2>6. is = IF step.index \in 1 .. kept THEN inside[v.items[step.index]] ELSE Missing
    <3>1. DOMAIN result = 1 .. kept
      OBVIOUS
    <3> HIDE DEF result
    <3>2. is = IF step.index \in DOMAIN result THEN result[step.index] ELSE Missing
      BY <2>1, <2>2 DEF Child
    <3>3. \A i \in 1 .. kept : result[i] = inside[v.items[i]]
      BY DEF result
    <3> QED  BY <3>1, <3>2, <3>3
  <2>7. Inside(v) = {v.items[i] : i \in 1 .. kept}
    BY <1>3 DEF Inside
  <2>8. hides <=> step.index > MaxItems
    BY <1>3
  <2> HIDE DEF child, is, kept, result, hides
  <2>9. CASE step.index \in 1 .. kept
    <3>1. step.index \in 1 .. Len(v.items) /\ ~(step.index > MaxItems)
      BY <2>3, <2>4, <2>9, SanitizerAssumption
    <3>2. child = v.items[step.index] /\ child \in values /\ child \in Inside(v)
      BY <2>3, <2>5, <2>7, <2>9, <3>1
    <3> QED  BY <1>1, <2>6, <2>8, <2>9, <3>1, <3>2 DEF child, is, hides
  <2>10. CASE step.index \notin 1 .. kept
    <3>1. is = Missing
      BY <2>6, <2>10
    <3>2. child # Missing => hides
      <4> SUFFICES ASSUME child # Missing PROVE hides
        OBVIOUS
      <4>1. step.index \in 1 .. Len(v.items)
        BY <2>5
      <4> QED  BY <2>3, <2>4, <2>8, <2>10, <4>1, SanitizerAssumption
    <3> QED  BY <3>1, <3>2 DEF child, is, hides
  <2> QED  BY <2>9, <2>10
<1>4. CASE v.kind = "object" /\ \A k \in DOMAIN v.fields : v.fields[k] \in values
  <2> DEFINE result == [k \in DOMAIN v.fields |->
                          IF k \in SensitiveKeys THEN Redacted ELSE inside[v.fields[k]]]
  <2>1. Sanitized(v, inside) = Object(result)
    BY <1>4 DEF Sanitized
  <2>2. Object(result).kind = "object" /\ Object(result).fields = result
    BY DEF Object
  <2>3. DOMAIN result = DOMAIN v.fields
    OBVIOUS
  <2>4. \A k \in DOMAIN v.fields :
          result[k] = IF k \in SensitiveKeys THEN Redacted ELSE inside[v.fields[k]]
    OBVIOUS
  <2> HIDE DEF result
  <2>5. is = IF step.key \in DOMAIN v.fields THEN result[step.key] ELSE Missing
    BY <2>1, <2>2, <2>3 DEF Child
  <2>6. child = IF step.key \in DOMAIN v.fields THEN v.fields[step.key] ELSE Missing
    BY <1>4 DEF Child
  <2>7. hides <=> step.key \in SensitiveKeys
    BY <1>4
  <2>8. Inside(v) = {v.fields[k] : k \in DOMAIN v.fields \ SensitiveKeys}
    BY <1>4 DEF Inside
  <2> HIDE DEF child, is, hides
  <2> QED  BY <1>1, <1>4, <2>4, <2>5, <2>6, <2>7, <2>8 DEF child, is, hides
<1> QED  BY <1>2, <1>3, <1>4 DEF AreValues

\* What the result has after some steps of a path: nothing; or the redaction of a
\* value the last step hides; or what becomes of the value that stands there.
LEMMA SanitizedAlong ==
  ASSUME NEW values, AreValues(values), NEW value \in values,
         NEW path, Len(path) \in Nat,
         NEW met, NEW sanitized, Unfolded(value, met, sanitized),
         NEW n \in 0 .. Len(path)
  PROVE  LET was == Along(value, path)[n]
             is == Along(SanitizeValue(value), path)[n]
         IN  \/ /\ is = Missing
                /\ was = Missing \/ Hidden(value, path, n) \/ n > MaxNesting + 1
             \/ /\ is = Redacted /\ was # Missing
                /\ n > 0 /\ Hidden(value, path, n) /\ ~Hidden(value, path, n - 1)
             \/ /\ n <= MaxNesting + 1 /\ ~Hidden(value, path, n)
                /\ was \in values \cap met[n] /\ is = sanitized[n][was]
<1> DEFINE was(m) == Along(value, path)[m]
           is(m) == Along(SanitizeValue(value), path)[m]
           hides(m) == \/ was(m - 1).kind = "object" /\ path[m].key \in SensitiveKeys
                       \/ was(m - 1).kind = "list" /\ path[m].index > MaxItems
           Gone(m) == is(m) = Missing /\ (was(m) = Missing \/ Hidden(value, path, m) \/ m > MaxNesting + 1)
           Shut(m) == /\ is(m) = Redacted /\ was(m) # Missing
                      /\ m > 0 /\ Hidden(value, path, m) /\ ~Hidden(value, path, m - 1)
           Open(m) == /\ m <= MaxNesting + 1 /\ ~Hidden(value, path, m)
                      /\ was(m) \in values \cap met[m] /\ is(m) = sanitized[m][was(m)]
           S == {m \in Nat : m <= Len(path) => Gone(m) \/ Shut(m) \/ Open(m)}
<1>1. /\ was(0) = value /\ is(0) = SanitizeValue(value)
      /\ \A m \in 1 .. Len(path) : was(m) = Child(was(m - 1), path[m]) /\ is(m) = Child(is(m - 1), path[m])
  BY AlongFacts
<1>2. \A m \in Nat : Hidden(value, path, m) <=> \E i \in 1 .. m : hides(i)
  BY DEF Hidden
<1> HIDE DEF was, is
<1>3. \A m \in Nat : Hidden(value, path, m + 1) <=> Hidden(value, path, m) \/ hides(m + 1)
  BY <1>2
<1>4. ~Hidden(value, path, 0)
  BY DEF Hidden
<1>5. MaxNesting \in Nat
  BY SanitizerAssumption
<1> HIDE DEF hides
<1>6. 0 \in S
  BY <1>1, <1>4, <1>5 DEF Unfolded
<1>7. ASSUME NEW m \in Nat, m \in S PROVE m + 1 \in S
  <2> SUFFICES ASSUME m + 1 <= Len(path) PROVE Gone(m + 1) \/ Shut(m + 1) \/ Open(m + 1)
    OBVIOUS
  <2>1. /\ was(m + 1) = Child(was(m), path[m + 1])
        /\ is(m + 1) = Child(is(m), path[m + 1])
    <3>1. m + 1 \in 1 .. Len(path) /\ (m + 1) - 1 = m
      OBVIOUS
    <3> QED  BY <1>1, <3>1
  <2>2. \A s : Child(Missing, s) = Missing
    BY DEF Child, Missing
  <2>3. \A t, s : Child(Leaf(t), s) = Missing
    BY DEF Child, Leaf
  <2>4. CASE Gone(m)
    BY <1>3, <1>5, <2>1, <2>2, <2>4
  <2>5. CASE Shut(m)
    BY <1>3, <2>1, <2>3, <2>5 DEF Redacted
  <2>6. CASE Open(m) /\ m = MaxNesting + 1
    <3>1. is(m) = TooDeep
      BY <2>6 DEF Unfolded
    <3>2. is(m + 1) = Missing
      BY <2>1, <2>3, <3>1 DEF TooDeep
    <3> QED  BY <1>5, <2>6, <3>2
  <2>7. CASE Open(m) /\ m <= MaxNesting
    <3> DEFINE v == was(m)
               step == path[m + 1]
               inside == sanitized[m + 1]
    <3>1. m \in 0 .. MaxNesting /\ v \in values /\ v \in met[m]
      BY <1>5, <2>7
    <3>2. is(m) = Sanitized(v, inside) /\ Inside(v) \subseteq met[m + 1]
      BY <2>7, <3>1 DEF Unfolded
    <3>3. hides(m + 1) <=> \/ v.kind = "object" /\ step.key \in SensitiveKeys
                           \/ v.kind = "list" /\ step.index > MaxItems
      <4>1. (m + 1) - 1 = m
        OBVIOUS
      <4> QED  BY <4>1 DEF hides
    <3> HIDE DEF v, step, inside
    <3>4. /\ is(m + 1) # Missing => was(m + 1) # Missing
          /\ was(m + 1) # Missing /\ hides(m + 1) => is(m + 1) \in {Redacted, Missing}
          /\ was(m + 1) # Missing /\ ~hides(m + 1) =>
               /\ was(m + 1) \in Inside(v) \cap values
               /\ is(m + 1) = inside[was(m + 1)]
      BY <2>1, <3>1, <3>2, <3>3, ChildSanitized DEF v, step
    <3>5. m + 1 > 0 /\ (m + 1) - 1 = m /\ m + 1 <= MaxNesting + 1 /\ ~Hidden(value, path, m)
      BY <1>5, <2>7
    <3>6. Hidden(value, path, m + 1) <=> hides(m + 1)
      BY <1>3, <3>5
    <3>7. CASE was(m + 1) = Missing
      BY <3>4, <3>7
    <3>8. CASE was(m + 1) # Missing /\ hides(m + 1)
      BY <3>4, <3>5, <3>6, <3>8
    <3>9. CASE was(m + 1) # Missing /\ ~hides(m + 1)
      BY <3>2, <3>4, <3>5, <3>6, <3>9 DEF inside
    <3> QED  BY <3>7, <3>8, <3>9
  <2> QED  BY <1>5, <1>7, <2>4, <2>5, <2>6, <2>7
<1> HIDE DEF S
<1>8. n \in S
  BY <1>6, <1>7, NatSetInduction
<1> QED  BY <1>8 DEF S, was, is

\* What sanitizeValue returns shows, on every path, what SanitizedByPath says.
LEMMA SanitizedOnPaths ==
  ASSUME NEW values, AreValues(values), NEW value \in values,
         NEW paths, \A path \in paths : Len(path) \in Nat
  PROVE  SanitizedByPath(value, SanitizeValue(value), paths)
<1> DEFINE result == SanitizeValue(value)
<1>1. PICK met, sanitized : Unfolded(value, met, sanitized)
  BY SanitizeUnfolds
<1>2. ASSUME NEW path \in paths
      PROVE  LET was == At(value, path)  is == At(result, path)  length == Len(path) IN
             /\ is # Missing => was # Missing
             /\ was # Missing /\ ~Hidden(value, path, length) =>
                  /\ length > MaxNesting + 1 => is = Missing
                  /\ length = MaxNesting + 1 => is = TooDeep
                  /\ length <= MaxNesting /\ was.kind = "leaf" => is = Truncated(was)
                  /\ length <= MaxNesting /\ was.kind # "leaf" => is.kind = was.kind
             /\ was # Missing /\ Hidden(value, path, length) /\ is # Missing =>
                  /\ is = Redacted
                  /\ ~Hidden(value, path, length - 1)
  <2> DEFINE was == At(value, path)
             is == At(result, path)
             length == Len(path)
  <2>1. length \in Nat /\ length \in 0 .. Len(path) /\ MaxNesting \in Nat
    BY SanitizerAssumption
  <2>2. \/ /\ is = Missing
           /\ was = Missing \/ Hidden(value, path, length) \/ length > MaxNesting + 1
        \/ /\ is = Redacted /\ was # Missing
           /\ length > 0 /\ Hidden(value, path, length) /\ ~Hidden(value, path, length - 1)
        \/ /\ length <= MaxNesting + 1 /\ ~Hidden(value, path, length)
           /\ was \in values \cap met[length] /\ is = sanitized[length][was]
    BY <1>1, <2>1, SanitizedAlong DEF At
  <2> HIDE DEF was, is, length, result
  <2>3. Redacted # Missing /\ \A v \in values : v # Missing
    BY DEF Redacted, Leaf, Missing, AreValues
  <2>4. CASE /\ is = Missing
             /\ was = Missing \/ Hidden(value, path, length) \/ length > MaxNesting + 1
    BY <2>1, <2>4 DEF was, is, length
  <2>5. CASE /\ is = Redacted /\ was # Missing
             /\ length > 0 /\ Hidden(value, path, length) /\ ~Hidden(value, path, length - 1)
    BY <2>5 DEF was, is, length
  <2>6. CASE /\ length <= MaxNesting + 1 /\ ~Hidden(value, path, length)
             /\ was \in values \cap met[length] /\ is = sanitized[length][was]
    <3>1. length = MaxNesting + 1 => is = TooDeep
      BY <1>1, <2>6 DEF Unfolded
    <3>2. length # MaxNesting + 1 => is = Sanitized(was, sanitized[length + 1])
      <4> SUFFICES ASSUME length # MaxNesting + 1 PROVE is = Sanitized(was, sanitized[length + 1])
        OBVIOUS
      <4>1. length \in 0 .. MaxNesting
        BY <2>1, <2>6
      <4> QED  BY <1>1, <2>6, <4>1 DEF Unfolded
    <3>3. was.kind = "leaf" /\ length # MaxNesting + 1 => is = Truncated(was)
      BY <3>2 DEF Sanitized
    <3>4. was.kind # "leaf" /\ length # MaxNesting + 1 => is.kind = was.kind
      BY <2>6, <3>2 DEF Sanitized, List, Object, AreValues
    <3>5. was # Missing
      BY <2>3, <2>6
    <3> QED  BY <2>1, <2>6, <3>1, <3>3, <3>4, <3>5 DEF was, is, length
  <2> QED  BY <2>2, <2>4, <2>5, <2>6
<1> QED  BY <1>2 DEF SanitizedByPath

\* A text that shows stood there, or stands for what does not show.
LEMMA LeafShown ==
  ASSUME NEW values, AreValues(values), NEW value \in values, NEW path, Len(path) \in Nat,
         At(SanitizeValue(value), path).kind = "leaf"
  PROVE  At(SanitizeValue(value), path)
           \in {Redacted, TooDeep, Leaf("...[truncated]"), At(value, path)}
<1> DEFINE was == At(value, path)
           is == At(SanitizeValue(value), path)
           length == Len(path)
<1>1. SanitizedByPath(value, SanitizeValue(value), {path})
  BY SanitizedOnPaths
<1>2. /\ is # Missing => was # Missing
      /\ was # Missing /\ ~Hidden(value, path, length) =>
           /\ length > MaxNesting + 1 => is = Missing
           /\ length = MaxNesting + 1 => is = TooDeep
           /\ length <= MaxNesting /\ was.kind = "leaf" => is = Truncated(was)
           /\ length <= MaxNesting /\ was.kind # "leaf" => is.kind = was.kind
      /\ was # Missing /\ Hidden(value, path, length) /\ is # Missing => is = Redacted
  BY <1>1 DEF SanitizedByPath
<1> HIDE DEF was, is, length
<1>3. is # Missing /\ is.kind = "leaf"
  BY DEF Missing, is
<1>4. length \in Nat /\ MaxNesting \in Nat
  BY SanitizerAssumption DEF length
<1>5. Truncated(was) \in {Leaf("...[truncated]"), was}
  BY DEF Truncated
<1> QED  BY <1>2, <1>3, <1>4, <1>5 DEF was, is

\* Where a path of one step and one of two lead.
LEMMA ShortPaths ==
  ASSUME NEW value, NEW path
  PROVE  /\ Len(path) = 1 => At(value, path) = Child(value, path[1])
         /\ Len(path) = 2 => At(value, path) = Child(Child(value, path[1]), path[2])
<1>1. CASE Len(path) = 1
  <2>1. 1 \in 1 .. Len(path) /\ 1 - 1 = 0
    BY <1>1
  <2> QED  BY <1>1, <2>1, AlongFacts DEF At
<1>2. CASE Len(path) = 2
  <2>1. 1 \in 1 .. Len(path) /\ 1 - 1 = 0 /\ 2 \in 1 .. Len(path) /\ 2 - 1 = 1
    BY <1>2
  <2>2. /\ Along(value, path)[1] = Child(value, path[1])
        /\ Along(value, path)[2] = Child(Along(value, path)[1], path[2])
    BY <1>2, <2>1, AlongFacts
  <2> QED  BY <1>2, <2>2 DEF At
<1> QED  BY <1>1, <1>2

\* The texts an entry tells are among those that stood in it, or stand for others.
LEMMA LeafTextsOf ==
  ASSUME NEW values, AreValues(values), NEW payload \in values, NEW known,
         {"[REDACTED]", "[Max Depth]", "...[truncated]"} \subseteq known,
         NEW told, told = {Child(Child(payload, KeyStep("target")), KeyStep("text")),
                           Child(payload, KeyStep("value")), Child(payload, KeyStep("key"))},
         \A t \in told : t.kind = "leaf" => t.text \in known
  PROVE  LeafTexts(SanitizeValue(payload)) \subseteq known
<1> DEFINE result == SanitizeValue(payload)
           P == {<<KeyStep("target"), KeyStep("text")>>, <<KeyStep("value")>>, <<KeyStep("key")>>}
<1>1. ASSUME NEW p \in P
      PROVE  /\ Len(p) \in Nat
             /\ At(payload, p).kind = "leaf" => At(payload, p).text \in known
  <2>1. CASE p = <<KeyStep("target"), KeyStep("text")>>
    <3>1. Len(p) = 2 /\ p[1] = KeyStep("target") /\ p[2] = KeyStep("text")
      BY <2>1
    <3>2. At(payload, p) = Child(Child(payload, KeyStep("target")), KeyStep("text"))
      BY <3>1, ShortPaths
    <3> QED  BY <3>1, <3>2
  <2>2. ASSUME NEW key \in {"value", "key"}, p = <<KeyStep(key)>>
        PROVE  /\ Len(p) \in Nat
               /\ At(payload, p).kind = "leaf" => At(payload, p).text \in known
    <3>1. Len(p) = 1 /\ p[1] = KeyStep(key)
      BY <2>2
    <3>2. At(payload, p) = Child(payload, KeyStep(key))
      BY <3>1, ShortPaths
    <3> QED  BY <2>2, <3>1, <3>2
  <2> QED  BY <2>1, <2>2
<1>2. ASSUME NEW p \in P, At(result, p).kind = "leaf" PROVE At(result, p).text \in known
  <2>1. At(result, p) \in {Redacted, TooDeep, Leaf("...[truncated]"), At(payload, p)}
    BY <1>1, <1>2, LeafShown
  <2>2. Redacted.text = "[REDACTED]" /\ TooDeep.text = "[Max Depth]"
        /\ Leaf("...[truncated]").text = "...[truncated]"
    BY DEF Redacted, TooDeep, Leaf
  <2> HIDE DEF result, P
  <2> QED  BY <1>1, <1>2, <2>1, <2>2
<1>3. LeafTexts(result) = {At(result, p).text : p \in {q \in P : At(result, q).kind = "leaf"}}
  BY DEF LeafTexts
<1> HIDE DEF result, P
<1> QED  BY <1>2, <1>3 DEF result

-----------------------------------------------------------------------------
(* What is captured.                                                       *)

\* Leaves are values, and so is an object of values, with them.
LEMMA ObjectsAreValues ==
  /\ \A S : (\A v \in S : v.kind = "leaf") => AreValues(S)
  /\ \A values, f : AreValues(values) /\ (\A k \in DOMAIN f : f[k] \in values)
                      => AreValues(values \cup {Object(f)})
<1>1. ASSUME NEW values, NEW f, AreValues(values), \A k \in DOMAIN f : f[k] \in values
      PROVE  AreValues(values \cup {Object(f)})
  <2>1. Object(f).kind = "object" /\ Object(f).fields = f
    BY DEF Object
  <2>2. ASSUME NEW v \in values, v.kind = "list", v.items \in Seq(values)
        PROVE  v.items \in Seq(values \cup {Object(f)})
    BY <2>2
  <2> QED  BY <1>1, <2>1, <2>2 DEF AreValues
<1> QED  BY <1>1 DEF AreValues

\* What a description of an element shows at a key.
LEMMA Described ==
  ASSUME NEW element \in Elements
  PROVE  /\ \E values : AreValues(values) /\ DescribeElement(element) \in values
         /\ Child(DescribeElement(element), KeyStep("text")) = Leaf(element.text)
<1> DEFINE f == [f \in {"tag", "type", "text"} |->
                   Leaf(IF f = "tag" THEN element.tag
                        ELSE IF f = "text" THEN element.text
                        ELSE IF element.tag = "input" THEN element.type ELSE "null")]
           S == {f[k] : k \in DOMAIN f}
<1>1. DescribeElement(element) = Object(f)
  BY DEF DescribeElement
<1>2. DOMAIN f = {"tag", "type", "text"} /\ f["text"] = Leaf(element.text)
  OBVIOUS
<1>3. \A k \in DOMAIN f : f[k].kind = "leaf"
  BY DEF Leaf
<1> HIDE DEF f
<1>4. AreValues(S \cup {Object(f)})
  BY <1>3, ObjectsAreValues
<1>5. Child(Object(f), KeyStep("text")) = f["text"]
  BY <1>2 DEF Child, Object, KeyStep
<1> QED  BY <1>1, <1>2, <1>4, <1>5

\* What is told of an element that is recorded is tellable.
LEMMA PayloadTells ==
  ASSUME NEW event \in UiEvents, NEW element \in Elements, NEW key,
         ~ShouldIgnoreTarget(element), event = "keydown" => key \in {"Enter", "Escape"}
  PROVE  LeafTexts(SanitizeValue(Payload(event, element, key))) \subseteq Tellable
<1> DEFINE target == DescribeElement(element)
           value == GetInputValueSafe(element)
           payload == Payload(event, element, key)
<1>1. PICK values : AreValues(values) /\ target \in values
  BY Described
<1>2. Child(target, KeyStep("text")) = Leaf(element.text)
  BY Described
<1>3. /\ \E S : AreValues(S) /\ value \in S
      /\ value.kind = "leaf" => value.text \in Tellable
  <2>1. CASE element.tag \notin {"input", "textarea", "select"}
    <3>1. value = Leaf("null")
      BY <2>1 DEF GetInputValueSafe
    <3>2. AreValues({value}) /\ value.text = "null"
      BY <3>1, ObjectsAreValues DEF Leaf
    <3> QED  BY <3>2 DEF Tellable
  <2>2. CASE element.tag \in {"input", "textarea", "select"} /\ IsSensitiveField(element)
    <3> DEFINE g == [f \in {"masked", "length"} |-> Leaf(f)]
               S == {g[k] : k \in DOMAIN g}
    <3>1. value = Object(g)
      BY <2>2 DEF GetInputValueSafe
    <3>2. \A k \in DOMAIN g : g[k].kind = "leaf"
      BY DEF Leaf
    <3> HIDE DEF g
    <3>3. AreValues(S \cup {value})
      BY <3>1, <3>2, ObjectsAreValues
    <3>4. value.kind = "object"
      BY <3>1 DEF Object
    <3> QED  BY <3>3, <3>4
  <2>3. CASE element.tag \in {"input", "textarea", "select"} /\ ~IsSensitiveField(element)
    <3>1. value = Leaf(element.value)
      BY <2>3 DEF GetInputValueSafe
    <3>2. AreValues({value}) /\ value.text = element.value
      BY <3>1, ObjectsAreValues DEF Leaf
    <3>3. element \in Elements \ Masked
      BY <2>3 DEF Masked, IsSensitiveField, ShouldIgnoreTarget
    <3> QED  BY <3>2, <3>3 DEF Tellable
  <2> QED  BY <2>1, <2>2, <2>3
<1> HIDE DEF target, value
<1>4. element.text \in Tellable /\ {"[REDACTED]", "[Max Depth]", "...[truncated]"} \subseteq Tellable
  BY DEF Tellable
<1>5. \A t : Leaf(t).text = t /\ Leaf(t).kind = "leaf"
  BY DEF Leaf
<1>6. Missing.kind # "leaf"
  BY DEF Missing
<1> DEFINE Told(f) == /\ payload = Object(f)
                      /\ "target" \in DOMAIN f /\ f["target"] = target
                      /\ "value" \in DOMAIN f /\ f["value"].kind = "leaf" => f["value"].text \in Tellable
                      /\ "key" \in DOMAIN f /\ f["key"].kind = "leaf" => f["key"].text \in Tellable
                      /\ \E S : AreValues(S) /\ \A k \in DOMAIN f : f[k] \in S
<1>7. \E f : Told(f)
  <2>1. CASE event \in {"change", "focusout"}
    <3> DEFINE f == [f \in {"target", "value"} |-> IF f = "target" THEN target ELSE value]
    <3>1. payload = Object(f)
      BY <2>1 DEF Payload, target, value
    <3>2. DOMAIN f = {"target", "value"} /\ f["target"] = target /\ f["value"] = value
      OBVIOUS
    <3>3. PICK S : AreValues(S) /\ value \in S
      BY <1>3
    <3>4. AreValues(values \cup S)
      BY <1>1, <3>3 DEF AreValues
    <3> HIDE DEF f
    <3>5. \A k \in DOMAIN f : f[k] \in values \cup S
      BY <1>1, <3>2, <3>3
    <3> QED  BY <1>3, <3>1, <3>2, <3>4, <3>5
  <2>2. CASE event = "keydown"
    <3> DEFINE f == [f \in {"target", "key"} |-> IF f = "target" THEN target ELSE Leaf(key)]
    <3>1. payload = Object(f)
      BY <2>2 DEF Payload, target
    <3>2. DOMAIN f = {"target", "key"} /\ f["target"] = target /\ f["key"] = Leaf(key)
      OBVIOUS
    <3>3. AreValues({Leaf(key)})
      BY <1>5, ObjectsAreValues
    <3>4. AreValues(values \cup {Leaf(key)})
      BY <1>1, <3>3 DEF AreValues
    <3>5. key \in Tellable
      BY <2>2 DEF Tellable
    <3> HIDE DEF f
    <3>6. \A k \in DOMAIN f : f[k] \in values \cup {Leaf(key)}
      BY <1>1, <3>2
    <3> QED  BY <1>5, <3>1, <3>2, <3>4, <3>5, <3>6
  <2>3. CASE event \notin {"change", "focusout", "keydown"}
    <3> DEFINE f == [f \in {"target"} |-> target]
    <3>1. payload = Object(f)
      BY <2>3 DEF Payload, target
    <3>2. DOMAIN f = {"target"} /\ f["target"] = target
      OBVIOUS
    <3> HIDE DEF f
    <3> QED  BY <1>1, <3>1, <3>2
  <2> QED  BY <2>1, <2>2, <2>3
<1> HIDE DEF payload
<1>8. PICK f : Told(f)
  BY <1>7
<1>9. PICK S : AreValues(S) /\ \A k \in DOMAIN f : f[k] \in S
  BY <1>8
<1>10. AreValues(S \cup {payload})
  BY <1>8, <1>9, ObjectsAreValues
<1>11. /\ Child(payload, KeyStep("target")) = target
       /\ \A k \in {"value", "key"} :
            LET t == Child(payload, KeyStep(k)) IN t.kind = "leaf" => t.text \in Tellable
  <2>1. \A k : Child(payload, KeyStep(k)) = IF k \in DOMAIN f THEN f[k] ELSE Missing
    BY <1>8 DEF Child, Object, KeyStep
  <2> QED  BY <1>6, <1>8, <2>1
<1>12. LeafTexts(SanitizeValue(payload)) \subseteq Tellable
  <2> DEFINE told == {Child(Child(payload, KeyStep("target")), KeyStep("text")),
                      Child(payload, KeyStep("value")), Child(payload, KeyStep("key"))}
  <2>1. \A t \in told : t.kind = "leaf" => t.text \in Tellable
    BY <1>2, <1>4, <1>5, <1>11
  <2>2. payload \in S \cup {payload}
    OBVIOUS
  <2> HIDE DEF told
  <2>3. told = {Child(Child(payload, KeyStep("target")), KeyStep("text")),
                Child(payload, KeyStep("value")), Child(payload, KeyStep("key"))}
    BY DEF told
  <2> QED  BY <1>4, <1>10, <2>1, <2>2, <2>3, LeafTextsOf
<1> QED  BY <1>12 DEF payload

\* Another entry adds its texts, and its time if it tells of scrolling.
LEMMA EntryAdded ==
  ASSUME NEW entries, \E S : entries \in Seq(S), NEW entry
  PROVE  /\ \E S : Append(entries, entry) \in Seq(S)
         /\ (\A i \in DOMAIN entries : LeafTexts(entries[i].payload) \subseteq Tellable)
              /\ LeafTexts(entry.payload) \subseteq Tellable
            => \A i \in DOMAIN Append(entries, entry) :
                 LeafTexts(Append(entries, entry)[i].payload) \subseteq Tellable
         /\ ScrollsIn(Append(entries, entry))
              = ScrollsIn(entries) \cup (IF entry.kind = "scroll" THEN {entry.at} ELSE {})
<1> DEFINE more == Append(entries, entry)
           n == Len(entries)
<1>1. PICK S : entries \in Seq(S)
  OBVIOUS
<1>2. n \in Nat /\ DOMAIN entries = 1 .. n
  BY <1>1, LenProperties
<1>3. entries \in Seq(S \cup {entry}) /\ entry \in S \cup {entry}
  BY <1>1
<1>4. /\ more \in Seq(S \cup {entry}) /\ Len(more) = n + 1
      /\ \A i \in 1 .. n : more[i] = entries[i]
      /\ more[n + 1] = entry
  BY <1>3, AppendProperties
<1>5. DOMAIN more = 1 .. n + 1
  BY <1>4, LenProperties
<1> HIDE DEF more, n
<1>6. \A i \in DOMAIN more : (i \in DOMAIN entries /\ more[i] = entries[i]) \/ (i = n + 1 /\ more[i] = entry)
  BY <1>2, <1>4, <1>5
<1>7. (\A i \in DOMAIN entries : i \in DOMAIN more /\ more[i] = entries[i]) /\ n + 1 \in DOMAIN more
  BY <1>2, <1>4, <1>5
<1>8. ScrollsIn(more) = ScrollsIn(entries) \cup (IF entry.kind = "scroll" THEN {entry.at} ELSE {})
  BY <1>4, <1>6, <1>7 DEF ScrollsIn
<1> QED  BY <1>4, <1>6, <1>8 DEF more

\* Entries that tell of no element and no key, at the time they are for.
LEMMA OthersTell ==
  ASSUME NEW name \in {"at", "reason", "message"}, NEW text
  PROVE  LeafTexts(SanitizeValue(Object([f \in {name} |-> Leaf(text)]))) \subseteq Tellable
<1> DEFINE f == [g \in {name} |-> Leaf(text)]
           payload == Object(f)
           told == {Child(Child(payload, KeyStep("target")), KeyStep("text")),
                    Child(payload, KeyStep("value")), Child(payload, KeyStep("key"))}
<1>1. AreValues({Leaf(text)} \cup {payload})
  <2>1. AreValues({Leaf(text)})
    BY ObjectsAreValues DEF Leaf
  <2> QED  BY <2>1, ObjectsAreValues
<1>2. DOMAIN f = {name}
  OBVIOUS
<1> HIDE DEF f
<1>3. \A k \in {"target", "value", "key"} : Child(payload, KeyStep(k)) = Missing
  BY <1>2 DEF Child, Object, KeyStep
<1>4. Child(Missing, KeyStep("text")) = Missing /\ Missing.kind # "leaf"
  BY DEF Child, Missing
<1>5. told = {Missing}
  BY <1>3, <1>4
<1>6. {"[REDACTED]", "[Max Depth]", "...[truncated]"} \subseteq Tellable
  BY DEF Tellable
<1> HIDE DEF payload
<1>7. payload \in {Leaf(text)} \cup {payload}
  OBVIOUS
<1>8. LeafTexts(SanitizeValue(payload)) \subseteq Tellable
  BY <1>1, <1>4, <1>5, <1>6, <1>7, LeafTextsOf
<1> QED  BY <1>8 DEF payload, f

\* What was recorded of scrolling lies before the last time that counts for the
\* throttle, which is the latest of them; unless the clock was set back, it has
\* not passed.
Throttled ==
  /\ clock \in Nat /\ lastScroll \in Nat
  /\ ScrollsIn(uiEntries) \subseteq 0 .. lastScroll
  /\ lastScroll \in ScrollsIn(uiEntries) \cup {0}
  /\ scrolled \subseteq Nat
  /\ ~setBack => lastScroll <= clock

CaptureInv ==
  /\ \E S : uiEntries \in Seq(S)
  /\ \A i \in DOMAIN uiEntries : LeafTexts(uiEntries[i].payload) \subseteq Tellable
  /\ Throttled /\ ScrollSampled

LEMMA CaptureStarts == CaptureInit => CaptureInv
<1> SUFFICES ASSUME CaptureInit PROVE CaptureInv
  OBVIOUS
<1>1. uiEntries = <<>> /\ uiEntries \in Seq({}) /\ DOMAIN uiEntries = {}
  BY EmptySeq DEF CaptureInit
<1>2. ScrollsIn(uiEntries) = {}
  BY <1>1 DEF ScrollsIn
<1> QED  BY <1>1, <1>2, ThrottleAssumption DEF CaptureInit, CaptureInv, Throttled, ScrollSampled

\* An entry that does not tell of scrolling, and what tells is tellable, keeps all.
LEMMA LoggedKeeps ==
  ASSUME CaptureInv, NEW event, event # "scroll", NEW payload,
         LeafTexts(SanitizeValue(payload)) \subseteq Tellable,
         LogUiEvent(event, payload), UNCHANGED <<clock, lastScroll, scrolled, setBack>>
  PROVE  CaptureInv'
<1> DEFINE entry == [kind |-> event, at |-> IF event = "scroll" THEN clock ELSE 0,
                     payload |-> SanitizeValue(payload)]
<1>1. uiEntries' = Append(uiEntries, entry)
  BY DEF LogUiEvent
<1>2. entry.kind # "scroll" /\ entry.payload = SanitizeValue(payload)
  OBVIOUS
<1> HIDE DEF entry
<1>3. /\ \E S : uiEntries' \in Seq(S)
      /\ \A i \in DOMAIN uiEntries' : LeafTexts(uiEntries'[i].payload) \subseteq Tellable
      /\ ScrollsIn(uiEntries') = ScrollsIn(uiEntries)
  BY <1>1, <1>2, EntryAdded DEF CaptureInv
<1>4. Throttled' /\ ScrollSampled'
  BY <1>3 DEF CaptureInv, Throttled, ScrollSampled
<1> QED  BY <1>3, <1>4 DEF CaptureInv

LEMMA NothingLoggedKeeps ==
  ASSUME CaptureInv, UNCHANGED <<clock, lastScroll, scrolled, setBack, uiEntries>>
  PROVE  CaptureInv'
BY DEF CaptureInv, Throttled, ScrollSampled

LEMMA InteractKeeps ==
  ASSUME CaptureInv, NEW event \in UiEvents, NEW element \in Elements, NEW key,
         Interact(event, element, key)
  PROVE  CaptureInv'
<1>1. CASE ShouldIgnoreTarget(element) \/ (event = "keydown" /\ key \notin {"Enter", "Escape"})
  BY <1>1, NothingLoggedKeeps DEF Interact
<1>2. CASE ~(ShouldIgnoreTarget(element) \/ (event = "keydown" /\ key \notin {"Enter", "Escape"}))
  <2>1. LogUiEvent(event, Payload(event, element, key))
    BY <1>2 DEF Interact
  <2>2. LeafTexts(SanitizeValue(Payload(event, element, key))) \subseteq Tellable
    BY <1>2, PayloadTells
  <2>3. event # "scroll"
    BY DEF UiEvents
  <2>4. UNCHANGED <<clock, lastScroll, scrolled, setBack>>
    BY DEF Interact
  <2> QED  BY <2>1, <2>2, <2>3, <2>4, LoggedKeeps
<1> QED  BY <1>1, <1>2

LEMMA ScrollKeeps ==
  ASSUME CaptureInv, Scroll
  PROVE  CaptureInv'
<1> DEFINE recorded == ScrollsIn(uiEntries)
           T == ScrollThrottle
<1>1. T \in Nat /\ T > 0
  BY ThrottleAssumption
<1>2. clock \in Nat /\ lastScroll \in Nat /\ clock' = clock /\ setBack' = setBack
  BY DEF Scroll, CaptureInv, Throttled
<1>3. scrolled' = scrolled \cup {clock}
  BY DEF Scroll
<1>4. CASE clock < lastScroll + T
  <2>1. uiEntries' = uiEntries /\ lastScroll' = lastScroll
    BY <1>4 DEF Scroll
  <2>2. ScrollsIn(uiEntries') = recorded
    BY <2>1
  <2>3. Throttled'
    BY <1>2, <1>3, <2>1, <2>2 DEF CaptureInv, Throttled
  <2>4. ASSUME ~setBack, clock >= T PROVE \E s \in recorded : s <= clock /\ clock < s + T
    <3>1. lastScroll # 0
      BY <1>1, <1>2, <1>4, <2>4
    <3>2. lastScroll \in recorded /\ lastScroll <= clock
      BY <2>4, <3>1 DEF CaptureInv, Throttled
    <3> QED  BY <1>4, <3>2
  <2> HIDE DEF recorded
  <2>5. ScrollSampled'
    BY <1>2, <1>3, <2>2, <2>4 DEF CaptureInv, ScrollSampled, recorded
  <2> QED  BY <2>1, <2>3, <2>5 DEF CaptureInv
<1>5. CASE ~(clock < lastScroll + T)
  <2> DEFINE payload == Object([f \in {"at"} |-> Leaf("position")])
             entry == [kind |-> "scroll", at |-> clock, payload |-> SanitizeValue(payload)]
  <2>1. lastScroll' = clock /\ uiEntries' = Append(uiEntries, entry)
    BY <1>5 DEF Scroll, LogUiEvent
  <2>2. LeafTexts(SanitizeValue(payload)) \subseteq Tellable
    BY OthersTell
  <2> HIDE DEF payload
  <2>3. entry.kind = "scroll" /\ entry.at = clock /\ entry.payload = SanitizeValue(payload)
    OBVIOUS
  <2> HIDE DEF entry
  <2>4. /\ \E S : uiEntries' \in Seq(S)
        /\ \A i \in DOMAIN uiEntries' : LeafTexts(uiEntries'[i].payload) \subseteq Tellable
        /\ ScrollsIn(uiEntries') = recorded \cup {clock}
    BY <2>1, <2>2, <2>3, EntryAdded DEF CaptureInv
  <2>5. recorded \subseteq 0 .. lastScroll /\ lastScroll <= clock
    BY <1>1, <1>2, <1>5 DEF CaptureInv, Throttled
  <2> HIDE DEF recorded
  <2>6. Throttled'
    BY <1>2, <1>3, <2>1, <2>4, <2>5 DEF CaptureInv, Throttled
  <2>7. \A s \in recorded : s \in Nat /\ s + T <= clock
    BY <1>1, <1>2, <1>5, <2>5
  <2>8. \A s, t \in recorded : s < t => s + T <= t
    BY DEF CaptureInv, ScrollSampled, recorded
  <2>9. \A s, t \in recorded \cup {clock} : s < t => s + T <= t
    BY <1>1, <1>2, <2>7, <2>8
  <2>10. ~setBack => \A t \in scrolled \cup {clock} :
           t >= T => \E s \in recorded \cup {clock} : s <= t /\ t < s + T
    <3>1. ~setBack => \A t \in scrolled : t >= T => \E s \in recorded : s <= t /\ t < s + T
      BY DEF CaptureInv, ScrollSampled, recorded
    <3>2. clock <= clock /\ clock < clock + T
      BY <1>1, <1>2
    <3> QED  BY <3>1, <3>2
  <2>11. ScrollSampled'
    BY <1>2, <1>3, <2>4, <2>9, <2>10 DEF ScrollSampled
  <2> QED  BY <2>4, <2>6, <2>11 DEF CaptureInv
<1> QED  BY <1>4, <1>5

LEMMA CaptureKept == CaptureInv /\ [CaptureNext]_captureVars => CaptureInv'
<1> SUFFICES ASSUME CaptureInv, [CaptureNext]_captureVars PROVE CaptureInv'
  OBVIOUS
<1>1. ASSUME NEW event \in UiEvents, NEW element \in Elements, NEW key,
             Interact(event, element, key)
      PROVE  CaptureInv'
  BY <1>1, InteractKeeps
<1>2. CASE Scroll
  BY <1>2, ScrollKeeps
<1>3. CASE Navigate
  <2>1. LeafTexts(SanitizeValue(Object([f \in {"reason"} |-> Leaf("reason")]))) \subseteq Tellable
    BY OthersTell
  <2> QED  BY <1>3, <2>1, LoggedKeeps DEF Navigate
<1>4. CASE WindowError
  <2>1. LeafTexts(SanitizeValue(Object([f \in {"message"} |-> Leaf("error")]))) \subseteq Tellable
    BY OthersTell
  <2> QED  BY <1>4, <2>1, LoggedKeeps DEF WindowError
<1>5. CASE ClockMoves
  <2>0. setBack' = (setBack \/ clock' < clock)
    BY <1>5 DEF ClockMoves
  <2>1. /\ clock \in Nat /\ clock' \in Nat
        /\ UNCHANGED <<lastScroll, uiEntries, scrolled>>
    BY <1>5, ThrottleAssumption DEF ClockMoves, CaptureInv, Throttled
  <2>2. ~setBack' => ~setBack /\ ~(clock' < clock)
    BY <2>0, Zenon
  <2>4. Throttled'
    BY <2>1, <2>2 DEF CaptureInv, Throttled
  <2>3. ScrollSampled'
    BY <2>1, <2>2 DEF CaptureInv, ScrollSampled
  <2> QED  BY <2>1, <2>3, <2>4 DEF CaptureInv
<1>6. CASE (\E argument \in Arguments : ConsoleCall(argument)) \/ UNCHANGED captureVars
  BY <1>6, NothingLoggedKeeps DEF ConsoleCall, captureVars
<1> QED  BY <1>1, <1>2, <1>3, <1>4, <1>5, <1>6 DEF CaptureNext

-----------------------------------------------------------------------------
\* Whatever the part that runs, the page's events are captured as CaptureNext does.
LEMMA CollectorCaptures ==
  CollectorSpec => CaptureInit /\ [][CaptureNext]_captureVars
<1>1. CollectorInit => CaptureInit
  BY DEF CollectorInit
<1>2. [CollectorNext]_<<part, sample, logVars, reportingVars, captureVars, requestVars>>
        => [CaptureNext]_captureVars
  BY DEF CollectorNext
<1> QED  BY <1>1, <1>2, PTL DEF CollectorSpec

\* Of any number of elements, events and scrolls, in any order and whatever the
\* clock: what is typed where it is to be masked is in no entry, and scrolling is
\* recorded at most and, unless the clock was set back, at least once a throttle
\* (debug-collector.js 41-42, 133-140, 206-238, 328-344).
THEOREM EventsAreCaptured == CollectorSpec => []EventsCaptured
<1>1. CaptureInv => EventsCaptured
  <2> SUFFICES ASSUME CaptureInv PROVE MaskedStaysOut
    BY DEF EventsCaptured, CaptureInv
  <2> QED  BY TypedAssumption DEF CaptureInv, MaskedStaysOut
<1> QED  BY <1>1, CollectorCaptures, CaptureStarts, CaptureKept, PTL

\* For every set of values and of paths, every limit and every set of sensitive
\* keys: a value shows, wherever it is captured, all that it has but what is under
\* a sensitive key, too deep or too far in an array (debug-collector.js 64-127).
LEMMA ValuesAlwaysSanitized == sample \in Samples => ValuesSanitized
<1> SUFFICES ASSUME sample \in Samples PROVE ValuesSanitized
  OBVIOUS
<1>1. \A path \in Paths : Len(path) \in Nat
  BY SamplesAssumption DEF Paths
<1>2. SanitizedByPath(sample, SanitizeValue(sample), Paths)
  BY <1>1, SamplesAssumption, SanitizedOnPaths
<1>3. sample.kind # "leaf" => FormatArg(sample) = SanitizeValue(sample)
  BY SamplesAssumption DEF FormatArg, AreValues
<1>4. ASSUME NEW text \in DOMAIN JsonTexts \cup {"plain"}
      PROVE  SanitizedByPath(TryParseJson(text), SanitizeValue(TryParseJson(text)), Paths)
  <2>1. CASE text \in DOMAIN JsonTexts
    <3>1. TryParseJson(text) \in Samples
      BY <2>1, SamplesAssumption DEF TryParseJson
    <3> QED  BY <1>1, <3>1, SamplesAssumption, SanitizedOnPaths
  <2>2. CASE text \notin DOMAIN JsonTexts
    <3>1. TryParseJson(text) = Leaf(text) /\ AreValues({Leaf(text)})
      BY <2>2, ObjectsAreValues DEF TryParseJson, Leaf
    <3>2. TryParseJson(text) \in {Leaf(text)}
      BY <3>1
    <3> QED  BY <1>1, <3>1, <3>2, SanitizedOnPaths
  <2> QED  BY <2>1, <2>2
<1> QED  BY <1>2, <1>3, <1>4 DEF ValuesSanitized, RequestBody, ResponseBody

\* Both: the events of a page, and the values that are sanitized. What is recorded as it
\* is - headers, texts and errors of the console, responses too long to be parsed - is
\* excepted (debug-collector.js 64-470).
THEOREM EntriesAreCaptured == CollectorSpec => []EntriesCaptured
<1> DEFINE Sampled == part = "values" => sample \in Samples
<1>1. CollectorInit => Sampled
  BY DEF CollectorInit
<1>2. Sampled /\ [CollectorNext]_<<part, sample, logVars, reportingVars, captureVars, requestVars>>
        => Sampled'
  BY DEF CollectorNext
<1>3. Sampled /\ EventsCaptured => EntriesCaptured
  BY ValuesAlwaysSanitized DEF EntriesCaptured, ValuesSanitized
<1> QED  BY <1>1, <1>2, <1>3, EventsAreCaptured, PTL DEF CollectorSpec
=============================================================================
