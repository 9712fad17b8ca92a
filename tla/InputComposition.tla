-------------------------- MODULE InputComposition --------------------------
(***************************************************************************)
(* Text fields under an input method editor (input.tsx, textarea.tsx,      *)
(* dialog.tsx, useComposition.ts): the Enter or Escape that confirms or    *)
(* cancels a composition must neither submit the field nor close the       *)
(* dialog around it.  Most browsers send that key while they compose;      *)
(* Safari ends the composition first and sends the key then.               *)
(*                                                                         *)
(* Every end starts timers: two nested ones without delay for the field's  *)
(* own flag, one of 100 ms for the dialog's, one of 150 ms for the mark    *)
(* that a composition has just ended.  Timers may be late; of two that     *)
(* were started together the shorter one fires first.  The second nested   *)
(* one is started when the first fires, which may be after the 100 ms.     *)
(***************************************************************************)
EXTENDS Naturals, SequencesExt

CONSTANT MaxEnds  \* bound on the compositions

ASSUME CompositionAssumption == MaxEnds \in Nat

VARIABLES
  tag,        \* "input" or "textarea"
  inDialog,   \* whether a Dialog is around it
  safari,
  composing,  \* what the browser does
  confirming, \* the key Safari has still to send, or "none"
  c,          \* the flag of useComposition
  nested,     \* which of its timers runs: 0 for none, 1, 2
  composingRef,
  justEndedRef,
  delayed,    \* the ends whose setComposing(false) is to come
  endTimer,   \* the end that justEndedRef will be reset for, or 0
  ends,       \* how many compositions ended
  dialogOpen,
  leaked,     \* history: what a key of the editor did: "submit", "close"
  swallowed,  \* history: a Shift+Enter did not get to the handler
  mistimed    \* history: the 100 ms of an end ran into the next composition, or were
              \* over before its nested timers were

compositionVars == <<tag, inDialog, safari, composing, confirming, c, nested, composingRef,
                     justEndedRef, delayed, endTimer, ends, dialogOpen, leaked, swallowed, mistimed>>

browser == <<tag, inDialog, safari>>

\* A Dialog's references and its context, which tells of nothing outside a Dialog.
DialogInit ==
  /\ composingRef = FALSE /\ justEndedRef = FALSE
  /\ delayed = <<>> /\ endTimer = 0 /\ dialogOpen = TRUE

CompositionInit ==
  /\ tag \in {"input", "textarea"} /\ inDialog \in BOOLEAN /\ safari \in BOOLEAN
  /\ composing = FALSE /\ confirming = "none"
  /\ c = FALSE /\ nested = 0 /\ ends = 0
  /\ DialogInit
  /\ leaked = {} /\ swallowed = FALSE /\ mistimed = FALSE

\* Mutated form (of OnCompositionStart): the timers of the last end go on.
StartWithoutClear ==
  /\ ~composing /\ confirming = "none" /\ dialogOpen /\ ends < MaxEnds
  /\ composing' = TRUE /\ c' = TRUE
  /\ composingRef' = inDialog /\ mistimed' = (mistimed \/ delayed # <<>>)
  /\ UNCHANGED <<browser, confirming, nested, justEndedRef, delayed, endTimer, ends, dialogOpen, leaked, swallowed>>

\* The timers of the field's flag are cleared; that of setComposing(false) is not.
OnCompositionStart ==
  /\ ~composing /\ confirming = "none" /\ dialogOpen /\ ends < MaxEnds
  /\ composing' = TRUE /\ c' = TRUE /\ nested' = 0
  /\ composingRef' = inDialog /\ mistimed' = (mistimed \/ delayed # <<>>)
  /\ UNCHANGED <<browser, confirming, justEndedRef, delayed, endTimer, ends, dialogOpen, leaked, swallowed>>

\* What the field does at an end: markCompositionEnd starts its timer anew, and
\* setComposing(false) is put off.
HandleEnd(end) ==
  IF inDialog
  THEN justEndedRef' = TRUE /\ delayed' = Append(delayed, end) /\ endTimer' = end
  ELSE UNCHANGED <<justEndedRef, delayed, endTimer>>

OnCompositionEnd ==
  /\ composing
  /\ composing' = FALSE
  /\ \E key \in IF safari THEN {"Enter", "Escape", "none"} ELSE {"none"} : confirming' = key
  /\ nested' = 1 /\ ends' = ends + 1
  /\ HandleEnd(ends + 1)
  /\ UNCHANGED <<browser, c, composingRef, dialogOpen, leaked, swallowed, mistimed>>

\* The key Safari owes comes before the second of the nested timers fires.
Timer ==
  /\ nested \in {1, 2}
  /\ nested = 2 => confirming = "none"
  /\ IF nested = 1 THEN nested' = 2 /\ UNCHANGED c ELSE nested' = 0 /\ c' = FALSE
  /\ UNCHANGED <<browser, composing, confirming, composingRef, justEndedRef, delayed, endTimer,
                 ends, dialogOpen, leaked, swallowed, mistimed>>

\* Not before the first nested timer of the same end, unless a composition cleared it.
\* On a page so busy that this one was 100 ms late, before the second.
SetNotComposing ==
  /\ delayed # <<>>
  /\ nested = 1 => Head(delayed) < ends
  /\ composingRef' = FALSE
  /\ delayed' = Tail(delayed)
  /\ mistimed' = (mistimed \/ (nested = 2 /\ Head(delayed) = ends))
  /\ UNCHANGED <<browser, composing, confirming, c, nested, justEndedRef, endTimer, ends,
                 dialogOpen, leaked, swallowed>>

EndTimer ==
  /\ endTimer # 0 /\ \A i \in DOMAIN delayed : delayed[i] > endTimer
  /\ justEndedRef' = FALSE /\ endTimer' = 0
  /\ UNCHANGED <<browser, composing, confirming, c, nested, composingRef, delayed, ends,
                 dialogOpen, leaked, swallowed, mistimed>>

\* The handlers a key gets to: the user's onKeyDown, past useComposition and the
\* field's own check, and the dialog's, which listens to the document.
Submits(key, shift, native) ==
  /\ key = "Enter"
  /\ c => shift
  /\ native \/ justEndedRef => shift /\ tag = "textarea"

Closes(key, native) == inDialog /\ key = "Escape" /\ ~native /\ ~composingRef

Effects(key, native) ==
  {e \in {"submit", "close"} :
     (e = "submit" /\ Submits(key, FALSE, native)) \/ (e = "close" /\ Closes(key, native))}

\* A key that belongs to the editor: while it composes, or the one Safari owes.
EditorKey ==
  /\ dialogOpen
  /\ \E key \in {"Enter", "Escape"} :
       /\ composing \/ key = confirming
       /\ leaked' = leaked \cup Effects(key, composing)
       /\ dialogOpen' = ("close" \notin Effects(key, composing))
  /\ confirming' = "none"
  /\ UNCHANGED <<browser, composing, c, nested, composingRef, justEndedRef, delayed, endTimer,
                 ends, swallowed, mistimed>>

\* Shift+Enter of the user's own: a newline, or what the handler makes of it.
UserShiftEnter ==
  /\ ~composing /\ confirming = "none" /\ dialogOpen
  /\ swallowed' = (swallowed \/ ~Submits("Enter", TRUE, FALSE))
  /\ UNCHANGED <<browser, composing, confirming, c, nested, composingRef, justEndedRef, delayed,
                 endTimer, ends, dialogOpen, leaked, mistimed>>

\* A key of the user's own closes the dialog, or not yet.
UserEscape ==
  /\ ~composing /\ confirming = "none" /\ dialogOpen
  /\ dialogOpen' = ~Closes("Escape", FALSE)
  /\ UNCHANGED <<browser, composing, confirming, c, nested, composingRef, justEndedRef, delayed,
                 endTimer, ends, leaked, swallowed, mistimed>>

\* The close button, which ended a composition when it took the focus.
UserCloses ==
  /\ inDialog /\ dialogOpen /\ ~composing /\ confirming = "none"
  /\ dialogOpen' = FALSE
  /\ UNCHANGED <<browser, composing, confirming, c, nested, composingRef, justEndedRef, delayed,
                 endTimer, ends, leaked, swallowed, mistimed>>

\* The dialog is opened again with a new field; the flags and timers of the dialog
\* are still those of before.
DialogTrigger ==
  /\ inDialog /\ ~dialogOpen
  /\ dialogOpen' = TRUE /\ c' = FALSE /\ nested' = 0
  /\ UNCHANGED <<browser, composing, confirming, composingRef, justEndedRef, delayed, endTimer,
                 ends, leaked, swallowed, mistimed>>

CompositionNext ==
  \/ OnCompositionStart \/ OnCompositionEnd \/ Timer \/ SetNotComposing \/ EndTimer
  \/ EditorKey \/ UserShiftEnter \/ UserEscape \/ UserCloses \/ DialogTrigger

-----------------------------------------------------------------------------
CompositionTypeOK ==
  /\ tag \in {"input", "textarea"}
  /\ {inDialog, safari, composing, c, composingRef, justEndedRef, dialogOpen, swallowed, mistimed}
       \subseteq BOOLEAN
  /\ confirming \in {"none", "Enter", "Escape"} /\ nested \in 0 .. 2
  /\ delayed \in Seq(1 .. MaxEnds) /\ endTimer \in 0 .. MaxEnds /\ ends \in 0 .. MaxEnds
  /\ leaked \subseteq {"submit", "close"}

\* The key that ends a composition never submits the field, in any browser and
\* however fast the compositions follow one another and however late the timers; it
\* never closes the dialog unless one began within the 100 ms after another, or the
\* page was so busy that the 100 ms were over between the two nested timers
\* (useComposition.ts 40-70, input.tsx 40-48, dialog.tsx 103-119).
EditorKeysStayInside ==
  /\ "submit" \notin leaked
  /\ "close" \in leaked => mistimed

\* A Shift+Enter in a textarea gets to its handler at any moment the user types it
\* (textarea.tsx 22-35).
NewlinesArrive == swallowed => tag = "input"

\* Once no timer runs, a field that does not compose takes every key again, also one
\* of a dialog that was closed and opened meanwhile (dialog.tsx 36-44).
FieldRecovers ==
  ~composing /\ nested = 0 /\ delayed = <<>> /\ endTimer = 0 =>
    ~c /\ ~composingRef /\ ~justEndedRef
=============================================================================
