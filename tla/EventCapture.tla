---------------------------- MODULE EventCapture ----------------------------
(***************************************************************************)
(* The listeners of the debug collector (debug-collector.js): interactions *)
(* with the elements of the page, scrolling, navigation, the console and   *)
(* uncaught errors become entries of the buffers for the user interface    *)
(* and the console, after masking and sanitizing.  The buffers themselves  *)
(* are LogReporting's.                                                     *)
(***************************************************************************)
EXTENDS Sanitizer

CONSTANTS Elements,      \* [tag, type, sensitive, unrecorded, text, value]
          Arguments,     \* what the page hands to the console
          ScrollThrottle,\* CONFIG.scrollThrottleMs
          MaxClock,      \* bound on the clock
          MaxCaptured    \* bound on the entries

ASSUME ThrottleAssumption == ScrollThrottle \in Nat \ {0} /\ MaxClock \in Nat

\* The inputs, and whatever else is not to be recorded, that hold what a user typed.
Masked ==
  {e \in Elements :
     \/ e.unrecorded
     \/ e.tag = "input" /\ (e.type = "password" \/ e.sensitive)}

\* What may be told of the page: its captions, what other elements hold, the two
\* keys, and what stands for values that are not told.
Tellable ==
  {e.text : e \in Elements} \cup {e.value : e \in Elements \ Masked}
    \cup {"Enter", "Escape", "null", "[REDACTED]", "[Max Depth]", "...[truncated]"}

\* What is masked is told apart from all that.
ASSUME TypedAssumption == \A e \in Masked : e.value \notin Tellable

VARIABLES
  clock,          \* Date.now(), which may be set back
  lastScroll,     \* store.lastScrollTime
  uiEntries,      \* the entries for store.uiEvents, oldest first
  consoleEntries, \* those for store.consoleLogs
  scrolled,       \* history: when the page was scrolled
  setBack         \* history: the clock was set back

captureVars == <<clock, lastScroll, uiEntries, consoleEntries, scrolled, setBack>>

\* shouldIgnoreTarget
ShouldIgnoreTarget(element) == element.unrecorded

IsSensitiveField(element) ==
  /\ element.tag \in {"input", "textarea"}
  /\ (element.type = "password" \/ element.sensitive)

\* getInputValueSafe: what is masked leaves its length.
GetInputValueSafe(element) ==
  IF element.tag \notin {"input", "textarea", "select"} THEN Leaf("null")
  ELSE IF IsSensitiveField(element)
    THEN Object([f \in {"masked", "length"} |-> Leaf(f)])
  ELSE Leaf(element.value)

\* describeElement, down to what the properties look at.
DescribeElement(element) ==
  Object([f \in {"tag", "type", "text"} |->
            Leaf(IF f = "tag" THEN element.tag
                 ELSE IF f = "text" THEN element.text
                 ELSE IF element.tag = "input" THEN element.type ELSE "null")])

\* logUiEvent; the page's buffer is LogReporting's.  The time of an entry is kept
\* for scrolling alone.
LogUiEvent(event, payload) ==
  uiEntries' = Append(uiEntries, [kind |-> event,
                                  at |-> IF event = "scroll" THEN clock ELSE 0,
                                  payload |-> SanitizeValue(payload)])

Bounded == Len(uiEntries) + Len(consoleEntries) < MaxCaptured

CaptureInit ==
  /\ clock \in {0, ScrollThrottle} /\ lastScroll = 0
  /\ uiEntries = <<>> /\ consoleEntries = <<>> /\ scrolled = {} /\ setBack = FALSE

\* click, focusin and submit tell the target; change and focusout its value too;
\* keydown the key, for two keys.
Payload(event, element, key) ==
  LET target == DescribeElement(element) IN
  IF event \in {"change", "focusout"}
    THEN Object([f \in {"target", "value"} |->
                   IF f = "target" THEN target ELSE GetInputValueSafe(element)])
  ELSE IF event = "keydown"
    THEN Object([f \in {"target", "key"} |-> IF f = "target" THEN target ELSE Leaf(key)])
  ELSE Object([f \in {"target"} |-> target])

\* The listeners of installUiEventListeners, in the capture phase.
Interact(event, element, key) ==
  /\ Bounded
  /\ IF \/ ShouldIgnoreTarget(element)
        \/ event = "keydown" /\ key \notin {"Enter", "Escape"}
     THEN UNCHANGED uiEntries
     ELSE LogUiEvent(event, Payload(event, element, key))
  /\ UNCHANGED <<clock, lastScroll, consoleEntries, scrolled, setBack>>

\* The throttled scroll listener.  A clock that was set back is before the last
\* scroll: nothing is recorded until it has caught up.
Scroll ==
  /\ Bounded
  /\ scrolled' = scrolled \cup {clock}
  /\ IF clock < lastScroll + ScrollThrottle THEN UNCHANGED <<uiEntries, lastScroll>>
     ELSE /\ lastScroll' = clock
          /\ LogUiEvent("scroll", Object([f \in {"at"} |-> Leaf("position")]))
  /\ UNCHANGED <<clock, consoleEntries, setBack>>

\* pushState, replaceState, popstate and hashchange.
Navigate ==
  /\ Bounded
  /\ LogUiEvent("navigate", Object([f \in {"reason"} |-> Leaf("reason")]))
  /\ UNCHANGED <<clock, lastScroll, consoleEntries, scrolled, setBack>>

\* A console method, before the original one is called.
ConsoleCall(argument) ==
  /\ Bounded
  /\ consoleEntries' = Append(consoleEntries, FormatArg(argument))
  /\ UNCHANGED <<clock, lastScroll, uiEntries, scrolled, setBack>>

\* An uncaught error, or a promise rejected and not handled, is an entry of both.
WindowError ==
  /\ Bounded
  /\ consoleEntries' = Append(consoleEntries, Leaf("error"))
  /\ LogUiEvent("error", Object([f \in {"message"} |-> Leaf("error")]))
  /\ UNCHANGED <<clock, lastScroll, scrolled, setBack>>

ClockMoves ==
  /\ clock' \in (0 .. MaxClock) \ {clock}
  /\ setBack' = (setBack \/ clock' < clock)
  /\ UNCHANGED <<lastScroll, uiEntries, consoleEntries, scrolled>>

UiEvents == {"click", "change", "focusin", "focusout", "keydown", "submit"}

CaptureNext ==
  \/ \E event \in UiEvents, element \in Elements :
       \E key \in IF event = "keydown" THEN {"Enter", "Tab"} ELSE {"none"} :
         Interact(event, element, key)
  \/ Scroll \/ Navigate \/ WindowError \/ ClockMoves
  \/ \E argument \in Arguments : ConsoleCall(argument)

-----------------------------------------------------------------------------
\* A step down to a key.
KeyStep(key) == [key |-> key, index |-> 0]

\* The texts an entry tells of an element or a key.
LeafTexts(payload) ==
  LET told == {<<KeyStep("target"), KeyStep("text")>>, <<KeyStep("value")>>, <<KeyStep("key")>>}
  IN  {At(payload, path).text : path \in {p \in told : At(payload, p).kind = "leaf"}}

\* What is typed into an input that is to be masked, or anywhere in a part of the
\* page that is not to be recorded, is in no entry, whichever listeners see the
\* element and in whatever order (41-42, 133-140, 206-238).
MaskedStaysOut ==
  \A i \in DOMAIN uiEntries : \A element \in Masked :
    element.value \notin LeafTexts(uiEntries[i].payload)

\* When the entries say that the page was scrolled.
ScrollsIn(entries) == {entries[i].at : i \in {j \in DOMAIN entries : entries[j].kind = "scroll"}}

\* Scrolling is sampled: recorded scrolls are the throttle apart, and unless the
\* clock was set back every scroll has a recorded one at most that long before it
\* (328-344).
ScrollSampled ==
  LET recorded == ScrollsIn(uiEntries) IN
  /\ \A s, t \in recorded : s < t => s + ScrollThrottle <= t
  /\ ~setBack =>
       \A t \in scrolled :
         t >= ScrollThrottle => \E s \in recorded : s <= t /\ t < s + ScrollThrottle

EventsCaptured == MaskedStaysOut /\ ScrollSampled
=============================================================================
