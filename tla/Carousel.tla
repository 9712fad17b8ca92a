------------------------------ MODULE Carousel ------------------------------
(***************************************************************************)
(* The carousel of the component library (carousel.tsx) around the Embla   *)
(* engine, which is modelled from how it is used: it has a list of snaps,  *)
(* tells "select" when another one is scrolled to and "reInit" when it     *)
(* measured the slides anew.  The component keeps in its own state whether *)
(* it can scroll, and subscribes to one engine after another.              *)
(***************************************************************************)
EXTENDS Integers, FiniteSets

CONSTANTS Engines,  \* the engines a carousel has one after another
          NoEngine,
          MaxSnaps

ASSUME CarouselAssumption == MaxSnaps \in Nat \ {0}

VARIABLES
  api,            \* the engine, or NoEngine
  embla,          \* engine -> its snaps, the selected one, and who listens
  canScrollPrev,
  canScrollNext,
  given           \* the engine the parent got by setApi

carouselVars == <<api, embla, canScrollPrev, canScrollNext, given>>

Fresh == [snaps |-> 0, selected |-> 0, heard |-> {}]

CarouselInit ==
  /\ api = NoEngine /\ embla = [e \in Engines |-> Fresh]
  /\ canScrollPrev = FALSE /\ canScrollNext = FALSE /\ given = NoEngine

PrevOf(engine) == engine.selected > 0

NextOf(engine) == engine.selected < engine.snaps - 1

\* onSelect, with the engine that tells.
OnSelect(engine) == canScrollPrev' = PrevOf(engine) /\ canScrollNext' = NextOf(engine)

\* The engine becomes `engine` and tells `event`.
Emit(engine, event) ==
  /\ embla' = [embla EXCEPT ![api] = engine]
  /\ IF event \in embla[api].heard THEN OnSelect(engine) ELSE UNCHANGED <<canScrollPrev, canScrollNext>>
  /\ UNCHANGED <<api, given>>

\* Mutated form (of Subscribe): only selections are listened to.
SubscribeSelect(e, engine) ==
  /\ embla' = [embla EXCEPT ![e] = [engine EXCEPT !.heard = {"select"}]]
  /\ OnSelect(engine)

Subscribe(e, engine) ==
  /\ embla' = [embla EXCEPT ![e] = [engine EXCEPT !.heard = {"reInit", "select"}]]
  /\ OnSelect(engine)

\* The viewport is mounted: an engine that was not used before, and the effects.
EngineStarts(e) ==
  /\ api = NoEngine /\ embla[e] = Fresh
  /\ api' = e /\ given' = e
  /\ \E n \in 1 .. MaxSnaps : Subscribe(e, [Fresh EXCEPT !.snaps = n])

\* The viewport is gone: the cleanup stops listening to selections only, and the
\* engine, destroyed, tells nothing any more.
EngineStops ==
  /\ api # NoEngine
  /\ embla' = [embla EXCEPT ![api].heard = @ \ {"select"}]
  /\ api' = NoEngine
  /\ UNCHANGED <<canScrollPrev, canScrollNext, given>>

\* Slides come or go, or the carousel is resized.
ReInit ==
  /\ api # NoEngine
  /\ \E n \in 1 .. MaxSnaps :
       Emit([embla[api] EXCEPT !.snaps = n, !.selected = IF @ < n THEN @ ELSE n - 1], "reInit")

Scroll1(step) ==
  /\ api # NoEngine
  /\ LET engine == embla[api] IN
     /\ engine.selected + step \in 0 .. engine.snaps - 1
     /\ Emit([engine EXCEPT !.selected = @ + step], "select")

\* handleKeyDown: the arrow keys scroll either kind of carousel.
ArrowKey == Scroll1(-1) \/ Scroll1(1)

CarouselPrevious == canScrollPrev /\ Scroll1(-1)

CarouselNextButton == canScrollNext /\ Scroll1(1)

CarouselNext ==
  \/ \E e \in Engines : EngineStarts(e)
  \/ EngineStops \/ ReInit \/ ArrowKey \/ CarouselPrevious \/ CarouselNextButton

-----------------------------------------------------------------------------
(* The layout, of the property `orientation`, or "", and the option `axis`. *)

Orientation(asked) == IF asked = "" THEN "horizontal" ELSE asked

EngineAxis(asked) == IF Orientation(asked) = "horizontal" THEN "x" ELSE "y"

\* What the parts are told: the option would count for a property without default.
ToldOrientation(asked, axis) ==
  IF Orientation(asked) # "" THEN Orientation(asked) ELSE IF axis = "y" THEN "vertical" ELSE "horizontal"

\* The side where the slides overlap their frame, and the one where a slide is padded.
ContentSide(told) == IF told = "horizontal" THEN "left" ELSE "top"

ItemSide(told) == IF told = "horizontal" THEN "left" ELSE "top"

-----------------------------------------------------------------------------
CarouselTypeOK ==
  /\ api \in Engines \cup {NoEngine} /\ given \in Engines \cup {NoEngine}
  /\ embla \in [Engines -> [snaps : 0 .. MaxSnaps, selected : 0 .. MaxSnaps - 1,
                            heard : SUBSET {"reInit", "select"}]]
  /\ canScrollPrev \in BOOLEAN /\ canScrollNext \in BOOLEAN

\* The buttons are enabled exactly where there is something to scroll to, however
\* slides come and go and engines follow one another (62-66, 94-103, 172-230).
ButtonsTellScroll ==
  api # NoEngine =>
    canScrollPrev = PrevOf(embla[api]) /\ canScrollNext = NextOf(embla[api]) /\ given = api

\* Whatever the parent gives, the slides lie along the axis the engine scrolls, and
\* the padding of a slide is what its frame takes back (50-58, 106-131, 133-170).
SlidesLieAlongAxis(asked, axis) ==
  LET told == ToldOrientation(asked, axis) IN
  /\ ItemSide(told) = ContentSide(told)
  /\ (ItemSide(told) = "left") = (EngineAxis(asked) = "x")
=============================================================================
