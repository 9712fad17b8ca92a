------------------------------- MODULE Sidebar -------------------------------
(***************************************************************************)
(* The sidebar of the component library (sidebar.tsx, useMobile.tsx): one  *)
(* state for wide screens, which a parent may control, one for phones, a   *)
(* cookie, and toggles by the trigger, the rail and the keyboard.          *)
(*                                                                         *)
(* A callback sees the state of the render it was made in.  Several calls  *)
(* may come before the next render: a trigger calls its onClick first.     *)
(***************************************************************************)
EXTENDS Naturals

CONSTANTS MaxToggles, MaxResizes  \* bounds

ASSUME SidebarAssumption == MaxToggles \in Nat /\ MaxResizes \in Nat

VARIABLES
  ownership,   \* who keeps the state: "own", "controlled", "fixed", "heard"
  defaultOpen,
  collapsible, \* what a collapsed sidebar becomes
  narrow,      \* window.innerWidth < MOBILE_BREAKPOINT
  isMobile,    \* what useIsMobile returns
  open,        \* _open, or the parent's state
  rendered,    \* open in the last render
  openMobile,
  cookie,      \* sidebar_state, or "none"
  toggles,     \* history: how many there were, and dismissals of the sheet, on phones and else
  resizes,
  batched      \* history: two toggles came between two renders

sidebarVars == <<ownership, defaultOpen, collapsible, narrow, isMobile, open, rendered, openMobile,
                 cookie, toggles, resizes, batched>>

\* The first render; the effect of useIsMobile comes after it.
SidebarInit ==
  /\ ownership \in {"own", "controlled", "fixed", "heard"}
  /\ collapsible \in {"offcanvas", "icon", "none"}
  /\ narrow \in BOOLEAN /\ isMobile = FALSE
  /\ open \in BOOLEAN /\ rendered = open /\ defaultOpen = open /\ openMobile = FALSE
  /\ cookie = "none"
  /\ toggles = [phone |-> 0, wide |-> 0] /\ resizes = 0 /\ batched = FALSE

\* useIsMobile: the effect of the first render, and a change of the media query.
UseIsMobile ==
  /\ isMobile # narrow
  /\ isMobile' = narrow
  /\ UNCHANGED <<ownership, defaultOpen, collapsible, narrow, open, rendered, openMobile, cookie,
                 toggles, resizes, batched>>

Resize ==
  /\ resizes < MaxResizes /\ isMobile = narrow
  /\ resizes' = resizes + 1
  /\ narrow' = ~narrow /\ isMobile' = narrow'
  /\ UNCHANGED <<ownership, defaultOpen, collapsible, open, rendered, openMobile, cookie, toggles, batched>>

\* setOpen: a parent that listens is told, and decides whether `open` changes; one
\* that only listens keeps nothing, and one that only fixes it is not told.
SetOpen(value) ==
  /\ open' \in CASE ownership = "own" -> {value}
                 [] ownership = "controlled" -> {value, open}
                 [] OTHER -> {open}
  /\ cookie' = IF value THEN "true" ELSE "false"

ToggleMobile == openMobile' = ~openMobile /\ UNCHANGED <<open, cookie>>

ToggleDesktop == SetOpen(~rendered) /\ UNCHANGED openMobile

\* toggleSidebar, called once or twice before the next render.
ToggleSidebar ==
  /\ toggles.phone + toggles.wide < MaxToggles
  /\ \/ /\ isMobile
        /\ ToggleMobile
        /\ toggles' = [toggles EXCEPT !.phone = @ + 1]
        /\ UNCHANGED batched
     \/ /\ ~isMobile
        /\ ToggleDesktop
        /\ toggles' = [toggles EXCEPT !.wide = @ + 1]
        /\ batched' = (batched \/ open # rendered)
  /\ UNCHANGED <<ownership, defaultOpen, collapsible, narrow, isMobile, rendered, resizes>>

\* What Sidebar renders.
Presentation ==
  IF collapsible = "none" THEN "whole"
  ELSE IF isMobile THEN (IF openMobile THEN "sheet" ELSE "nothing")
  ELSE IF rendered THEN "whole"
  ELSE IF collapsible = "icon" THEN "icons" ELSE "rail"

Trigger == ToggleSidebar

\* The rail is part of the sidebar.
Rail == Presentation # "nothing" /\ ToggleSidebar

\* Ctrl or Meta with B, wherever the focus is.
Shortcut == ToggleSidebar

\* The next render, and the callbacks and the listener made by it.
Render ==
  /\ rendered # open
  /\ rendered' = open
  /\ UNCHANGED <<ownership, defaultOpen, collapsible, narrow, isMobile, open, openMobile, cookie,
                 toggles, resizes, batched>>

\* The sheet of a phone is dismissed or opened by itself.
SheetChanges ==
  /\ isMobile /\ openMobile /\ collapsible # "none" /\ toggles.phone < MaxToggles
  /\ openMobile' = FALSE
  /\ toggles' = [toggles EXCEPT !.phone = @ + 1]
  /\ UNCHANGED <<ownership, defaultOpen, collapsible, narrow, isMobile, open, rendered, cookie, resizes, batched>>

SidebarNext ==
  UseIsMobile \/ Resize \/ Trigger \/ Rail \/ Shortcut \/ Render \/ SheetChanges

-----------------------------------------------------------------------------
\* SidebarMenuButton: whether the tooltip that names the button may show.
TooltipShows == ~rendered /\ ~isMobile

\* What a sidebar of icons does not show: of a group its label, which turns
\* transparent, and its action; of an item its action and its badge; and what is
\* below the item.
GroupHides == {"group-label", "group-action"}

ItemHides == {"menu-action", "menu-badge"}

SubMenuHides == {"menu-sub", "menu-sub-button"}

Pieces == {"menu-button"} \cup GroupHides \cup ItemHides \cup SubMenuHides

ShownPieces ==
  CASE Presentation \in {"nothing", "rail"} -> {}
    [] Presentation = "icons" -> Pieces \ (GroupHides \cup ItemHides \cup SubMenuHides)
    [] OTHER -> Pieces

SidebarTypeOK ==
  /\ ownership \in {"own", "controlled", "fixed", "heard"}
  /\ collapsible \in {"offcanvas", "icon", "none"}
  /\ {defaultOpen, narrow, isMobile, open, rendered, openMobile, batched} \subseteq BOOLEAN
  /\ cookie \in {"none", "true", "false"}
  /\ toggles \in [phone : 0 .. MaxToggles, wide : 0 .. MaxToggles] /\ resizes \in 0 .. MaxResizes

Odd(n) == n % 2 = 1

\* Every toggle on a phone counts, even two before one render, and none of them
\* touches the state for wide screens or its cookie.  On wide screens every toggle
\* of a sidebar that keeps its own state counts if there is a render between any
\* two, and the cookie tells that state (75-93).
TogglesCount ==
  /\ openMobile = Odd(toggles.phone)
  /\ (cookie = "none") = (toggles.wide = 0)
  /\ ownership = "own" =>
       /\ batched \/ open = (defaultOpen # Odd(toggles.wide))
       /\ cookie = "none" \/ cookie = IF open THEN "true" ELSE "false"

\* A sidebar of icons names its buttons by tooltips, shows nothing else of the menu,
\* which no tooltip would name, and is shown whole again by every way out of it; one
\* with labels has no tooltips, unless it cannot collapse (153-209, 416, 440, 540-606).
IconsAreNamed ==
  /\ Presentation = "icons" => TooltipShows /\ ShownPieces = {"menu-button"}
  /\ rendered \/ isMobile => ShownPieces \in {Pieces, {}}
  /\ Presentation \in {"whole", "sheet"} /\ TooltipShows => collapsible = "none"
=============================================================================
