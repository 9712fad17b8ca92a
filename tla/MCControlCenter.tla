-------------------------- MODULE MCControlCenter --------------------------
(***************************************************************************)
(* The parts of the Control Center and of its component library, checked   *)
(* together.  They share no state, so a behaviour moves one of them: its   *)
(* `part` is chosen at the start and the others rest in a first state of   *)
(* theirs.  The charts, the fields and the servers have no state; a sample *)
(* of their inputs is chosen instead.                                      *)
(***************************************************************************)
EXTENDS ViewLoad, Overview, OperatorSession, Sidebar, InputComposition, Carousel, AppShell,
        ChartContent, FormControls, PageServer

CONSTANTS
  Items,    \* the items of recharts' payloads
  Charts,   \* the tooltips and legends, with their payloads and configurations
  Configs,  \* the configurations of one chart
  Pages,    \* the charts of one page, each with its configuration
  Forms     \* the fields, with their messages, values and days

\* "" is a missing text, so no series has it for a key; React gives every chart of a page
\* an id of its own; a calendar marks the days of a range with these names.
ASSUME ContentAssumption ==
  /\ \A t \in Charts : t.payload \in Seq(Items) /\ "" \notin DOMAIN t.config
  /\ \A screen \in Pages : \A i, j \in DOMAIN screen : screen[i].unique = screen[j].unique => i = j
  /\ \A f \in Forms : f.range \subseteq {"start", "middle", "end"}

VARIABLES
  part,   \* the part that moves, or what is sampled
  sample  \* an input of a chart, of a field or of a server

resting == <<viewVars, overviewVars, sessionVars, sidebarVars, compositionVars, carouselVars, shellVars>>
vars == <<part, sample, resting>>

-----------------------------------------------------------------------------
(* The samples.                                                            *)

MCKeysOf == [v \in {"service", "ledger", "once"} |->
               CASE v = "service" -> {"health", "status"}
                 [] v = "ledger" -> {"all", "blocked"}
                 [] v = "once" -> {"policy", "boundary"}]

Plain == [t \in Themes1 |-> ""]

\* A series has one colour, one for each theme, or none.
Series == {[label |-> l, icon |-> i, color |-> f[1], theme |-> f[2]] :
             l \in {"", "Alpha"}, i \in BOOLEAN,
             f \in {<<"", Plain>>, <<"red", Plain>>, <<"", [light |-> "red", dark |-> "blue"]>>}}

BetaSeries == [label |-> "Beta", icon |-> FALSE, color |-> "blue", theme |-> Plain]

\* Recharts gives an item its own properties, and in them the row of data, where "kind"
\* may name a series.
MCItems ==
  {[dataKey |-> d, name |-> n, type |-> y, value |-> x,
    own |-> [k \in {"a", "b", "kind", "name", "dataKey", "value"} |->
               CASE k = "name" -> n [] k = "dataKey" -> d [] OTHER -> ""],
    data |-> [k \in {"a", "b", "kind", "name", "dataKey", "value"} |-> IF k = "kind" THEN r ELSE ""]] :
     d \in {"a"}, n \in {"", "a", "b"}, y \in {"", "none"}, x \in {"", "7"}, r \in {"", "a", "b", "unknown"}}

PayloadsOfChart ==
  {<<>>} \cup {<<i>> : i \in MCItems}
    \cup {<<i, j>> : i \in {i \in MCItems : i.value = "7"}, j \in {i \in MCItems : i.value = "7" /\ i.name = "b"}}

MCCharts ==
  [ active : {TRUE}, payload : PayloadsOfChart, indicator : {"dot", "line"}, hideLabel : BOOLEAN,
    hideIndicator : {FALSE}, hideIcon : {FALSE}, labelKey : {"", "kind"}, nameKey : {"", "kind", "name"},
    label : {"", "b"}, labelFormatter : {FALSE}, formatter : BOOLEAN,
    config : {[k \in {"b"} |-> BetaSeries]}
               \cup {[k \in {"a", "b"} |-> IF k = "a" THEN series ELSE BetaSeries] :
                       series \in {series \in Series : series.color = "red" /\ ~series.icon}} ]

\* Two charts, of which each may be given an id; "r1" is React's for the first.
MCPages ==
  {<<[id |-> a, unique |-> "r1", config |-> [k \in {"a"} |-> s]],
     [id |-> b, unique |-> "r2", config |-> [k \in {"a"} |-> BetaSeries]]>> :
     a \in {"", "sales", "r2"}, b \in {"", "sales", "costs", "r1"}, s \in Series}

MCConfigs == {[k \in {"a"} |-> s] : s \in Series}

MCForms == [ error : BOOLEAN, message : {"", "wrong"}, children : {"", "hint"}, description : BOOLEAN,
           errors : {[given |-> FALSE, list |-> <<>>]}
                      \cup {[given |-> TRUE, list |-> list] :
                              list \in UNION {[1 .. n -> {"", "short", "late"}] : n \in 0 .. 3}},
           values : {<<>>, <<1>>, <<1, 2, 3>>}, defaults : {<<>>, <<1>>, <<1, 2>>},
           group : {"", "outline"},
           selected : {TRUE}, range : {{}, {"start"}, {"middle"}, {"end"}, {"start", "end"}} ]

\* The slots of a password of these digits; the first is being written.
Slots4(digits) ==
  [i \in 1 .. 4 |-> [char |-> IF i \in DOMAIN digits THEN "digit" ELSE "", caret |-> i = 1, active |-> i = 1]]

Slides == [orientation : {"", "horizontal", "vertical"}, axis : {"", "x", "y"}]

Servers == [ server : {"vite", "express"}, environment : {"development", "production"},
             configured : BOOLEAN, forge : DOMAIN StorageError \cup {"signed"} ]

-----------------------------------------------------------------------------
(* The behaviours.                                                         *)

Parts == {"view", "overview", "session", "sidebar", "composition", "carousel", "shell",
          "chart", "config", "page", "slides", "form", "server"}

\* What is chosen of a part without state: one input.
Sampled(of) ==
  CASE of = "chart" -> {{t} : t \in Charts}
    [] of = "config" -> {{config} : config \in Configs}
    [] of = "page" -> {{screen} : screen \in Pages}
    [] of = "slides" -> {{s} : s \in Slides}
    [] of = "form" -> {{f} : f \in Forms}
    [] of = "server" -> {{s} : s \in Servers}
    [] OTHER -> {{}}

\* The others are in one of their first states, the same in all behaviours.
Rests ==
  /\ part # "view" => view = "once" /\ key = CHOOSE k \in KeysOf["once"] : TRUE
  /\ part # "overview" => poll[CHOOSE p \in Polls : TRUE].stage = "asked"
  /\ part # "sidebar" => ownership = "own" /\ collapsible = "icon" /\ ~narrow /\ open
  /\ part # "composition" => tag = "input" /\ inDialog /\ ~safari
  /\ part # "shell" => ~switchable /\ storedTheme = "none" /\ controlled /\ ~openProp

Init ==
  /\ part \in Parts
  /\ ViewInit /\ OverviewInit /\ SessionInit /\ SidebarInit /\ CompositionInit
  /\ CarouselInit /\ ShellInit
  /\ Rests
  /\ sample \in Sampled(part)

Next ==
  /\ UNCHANGED <<part, sample>>
  /\ \/ part = "view" /\ ViewNext
        /\ UNCHANGED <<overviewVars, sessionVars, sidebarVars, compositionVars, carouselVars, shellVars>>
     \/ part = "overview" /\ OverviewNext
        /\ UNCHANGED <<viewVars, sessionVars, sidebarVars, compositionVars, carouselVars, shellVars>>
     \/ part = "session" /\ SessionNext
        /\ UNCHANGED <<viewVars, overviewVars, sidebarVars, compositionVars, carouselVars, shellVars>>
     \/ part = "sidebar" /\ SidebarNext
        /\ UNCHANGED <<viewVars, overviewVars, sessionVars, compositionVars, carouselVars, shellVars>>
     \/ part = "composition" /\ CompositionNext
        /\ UNCHANGED <<viewVars, overviewVars, sessionVars, sidebarVars, carouselVars, shellVars>>
     \/ part = "carousel" /\ CarouselNext
        /\ UNCHANGED <<viewVars, overviewVars, sessionVars, sidebarVars, compositionVars, shellVars>>
     \/ part = "shell" /\ ShellNext
        /\ UNCHANGED <<viewVars, overviewVars, sessionVars, sidebarVars, compositionVars, carouselVars>>

\* A fetch settles within the timeout of its signal.
ViewFairness == \A i \in 1 .. MaxCalls : WF_viewVars(part = "view" /\ CallEnds(i))

Spec == Init /\ [][Next]_vars /\ ViewFairness

-----------------------------------------------------------------------------
(* The parts' properties, one for each question the run asks; each holds   *)
(* that the variables of its parts have their types, too.                  *)

\* What the views of the gateway show is what it answered: none loads without a request
\* under way, one whose requests were answered in order shows its own answer, and the
\* pill of the overview tells what its last poll found (Home.tsx 97-118, 160, 239-258).
ViewsTellTruth ==
  /\ ViewTypeOK /\ OverviewTypeOK
  /\ ViewSettles /\ ShowsItsOwn /\ PillTellsLastPoll

\* A session that was signed out is refused, the one that is shown is the one that is
\* stored, and no check is waited for that is not under way (Home.tsx 193-211,
\* operations.py 57-100).
SessionsAgree == SessionTypeOK /\ SignedOutIsRefused /\ SessionShownIsStored /\ CheckIsUnderWay

\* Whatever the browser's order of key and composition events, the keys of an input
\* method stay in its field, newlines arrive, and the field recovers (useComposition.ts,
\* input.tsx, textarea.tsx, dialog.tsx).
CompositionsStayInside ==
  CompositionTypeOK /\ EditorKeysStayInside /\ NewlinesArrive /\ FieldRecovers

\* The components that mirror a state kept elsewhere - of a parent, of an engine, of a
\* script, of the last render - follow it (sidebar.tsx, carousel.tsx, ThemeContext.tsx,
\* Map.tsx, ManusDialog.tsx, ErrorBoundary.tsx).
PartsFollowState ==
  /\ SidebarTypeOK /\ CarouselTypeOK /\ ShellTypeOK
  /\ TogglesCount /\ IconsAreNamed /\ ButtonsTellScroll /\ ThemeApplied /\ MapsFollowScripts /\ DialogObeys

\* Charts, fields and servers give what their inputs say (chart.tsx, form.tsx, field.tsx,
\* calendar.tsx, slider.tsx, vite.config.ts, server/index.ts).
ContentShown ==
  \A s \in sample :
    /\ part = "chart" => LabelShownOnce(s) /\ SameNames(s) /\ NamedByData(s)
    /\ part = "config" => ColouredInEveryTheme(s)
    /\ part = "page" => WearsItsOwn(s)
    /\ part = "slides" => SlidesLieAlongAxis(s.orientation, s.axis)
    /\ part = "form" => /\ ErrorsAnnounced(s) /\ MessagesListed(s.children, s.errors)
                        /\ DaysMarked(s) /\ ThumbsOfValues(s.values, s.defaults)
                        /\ GroupsAgree(s.group, {"", "default"}, Slots4(s.values))
    /\ part = "server" => PagesFindTheirServer(s) /\ \A k \in {"", "photo"} : RedirectsAreSigned(s, k)

\* A view of the gateway implements Loadable, with the phase that is on the page.
Phase == IF part = "view" THEN JsonState ELSE "answered"

Loader == INSTANCE Loadable WITH phase <- Phase

\* However its requests cross, a view loads and then answers or fails, and no loading
\* lasts for ever (Home.tsx 97-118, 151-163).
ViewsRefineLoadable == Loader!Spec
=============================================================================
