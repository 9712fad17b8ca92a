------------------------------ MODULE AppShell ------------------------------
(***************************************************************************)
(* What surrounds the views of the Control Center: the error boundary      *)
(* (ErrorBoundary.tsx, App.tsx), the theme (ThemeContext.tsx), the map,    *)
(* which loads a script of its own (Map.tsx), and the dialog that a parent *)
(* may control (ManusDialog.tsx).  An effect runs after the render it      *)
(* belongs to.                                                             *)
(***************************************************************************)
EXTENDS Naturals, FiniteSets

CONSTANTS Maps,        \* the mounts of a map
          MaxReloads, MaxThemeToggles, MaxCloses  \* bounds

ASSUME ShellAssumption == {MaxReloads, MaxThemeToggles, MaxCloses} \subseteq Nat

VARIABLES
  hasError,    \* of the boundary
  switchable,
  theme,
  darkClass,   \* whether the document has the class "dark"
  storedTheme, \* localStorage["theme"], or "none"
  themeDue,    \* the theme's effect has to run
  mapView,     \* mount -> "unmounted", "loading", "stalled" or "ready"
  mapScript,   \* mount -> whether its script is still to come: "none", "pending", "loaded"
  controlled,  \* whether the dialog has an onOpenChange
  openProp,
  internalOpen,
  effectDue,   \* the dialog's effect has to run
  closes,      \* how often onClose was called, capped
  dismissed,   \* history: the user closed it after its parent's last word took effect
  reloads,
  themeToggles

themeVars == <<switchable, theme, darkClass, storedTheme, themeDue, themeToggles>>
mapVars == <<mapView, mapScript>>
dialogVars == <<controlled, openProp, internalOpen, effectDue, closes, dismissed>>
shellVars == <<hasError, themeVars, mapVars, dialogVars, reloads>>

Themes == {"light", "dark"}

\* useState of ThemeProvider: App's default is dark; a stored text is not checked.
FirstTheme == IF switchable /\ storedTheme # "none" THEN storedTheme ELSE "dark"

ShellInit ==
  /\ hasError = FALSE /\ reloads = 0 /\ themeToggles = 0
  /\ switchable \in BOOLEAN /\ storedTheme \in Themes \cup {"none", "other"}
  /\ theme = FirstTheme /\ darkClass = FALSE /\ themeDue = TRUE
  /\ mapView = [m \in Maps |-> "unmounted"] /\ mapScript = [m \in Maps |-> "none"]
  /\ controlled \in BOOLEAN /\ openProp \in BOOLEAN
  /\ internalOpen = openProp /\ effectDue = TRUE /\ closes = 0 /\ dismissed = FALSE

-----------------------------------------------------------------------------
(* The theme.                                                              *)

ThemeEffect ==
  /\ ~hasError /\ themeDue
  /\ darkClass' = (theme = "dark") /\ themeDue' = FALSE
  /\ storedTheme' = IF switchable THEN theme ELSE storedTheme
  /\ UNCHANGED <<hasError, switchable, theme, themeToggles, mapVars, dialogVars, reloads>>

ToggleTheme ==
  /\ ~hasError /\ switchable /\ themeToggles < MaxThemeToggles
  /\ theme' = IF theme = "light" THEN "dark" ELSE "light"
  /\ themeToggles' = themeToggles + 1 /\ themeDue' = TRUE
  /\ UNCHANGED <<hasError, switchable, darkClass, storedTheme, mapVars, dialogVars, reloads>>

-----------------------------------------------------------------------------
(* The map.                                                                *)

\* A script element of its own for every mount.
LoadMapScript(m) == mapScript' = [mapScript EXCEPT ![m] = "pending"]

\* init: the effect of a mount starts the script.
MountMap(m) ==
  /\ ~hasError /\ mapView[m] = "unmounted" /\ mapScript[m] = "none"
  /\ mapView' = [mapView EXCEPT ![m] = "loading"]
  /\ LoadMapScript(m)
  /\ UNCHANGED <<hasError, themeVars, dialogVars, reloads>>

UnmountMap(m) ==
  /\ mapView[m] # "unmounted"
  /\ mapView' = [mapView EXCEPT ![m] = "unmounted"]
  /\ UNCHANGED <<hasError, themeVars, mapScript, dialogVars, reloads>>

\* loadMapScript resolves; a container that is gone gets no map.
ScriptLoads(m) ==
  /\ mapScript[m] = "pending"
  /\ mapScript' = [mapScript EXCEPT ![m] = "loaded"]
  /\ mapView' = [mapView EXCEPT ![m] = IF @ = "unmounted" THEN @ ELSE "ready"]
  /\ UNCHANGED <<hasError, themeVars, dialogVars, reloads>>

\* An error is logged; the promise stays pending.
ScriptFails(m) ==
  /\ mapScript[m] = "pending"
  /\ mapScript' = [mapScript EXCEPT ![m] = "failed"]
  /\ mapView' = [mapView EXCEPT ![m] = IF @ = "unmounted" THEN @ ELSE "stalled"]
  /\ UNCHANGED <<hasError, themeVars, dialogVars, reloads>>

-----------------------------------------------------------------------------
(* The dialog.                                                             *)

Shown == IF controlled THEN openProp ELSE internalOpen

\* Its parent opens or closes it by the property; the effect is due.
SetOpenProp ==
  /\ ~hasError
  /\ openProp' = ~openProp /\ effectDue' = TRUE
  /\ dismissed' = FALSE
  /\ UNCHANGED <<hasError, themeVars, mapVars, controlled, internalOpen, closes, reloads>>

DialogEffect ==
  /\ ~hasError /\ effectDue
  /\ effectDue' = FALSE
  /\ IF controlled THEN UNCHANGED <<internalOpen, dismissed>>
     ELSE internalOpen' = openProp /\ dismissed' = FALSE
  /\ UNCHANGED <<hasError, themeVars, mapVars, controlled, openProp, closes, reloads>>

\* handleOpenChange(false): a parent that listens decides; onClose is called anyway.
\* It may come before the effect of the parent's change, which then overrules it.
HandleOpenChange ==
  /\ ~hasError /\ Shown /\ closes < MaxCloses
  /\ dismissed' = TRUE /\ closes' = closes + 1
  /\ IF controlled
     THEN openProp' \in {openProp, FALSE} /\ UNCHANGED internalOpen
     ELSE internalOpen' = FALSE /\ UNCHANGED openProp
  /\ effectDue' = (effectDue \/ openProp' # openProp)
  /\ UNCHANGED <<hasError, themeVars, mapVars, controlled, reloads>>

-----------------------------------------------------------------------------
\* getDerivedStateFromError: the boundary renders its message in place of all views.
ChildThrows ==
  /\ ~hasError
  /\ hasError' = TRUE
  /\ mapView' = [m \in Maps |-> "unmounted"]
  /\ UNCHANGED <<themeVars, mapScript, dialogVars, reloads>>

\* The page is loaded again, by the button of the boundary or otherwise.
ReloadPage ==
  /\ reloads < MaxReloads
  /\ reloads' = reloads + 1
  /\ hasError' = FALSE
  /\ theme' = FirstTheme /\ darkClass' = FALSE /\ themeDue' = TRUE
  /\ mapView' = [m \in Maps |-> "unmounted"] /\ mapScript' = [m \in Maps |-> "none"]
  /\ internalOpen' = openProp /\ effectDue' = TRUE /\ closes' = 0 /\ dismissed' = FALSE
  /\ UNCHANGED <<switchable, storedTheme, themeToggles, controlled, openProp>>

ShellNext ==
  \/ ThemeEffect \/ ToggleTheme
  \/ \E m \in Maps : MountMap(m) \/ UnmountMap(m) \/ ScriptLoads(m) \/ ScriptFails(m)
  \/ SetOpenProp \/ DialogEffect \/ HandleOpenChange
  \/ ChildThrows \/ ReloadPage

-----------------------------------------------------------------------------
ShellTypeOK ==
  /\ {hasError, switchable, darkClass, controlled, openProp, internalOpen, effectDue, dismissed} \subseteq BOOLEAN
  /\ theme \in Themes \cup {"other"} /\ themeDue \in BOOLEAN
  /\ storedTheme \in Themes \cup {"none", "other"}
  /\ mapView \in [Maps -> {"unmounted", "loading", "stalled", "ready"}]
  /\ mapScript \in [Maps -> {"none", "pending", "loaded", "failed"}]
  /\ closes \in 0 .. MaxCloses /\ reloads \in 0 .. MaxReloads /\ themeToggles \in 0 .. MaxThemeToggles

\* The document has the theme of the provider once its effect ran, and the page
\* that is loaded next starts with it, also where what was stored is no theme
\* (24-49).
ThemeApplied ==
  ~hasError /\ ~themeDue => darkClass = (theme = "dark") /\ FirstTheme = IF switchable THEN theme ELSE "dark"

\* A map is shown where its script was loaded while its container was there, and
\* nowhere once the boundary took over: a script that is late finds no container
\* (Map.tsx 95-151, ErrorBoundary.tsx 20-58).
MapsFollowScripts ==
  \A m \in Maps :
    /\ mapView[m] # "unmounted" =>
         ~hasError /\ (mapView[m] = "ready") = (mapScript[m] = "loaded")
    /\ mapView[m] = "stalled" => mapScript[m] = "failed"

\* A dialog that keeps its own state has the last word: it stays closed when the user
\* closed it, until its parent changes `open`, and shows what its parent said when the
\* user closed it before the effect of that ran; one that is controlled shows what its
\* parent says; and whenever it was dismissed, onClose was called (21-47).
DialogObeys ==
  ~hasError /\ ~effectDue =>
    /\ Shown = (openProp /\ (controlled \/ ~dismissed))
    /\ dismissed => closes > 0
=============================================================================
