\* The Control Center: five endpoints are two, as are the choices of filters.
SPECIFICATION Spec
CONSTANTS
  KeysOf <- MCKeysOf
  MaxCalls = 3
  Polls = {p1, p2}
  MaxSeconds = 3
  Tokens = {s1, s2}
  NoToken = NoToken
  Slots = {r1, r2}
  MaxMounts = 2
  MaxFaults = 1
  MaxToggles = 3
  MaxResizes = 2
  MaxEnds = 2
  Engines = {e1, e2}
  NoEngine = NoEngine
  MaxSnaps = 3
  Maps = {m1}
  MaxReloads = 1
  MaxThemeToggles = 2
  MaxCloses = 2
  Items <- MCItems
  Charts <- MCCharts
  Configs <- MCConfigs
  Pages <- MCPages
  Forms <- MCForms
INVARIANTS
  ViewsTellTruth
  SessionsAgree
  CompositionsStayInside
  PartsFollowState
  ContentShown
PROPERTY
  ViewsRefineLoadable
CHECK_DEADLOCK FALSE
