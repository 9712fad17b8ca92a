\* Two decisions, three requests, one crash, a database file or in memory.
CONSTANTS
  Unset = Unset
  Decisions = {d1, d2}
  Handlers = {h1, h2, h3}
  Statuses = {"acknowledged", "closed", "reopened"}
  MaxCrashes = 1
  Changes <- MCChanges
SPECIFICATION PartsSpec
SYMMETRY Alike
INVARIANTS
  CasesAgree
  IncidentsAgree
CHECK_DEADLOCK FALSE
