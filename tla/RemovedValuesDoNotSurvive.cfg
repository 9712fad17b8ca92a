\* A claim of the repository about bodies of up to three leaves under four sets of permitted fields.
CONSTANTS
  Unset = Unset
  NoHash = NoHash
  Engines <- MCEngines
  Items <- MCItems
  MaxTime = 2
  Unsearchable = {"", "null"}
  Within <- MCWithin
  MaxBodyBytes = 10
  MaxDepth = 3
  Bodies <- MCBodies
  PermittedSets <- MCPermittedSets
SPECIFICATION PartsSpec
INVARIANT RemovedValuesDoNotSurvive
CHECK_DEADLOCK FALSE
