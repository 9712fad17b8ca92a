\* Every rule book with six inputs and the clock past expiry; every body under four
\* sets of permitted fields.
CONSTANTS
  Unset = Unset
  NoHash = NoHash
  Engines <- MCEngines
  Items <- MCItems
  MaxTime = 2
  Unsearchable = {"", "null"}
  Within <- MCWithin
  MaxBodyBytes = 10
  MaxDepth = 3
  Bodies <- MCBodies
  PermittedSets <- MCPermittedSets
SPECIFICATION PartsSpec
INVARIANTS
  BlockDominates
  ConflictFailsClosed
  ReleaseIsEarned
  OrderInsensitive
  UnreportedOnlyInEmptiedLists
  SurvivorsOnlyInLists
  SecondPassChangesNothing
PROPERTY ExpiryIsFinal
CHECK_DEADLOCK FALSE
