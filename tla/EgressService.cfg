\* Two handlers, one crash, one tick, storage failing at any moment, every configuration.
CONSTANTS
  Unset = Unset
  NoHash = NoHash
  Unregistered = Unregistered
  Unsearchable = {"", "null"}
  Within = {}
  MaxBodyBytes = 10
  MaxDepth = 2
  WorkloadSubjects <- DefaultSubjects
  RevokedJti = {"jti-revoked"}
  Leeway = 0
  ApprovedIntegrations <- DefaultIntegrations
  Calls = {c1, c2}
  Requests <- MCRequests
  InitialEngine <- MCEngine
  EngineAt <- MCEngineAt
  InitialRegistry <- DefaultDestinations
  Replacements <- NoReplacements
  Receivers = {"analytics.internal"}
  MaxTime = 1
  Configs <- MCConfigs
  Scenarios <- MCScenarios
  MaxCrashes = 1
SPECIFICATION ServiceSpec
SYMMETRY Alike
INVARIANTS
  EgressRouteIsGated
  AckImpliesDurable
  StrictAcksSurvive
  NoSilentRelease
  EvidenceTellsDelivery
PROPERTY EvidenceSurvives
CHECK_DEADLOCK FALSE
