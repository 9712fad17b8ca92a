\* A claim of the repository about the service.
CONSTANTS
  Unset = Unset
  NoHash = NoHash
  Unregistered = Unregistered
  Unsearchable = {"", "null"}
  Within = {}
  MaxBodyBytes = 10
  MaxDepth = 2
  WorkloadSubjects <- DefaultSubjects
  RevokedJti = {"jti-revoked"}
  Leeway = 0
  ApprovedIntegrations <- DefaultIntegrations
  Calls = {c1, c2}
  Requests <- MCRequests
  InitialEngine <- MCEngine
  EngineAt <- MCEngineAt
  InitialRegistry <- DefaultDestinations
  Replacements <- NoReplacements
  Receivers = {"analytics.internal"}
  MaxTime = 1
  Configs <- MCConfigs
  Scenarios <- MCScenarios
  MaxCrashes = 1
SPECIFICATION ServiceSpec
INVARIANT ScenariosRaiseSequence
CHECK_DEADLOCK FALSE
