\* One handler to its answer; two clients of the stream and three decisions.
CONSTANTS
  Unset = Unset
  NoHash = NoHash
  Unregistered = Unregistered
  Unsearchable = {"", "null"}
  Within = {}
  MaxBodyBytes = 10
  MaxDepth = 2
  WorkloadSubjects <- DefaultSubjects
  RevokedJti = {"jti-revoked"}
  Leeway = 0
  ApprovedIntegrations <- DefaultIntegrations
  Calls = {c1}
  Requests <- MCRequests
  InitialEngine <- MCEngine
  EngineAt <- MCEngineAt
  InitialRegistry <- DefaultDestinations
  Replacements <- NoReplacements
  Receivers = {"analytics.internal"}
  MaxTime = 1
  Configs <- MCConfigs
  Scenarios <- MCScenarios
  MaxCrashes = 1
  Streams = {s1, s2}
  MaxEvents = 3
SPECIFICATION ProgressSpec
PROPERTIES
  EveryRequestAnswered
  StreamsTellDecisions
CHECK_DEADLOCK FALSE
