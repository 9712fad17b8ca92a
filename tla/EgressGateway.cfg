\* The default deployment, two concurrent calls, the policy expiring at 2; or few requests
\* while entries are registered and replaced.
CONSTANTS
  Unset = Unset
  NoHash = NoHash
  Unregistered = Unregistered
  Unsearchable = {"", "null"}
  Within <- MCWithin
  MaxBodyBytes = 10
  MaxDepth = 2
  WorkloadSubjects <- DefaultSubjects
  RevokedJti = {"jti-revoked"}
  Leeway = 0
  ApprovedIntegrations <- DefaultIntegrations
  Calls = {c1, c2}
  Various = c1
  Requests <- MCRequests
  InitialEngine <- MCEngine
  InitialRegistry <- OpenRegistry
  Replacements <- MCReplacements
  Receivers = {"analytics.internal", "finance.internal", "external-webhook"}
  MaxTime = 2
SPECIFICATION MCSpec
INVARIANTS
  TypeOK
  ReleaseAuthorised
  JudgedAsRegistered
  ExpiredAtStartReleasesNothing
  RemovedValuesStayBehind
  DecisionTellsDelivery
  ReceiptCountsDelivery
  ConfidentialStaysInside
PROPERTY ControlsRelease
CHECK_DEADLOCK FALSE
