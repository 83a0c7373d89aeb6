CONSTANTS
  Roles = 3
  MaxConcurrent = 1
  Flaky = {2}
  Files = 2
  Evidence = {"e1"}
  Fingerprint = {"p1", "p2"}
  EvidenceOf <- MCEvidenceOf
  FingerprintOf <- MCFingerprintOf
  Tools = {2}
  Pids = 2
  Sessions = 3
  Callers = {"b1", "b2"}
  Models = {"m1"}
  Configured <- MCConfigured
  RetryAfter = {0, 1000}
  Pace = 3000
SPECIFICATION Spec
CHECK_DEADLOCK FALSE
INVARIANT PoolNearlyBounded
INVARIANT FindingsOnce
 
INVARIANT CheckpointSurvives
PROPERTY RolesKeepRunning
PROPERTY InboxDrains
PROPERTY SlotsAreSpaced
