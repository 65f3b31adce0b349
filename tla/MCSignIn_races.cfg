\* Two forms in flight at once, of two sessions; disable-totp beside them.
SPECIFICATION Spec
CONSTANTS
  Session = {s1, s2}
  Request = {r1, r2}
  Key = {k1}
  None = None
  RequireTotp = FALSE
  MaxAttempts = 1
  LockAfter = 1
  MaxKeys = 1
  Batch = {1}
  CliRuns = {"factors"}
  CrashIn = {}
  MaxStep = 1
  MaxSecrets = 1
  MaxBatches = 2
  MaxPasswords = 0
SYMMETRY Symmetry
INVARIANTS
  CompleteIsProved
  ChallengeOnce
  RecoveryNeedsFactor
PROPERTIES
  NoFreeUpgrade
