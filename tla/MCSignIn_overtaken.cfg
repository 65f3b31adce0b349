\* One session, no factors, and reset-password on the command line.
SPECIFICATION Spec
CONSTANTS
  Session = {s1}
  Request = {r1}
  Key = {}
  None = None
  RequireTotp = FALSE
  MaxAttempts = 1
  LockAfter = 1
  MaxKeys = 0
  Batch = {1}
  CliRuns = {"password"}
  CrashIn = {}
  MaxStep = 1
  MaxSecrets = 1
  MaxBatches = 1
  MaxPasswords = 1
SYMMETRY Symmetry
INVARIANT
  OldPasswordIsOut
