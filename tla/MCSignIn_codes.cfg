\* One form at a time: codes, guesses, reset-password, and a crash while the
\* authenticator is turned on.
SPECIFICATION Spec
CONSTANTS
  Session = {s1, s2}
  Request = {r1}
  Key = {}
  None = None
  RequireTotp = FALSE
  MaxAttempts = 2
  LockAfter = 2
  MaxKeys = 0
  Batch = {1}
  CliRuns = {"password"}
  CrashIn = {"enrol"}
  MaxStep = 2
  MaxSecrets = 2
  MaxBatches = 1
  MaxPasswords = 1
SYMMETRY Symmetry
INVARIANTS
  NoReplay
  MissesLock
  PasswordEndsSessions
