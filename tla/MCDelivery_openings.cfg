\* One link with a limit, two people, two browsers; the process may die while a code is redeemed.
SPECIFICATION Spec
CONSTANTS
  Null = Null
  Case = {c1}
  Link = {l1}
  Email = {e1, e2}
  Browser = {b1, b2}
  MaxRecipients = 2
  MaxAttempts = 1
  CodesPerHour = 2
  Hour = 2
  CodeTtl = 2
  SessionTtl = 2
  CrashIn = {"redeem", "revoke", "reissue", "purge"}
  Expiries = {Null, 2}
  Limits = {1, 2}
  MaxClock = 2
  MaxCodes = 2
  MaxUrls = 1
SYMMETRY Symmetry
INVARIANTS
  OpensAccount
  RedeemedIsSpent
PROPERTIES
  PromiseKept
  NoRevival
