\* One link shared by two people in two browsers: codes, tries, the hourly limit.
SPECIFICATION Spec
CONSTANTS
  Null = Null
  Case = {c1}
  Link = {l1}
  Email = {e1, e2}
  Browser = {b1, b2}
  MaxRecipients = 2
  MaxAttempts = 2
  CodesPerHour = 2
  Hour = 2
  CodeTtl = 1
  SessionTtl = 1
  CrashIn = {}
  Expiries = {Null}
  Limits = {Null}
  MaxClock = 2
  MaxCodes = 3
  MaxUrls = 0
SYMMETRY Symmetry
INVARIANTS
  OneLiveCode
  HourlyLimit
  GuessBudget
  RosterBound
PROPERTIES
  IsolatedCodes
