\* Two sessions in one browser over three lives of a cookie, with one fault.
SPECIFICATION FairSpec
CONSTANTS
  MaxSessions = 2
  CookieTTL = 1
  ChallengeTTL = 2
  Grace = 1
  SessionTTL = 3
  Patience = 1
  MaxTime = 3
  MaxFaults = 1
INVARIANTS
  AcceptedIsFresh
  EachProofOneCookie
  JarAccepted
PROPERTY
  StaysIn
CHECK_DEADLOCK FALSE
