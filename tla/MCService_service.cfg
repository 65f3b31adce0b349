\* The server and a command, three releases, two copies kept; two mails at once.
SPECIFICATION ServiceFairSpec
CONSTANTS
  server = server
  cli = cli
  m1 = m1
  m2 = m2
  Process = {server, cli}
  Server = server
  Latest = 3
  Keep = 2
  MaxFaults = 1
  Send = {m1, m2}
  MaxMailFaults = 1
INVARIANTS
  InOrder
  WayBack
PROPERTIES
  ComesUp
  RevokedTokenGoes
CHECK_DEADLOCK FALSE
