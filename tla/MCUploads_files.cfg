\* Two items, the server alone; one crash or failing storage call.
SPECIFICATION Spec
CONSTANTS
  Item = {i1, i2}
  Server = server
  Cleaner = {server}
  Overdue = FALSE
  MaxFaults = 1
SYMMETRY Symmetry
INVARIANTS
  ReadyIsWhole
  ServedWhole
PROPERTIES
  DecidedOnce
  SweepSparesLive
  PublishedIsKept
