\* An upload that is still running when it gets older than the TTL.
SPECIFICATION Spec
CONSTANTS
  Item = {i1}
  Server = server
  Cleaner = {server}
  Overdue = TRUE
  MaxFaults = 0
SYMMETRY Symmetry
PROPERTIES
  PublishedIsKept
