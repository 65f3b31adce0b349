\* One item, the server's cleanup and the command's; what must happen.
SPECIFICATION FairSpec
CONSTANTS
  Item = {i1}
  Server = server
  Cleaner = {server, cli}
  Overdue = TRUE
  MaxFaults = 2
PROPERTIES
  UploadsEnd
  OrphansGo
  MissingFlagged
