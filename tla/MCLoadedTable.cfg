SPECIFICATION LoadSpec
CONSTANTS
  Size = 2
  Bit = {1, 2}
  Ops <- MCOps
  Part <- MCPart
  Upper <- MCUpper
  MaxFileLevel = 2
  File = {"top", "fe", "deep", "gone"}
  Top = "top"
  Disks <- MCDisks
  Requests <- MCRequests
INVARIANTS TableTypeOK AllOrNothing ReadIsCurrent AsTheFilesSay
PROPERTIES LoadEnds
