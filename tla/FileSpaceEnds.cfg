SPECIFICATION FairSpec
CONSTANTS
  Names = {a}
  Requests = {r1, r2}
  MaxFile = 1
  Quota = 1
  Closer = Closer
  Drive = Drive
  None = None
PROPERTIES
  CloseCompletes
  TransfersEnd
