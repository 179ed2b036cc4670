SPECIFICATION Spec
SYMMETRY Symmetry
CONSTANTS
  Names = {a}
  Requests = {r1, r2}
  MaxFile = 1
  Quota = 1
  Closer = Closer
  Drive = Drive
  None = None
INVARIANTS
  RemovedOnClose
