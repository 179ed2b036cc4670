SPECIFICATION Spec
SYMMETRY Symmetry
CONSTANTS
  Names = {a, b}
  Requests = {r1, r2}
  MaxFile = 1
  Quota = 1
  Closer = Closer
  Drive = Drive
  None = None
INVARIANTS
  UploadQuota
  ClosedIsEmpty
  PendingAccounted
PROPERTIES
  ImplementsSessionFiles
  AuditedFirst
