SPECIFICATION Spec
SYMMETRY Symmetry
CONSTANTS
  Requests = {r1, r2, r3}
  Secrets = {s1, s2, s3, s4}
  Codes = {c1, c2, c3}
  Limit = 2
  Window = 2
  MaxTime = 4
  None = None
INVARIANTS ActiveVerified LastCodesWork CodesOnce RateLimited NoLockout
CHECK_DEADLOCK FALSE
