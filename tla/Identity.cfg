SPECIFICATION FairSpec
CONSTANTS
  Users = {ana, rui, eva}
  Admins = {ana, rui}
  Passwords = {p1}
  SessionIds = {s1, s2}
  Requests = {r1, r2}
  MaxFailures = 2
  MaxChanges = 2
  None = None
INVARIANTS
  AlwaysAdmin
  SessionsEnd
PROPERTIES
  RequestsAnswered
