SPECIFICATION Spec
SYMMETRY Symmetry
CONSTANTS
  Requests = {r1, r2}
  Creds = {k1}
  Types = {password, key}
  MaxChanges = 2
  None = None
  Locations = {l1}
  Networks = {n1}
  Hosts = {h1}
  Connections = {c1}
  IPs = {i1, i2, i3}
  Blocked = {i3}
  Denied = {i2}
  DnsNames = {d1}
  Addresses = {d1, i1}
  i1 = i1
  i2 = i2
  i3 = i3
  Cidrs <- MCCidrs
  Answers <- MCAnswers
INVARIANTS SecretsIntact AcceptedPinned RemovedRefused
PROPERTIES NoResurrection
CHECK_DEADLOCK FALSE
