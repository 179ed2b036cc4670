SPECIFICATION Spec
CONSTANTS
  Hosts = {h1, h2}
  Ports = {22}
  Addresses = {a1, a2}
  Keys = {k1, k2}
  NoKey = NoKey
  Requests = {r1}
  MaxEdits = 1
  MaxSaves = 2
PROPERTIES
  TrustIsCurrent
