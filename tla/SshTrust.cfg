SPECIFICATION Spec
SYMMETRY Symmetry
CONSTANTS
  Hosts = {h1, h2}
  Ports = {22}
  Addresses = {a1, a2}
  Keys = {k1, k2}
  NoKey = NoKey
  Requests = {r1, r2}
  MaxEdits = 2
  MaxSaves = 2
INVARIANTS
  HistoryAgrees
PROPERTIES
  NoSilentReplacement
