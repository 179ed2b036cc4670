SPECIFICATION FairSpec
CONSTANTS
  new = new
  old = old
  tool = tool
  a = a
  b = b
  admin = admin
  Processes = {new, old, tool}
  Genesis = genesis
  None = none
  Servers = {new, old}
  Migrating = {new}
  Modules <- MCModules
  Versions = {1, 2}
  Sums = {a, b}
  Plan <- MCPlan
  DefaultAdmin = admin
  OperatorAccounts = {admin, ana}
  MaxFaults = 1
INVARIANTS StartsDoNotCollide ServedSchema AdminsExplained ChainIntact
PROPERTIES StartsEnd ServersServe
