SPECIFICATION FairSpec
CONSTANTS
  Ids = {1, 2}
  Owners = {web}
  Connections = {conn}
  Endpoints = {rdp}
  SshEndpoints = {}
  DriveEndpoints = {rdp}
  Keys = {}
  NoKey = NoKey
  Blocked = Blocked
  MaxEdits = 0
  OwnerOf <- OneOwner
  ConnOf <- OneConnection
  Requests = {t1}
  MaxLeases = 1
  Ticker = Ticker
  Stopper = Stopper
  None = None
INVARIANTS
  LeaseLimit
  NothingForgotten
PROPERTIES
  FilesReclaimed
  LaunchSettles
