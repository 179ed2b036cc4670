SPECIFICATION FairSpec
CONSTANTS
  Ids = {1}
  Owners = {web}
  Connections = {conn}
  Endpoints = {rdp, ssh}
  SshEndpoints = {ssh}
  DriveEndpoints = {rdp}
  Keys = {k1}
  NoKey = NoKey
  Blocked = Blocked
  MaxEdits = 1
  OwnerOf <- OneOwner
  ConnOf <- OneConnection
  Requests = {t1, t2}
  MaxLeases = 1
  Ticker = Ticker
  Stopper = Stopper
  None = None
INVARIANTS
  OneTunnel
  TunnelMatchesToken
PROPERTIES
  WithdrawnTunnelEnds
  ImplementsFairAccess
  ImplementsAccess
