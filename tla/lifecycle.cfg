SPECIFICATION FairSpec
CONSTANTS
  Players = {p1}
  lobby = lobby
  one = one
  two = two
  Remotes = {lobby, one}
  Internals = {two}
  Lobby = lobby
  NoServer = NoServer
  Address <- MCAddress
  MaxConnects = 2
INVARIANTS
  TypeOK
  OneLiveSession
  NoOrphan
  PanicOnlyInTransfer
  CountAccounts
  RosterComplete
  KickOnlyCurrent
PROPERTIES
  PlacesKept
  CloseEndsInTransferOnly
  DownedSessionLeaves
  OfflineLeavesServers
  TransferResolves
\* Every goroutine ends or hangs once the connects are used up.
CHECK_DEADLOCK FALSE
