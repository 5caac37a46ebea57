\* The two servers the program has, one connection each.
CONSTANTS
  Servers = {http, https}
  NoServer = NoServer
  MaxConns = 1
SPECIFICATION FairSpec
INVARIANT TypeOK
INVARIANT NoStarterLeftBehind
INVARIANT NoOrphanConnection
PROPERTY StopAllReturnsOnceStarted
