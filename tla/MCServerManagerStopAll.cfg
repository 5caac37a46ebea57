\* Does StopAll return, whenever it is called?
CONSTANTS
  Servers = {http}
  NoServer = NoServer
  MaxConns = 1
SPECIFICATION FairSpec
PROPERTY StopAllAlwaysReturns
