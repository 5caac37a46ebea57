\* Can a server be started again?
CONSTANTS
  Servers = {http}
  NoServer = NoServer
  MaxConns = 1
SPECIFICATION Spec
PROPERTY StartBlocksUntilStopped
