\* One target, a loop and the one that a restart spawns beside it.
CONSTANTS
  Targets = {t1}
  NoTarget = NoTarget
  Loops = {l1, l2}
  UnhealthyThreshold = 2
  CountCap = 1
  MaxStarts = 2
SPECIFICATION FairSpec
INVARIANT TypeOK
INVARIANT MonitoredWhileRunning
PROPERTY EventsFollowStatus
PROPERTY HealthFollowsBackends
