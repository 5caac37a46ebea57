\* Does the status of an unregistered target go away?
CONSTANTS
  Targets = {t1}
  NoTarget = NoTarget
  Loops = {l1}
  UnhealthyThreshold = 2
  CountCap = 1
  MaxStarts = 1
SPECIFICATION FairSpec
PROPERTY UnregisteredForgotten
