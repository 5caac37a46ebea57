\* The gap between RUnlock and Lock in transitionToHalfOpen.
CONSTANTS
  Callers = {c1, c2}
  Targets = {t1}
  NoCircuit = NoCircuit
  FailureThreshold = 2
  SuccessThreshold = 2
  Timeout = 1
  MaxRequests = 1
  CountCap = 2
SPECIFICATION Spec
PROPERTY NoRequestWhileOpen
