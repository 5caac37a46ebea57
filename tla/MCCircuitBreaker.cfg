\* Two goroutines on one target; two failures open, two successes close.
CONSTANTS
  Callers = {c1, c2}
  Targets = {t1}
  NoCircuit = NoCircuit
  FailureThreshold = 2
  SuccessThreshold = 2
  Timeout = 2
  MaxRequests = 1
  CountCap = 3
SPECIFICATION FairSpec
INVARIANT TypeOK
INVARIANT OneCircuitPerTarget
INVARIANT CountersAgreeWithState
PROPERTY ImplementsProtocol
PROPERTY Recovery
