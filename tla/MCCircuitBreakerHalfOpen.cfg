\* Is MaxRequests the limit of half-open requests?
CONSTANTS
  Callers = {c1, c2, c3}
  Targets = {t1}
  NoCircuit = NoCircuit
  FailureThreshold = 2
  SuccessThreshold = 2
  Timeout = 1
  MaxRequests = 1
  CountCap = 2
SPECIFICATION Spec
SYMMETRY CallerSymmetry
INVARIANT HalfOpenLimit
