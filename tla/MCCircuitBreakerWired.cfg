\* The breaker as ProvideCircuitBreakerConfig builds it: MaxRequests is left 0, healthy_threshold is 2.
CONSTANTS
  Callers = {c1, c2}
  Targets = {t1}
  NoCircuit = NoCircuit
  FailureThreshold = 2
  SuccessThreshold = 2
  Timeout = 1
  MaxRequests = 0
  CountCap = 2
SPECIFICATION FairSpec
PROPERTY Recovery
