\* The chain that CreateCompleteMiddlewareChain returns, the results of Use being lost.
SPECIFICATION MCSpec
CONSTANTS
  Units = {"middlewares"}
  Chains <- MCNoChains
  Slots = {s1}
  Headers <- MCHeaders
  Routes <- MCRoutes
  NoBackend = NoBackend
  BackendStatuses <- MCBackendStatuses
  MaxDown = 1
  Workers = {w1}
  Clients = {ip1}
  NoBucket = NoBucket
  Burst = 2
  MaxDebt = 1
INVARIANTS
  NoPanicEscapes
