\* Two requests at a time to two routes; two in the middlewares, of one client, whose bucket
\* has two tokens.
SPECIFICATION MCSpec
CONSTANTS
  Units = {"middlewares", "proxy"}
  Chains <- MCChains
  Slots = {s1, s2}
  Headers <- MCHeaders
  Routes <- MCRoutes
  NoBackend = NoBackend
  BackendStatuses <- MCBackendStatuses
  MaxDown = 1
  Workers = {w1, w2}
  Clients = {ip1}
  NoBucket = NoBucket
  Burst = 2
  MaxDebt = 1
INVARIANTS
  TypesOK
  ServedByOwnHost
  ActiveIsBalanced
  BackendsAnswerForThemselves
  NeverOverAdmits
  PanicsContained
  LoggedStatusIsSent
  AnswersAreSecured
  GrantsAreConfigured
PROPERTIES
  RoutesByHostname
  RetiredBackendsDrain
  MemoryReclaimed
