\* Two processes and two certificates of one domain; three domains and one handshake of a
\* TLS manager; two callers and two backends of one name; three starts of the metrics server;
\* two subscribers, each with a channel for one event, and two publishers of two events.
\* A loader whose context has ended, and a metrics server after its last start, stop.
SPECIFICATION MCSpec
CHECK_DEADLOCK FALSE
CONSTANTS
  Units = {"storage", "domains", "lifecycle", "pool", "metrics", "loader", "health"}
  Processes = {p1, p2}
  Certificates = {c1, c2}
  Domains = {d1, d2, localhost}
  Localhost = localhost
  Connections = {k1}
  Callers = {g1, g2}
  Hosts = {h1}
  Copies = {one, two}
  MaxCloses = 1
  MaxStarts = 3
  Publishers = {a, b}
  Capacity = 1
  MaxEvents = 2
  MaxSubscriptions = 2
CONSTRAINT UnlockedOnce
INVARIANTS
  TypesOK
  LockExclusive
  FilesAgree
  NoCertificateAfterRemoval
  RenewalReachesAll
  PanicsExplained
  SameBackendSharesTransport
  ActiveCountBounded
  NegativeIdleNeedsRace
  NoListenerLeftBehind
  EventsReachSubscribers
PROPERTIES
  StopEndsMaintenance
  
  LastChangeDelivered
