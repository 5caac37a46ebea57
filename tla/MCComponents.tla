---------------------------- MODULE MCComponents ----------------------------
(***************************************************************************)
(* The components that share no state with others, side by side: the       *)
(* certificate storage, the TLS managers, the connection pool, the metrics *)
(* server, the watch of the configuration and the subscribers of health    *)
(* events.  A behaviour is one of a single component, so that the states   *)
(* add up instead of multiplying; the others stay in their initial states. *)
(* A TLS manager's domains and its starts and stops share nothing but its  *)
(* kind, and are two units.                                                *)
(***************************************************************************)
EXTENDS CertStorage

CONSTANTS Units, Domains, Localhost, Connections, Callers, Hosts, Copies, MaxCloses, MaxStarts,
          Publishers, Capacity, MaxEvents, MaxSubscriptions

ASSUME ComponentsAssumption ==
  /\ Units \subseteq {"storage", "domains", "lifecycle", "pool", "metrics", "loader", "health"}
  /\ Localhost \in Domains
  /\ IsFiniteSet(Callers) /\ IsFiniteSet(Hosts)
  /\ "none" \notin Hosts
  /\ Capacity \in Nat /\ MaxEvents \in Nat /\ MaxSubscriptions \in Nat
  /\ MaxStarts \in Nat /\ MaxCloses \in Nat

VARIABLES
  unit,  \* the component that takes the steps
  kind, domains, certificates, isStarted, stopClosed, panicked, loops, ctxDone, toRenew,
  handshake, name, starts, tried, kept, offered, fresh,
  managed, pools, active, stage, backend, transport, reading, total, idle, raced, epoch, got,
  server, stopping, created, shut, phase, serves, hasty, caught, refused, crashed,
  version, event, watch, config, callback, channel, closed, watchDone, watchPanicked, received, late,
  subscribers, channels, shutChannels, published, at, seen, skipped, loopPanicked

Configuration(burst, metricsPort) ==
  [autoCert |-> TRUE, email |-> "admin@example.com", domains |-> 1, routes |-> 1,
   port |-> 8080, httpsPort |-> 8443, metricsPort |-> metricsPort,
   requestsPerSecond |-> 100, burstSize |-> burst, unhealthyThreshold |-> 3, healthyThreshold |-> 2]

\* Five versions of the file, the second and the fourth of them invalid.
Contents == <<Configuration(200, 9090), Configuration(0, 9090), Configuration(100, 9090),
              Configuration(100, 8443), Configuration(50, 9091)>>

Manager == INSTANCE TLSManager WITH stage <- handshake
Pool    == INSTANCE ConnectionPool
Metrics == INSTANCE MetricsServer
Loader  == INSTANCE ConfigWatch WITH file <- version, ctxDone <- watchDone, crashed <- watchPanicked
Events  == INSTANCE HealthEvents WITH
             Subscribers <- Callers, shut <- shutChannels, panicked <- loopPanicked

offers  == <<kind, domains, certificates, toRenew, handshake, name, tried, kept, offered, fresh>>
started == <<isStarted, stopClosed, panicked, loops, ctxDone, starts>>
manager == <<offers, started>>
pool    == <<managed, pools, active, stage, backend, transport, reading, total, idle, raced, epoch, got>>
metrics == <<server, stopping, created, shut, phase, serves, hasty, caught, refused, crashed>>
loader  == <<version, event, watch, config, callback, channel, closed, watchDone, watchPanicked, received, late>>
health  == <<subscribers, channels, shutChannels, published, at, seen, skipped, loopPanicked>>
all     == <<unit, vars, manager, pool, metrics, loader, health>>

MCInit ==
  /\ unit \in Units
  /\ Init /\ Manager!Init /\ Pool!Init /\ Metrics!Init /\ Loader!Init /\ Events!Init
  /\ unit \notin {"domains", "lifecycle"} => kind = "simple"
  /\ unit # "pool" => managed = [h \in Hosts |-> CHOOSE b \in Pool!Backends : b.name = h]

MCNext ==
  /\ UNCHANGED unit
  /\ \/ unit = "storage"   /\ Next         /\ UNCHANGED <<manager, pool, metrics, loader, health>>
     \/ unit = "domains"   /\ Manager!Next /\ UNCHANGED <<vars, started, pool, metrics, loader, health>>
     \/ unit = "lifecycle" /\ Manager!Next /\ UNCHANGED <<vars, offers, pool, metrics, loader, health>>
     \/ unit = "pool"      /\ Pool!Next    /\ UNCHANGED <<vars, manager, metrics, loader, health>>
     \/ unit = "metrics"   /\ Metrics!Next /\ UNCHANGED <<vars, manager, pool, loader, health>>
     \/ unit = "loader"    /\ Loader!Next  /\ UNCHANGED <<vars, manager, pool, metrics, health>>
     \/ unit = "health"    /\ Events!Next  /\ UNCHANGED <<vars, manager, pool, metrics, loader>>

\* The fairness of each.  In their initial states only the loader has a fair action that is
\* enabled.
MCSpec ==
  /\ MCInit /\ [][MCNext]_all
  /\ \A p \in Processes : WF_vars(Works(p))
  /\ WF_manager(Manager!LoopEnds)
  /\ WF_metrics(Metrics!StopReturns)
  /\ \A i \in 1 .. MaxStarts : WF_metrics(Metrics!Goroutine(i))
  /\ unit = "loader" => WF_loader(Loader!Watch) /\ WF_loader(Loader!Callback)
                        /\ WF_loader(Loader!CloseChannel) /\ WF_loader(Loader!Receive)

\* What the storage's properties say ends with a second Unlock: TLC goes no further.
UnlockedOnce == ~twice

\* Every variable keeps its type, whatever its component does.
TypesOK == TypeOK /\ Manager!TypeOK /\ Pool!TypeOK /\ Metrics!TypeOK /\ Loader!TypeOK
           /\ Events!TypeOK

\* A TLS manager: no handshake that begins after a domain was removed gets its
\* certificate; a renewal tries all domains; a Stop ends the maintenance loop.
NoCertificateAfterRemoval == Manager!NoCertificateAfterRemoval
RenewalReachesAll         == Manager!RenewalReachesAll
StopEndsMaintenance       == Manager!StopEndsMaintenance

\* The connection pool: one transport for the callers of a backend; the count of active
\* connections stays below the connections; idle ones are fewer than none after a race only.
SameBackendSharesTransport == Pool!SameBackendSharesTransport
ActiveCountBounded         == Pool!ActiveCountBounded
NegativeIdleNeedsRace      == Pool!NegativeIdleNeedsRace

\* The metrics server: nothing serves after a Stop; a server that was started serves.
NoListenerLeftBehind == Metrics!NoListenerLeftBehind

\* The watch of the configuration: the last valid change reaches the reader.
LastChangeDelivered == Loader!LastChangeDelivered

\* Health events: a subscriber that keeps up gets each of them, those of one publisher in
\* order.
EventsReachSubscribers == Events!EventsReachSubscribers

\* Four parts of the program can panic, each in one situation only: the Stop of a TLS
\* manager that was restarted, the goroutine of a metrics server that was stopped before
\* it ran, the callback of a configuration watch whose context has ended, and a publisher
\* that meets a closed channel of a subscriber.
PanicsExplained ==
  /\ Manager!PanicNeedsRestart /\ Metrics!PanicNeedsHastyStop
  /\ Loader!PanicNeedsCancel /\ Events!PanicNeedsClosedChannel
=============================================================================
