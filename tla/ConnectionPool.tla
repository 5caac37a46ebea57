--------------------------- MODULE ConnectionPool ---------------------------
(***************************************************************************)
(* internal/proxy: the connection pool (pool.go) and the backend manager   *)
(* (backend.go).  The program calls neither yet; callers are modelled as   *)
(* the interfaces mean it: take a backend from the manager, a transport    *)
(* for it from the pool, and release that once.                            *)
(*                                                                         *)
(* GetConnection looks up under the read lock, and again under the write   *)
(* lock before it creates; the counters have a lock of their own, so that  *)
(* a creation is counted later than it is seen, and Stats reads the number *)
(* of transports and that of active connections one after the other.       *)
(***************************************************************************)
EXTENDS Integers, FiniteSets

CONSTANTS
  Callers,
  Hosts,      \* keys of the manager, and names of backends
  Copies,     \* tells the backends of one name apart
  MaxCloses   \* bound: calls of Close

Backends  == [name : Hosts, copy : Copies]
NoBackend == [name |-> "none", copy |-> "none"]

VARIABLES
  managed,    \* bm.backends
  pools,      \* cp.pools: the backend whose transport each name has
  active,     \* cp.stats.connectionsActive
  stage, backend,
  transport,  \* what the callers have got
  reading, total,  \* somebody is in Stats, having read that many transports
  idle,       \* what Stats returned last as IdleConnections
  epoch,      \* history: number of calls of Close
  got,        \* history: the epoch in which each caller got its transport
  raced       \* history: a transport was created between the two readings of Stats

caller == <<stage, backend, transport, got>>
stats  == <<reading, total, idle, raced>>
vars   == <<managed, pools, active, caller, stats, epoch>>

TypeOK ==
  /\ managed \in [Hosts -> Backends \cup {NoBackend}]
  /\ pools \in [Hosts -> Backends \cup {NoBackend}]
  /\ active \in 0 .. Cardinality(Callers)
  /\ stage \in [Callers -> {"idle", "lookup", "create", "reused", "created", "holding"}]
  /\ backend \in [Callers -> Backends \cup {NoBackend}]
  /\ transport \in [Callers -> Backends \cup {NoBackend}]
  /\ epoch \in 0 .. MaxCloses
  /\ got \in [Callers -> 0 .. MaxCloses]
  /\ reading \in BOOLEAN /\ raced \in BOOLEAN
  /\ total \in 0 .. Cardinality(Hosts)
  /\ idle \in (0 - Cardinality(Callers)) .. Cardinality(Hosts)

\* NewConnectionPoolImpl and NewBackendManagerImpl.
Init ==
  /\ managed \in [Hosts -> Backends]
  /\ \A h \in Hosts : managed[h].name = h
  /\ pools = [h \in Hosts |-> NoBackend]
  /\ active = 0 /\ epoch = 0
  /\ stage = [c \in Callers |-> "idle"]
  /\ backend = [c \in Callers |-> NoBackend]
  /\ transport = [c \in Callers |-> NoBackend]
  /\ got = [c \in Callers |-> 0]
  /\ reading = FALSE /\ total = 0 /\ idle = 0 /\ raced = FALSE

-----------------------------------------------------------------------------
(* The manager, without a lock: its methods are called one at a time.  The *)
(* Close of a backend closes idle connections; its transport goes on       *)
(* working.                                                                *)

AddBackend(h, b) ==
  /\ managed' = [managed EXCEPT ![h] = b]
  /\ UNCHANGED <<pools, active, caller, stats, epoch>>

\* The same, after the Close of the old one.
UpdateBackend(h, b) == managed[h] # NoBackend /\ AddBackend(h, b)

RemoveBackend(h) ==
  /\ managed[h] # NoBackend
  /\ managed' = [managed EXCEPT ![h] = NoBackend]
  /\ UNCHANGED <<pools, active, caller, stats, epoch>>

GetBackend(c, h) ==
  /\ stage[c] = "idle" /\ managed[h] # NoBackend
  /\ stage' = [stage EXCEPT ![c] = "lookup"]
  /\ backend' = [backend EXCEPT ![c] = managed[h]]
  /\ UNCHANGED <<managed, pools, active, transport, stats, epoch, got>>

-----------------------------------------------------------------------------
(* The pool                                                                *)

Goto(c, from, to) == stage[c] = from /\ stage' = [stage EXCEPT ![c] = to]

Takes(c, b) ==
  /\ transport' = [transport EXCEPT ![c] = b]
  /\ got' = [got EXCEPT ![c] = epoch]

Pooled(c) == pools[backend[c].name]

Lookup(c) ==
  /\ stage[c] = "lookup"
  /\ IF Pooled(c) # NoBackend
     THEN Goto(c, "lookup", "reused") /\ Takes(c, Pooled(c))
     ELSE Goto(c, "lookup", "create") /\ UNCHANGED <<transport, got>>
  /\ UNCHANGED <<managed, pools, active, backend, stats, epoch>>

\* Mutation: no second look.
CreateUnchecked(c) ==
  /\ Goto(c, "create", "created")
  /\ pools' = [pools EXCEPT ![backend[c].name] = backend[c]]
  /\ Takes(c, backend[c]) /\ raced' = (raced \/ reading)
  /\ UNCHANGED <<managed, active, backend, reading, total, idle, epoch>>

Create(c) ==
  /\ stage[c] = "create"
  /\ IF Pooled(c) # NoBackend
     THEN Goto(c, "create", "reused") /\ Takes(c, Pooled(c)) /\ UNCHANGED <<pools, raced>>
     ELSE /\ Goto(c, "create", "created") /\ Takes(c, backend[c]) /\ raced' = (raced \/ reading)
          /\ pools' = [pools EXCEPT ![backend[c].name] = backend[c]]
  /\ UNCHANGED <<managed, active, backend, reading, total, idle, epoch>>

CountCreated(c) ==
  /\ Goto(c, "created", "holding")
  /\ active' = active + 1
  /\ UNCHANGED <<managed, pools, backend, transport, stats, epoch, got>>

\* Mutation: a reused connection counts as active as well.
CountReusedActive(c) ==
  /\ Goto(c, "reused", "holding")
  /\ active' = active + 1
  /\ UNCHANGED <<managed, pools, backend, transport, stats, epoch, got>>

\* connectionsReused and the gauge go up (neither is read again).
CountReused(c) ==
  /\ Goto(c, "reused", "holding")
  /\ UNCHANGED <<managed, pools, active, backend, transport, stats, epoch, got>>

\* Mutation: the count goes down whatever it is.
ReleaseUnguarded(c) ==
  /\ Goto(c, "holding", "idle")
  /\ active' = active - 1
  /\ transport' = [transport EXCEPT ![c] = NoBackend]
  /\ backend' = [backend EXCEPT ![c] = NoBackend]
  /\ UNCHANGED <<managed, pools, stats, epoch, got>>

ReleaseConnection(c) ==
  /\ Goto(c, "holding", "idle")
  /\ active' = IF active > 0 THEN active - 1 ELSE active
  /\ transport' = [transport EXCEPT ![c] = NoBackend]
  /\ backend' = [backend EXCEPT ![c] = NoBackend]
  /\ UNCHANGED <<managed, pools, stats, epoch, got>>

\* The counters stay.
Close ==
  /\ epoch < MaxCloses /\ epoch' = epoch + 1
  /\ pools' = [h \in Hosts |-> NoBackend]
  /\ UNCHANGED <<managed, active, caller, stats>>

TotalConnections == Cardinality({h \in Hosts : pools[h] # NoBackend})

\* Stats, under the lock of the pool and then under that of the counters.
CountPools ==
  /\ ~reading /\ reading' = TRUE
  /\ total' = TotalConnections /\ raced' = FALSE
  /\ UNCHANGED <<managed, pools, active, caller, idle, epoch>>

CountActive ==
  /\ reading /\ reading' = FALSE
  /\ idle' = total - active
  /\ UNCHANGED <<managed, pools, active, caller, total, raced, epoch>>

-----------------------------------------------------------------------------

GetConnection(c) == Lookup(c) \/ Create(c) \/ CountCreated(c) \/ CountReused(c)

Next ==
  \/ \E h \in Hosts : RemoveBackend(h) \/ \E b \in Backends :
       b.name = h /\ (AddBackend(h, b) \/ UpdateBackend(h, b))
  \/ \E c \in Callers : GetConnection(c) \/ ReleaseConnection(c) \/ \E h \in Hosts : GetBackend(c, h)
  \/ Close \/ CountPools \/ CountActive

Spec == Init /\ [][Next]_vars

-----------------------------------------------------------------------------
(* Properties                                                              *)

\* "Double-check pattern to avoid race condition" (pool.go l.105): callers that asked for
\* the same backend, between the same calls of Close, got the same transport, however many
\* called at once, and whatever the manager made of the name meanwhile.
SameBackendSharesTransport ==
  \A c, d \in Callers :
    /\ transport[c] # NoBackend /\ transport[d] # NoBackend
    /\ backend[c] = backend[d] /\ got[c] = got[d]
    => transport[c] = transport[d]

\* The count of active connections never exceeds the callers that hold one, and, as
\* long as the pool was not closed, not the transports either.  (It may be lower: a
\* connection that is reused counts down without having counted up.)
ActiveCountBounded ==
  /\ active <= Cardinality({c \in Callers : stage[c] = "holding"})
  /\ epoch = 0 => active <= TotalConnections

\* Stats reports fewer than no idle connections only if the pool was closed, or a transport
\* was created between its two readings.
NegativeIdleNeedsRace == idle < 0 /\ ~reading => raced \/ epoch > 0
=============================================================================
