------------------------------- MODULE Proxy -------------------------------
(***************************************************************************)
(* internal/proxy: the router (router.go), the health flags of its         *)
(* backends (backend.go) and the handler (handler.go).                     *)
(*                                                                         *)
(* A slot is a goroutine of net/http that serves one request after the     *)
(* other.  ServeHTTP looks the backend up under the router's read lock,    *)
(* lets the lock go, reads the backend's flag and forwards the request;    *)
(* routes and flags change between any two of these steps.  The backend    *)
(* answers with a status of its own, whatever it is, and then with a body, *)
(* which may break off or never end, as a connection that it upgraded.     *)
(*                                                                         *)
(* A Host header is a name, an IPv6 address in brackets or (kind "bare")   *)
(* without them; its address is split where normalizeHost may cut it: net  *)
(* is what comes before the last group or the port, node the last group.   *)
(***************************************************************************)
EXTENDS Naturals, FiniteSets, ProxyErrors

CONSTANTS
  Slots,      \* goroutines that serve requests
  Headers,    \* the Host headers of requests
  Routes,     \* the hosts of the configuration
  NoBackend,
  BackendStatuses, \* the statuses that backends answer with
  MaxDown     \* bound: backends that are marked unhealthy at a time

Header == [kind : {"empty", "name", "bare", "bracketed"},
           net : STRING, node : STRING, port : BOOLEAN]

ASSUME ProxyAssumption ==
  /\ IsFiniteSet(Slots)
  /\ Headers \subseteq Header
  /\ Routes \subseteq Header
  /\ \A h \in Routes : h.kind # "empty"
  /\ \A h \in Headers \cup Routes : h.kind = "bare" => ~h.port
  /\ BackendStatuses \subseteq 100 .. 599
  /\ MaxDown \in Nat

\* NewBackendImpl.  The name is the host as it was given; copy tells the backends
\* of the configuration from those that are registered later for the same host.
NewBackend(h, copy) == [name |-> h, copy |-> copy]

Backends == {NewBackend(h, c) : h \in Routes, c \in {"configured", "later"}}

ASSUME NoBackendAssumption == NoBackend \notin Backends

VARIABLES
  backends,  \* r.backends of the router
  down,      \* the backends whose healthy flag is 0
  active,    \* the gauge of active connections
  stage,     \* where each slot is
  header,    \* the Host header of its request
  backend,   \* the backend it was routed to
  answer,    \* who answered it, the backend or an error of the proxy, and the status
  xStatusCode, \* X-Status-Code in the header of its response
  recorded   \* what RecordBackendRequest was told of its backend

request == <<stage, header, backend, answer, xStatusCode, recorded>>
vars    == <<backends, down, active, request>>

-----------------------------------------------------------------------------
(* Hosts                                                                   *)

Cut == ""

\* Mutation: an address without brackets loses its last group like a port.
normalizeHostAtAnyColon(h) ==
  IF h.kind = "bare" \/ (h.kind = "bracketed" /\ ~h.port)
  THEN [h EXCEPT !.node = Cut]
  ELSE [h EXCEPT !.port = FALSE]

\* Everything from the last colon on is cut off, unless there are several and no
\* bracket at the beginning; in an address in brackets without a port that colon is
\* inside the brackets.  (Lower case is taken for granted.)
normalizeHost(h) ==
  IF h.kind = "bracketed" /\ ~h.port
  THEN [h EXCEPT !.node = Cut]
  ELSE [h EXCEPT !.port = FALSE]

Keys == {normalizeHost(h) : h \in Routes \cup {g \in Headers : g.kind # "empty"}}

\* What a header means, whatever its form.
Hostname(h) == <<h.net, h.node>>

-----------------------------------------------------------------------------

Stages == {"idle", "route", "check", "forward", "body", "returning"}

None    == 0
Unknown == 1  \* no status, but "unknown"

NoAnswer     == [by |-> "nobody", status |-> None]
ByProxy(c)   == [by |-> c, status |-> HTTPStatus(c)]  \* c: the code of its error
ByBackend(n) == [by |-> "backend", status |-> n]
Answers ==
  {NoAnswer} \cup {ByBackend(n) : n \in BackendStatuses}
    \cup {ByProxy(c) : c \in {"InvalidHost", "HostNotConfigured", "BackendUnavailable",
                             "BackendConnectionFailed"}}

TypeOK ==
  /\ backends \in [Keys -> Backends \cup {NoBackend}]
  /\ down     \subseteq Backends
  /\ active   \in 0 .. Cardinality(Slots)
  /\ stage    \in [Slots -> Stages]
  /\ header   \in [Slots -> Headers]
  /\ backend  \in [Slots -> Backends \cup {NoBackend}]
  /\ answer   \in [Slots -> Answers]
  /\ xStatusCode \in [Slots -> BackendStatuses \cup {None}]
  /\ recorded \in [Slots -> BackendStatuses \cup {None, Unknown}]

\* NewRouterImpl; of two hosts with the same key the one that comes last stays.
Init ==
  /\ backends \in {f \in [Keys -> Backends \cup {NoBackend}] :
       \A k \in Keys :
         LET own == {NewBackend(h, "configured") : h \in {g \in Routes : normalizeHost(g) = k}}
         IN  IF own = {} THEN f[k] = NoBackend ELSE f[k] \in own}
  /\ down    = {}
  /\ active  = 0
  /\ stage   = [s \in Slots |-> "idle"]
  /\ header  \in {[s \in Slots |-> h] : h \in Headers}
  /\ backend = [s \in Slots |-> NoBackend]
  /\ answer  = [s \in Slots |-> NoAnswer]
  /\ xStatusCode = [s \in Slots |-> None]
  /\ recorded = [s \in Slots |-> None]

-----------------------------------------------------------------------------
(* Router and backends                                                     *)

\* An existing entry is overwritten.
Register(h, b) ==
  /\ backends' = [backends EXCEPT ![normalizeHost(h)] = b]
  /\ UNCHANGED <<down, active, request>>

\* An error, and no change, if the host is not registered.
Unregister(h) ==
  /\ backends' = [backends EXCEPT ![normalizeHost(h)] = NoBackend]
  /\ UNCHANGED <<down, active, request>>

SetHealthy(b) ==
  /\ down' = IF b \in down THEN down \ {b} ELSE down \cup {b}
  /\ Cardinality(down') <= MaxDown
  /\ UNCHANGED <<backends, active, request>>

-----------------------------------------------------------------------------
(* Handler                                                                 *)

Goto(s, from, to) ==
  /\ stage[s] = from
  /\ stage' = [stage EXCEPT ![s] = to]

\* handleError, which ends ServeHTTP before the backend's metrics are deferred.
Fails(s, from, code) ==
  /\ Goto(s, from, "returning")
  /\ answer' = [answer EXCEPT ![s] = ByProxy(code)]

Arrive(s, h) ==
  /\ Goto(s, "idle", "route")
  /\ header' = [header EXCEPT ![s] = h]
  /\ active' = active + 1
  /\ UNCHANGED <<backends, down, backend, answer, xStatusCode, recorded>>

\* The lookup of Route, under the read lock.
Lookup(s) ==
  /\ \/ /\ header[s].kind = "empty"
        /\ Fails(s, "route", "InvalidHost")
        /\ UNCHANGED backend
     \/ /\ header[s].kind # "empty"
        /\ backends[normalizeHost(header[s])] = NoBackend
        /\ Fails(s, "route", "HostNotConfigured")
        /\ UNCHANGED backend
     \/ /\ header[s].kind # "empty"
        /\ backends[normalizeHost(header[s])] # NoBackend
        /\ Goto(s, "route", "check")
        /\ backend' = [backend EXCEPT ![s] = backends[normalizeHost(header[s])]]
        /\ UNCHANGED answer
  /\ UNCHANGED <<backends, down, active, header, xStatusCode, recorded>>

\* Mutation: an unhealthy backend is reported in the log only.
CheckAndLog(s) ==
  /\ Goto(s, "check", "forward")
  /\ UNCHANGED <<backends, down, active, header, backend, answer, xStatusCode, recorded>>

\* Mutation: the flag is checked of the backend that the route has by then, and the
\* request goes there.
CheckHealthOfRoute(s) ==
  /\ stage[s] = "check"
  /\ LET now == backends[normalizeHost(header[s])]
     IN  IF now = NoBackend \/ now \in down
         THEN Fails(s, "check", "BackendUnavailable") /\ UNCHANGED backend
         ELSE /\ Goto(s, "check", "forward")
              /\ backend' = [backend EXCEPT ![s] = now]
              /\ UNCHANGED answer
  /\ UNCHANGED <<backends, down, active, header, xStatusCode, recorded>>

\* The rest of Route, without a lock.
CheckHealth(s) ==
  /\ IF backend[s] \in down
     THEN Fails(s, "check", "BackendUnavailable")
     ELSE Goto(s, "check", "forward") /\ UNCHANGED answer
  /\ UNCHANGED <<backends, down, active, header, backend, xStatusCode, recorded>>

\* Mutation: whatever status the client was sent is recorded.
RecordSent(s) == recorded' = [recorded EXCEPT ![s] = answer'[s].status]

\* The deferred call that was deferred last.
RecordBackendRequest(s) ==
  recorded' = [recorded EXCEPT ![s] = IF xStatusCode[s] = None THEN Unknown ELSE xStatusCode[s]]

\* The reverse proxy, up to the header of the backend's response, to which
\* ModifyResponse adds the status; handleProxyError if there is none, or if the
\* connection cannot be upgraded.
Exchange(s) ==
  /\ \/ /\ Goto(s, "forward", "returning")
        /\ answer' = [answer EXCEPT ![s] = ByProxy("BackendConnectionFailed")]
        /\ RecordBackendRequest(s)
        /\ UNCHANGED xStatusCode
     \/ /\ Goto(s, "forward", "body")
        /\ \E n \in BackendStatuses :
             /\ answer' = [answer EXCEPT ![s] = ByBackend(n)]
             /\ xStatusCode' = [xStatusCode EXCEPT ![s] = n]
        /\ UNCHANGED recorded
  /\ UNCHANGED <<backends, down, active, header, backend>>

\* The body or the upgraded connection ends, or breaks off: a panic with
\* ErrAbortHandler, which runs the deferred calls too.
Stream(s) ==
  /\ Goto(s, "body", "returning")
  /\ RecordBackendRequest(s)
  /\ UNCHANGED <<backends, down, active, header, backend, answer, xStatusCode>>

Forgotten(s) ==
  /\ backend'     = [backend EXCEPT ![s] = NoBackend]
  /\ answer'      = [answer EXCEPT ![s] = NoAnswer]
  /\ xStatusCode' = [xStatusCode EXCEPT ![s] = None]
  /\ recorded'    = [recorded EXCEPT ![s] = None]

\* Mutation: the gauge is taken back only if a backend answered.
ReturnForwarded(s) ==
  /\ Goto(s, "returning", "idle")
  /\ active' = IF answer[s].by = "backend" THEN active - 1 ELSE active
  /\ Forgotten(s) /\ UNCHANGED <<backends, down, header>>

\* Mutation: the gauge is taken back by the error path and by the deferred call.
ReturnTwice(s) ==
  /\ Goto(s, "returning", "idle")
  /\ active' = IF answer[s].by = "backend" THEN active - 1 ELSE active - 2
  /\ Forgotten(s) /\ UNCHANGED <<backends, down, header>>

\* DecActiveConnections, and the request is over.
Return(s) ==
  /\ Goto(s, "returning", "idle")
  /\ active' = active - 1
  /\ Forgotten(s) /\ UNCHANGED <<backends, down, header>>

-----------------------------------------------------------------------------

ServeHTTP(s) == Lookup(s) \/ CheckHealth(s) \/ Exchange(s) \/ Stream(s) \/ Return(s)

Next ==
  \/ \E h \in Routes : Unregister(h) \/ \E c \in {"configured", "later"} : Register(h, NewBackend(h, c))
  \/ \E b \in Backends : SetHealthy(b)
  \/ \E s \in Slots : ServeHTTP(s) \/ \E h \in Headers : Arrive(s, h)

Spec == Init /\ [][Next]_vars

\* Goroutines are scheduled, and the transport has timeouts for the connection and for
\* the header of the response.  Nothing makes a body end.
Progress(s) == Lookup(s) \/ CheckHealth(s) \/ Exchange(s) \/ Return(s)

FairSpec == Spec /\ \A s \in Slots : WF_vars(Progress(s))

-----------------------------------------------------------------------------
(* Properties                                                              *)

\* No address is cut inside its brackets.
PortsFollowBrackets == \A h \in Headers \cup Routes : h.kind = "bracketed" => h.port

\* "This allows routing based on hostname only." (router.go l.191): a request gets a
\* backend that was registered for the host it names, whatever the form of its header
\* and whatever routes came and went meanwhile, if PortsFollowBrackets.  (Of two
\* addresses in brackets without a port, which normalizeHost cuts inside the brackets,
\* this is not so; the instance has none.)
ServedByOwnHost ==
  \A s \in Slots :
    backend[s] # NoBackend => Hostname(backend[s].name) = Hostname(header[s])

Hostnames == {Hostname(h) : h \in Headers \cup Routes}

\* No two forms of a host that has a route have different keys, and no two hosts the same.
OneKeyPerHost ==
  \A h \in Routes, g \in Headers \cup Routes :
    normalizeHost(g) = normalizeHost(h) <=> Hostname(g) = Hostname(h)

\* The table as one from host names, which it is if OneKeyPerHost.
KeyOf == [n \in {Hostname(h) : h \in Routes} |->
            normalizeHost(CHOOSE h \in Routes : Hostname(h) = n)]

Binding(n) == IF n \in DOMAIN KeyOf THEN backends[KeyOf[n]] ELSE NoBackend

Routing == INSTANCE HostRouting WITH
  Slots     <- Slots,
  Hostnames <- Hostnames,
  Backends  <- Backends,
  NoBackend <- NoBackend,
  bindings  <- [n \in Hostnames |-> Binding(n)],
  asked     <- [s \in Slots |-> CASE stage[s] = "idle"  -> "no"
                                  [] stage[s] = "route" -> "asked"
                                  [] OTHER              -> "resolved"],
  host      <- [s \in Slots |-> Hostname(header[s])],
  resolved  <- backend

\* "Route finds the appropriate backend for the given host." (interfaces.go l.12): the
\* router is a table from host names, read in one step by each request, although keys
\* are normalised headers and the flag is read after the lock is gone.
RoutesByHostname == Routing!Spec

\* The gauge of active connections is the number of requests under way: every path
\* through ServeHTTP, errors and panics included, takes its increment back once.
ActiveIsBalanced == active = Cardinality({s \in Slots : stage[s] # "idle"})

\* What the metrics are told of a backend is the status it answered with, "unknown"
\* exactly if the proxy answered in its place, and nothing if the request was never
\* forwarded; and the proxy answers that the fault is the client's exactly if it found
\* no backend.  (A backend's own 404 is no word of the proxy's.)
BackendsAnswerForThemselves ==
  \A s \in Slots : stage[s] = "returning" =>
    /\ recorded[s] = CASE answer[s].by = "backend"                 -> answer[s].status
                       [] answer[s].by = "BackendConnectionFailed" -> Unknown
                       [] OTHER                                    -> None
    /\ answer[s].by # "backend" => (answer[s].status \in 400 .. 499 <=> backend[s] = NoBackend)

Unrouted(b) == \A k \in Keys : backends[k] # b

\* The request of s is at backend b.
At(s, b) == stage[s] \in {"forward", "body"} /\ backend[s] = b

\* "Check if backend is healthy before routing" (router.go l.84): a flag or a route that
\* was read before it changed stays in use for the requests under way only: of a backend
\* that is down or out of the table for good, a slot is rid in the end, unless the
\* exchange it has there never ends.  (A backend that is by turns down and out of the
\* table may get requests all the time: the table is read while it is in it, the flag
\* while it is up.)
RetiredBackendsDrain ==
  \A b \in Backends :
    (<>[](b \in down) \/ <>[]Unrouted(b)) => \A s \in Slots : <>[]~At(s, b) \/ <>[]At(s, b)
=============================================================================
