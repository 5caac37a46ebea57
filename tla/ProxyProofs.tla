----------------------------- MODULE ProxyProofs -----------------------------
(***************************************************************************)
(* The safety properties of Proxy and its refinement of HostRouting, for   *)
(* any slots, hosts and routes.                                            *)
(***************************************************************************)
EXTENDS Proxy, FiniteSetTheorems, TLAPS

\* A backend stands under the key of the host it was registered for.
RoutesAreOwn ==
  \A k \in Keys : backends[k] # NoBackend => normalizeHost(backends[k].name) = k

\* A request has a backend from its lookup on, that of its own key, and keeps it to the
\* end, if one was found.
Resolved(s) ==
  /\ stage[s] \in {"idle", "route"} => backend[s] = NoBackend
  /\ stage[s] \in {"check", "forward", "body"} => backend[s] # NoBackend
  /\ backend[s] # NoBackend =>
       /\ header[s].kind # "empty"
       /\ normalizeHost(backend[s].name) = normalizeHost(header[s])

\* Before the end nothing is recorded, X-Status-Code is the status of the backend's answer
\* if there is one, and at the end it is recorded what it says.
Attributed(s) ==
  LET a == answer[s] IN
  /\ stage[s] # "returning" => recorded[s] = None
  /\ stage[s] \in {"idle", "route", "check", "forward"} => xStatusCode[s] = None
  /\ stage[s] = "body" => a.by = "backend" /\ xStatusCode[s] = a.status /\ a.status # None
  /\ stage[s] = "returning" =>
       /\ recorded[s] = CASE a.by = "backend"                 -> a.status
                          [] a.by = "BackendConnectionFailed" -> Unknown
                          [] OTHER                            -> None
       /\ a.by # "backend" => (a.status \in 400 .. 499 <=> backend[s] = NoBackend)

UnderWay == {s \in Slots : stage[s] # "idle"}

IInv ==
  /\ TypeOK
  /\ RoutesAreOwn
  /\ \A s \in Slots : Resolved(s)
  /\ ActiveIsBalanced
  /\ \A s \in Slots : Attributed(s)

-----------------------------------------------------------------------------
(* Lemmas about hosts, statuses and the gauge                              *)

LEMMA HostFacts ==
  /\ Headers \subseteq Header /\ Routes \subseteq Header
  /\ \A h \in Routes : h.kind # "empty" /\ normalizeHost(h) \in Keys
  /\ \A g \in Headers : g.kind # "empty" => normalizeHost(g) \in Keys
BY ProxyAssumption DEF Keys

\* What normalizeHost keeps of a host that it does not cut inside the brackets.
LEMMA NormalizedHostname ==
  ASSUME PortsFollowBrackets, NEW g \in Headers \cup Routes, NEW h \in Headers \cup Routes,
         normalizeHost(g) = normalizeHost(h)
  PROVE  Hostname(g) = Hostname(h)
<1>1. g \in Header /\ h \in Header
  BY HostFacts
<1>2. ASSUME NEW i \in Headers \cup Routes, i \in Header
      PROVE  normalizeHost(i).net = i.net /\ normalizeHost(i).node = i.node
  BY <1>2 DEF normalizeHost, PortsFollowBrackets, Header
<1>. QED  BY <1>1, <1>2 DEF Hostname

LEMMA BackendFacts ==
  /\ \A b \in Backends : b # NoBackend /\ b.name \in Routes
  /\ \A h \in Routes, c \in {"configured", "later"} :
       NewBackend(h, c) \in Backends /\ NewBackend(h, c).name = h
<1>1. \A h, c : NewBackend(h, c).name = h
  BY DEF NewBackend
<1>2. ASSUME NEW b \in Backends
      PROVE  b # NoBackend /\ b.name \in Routes
  <2>1. PICK h \in Routes, c \in {"configured", "later"} : b = NewBackend(h, c)
    BY DEF Backends
  <2>. QED  BY <1>1, <2>1, NoBackendAssumption
<1>3. \A h \in Routes, c \in {"configured", "later"} : NewBackend(h, c) \in Backends
  BY DEF Backends
<1>. QED  BY <1>1, <1>2, <1>3

LEMMA Statuses ==
  /\ HTTPStatus("InvalidHost") = 404 /\ HTTPStatus("HostNotConfigured") = 404
  /\ HTTPStatus("BackendUnavailable") = 502 /\ HTTPStatus("BackendConnectionFailed") = 502
BY DEF HTTPStatus, TLSErrors

LEMMA StatusFacts ==
  /\ \A c : ByProxy(c).by = c /\ ByProxy(c).status = HTTPStatus(c)
  /\ \A n : ByBackend(n).by = "backend" /\ ByBackend(n).status = n
  /\ \A n \in BackendStatuses : n # None
BY ProxyAssumption DEF ByProxy, ByBackend, None

LEMMA SlotsFinite ==
  /\ IsFiniteSet(Slots) /\ Cardinality(Slots) \in Nat
  /\ IsFiniteSet(UnderWay) /\ Cardinality(UnderWay) \in 0 .. Cardinality(Slots)
<1>1. IsFiniteSet(Slots) /\ UnderWay \in SUBSET Slots
  BY ProxyAssumption DEF UnderWay
<1>. QED  BY <1>1, FS_Subset, FS_CardinalityType

-----------------------------------------------------------------------------

LEMMA InitIInv == Init => IInv
<1>. SUFFICES ASSUME Init PROVE IInv
  OBVIOUS
<1>1. backends \in [Keys -> Backends \cup {NoBackend}]
  BY DEF Init
<1>2. ASSUME NEW k \in Keys, backends[k] # NoBackend
      PROVE  \E h \in Routes : normalizeHost(h) = k /\ backends[k] = NewBackend(h, "configured")
  <2>. DEFINE Own == {NewBackend(h, "configured") : h \in {g \in Routes : normalizeHost(g) = k}}
  <2>1. IF Own = {} THEN backends[k] = NoBackend ELSE backends[k] \in Own
    BY DEF Init
  <2>. QED  BY <1>2, <2>1
<1>3. RoutesAreOwn
  BY <1>2, BackendFacts DEF RoutesAreOwn
<1>4. UnderWay = {}
  BY DEF Init, UnderWay
<1>5. ActiveIsBalanced
  BY <1>4, FS_EmptySet DEF Init, ActiveIsBalanced, UnderWay
<1>6. TypeOK
  BY <1>1, SlotsFinite DEF Init, TypeOK, Stages, Answers
<1>7. \A s \in Slots : Attributed(s) /\ Resolved(s)
  BY DEF Init, Attributed, Resolved
<1>. QED  BY <1>3, <1>5, <1>6, <1>7 DEF IInv

\* Routes and flags change beside the requests.
LEMMA RouterKeepsIInv ==
  ASSUME IInv,
         \/ \E h \in Routes :
              Unregister(h) \/ \E c \in {"configured", "later"} : Register(h, NewBackend(h, c))
         \/ \E b \in Backends : SetHealthy(b)
  PROVE  IInv'
<1>. USE DEF IInv
<1>1. UNCHANGED <<active, request>>
  BY DEF Unregister, Register, SetHealthy
<1>2. ActiveIsBalanced' /\ \A s \in Slots : Attributed(s)' /\ Resolved(s)'
  BY <1>1 DEF ActiveIsBalanced, Attributed, Resolved, request
<1>3. TypeOK' /\ RoutesAreOwn'
  <2>1. ASSUME NEW h \in Routes, Unregister(h)
        PROVE  TypeOK' /\ RoutesAreOwn'
    BY <2>1 DEF Unregister, TypeOK, RoutesAreOwn, request
  <2>2. ASSUME NEW h \in Routes, NEW c \in {"configured", "later"}, Register(h, NewBackend(h, c))
        PROVE  TypeOK' /\ RoutesAreOwn'
    <3>1. normalizeHost(h) \in Keys /\ NewBackend(h, c) \in Backends /\ NewBackend(h, c).name = h
      BY HostFacts, BackendFacts
    <3>. QED  BY <2>2, <3>1 DEF Register, TypeOK, RoutesAreOwn, request
  <2>3. ASSUME NEW b \in Backends, SetHealthy(b)
        PROVE  TypeOK' /\ RoutesAreOwn'
    BY <2>3 DEF SetHealthy, TypeOK, RoutesAreOwn, request
  <2>. QED  BY <2>1, <2>2, <2>3
<1>. QED  BY <1>2, <1>3

\* The gauge counts the requests under way, the one that arrives and the one that returns
\* included.
LEMMA GaugeKeepsBalance ==
  ASSUME TypeOK, ActiveIsBalanced, NEW s \in Slots,
         \/ /\ stage[s] = "idle" /\ stage'[s] # "idle" /\ active' = active + 1
         \/ /\ stage[s] # "idle" /\ stage'[s] = "idle" /\ active' = active - 1
         \/ /\ stage[s] # "idle" /\ stage'[s] # "idle" /\ active' = active,
         \A t \in Slots : t # s => stage'[t] = stage[t]
  PROVE  ActiveIsBalanced' /\ active' \in 0 .. Cardinality(Slots)
<1>1. active = Cardinality(UnderWay)
  BY DEF ActiveIsBalanced, UnderWay
<1>2. CASE stage[s] = "idle" /\ stage'[s] # "idle" /\ active' = active + 1
  <2>1. UnderWay' = UnderWay \cup {s} /\ s \notin UnderWay
    BY <1>2 DEF UnderWay
  <2>2. Cardinality(UnderWay') = active'
    BY <1>1, <1>2, <2>1, SlotsFinite, FS_AddElement
  <2>3. UnderWay' \in SUBSET Slots
    BY DEF UnderWay
  <2>. QED  BY <1>1, <1>2, <2>2, <2>3, SlotsFinite, FS_Subset DEF ActiveIsBalanced, UnderWay
<1>3. CASE stage[s] # "idle" /\ stage'[s] = "idle" /\ active' = active - 1
  <2>1. UnderWay' = UnderWay \ {s} /\ s \in UnderWay
    BY <1>3 DEF UnderWay
  <2>2. Cardinality(UnderWay') = active'
    BY <1>1, <1>3, <2>1, SlotsFinite, FS_RemoveElement
  <2>3. UnderWay' \in SUBSET Slots
    BY DEF UnderWay
  <2>4. Cardinality(UnderWay') \in Nat
    BY <2>3, SlotsFinite, FS_Subset, FS_CardinalityType
  <2>. QED  BY <1>1, <1>3, <2>2, <2>3, <2>4, SlotsFinite, FS_Subset DEF ActiveIsBalanced, UnderWay
<1>4. CASE stage[s] # "idle" /\ stage'[s] # "idle" /\ active' = active
  <2>1. UnderWay' = UnderWay
    BY <1>4 DEF UnderWay
  <2>. QED  BY <1>1, <1>4, <2>1, SlotsFinite DEF ActiveIsBalanced, UnderWay
<1>. QED  BY <1>2, <1>3, <1>4

LEMMA ServeKeepsIInv ==
  ASSUME IInv, NEW s \in Slots, ServeHTTP(s) \/ \E h \in Headers : Arrive(s, h)
  PROVE  IInv'
<1>. USE DEF IInv, Goto, Fails, RecordBackendRequest, Forgotten
<1>1. UNCHANGED <<backends, down>>
  BY DEF ServeHTTP, Lookup, CheckHealth, Exchange, Stream, Return, Arrive
<1>2. /\ stage' \in [Slots -> Stages] /\ header' \in [Slots -> Headers]
      /\ backend' \in [Slots -> Backends \cup {NoBackend}] /\ answer' \in [Slots -> Answers]
      /\ xStatusCode' \in [Slots -> BackendStatuses \cup {None}]
      /\ recorded' \in [Slots -> BackendStatuses \cup {None, Unknown}]
  <2>1. CASE Lookup(s)
    <3>1. CASE header[s].kind = "empty" \/ backends[normalizeHost(header[s])] = NoBackend
      BY <2>1, <3>1 DEF Lookup, TypeOK, Stages, Answers
    <3>2. CASE header[s].kind # "empty" /\ backends[normalizeHost(header[s])] # NoBackend
      <4>1. normalizeHost(header[s]) \in Keys
        BY <3>2, HostFacts DEF TypeOK
      <4>. QED  BY <2>1, <3>2, <4>1 DEF Lookup, TypeOK, Stages
    <3>. QED  BY <3>1, <3>2
  <2>2. CASE CheckHealth(s)
    BY <2>2 DEF CheckHealth, TypeOK, Stages, Answers
  <2>3. CASE Exchange(s)
    BY <2>3 DEF Exchange, TypeOK, Stages, Answers
  <2>4. CASE Stream(s)
    BY <2>4 DEF Stream, TypeOK, Stages
  <2>5. CASE Return(s)
    BY <2>5 DEF Return, TypeOK, Stages, Answers
  <2>6. ASSUME NEW h \in Headers, Arrive(s, h)
        PROVE  /\ stage' \in [Slots -> Stages] /\ header' \in [Slots -> Headers]
               /\ UNCHANGED <<backend, answer, xStatusCode, recorded>>
    BY <2>6 DEF Arrive, TypeOK, Stages
  <2>. QED  BY <2>1, <2>2, <2>3, <2>4, <2>5, <2>6 DEF ServeHTTP, TypeOK
<1>3. ActiveIsBalanced' /\ active' \in 0 .. Cardinality(Slots)
  <2>1. \A t \in Slots : t # s => stage'[t] = stage[t]
    BY DEF ServeHTTP, Lookup, CheckHealth, Exchange, Stream, Return, Arrive, TypeOK
  <2>2. \/ /\ stage[s] = "idle" /\ stage'[s] # "idle" /\ active' = active + 1
        \/ /\ stage[s] # "idle" /\ stage'[s] = "idle" /\ active' = active - 1
        \/ /\ stage[s] # "idle" /\ stage'[s] # "idle" /\ active' = active
    BY DEF ServeHTTP, Lookup, CheckHealth, Exchange, Stream, Return, Arrive, TypeOK
  <2>. QED  BY <2>1, <2>2, GaugeKeepsBalance
<1>4. TypeOK' /\ RoutesAreOwn'
  BY <1>1, <1>2, <1>3 DEF TypeOK, RoutesAreOwn
<1>5. ASSUME NEW t \in Slots, t # s
      PROVE  /\ stage'[t] = stage[t] /\ header'[t] = header[t] /\ backend'[t] = backend[t]
             /\ answer'[t] = answer[t] /\ xStatusCode'[t] = xStatusCode[t]
             /\ recorded'[t] = recorded[t]
  BY <1>5 DEF ServeHTTP, Lookup, CheckHealth, Exchange, Stream, Return, Arrive, TypeOK
<1>6. Resolved(s)' /\ Attributed(s)'
  <2>. USE Statuses, StatusFacts DEF TypeOK, Resolved, Attributed
  <2>1. CASE Lookup(s)
    <3>1. CASE header[s].kind = "empty" \/ backends[normalizeHost(header[s])] = NoBackend
      BY <2>1, <3>1 DEF Lookup
    <3>2. CASE header[s].kind # "empty" /\ backends[normalizeHost(header[s])] # NoBackend
      <4>1. normalizeHost(header[s]) \in Keys
        BY <3>2, HostFacts
      <4>2. /\ backend'[s] = backends[normalizeHost(header[s])]
            /\ header'[s] = header[s] /\ stage'[s] = "check"
            /\ xStatusCode'[s] = None /\ recorded'[s] = None
        BY <2>1, <3>2 DEF Lookup
      <4>. QED  BY <3>2, <4>1, <4>2 DEF RoutesAreOwn
    <3>. QED  BY <3>1, <3>2
  <2>2. CASE CheckHealth(s)
    BY <2>2 DEF CheckHealth
  <2>3. CASE Exchange(s)
    BY <2>3 DEF Exchange
  <2>4. CASE Stream(s)
    BY <2>4 DEF Stream
  <2>5. CASE Return(s)
    BY <2>5 DEF Return
  <2>6. ASSUME NEW h \in Headers, Arrive(s, h)
        PROVE  Resolved(s)' /\ Attributed(s)'
    BY <2>6 DEF Arrive
  <2>. QED  BY <2>1, <2>2, <2>3, <2>4, <2>5, <2>6 DEF ServeHTTP
<1>7. ASSUME NEW t \in Slots
      PROVE  Resolved(t)' /\ Attributed(t)'
  <2>1. CASE t = s
    BY <1>6, <2>1
  <2>2. CASE t # s
    BY <1>5, <2>2 DEF Resolved, Attributed
  <2>. QED  BY <2>1, <2>2
<1>. QED  BY <1>3, <1>4, <1>7

LEMMA NextIInv == IInv /\ [Next]_vars => IInv'
<1>. SUFFICES ASSUME IInv, [Next]_vars PROVE IInv'
  OBVIOUS
<1>1. CASE UNCHANGED vars
  BY <1>1 DEF vars, request, IInv, TypeOK, RoutesAreOwn, Resolved, ActiveIsBalanced, Attributed
<1>2. CASE Next
  BY <1>2, RouterKeepsIInv, ServeKeepsIInv DEF Next
<1>. QED  BY <1>1, <1>2

LEMMA Invariance == Spec => []IInv
BY InitIInv, NextIInv, PTL DEF Spec

-----------------------------------------------------------------------------

\* The variables keep their types.
THEOREM TypeCorrect == Spec => []TypeOK
<1>1. IInv => TypeOK
  BY DEF IInv
<1>. QED  BY <1>1, Invariance, PTL

\* Every path through ServeHTTP takes the increment of the gauge back once.
THEOREM GaugeIsBalanced == Spec => []ActiveIsBalanced
<1>1. IInv => ActiveIsBalanced
  BY DEF IInv
<1>. QED  BY <1>1, Invariance, PTL

\* What is recorded of a backend is its own status, whatever that is, and what the proxy
\* answers tells whether a backend was found.
THEOREM BackendsSpeakForThemselves == Spec => []BackendsAnswerForThemselves
<1>1. IInv => BackendsAnswerForThemselves
  BY DEF IInv, Attributed, BackendsAnswerForThemselves
<1>. QED  BY <1>1, Invariance, PTL

\* Whatever is registered, removed and marked meanwhile, a request goes to a backend of
\* the host it names, unless addresses are cut inside their brackets.
THEOREM RoutedToOwnHost == ASSUME PortsFollowBrackets PROVE Spec => []ServedByOwnHost
<1>1. IInv => ServedByOwnHost
  <2>. SUFFICES ASSUME IInv, NEW s \in Slots, backend[s] # NoBackend
                PROVE  Hostname(backend[s].name) = Hostname(header[s])
    BY DEF ServedByOwnHost
  <2>1. backend[s].name \in Routes /\ header[s] \in Headers
    BY BackendFacts DEF IInv, TypeOK
  <2>2. normalizeHost(backend[s].name) = normalizeHost(header[s])
    BY DEF IInv, Resolved
  <2>. QED  BY <2>1, <2>2, PortsFollowBrackets, NormalizedHostname
<1>. QED  BY <1>1, Invariance, PTL

-----------------------------------------------------------------------------
(* The refinement of HostRouting                                           *)

\* The variables of HostRouting, as the mapping of Proxy gives them.
Bindings == [n \in Hostnames |-> Binding(n)]
Asked    == [s \in Slots |-> CASE stage[s] = "idle"  -> "no"
                               [] stage[s] = "route" -> "asked"
                               [] OTHER              -> "resolved"]
Asks     == [s \in Slots |-> Hostname(header[s])]

LEMMA KeyFacts ==
  ASSUME OneKeyPerHost
  PROVE  /\ DOMAIN KeyOf = {Hostname(h) : h \in Routes}
         /\ \A h \in Routes : KeyOf[Hostname(h)] = normalizeHost(h)
<1>1. DOMAIN KeyOf = {Hostname(h) : h \in Routes}
  BY DEF KeyOf
<1>2. ASSUME NEW h \in Routes PROVE KeyOf[Hostname(h)] = normalizeHost(h)
  <2>. DEFINE r == CHOOSE r \in Routes : Hostname(r) = Hostname(h)
  <2>1. r \in Routes /\ Hostname(r) = Hostname(h)
    OBVIOUS
  <2>2. normalizeHost(r) = normalizeHost(h)
    BY <2>1 DEF OneKeyPerHost
  <2>. QED  BY <1>1, <2>2 DEF KeyOf
<1>. QED  BY <1>1, <1>2

LEMMA BindingFacts ==
  ASSUME OneKeyPerHost, TypeOK
  PROVE  /\ \A h \in Routes : Binding(Hostname(h)) = backends[normalizeHost(h)]
         /\ \A n : n \notin {Hostname(h) : h \in Routes} => Binding(n) = NoBackend
         /\ \A n \in Hostnames : Binding(n) \in Backends \cup {NoBackend}
<1>1. \A h \in Routes : Binding(Hostname(h)) = backends[normalizeHost(h)]
  BY KeyFacts DEF Binding
<1>2. \A n : n \notin {Hostname(h) : h \in Routes} => Binding(n) = NoBackend
  BY KeyFacts DEF Binding
<1>3. \A h \in Routes : backends[normalizeHost(h)] \in Backends \cup {NoBackend}
  BY HostFacts DEF TypeOK
<1>. QED  BY <1>1, <1>2, <1>3

\* What the table has for a header is what the router finds under its key.
LEMMA BindingOfHeader ==
  ASSUME OneKeyPerHost, IInv, NEW g \in Headers
  PROVE  Binding(Hostname(g)) = IF g.kind = "empty" THEN NoBackend ELSE backends[normalizeHost(g)]
<1>1. normalizeHost(g).kind = g.kind /\ \A h \in Routes : normalizeHost(h).kind = h.kind
  BY HostFacts DEF normalizeHost, Header
<1>2. CASE g.kind = "empty"
  <2>1. \A h \in Routes : normalizeHost(g) # normalizeHost(h)
    BY <1>1, <1>2, HostFacts
  <2>2. Hostname(g) \notin {Hostname(h) : h \in Routes}
    BY <2>1 DEF OneKeyPerHost
  <2>. QED  BY <1>2, <2>2, BindingFacts DEF IInv
<1>3. CASE g.kind # "empty"
  <2>1. CASE \E h \in Routes : Hostname(h) = Hostname(g)
    BY <1>3, <2>1, BindingFacts DEF OneKeyPerHost, IInv
  <2>2. CASE \A h \in Routes : Hostname(h) # Hostname(g)
    <3>1. \A h \in Routes : normalizeHost(h) # normalizeHost(g)
      BY <2>2 DEF OneKeyPerHost
    <3>2. normalizeHost(g) \in Keys /\ backends[normalizeHost(g)] \in Backends \cup {NoBackend}
      BY <1>3, HostFacts DEF IInv, TypeOK
    <3>3. backends[normalizeHost(g)] = NoBackend
      BY <3>1, <3>2, BackendFacts DEF IInv, RoutesAreOwn
    <3>. QED  BY <1>3, <2>2, <3>3, BindingFacts DEF IInv
  <2>. QED  BY <2>1, <2>2
<1>. QED  BY <1>2, <1>3

LEMMA InitRouting == ASSUME OneKeyPerHost, Init PROVE Routing!Init
<1>1. TypeOK
  BY InitIInv DEF IInv
<1>2. Bindings \in [Hostnames -> Backends \cup {NoBackend}]
  BY <1>1, BindingFacts DEF Bindings
<1>3. Asked = [s \in Slots |-> "no"] /\ backend = [s \in Slots |-> NoBackend]
  BY DEF Init, Asked
<1>4. Asks \in [Slots -> Hostnames]
  BY <1>1 DEF Asks, Hostnames, TypeOK
<1>. QED  BY <1>2, <1>3, <1>4 DEF Routing!Init, Bindings, Asked, Asks

\* Registering changes the entry of one host name; flags are no part of the table.
LEMMA RouterRefines ==
  ASSUME OneKeyPerHost, IInv,
         \/ \E h \in Routes :
              Unregister(h) \/ \E c \in {"configured", "later"} : Register(h, NewBackend(h, c))
         \/ \E b \in Backends : SetHealthy(b)
  PROVE  Routing!Next \/ UNCHANGED Routing!vars
<1>1. UNCHANGED <<stage, header, backend>>
  BY DEF Unregister, Register, SetHealthy, request
<1>2. Asked' = Asked /\ Asks' = Asks
  BY <1>1 DEF Asked, Asks
<1>3. ASSUME NEW h \in Routes, NEW b \in Backends \cup {NoBackend},
             backends' = [backends EXCEPT ![normalizeHost(h)] = b]
      PROVE  Routing!Bind(Hostname(h), b)
  <2>1. backends \in [Keys -> Backends \cup {NoBackend}]
    BY DEF IInv, TypeOK
  <2>2. ASSUME NEW n \in Hostnames
        PROVE  Binding(n)' = IF n = Hostname(h) THEN b ELSE Binding(n)
    <3>1. CASE n = Hostname(h)
      <4>1. Binding(n)' = backends'[normalizeHost(h)]
        BY <3>1, KeyFacts DEF Binding
      <4>. QED  BY <1>3, <2>1, <3>1, <4>1, HostFacts
    <3>2. ASSUME NEW r \in Routes, n = Hostname(r), n # Hostname(h)
          PROVE  Binding(n)' = Binding(n)
      <4>1. normalizeHost(r) # normalizeHost(h)
        BY <3>2 DEF OneKeyPerHost
      <4>2. Binding(n) = backends[normalizeHost(r)] /\ Binding(n)' = backends'[normalizeHost(r)]
        BY <3>2, KeyFacts DEF Binding
      <4>. QED  BY <1>3, <2>1, <4>1, <4>2, HostFacts
    <3>3. CASE n \notin {Hostname(r) : r \in Routes}
      BY <3>3, KeyFacts DEF Binding
    <3>. QED  BY <3>1, <3>2, <3>3
  <2>3. Bindings' = [Bindings EXCEPT ![Hostname(h)] = b]
    BY <2>2 DEF Bindings
  <2>. QED  BY <1>1, <1>2, <2>3 DEF Routing!Bind, Bindings, Asked, Asks
<1>4. CASE UNCHANGED backends
  <2>1. Bindings' = Bindings
    BY <1>4 DEF Bindings, Binding
  <2>. QED  BY <1>1, <1>2, <2>1 DEF Routing!vars, Bindings, Asked, Asks
<1>5. \/ UNCHANGED backends
      \/ \E h \in Routes, b \in Backends \cup {NoBackend} :
           backends' = [backends EXCEPT ![normalizeHost(h)] = b]
  BY BackendFacts DEF Unregister, Register, SetHealthy
<1>6. \A h \in Routes : Hostname(h) \in Hostnames
  BY DEF Hostnames
<1>. QED  BY <1>3, <1>4, <1>5, <1>6 DEF Routing!Next

\* The lookup is the step that resolves a request; what follows until its return changes
\* nothing that HostRouting sees.
LEMMA ServeRefines ==
  ASSUME OneKeyPerHost, IInv, NEW s \in Slots, ServeHTTP(s) \/ \E h \in Headers : Arrive(s, h)
  PROVE  Routing!Next \/ UNCHANGED Routing!vars
<1>. USE DEF Goto, Fails, RecordBackendRequest, Forgotten
<1>1. Bindings' = Bindings
  BY DEF ServeHTTP, Lookup, CheckHealth, Exchange, Stream, Return, Arrive, Bindings, Binding
<1>2. stage \in [Slots -> Stages] /\ header \in [Slots -> Headers] /\ IInv'
      /\ backend \in [Slots -> Backends \cup {NoBackend}]
  BY ServeKeepsIInv DEF IInv, TypeOK
<1>3. ASSUME NEW h \in Headers, Arrive(s, h)
      PROVE  Routing!Ask(s, Hostname(h)) /\ Hostname(h) \in Hostnames
  <2>1. Asked[s] = "no" /\ Asked' = [Asked EXCEPT ![s] = "asked"]
    BY <1>2, <1>3 DEF Arrive, Asked
  <2>2. Asks' = [Asks EXCEPT ![s] = Hostname(h)]
    BY <1>2, <1>3 DEF Arrive, Asks
  <2>. QED  BY <1>1, <1>3, <2>1, <2>2 DEF Routing!Ask, Arrive, Hostnames, Bindings, Asked, Asks
<1>4. CASE Lookup(s)
  <2>1. Asked[s] = "asked" /\ Asked' = [Asked EXCEPT ![s] = "resolved"] /\ Asks' = Asks
    BY <1>2, <1>4 DEF Lookup, Asked, Asks
  <2>2. Asks[s] = Hostname(header[s]) /\ Hostname(header[s]) \in Hostnames
    BY <1>2 DEF Asks, Hostnames
  <2>3. Bindings[Asks[s]] = Binding(Hostname(header[s]))
    BY <2>2 DEF Bindings
  <2>4. Bindings[Asks[s]] = IF header[s].kind = "empty" THEN NoBackend
                            ELSE backends[normalizeHost(header[s])]
    BY <1>2, <2>3, BindingOfHeader
  <2>5. backend' = [backend EXCEPT ![s] = Bindings[Asks[s]]]
    <3>1. backend[s] = NoBackend
      BY <1>4 DEF Lookup, IInv, Resolved
    <3>. QED  BY <1>2, <1>4, <2>4, <3>1 DEF Lookup
  <2>. QED  BY <1>1, <2>1, <2>5 DEF Routing!Next, Routing!Resolve, Bindings, Asked, Asks
<1>5. CASE CheckHealth(s) \/ Exchange(s) \/ Stream(s)
  <2>1. Asked' = Asked /\ Asks' = Asks /\ UNCHANGED backend
    BY <1>2, <1>5 DEF CheckHealth, Exchange, Stream, Asked, Asks
  <2>. QED  BY <1>1, <2>1 DEF Routing!vars, Bindings, Asked, Asks
<1>6. CASE Return(s)
  <2>1. Asked[s] = "resolved" /\ Asked' = [Asked EXCEPT ![s] = "no"] /\ Asks' = Asks
    BY <1>2, <1>6 DEF Return, Asked, Asks
  <2>. QED  BY <1>1, <1>6, <2>1 DEF Routing!Next, Routing!End, Return, Bindings, Asked, Asks
<1>. QED  BY <1>3, <1>4, <1>5, <1>6 DEF ServeHTTP, Routing!Next

\* Keys, flags and locks apart, the router is a table from host names that each request
\* reads once, if a host has one key.
THEOREM RouterIsATable == ASSUME OneKeyPerHost PROVE Spec => RoutesByHostname
<1>1. Init => Routing!Init
  BY OneKeyPerHost, InitRouting
<1>2. IInv /\ [Next]_vars => [Routing!Next]_(Routing!vars)
  <2>. SUFFICES ASSUME IInv, [Next]_vars PROVE Routing!Next \/ UNCHANGED Routing!vars
    OBVIOUS
  <2>1. CASE UNCHANGED vars
    BY <2>1 DEF vars, request, Routing!vars, Binding
  <2>2. CASE Next
    BY <2>2, OneKeyPerHost, RouterRefines, ServeRefines DEF Next
  <2>. QED  BY <2>1, <2>2
<1>. QED  BY <1>1, <1>2, Invariance, PTL DEF Spec, RoutesByHostname, Routing!Spec
=============================================================================
