-------------------------- MODULE ComponentsProofs --------------------------
(***************************************************************************)
(* The safety properties of the TLS managers, the connection pool, the     *)
(* metrics server, the watch of the configuration and the subscribers of   *)
(* health events, each from its own specification, for any constants.      *)
(***************************************************************************)
EXTENDS MCComponents, CertStorageProofs, FiniteSetTheorems, SequenceTheorems,
        WellFoundedInduction, TLAPS

-----------------------------------------------------------------------------
(* TLS managers                                                            *)

\* The channel is made once: after the first Stop it stays closed, and a second Start
\* is the last that has an effect.
ManagerLifecycle ==
  /\ starts = 0 => ~isStarted /\ ~stopClosed
  /\ starts = 1 => (isStarted <=> ~stopClosed)
  /\ starts = 2 => isStarted /\ stopClosed
  /\ panicked => starts = 2

\* What can be served is on offer.
OffersCover ==
  /\ domains \subseteq offered
  /\ \A d \in Domains : kind = "simple" /\ certificates[d] = "present" => d \in offered

\* A handshake under way for a domain on offer knows that it was; so does one whose
\* domain was found among the managed ones, or that was served.
HandshakesAreFresh ==
  \A c \in Connections :
    /\ handshake[c] # "idle" /\ name[c] \in offered => c \in fresh
    /\ handshake[c] \in {"checked", "served"} => c \in fresh

\* What is kept has been tried or is still to be.
RenewalGoesOn == kept \subseteq tried \cup toRenew

ManagerInv ==
  /\ Manager!TypeOK
  /\ ManagerLifecycle
  /\ OffersCover
  /\ HandshakesAreFresh
  /\ RenewalGoesOn

LEMMA ManagerInit == Manager!Init => ManagerInv
<1>. SUFFICES ASSUME Manager!Init PROVE ManagerInv
  OBVIOUS
<1>1. Manager!TypeOK
  <2>1. name \in [Connections -> Domains]
    BY ComponentsAssumption DEF Manager!Init
  <2>2. handshake \in [Connections -> {"idle", "hello", "checked", "served", "refused"}]
    BY DEF Manager!Init
  <2>3. certificates \in [Domains -> {"none", "ordered", "present"}]
    BY DEF Manager!Init
  <2>4. kind \in {"simple", "certmagic"} /\ isStarted \in BOOLEAN /\ stopClosed \in BOOLEAN
        /\ panicked \in BOOLEAN /\ ctxDone \in BOOLEAN
    BY DEF Manager!Init
  <2>5. starts \in 0 .. 2 /\ loops \in 0 .. starts
    BY DEF Manager!Init
  <2>6. /\ domains \subseteq Domains /\ toRenew \subseteq Domains
        /\ tried \subseteq Domains /\ kept \subseteq Domains
        /\ offered \subseteq Domains /\ fresh \subseteq Connections
    BY DEF Manager!Init
  <2>. QED  BY <2>1, <2>2, <2>3, <2>4, <2>5, <2>6 DEF Manager!TypeOK
<1>2. ManagerLifecycle /\ OffersCover
  BY DEF Manager!Init, ManagerLifecycle, OffersCover
<1>3. HandshakesAreFresh /\ RenewalGoesOn
  BY DEF Manager!Init, HandshakesAreFresh, RenewalGoesOn
<1>. QED  BY <1>1, <1>2, <1>3 DEF ManagerInv

LEMMA ManagerDomains ==
  ASSUME ManagerInv, NEW d \in Domains,
         \/ Manager!AddDomain(d) \/ Manager!RemoveDomain(d) \/ Manager!SetCertificate(d)
         \/ Manager!Obtained(d) \/ Manager!Renew(d)
  PROVE  ManagerInv'
<1>. USE DEF ManagerInv, Manager!TypeOK, ManagerLifecycle, OffersCover, HandshakesAreFresh,
             RenewalGoesOn, Manager!run, Manager!renewal, Manager!shake
<1>1. CASE Manager!AddDomain(d)
  BY <1>1 DEF Manager!AddDomain, Manager!Offers
<1>2. CASE Manager!RemoveDomain(d)
  BY <1>2 DEF Manager!RemoveDomain
<1>3. CASE Manager!SetCertificate(d)
  BY <1>3 DEF Manager!SetCertificate, Manager!Offers
<1>4. CASE Manager!Obtained(d)
  BY <1>4 DEF Manager!Obtained
<1>5. CASE Manager!Renew(d)
  BY <1>5 DEF Manager!Renew
<1>. QED  BY <1>1, <1>2, <1>3, <1>4, <1>5

LEMMA ManagerHandshakes ==
  ASSUME ManagerInv, NEW c \in Connections,
         Manager!Handshake(c) \/ \E d \in Domains : Manager!Hello(c, d)
  PROVE  ManagerInv'
<1>. USE DEF ManagerInv, Manager!TypeOK, ManagerLifecycle, OffersCover, HandshakesAreFresh,
             RenewalGoesOn, Manager!run, Manager!renewal
<1>1. CASE Manager!CheckManaged(c)
  BY <1>1 DEF Manager!CheckManaged
<1>2. CASE Manager!GetCertificate(c)
  BY <1>2 DEF Manager!GetCertificate
<1>3. CASE Manager!Hangup(c)
  BY <1>3 DEF Manager!Hangup
<1>4. ASSUME NEW d \in Domains, Manager!Hello(c, d)
      PROVE  ManagerInv'
  BY <1>4 DEF Manager!Hello
<1>. QED  BY <1>1, <1>2, <1>3, <1>4 DEF Manager!Handshake

LEMMA ManagerRuns ==
  ASSUME ManagerInv,
         \/ Manager!RenewCertificates \/ Manager!Start \/ Manager!Stop
         \/ Manager!LoopEnds \/ Manager!ContextEnds
  PROVE  ManagerInv'
<1>. USE DEF ManagerInv, Manager!TypeOK, ManagerLifecycle, OffersCover, HandshakesAreFresh,
             RenewalGoesOn, Manager!run, Manager!renewal, Manager!shake
<1>1. CASE Manager!RenewCertificates
  BY <1>1 DEF Manager!RenewCertificates
<1>2. CASE Manager!Start
  <2>1. starts \in {0, 1} /\ starts' = starts + 1 /\ loops' \in 0 .. starts'
    BY <1>2 DEF Manager!Start
  <2>2. Manager!TypeOK'
    BY <1>2, <2>1 DEF Manager!Start
  <2>3. ManagerLifecycle'
    BY <1>2, <2>1 DEF Manager!Start
  <2>. QED  BY <1>2, <2>2, <2>3 DEF Manager!Start
<1>3. CASE Manager!Stop
  <2>1. CASE stopClosed
    BY <1>3, <2>1 DEF Manager!Stop
  <2>2. CASE ~stopClosed
    BY <1>3, <2>2 DEF Manager!Stop
  <2>. QED  BY <2>1, <2>2
<1>4. CASE Manager!LoopEnds
  BY <1>4 DEF Manager!LoopEnds
<1>5. CASE Manager!ContextEnds
  BY <1>5 DEF Manager!ContextEnds
<1>. QED  BY <1>1, <1>2, <1>3, <1>4, <1>5

LEMMA ManagerNext == ManagerInv /\ [Manager!Next]_(Manager!vars) => ManagerInv'
<1>. SUFFICES ASSUME ManagerInv, [Manager!Next]_(Manager!vars) PROVE ManagerInv'
  OBVIOUS
<1>1. CASE UNCHANGED Manager!vars
  BY <1>1 DEF Manager!vars, Manager!run, Manager!renewal, Manager!shake, ManagerInv,
              Manager!TypeOK, ManagerLifecycle, OffersCover, HandshakesAreFresh, RenewalGoesOn
<1>2. CASE Manager!Next
  BY <1>2, ManagerDomains, ManagerHandshakes, ManagerRuns DEF Manager!Next
<1>. QED  BY <1>1, <1>2

LEMMA ManagerInvariance == Manager!Spec => []ManagerInv
BY ManagerInit, ManagerNext, PTL DEF Manager!Spec

\* Of either manager: whatever is added, removed and issued in the middle of a handshake, one
\* that begins after its domain was removed gets no certificate.
THEOREM RemovedMeansRefused == Manager!Spec => []NoCertificateAfterRemoval
<1>1. ManagerInv => NoCertificateAfterRemoval
  BY DEF ManagerInv, HandshakesAreFresh, NoCertificateAfterRemoval,
         Manager!NoCertificateAfterRemoval
<1>. QED  BY <1>1, ManagerInvariance, PTL

\* A renewal tries each domain that is managed all the time, whatever fails.
THEOREM NoDomainIsSkipped == Manager!Spec => []RenewalReachesAll
<1>1. ManagerInv => RenewalReachesAll
  BY DEF ManagerInv, RenewalGoesOn, RenewalReachesAll, Manager!RenewalReachesAll
<1>. QED  BY <1>1, ManagerInvariance, PTL

-----------------------------------------------------------------------------
(* The connection pool                                                     *)

Holding  == {c \in Callers : stage[c] = "holding"}
Creators == {c \in Callers : stage[c] = "created"}
Pools    == {h \in Hosts : pools[h] # Pool!NoBackend}

PoolTypes ==
  /\ managed \in [Hosts -> Pool!Backends \cup {Pool!NoBackend}]
  /\ pools \in [Hosts -> Pool!Backends \cup {Pool!NoBackend}]
  /\ active \in Nat
  /\ stage \in [Callers -> {"idle", "lookup", "create", "reused", "created", "holding"}]
  /\ backend \in [Callers -> Pool!Backends \cup {Pool!NoBackend}]
  /\ transport \in [Callers -> Pool!Backends \cup {Pool!NoBackend}]
  /\ epoch \in 0 .. MaxCloses
  /\ got \in [Callers -> 0 .. MaxCloses]

\* A caller that is under way has a backend, and a transport from GetConnection to the
\* release at most; what it got, it got in an epoch so far.
CallersConnect ==
  \A c \in Callers :
    /\ stage[c] # "idle" => backend[c] \in Pool!Backends
    /\ transport[c] # Pool!NoBackend => stage[c] \in {"reused", "created", "holding"}
    /\ got[c] <= epoch

\* Whoever has created a transport, and not counted it yet, will count one of the pool's.
CountsCreations ==
  /\ active <= Cardinality(Holding)
  /\ epoch = 0 => active + Cardinality(Creators) <= Cardinality(Pools)

\* A transport from after the last Close is the pool's; those of a name from between the
\* same calls of Close are one.
TransportsArePooled ==
  \A c \in Callers : transport[c] # Pool!NoBackend /\ got[c] = epoch => transport[c] = Pool!Pooled(c)

NamesShareTransport ==
  \A c, d \in Callers :
    /\ transport[c] # Pool!NoBackend /\ transport[d] # Pool!NoBackend
    /\ backend[c].name = backend[d].name /\ got[c] = got[d]
    => transport[c] = transport[d]

\* While Stats is between its readings, and nothing was created meanwhile, it has the number
\* of transports.
StatsAgree ==
  /\ reading \in BOOLEAN /\ raced \in BOOLEAN
  /\ total \in 0 .. Cardinality(Hosts)
  /\ idle \in (0 - Cardinality(Callers)) .. Cardinality(Hosts)
  /\ reading /\ ~raced /\ epoch = 0 => total = Cardinality(Pools)
  /\ NegativeIdleNeedsRace

PoolInv ==
  /\ PoolTypes
  /\ CallersConnect
  /\ TransportsArePooled
  /\ NamesShareTransport
  /\ CountsCreations
  /\ StatsAgree

\* The instance has a copy of the operator.
LEMMA SameCardinality == \A S : Pool!Cardinality(S) = Cardinality(S)
BY DEF Cardinality, Pool!Cardinality

LEMMA PoolFacts ==
  /\ Pool!NoBackend \notin Pool!Backends
  /\ \A b \in Pool!Backends : b.name \in Hosts
BY ComponentsAssumption DEF Pool!NoBackend, Pool!Backends

LEMMA PoolSetsFinite ==
  /\ IsFiniteSet(Holding) /\ Cardinality(Holding) \in 0 .. Cardinality(Callers)
  /\ IsFiniteSet(Creators) /\ Cardinality(Creators) \in Nat
  /\ IsFiniteSet(Pools) /\ Cardinality(Pools) \in Nat
  /\ Cardinality(Pools) <= Cardinality(Hosts)
  /\ Cardinality(Callers) \in Nat /\ Cardinality(Hosts) \in Nat
<1>1. /\ Holding \in SUBSET Callers /\ Creators \in SUBSET Callers /\ Pools \in SUBSET Hosts
      /\ IsFiniteSet(Callers) /\ IsFiniteSet(Hosts)
  BY ComponentsAssumption DEF Holding, Creators, Pools
<1>. QED  BY <1>1, FS_Subset, FS_CardinalityType

\* A caller that moves enters or leaves these sets by itself.
LEMMA PoolSetsMove ==
  ASSUME NEW c \in Callers, \A d \in Callers : d # c => stage'[d] = stage[d]
  PROVE  /\ stage'[c] = "holding" /\ stage[c] # "holding" =>
              Cardinality(Holding') = Cardinality(Holding) + 1
         /\ stage'[c] # "holding" /\ stage[c] = "holding" =>
              Cardinality(Holding') = Cardinality(Holding) - 1
         /\ (stage'[c] = "holding" <=> stage[c] = "holding") => Holding' = Holding
         /\ stage'[c] = "created" /\ stage[c] # "created" =>
              Cardinality(Creators') = Cardinality(Creators) + 1
         /\ stage'[c] # "created" /\ stage[c] = "created" =>
              Cardinality(Creators') = Cardinality(Creators) - 1
         /\ (stage'[c] = "created" <=> stage[c] = "created") => Creators' = Creators
<1>1. ASSUME stage'[c] = "holding", stage[c] # "holding"
      PROVE  Cardinality(Holding') = Cardinality(Holding) + 1
  <2>1. Holding' = Holding \cup {c} /\ c \notin Holding
    BY <1>1 DEF Holding
  <2>. QED  BY <2>1, PoolSetsFinite, FS_AddElement
<1>2. ASSUME stage'[c] # "holding", stage[c] = "holding"
      PROVE  Cardinality(Holding') = Cardinality(Holding) - 1
  <2>1. Holding' = Holding \ {c} /\ c \in Holding
    BY <1>2 DEF Holding
  <2>. QED  BY <2>1, PoolSetsFinite, FS_RemoveElement
<1>3. ASSUME stage'[c] = "created", stage[c] # "created"
      PROVE  Cardinality(Creators') = Cardinality(Creators) + 1
  <2>1. Creators' = Creators \cup {c} /\ c \notin Creators
    BY <1>3 DEF Creators
  <2>. QED  BY <2>1, PoolSetsFinite, FS_AddElement
<1>4. ASSUME stage'[c] # "created", stage[c] = "created"
      PROVE  Cardinality(Creators') = Cardinality(Creators) - 1
  <2>1. Creators' = Creators \ {c} /\ c \in Creators
    BY <1>4 DEF Creators
  <2>. QED  BY <2>1, PoolSetsFinite, FS_RemoveElement
<1>5. /\ (stage'[c] = "holding" <=> stage[c] = "holding") => Holding' = Holding
      /\ (stage'[c] = "created" <=> stage[c] = "created") => Creators' = Creators
  BY DEF Holding, Creators
<1>. QED  BY <1>1, <1>2, <1>3, <1>4, <1>5

\* Steps that leave Stats, the pool and its epoch alone.
LEMMA StatsUntouched ==
  ASSUME StatsAgree, UNCHANGED <<pools, epoch, reading, total, idle, raced>>
  PROVE  StatsAgree'
BY DEF StatsAgree, NegativeIdleNeedsRace, Pool!NegativeIdleNeedsRace, Pools

LEMMA PoolInit == Pool!Init => PoolInv
<1>. SUFFICES ASSUME Pool!Init PROVE PoolInv
  OBVIOUS
<1>1. PoolTypes
  BY ComponentsAssumption DEF Pool!Init, PoolTypes
<1>2. CallersConnect /\ TransportsArePooled /\ NamesShareTransport
  BY DEF Pool!Init, CallersConnect, TransportsArePooled, NamesShareTransport
<1>3. Holding = {} /\ Creators = {} /\ Pools = {}
  BY DEF Pool!Init, Holding, Creators, Pools
<1>4. CountsCreations
  BY <1>3, FS_EmptySet DEF Pool!Init, CountsCreations
<1>5. StatsAgree
  <2>1. reading = FALSE /\ total = 0 /\ idle = 0 /\ raced = FALSE
    BY DEF Pool!Init
  <2>2. reading \in BOOLEAN /\ raced \in BOOLEAN /\ (~reading)
    BY <2>1
  <2>3. total \in 0 .. Cardinality(Hosts) /\ idle \in (0 - Cardinality(Callers)) .. Cardinality(Hosts)
    BY <2>1, PoolSetsFinite
  <2>4. NegativeIdleNeedsRace
    BY <2>1 DEF NegativeIdleNeedsRace, Pool!NegativeIdleNeedsRace
  <2>. QED  BY <2>2, <2>3, <2>4 DEF StatsAgree
<1>. QED  BY <1>1, <1>2, <1>4, <1>5 DEF PoolInv

LEMMA PoolManaged ==
  ASSUME PoolInv,
         \/ \E h \in Hosts :
              \/ Pool!RemoveBackend(h)
              \/ \E b \in Pool!Backends :
                   b.name = h /\ (Pool!AddBackend(h, b) \/ Pool!UpdateBackend(h, b))
         \/ \E c \in Callers, h \in Hosts : Pool!GetBackend(c, h)
  PROVE  PoolInv'
<1>. USE DEF PoolInv, PoolTypes
<1>1. CASE \E h \in Hosts :
             \/ Pool!RemoveBackend(h)
             \/ \E b \in Pool!Backends :
                  b.name = h /\ (Pool!AddBackend(h, b) \/ Pool!UpdateBackend(h, b))
  <2>1. /\ UNCHANGED <<pools, active, stage, backend, transport, epoch, got>>
        /\ UNCHANGED <<reading, total, idle, raced>> /\ PoolTypes'
    BY <1>1 DEF Pool!RemoveBackend, Pool!AddBackend, Pool!UpdateBackend, Pool!caller, Pool!stats
  <2>2. StatsAgree'
    BY <2>1, StatsUntouched
  <2>. QED  BY <2>1, <2>2 DEF CallersConnect, TransportsArePooled, NamesShareTransport,
                              Pool!Pooled, CountsCreations, Holding, Creators, Pools
<1>2. ASSUME NEW c \in Callers, NEW h \in Hosts, Pool!GetBackend(c, h)
      PROVE  PoolInv'
  <2>. USE <1>2 DEF Pool!GetBackend
  <2>1. PoolTypes' /\ CallersConnect'
    BY DEF CallersConnect
  <2>2. TransportsArePooled' /\ NamesShareTransport'
    <3>1. transport[c] = Pool!NoBackend
      BY DEF CallersConnect
    <3>. QED  BY <3>1 DEF TransportsArePooled, NamesShareTransport, Pool!Pooled
  <2>3. CountsCreations'
    BY PoolSetsMove DEF CountsCreations, Pools
  <2>4. StatsAgree'
    BY StatsUntouched DEF Pool!stats
  <2>. QED  BY <2>1, <2>2, <2>3, <2>4
<1>. QED  BY <1>1, <1>2

\* A transport that is found is the pool's; one that is created becomes it.
LEMMA PoolConnects ==
  ASSUME PoolInv, NEW c \in Callers, Pool!Lookup(c) \/ Pool!Create(c)
  PROVE  PoolInv'
<1>. USE DEF PoolInv, Pool!Goto, Pool!Takes, Pool!Pooled
<1>. DEFINE n == backend[c].name
<1>1. n \in Hosts /\ backend[c] \in Pool!Backends /\ c \notin Creators /\ stage[c] # "holding"
      /\ UNCHANGED <<managed, active, backend, epoch>>
  BY PoolFacts DEF Pool!Lookup, Pool!Create, CallersConnect, Creators
<1>2. \A d \in Callers : d # c =>
        stage'[d] = stage[d] /\ transport'[d] = transport[d] /\ got'[d] = got[d]
  BY DEF Pool!Lookup, Pool!Create, PoolTypes
<1>3. /\ stage' \in [Callers -> {"idle", "lookup", "create", "reused", "created", "holding"}]
      /\ transport' \in [Callers -> Pool!Backends \cup {Pool!NoBackend}]
      /\ got' \in [Callers -> 0 .. MaxCloses]
      /\ pools' \in [Hosts -> Pool!Backends \cup {Pool!NoBackend}]
  BY <1>1 DEF Pool!Lookup, Pool!Create, PoolTypes
<1>4. \/ /\ stage'[c] = "create" /\ UNCHANGED <<pools, transport, got>>
      \/ /\ stage'[c] = "reused" /\ UNCHANGED pools /\ pools[n] # Pool!NoBackend
         /\ transport'[c] = pools[n] /\ got'[c] = epoch
      \/ /\ stage'[c] = "created" /\ pools[n] = Pool!NoBackend
         /\ pools' = [pools EXCEPT ![n] = backend[c]]
         /\ transport'[c] = backend[c] /\ got'[c] = epoch
  BY <1>1 DEF Pool!Lookup, Pool!Create, PoolTypes
<1>5. PoolTypes' /\ CallersConnect'
  <2>1. PoolTypes'
    BY <1>1, <1>3 DEF PoolTypes
  <2>2. ASSUME NEW d \in Callers, d # c
        PROVE  /\ stage'[d] # "idle" => backend'[d] \in Pool!Backends
               /\ transport'[d] # Pool!NoBackend => stage'[d] \in {"reused", "created", "holding"}
               /\ got'[d] <= epoch'
    BY <1>1, <1>2, <2>2 DEF CallersConnect
  <2>3. transport[c] = Pool!NoBackend /\ got'[c] <= epoch
    BY <1>4 DEF PoolTypes, CallersConnect, Pool!Lookup, Pool!Create
  <2>. QED  BY <1>1, <1>4, <2>1, <2>2, <2>3 DEF CallersConnect
<1>6. TransportsArePooled'
  <2>. SUFFICES ASSUME NEW d \in Callers, transport'[d] # Pool!NoBackend, got'[d] = epoch
                PROVE  transport'[d] = pools'[backend[d].name]
    BY <1>1 DEF TransportsArePooled
  <2>1. CASE d = c
    BY <1>1, <1>4, <2>1 DEF PoolTypes, CallersConnect, Pool!Lookup, Pool!Create
  <2>2. CASE d # c
    <3>1. transport[d] # Pool!NoBackend /\ transport[d] = pools[backend[d].name]
      BY <1>2, <2>2 DEF TransportsArePooled
    <3>2. backend[d].name \in Hosts
      BY <3>1, PoolFacts DEF CallersConnect
    <3>. QED  BY <1>2, <1>4, <2>2, <3>1, <3>2 DEF PoolTypes
  <2>. QED  BY <2>1, <2>2
<1>8. NamesShareTransport'
  <2>. SUFFICES ASSUME NEW d \in Callers, NEW e \in Callers,
                       transport'[d] # Pool!NoBackend, transport'[e] # Pool!NoBackend,
                       backend[d].name = backend[e].name, got'[d] = got'[e]
                PROVE  transport'[d] = transport'[e]
    BY <1>1 DEF NamesShareTransport
  <2>1. CASE got'[d] = epoch
    BY <1>1, <1>6, <2>1 DEF TransportsArePooled
  <2>2. CASE got'[d] # epoch
    <3>1. \A f \in {d, e} : f # c
      BY <1>4, <2>2 DEF CallersConnect, Pool!Lookup, Pool!Create
    <3>. QED  BY <1>2, <3>1 DEF NamesShareTransport
  <2>. QED  BY <2>1, <2>2
<1>9. StatsAgree'
  <2>1. UNCHANGED <<reading, total, idle>>
    BY DEF Pool!Lookup, Pool!Create, Pool!stats
  <2>2. (UNCHANGED <<pools, raced>>) \/ raced' = (raced \/ reading)
    BY DEF Pool!Lookup, Pool!Create, Pool!stats
  <2>3. CASE UNCHANGED <<pools, raced>>
    BY <1>1, <2>1, <2>3, StatsUntouched
  <2>4. CASE raced' = (raced \/ reading)
    BY <1>1, <2>1, <2>4 DEF StatsAgree, NegativeIdleNeedsRace, Pool!NegativeIdleNeedsRace
  <2>. QED  BY <2>2, <2>3, <2>4
<1>7. CountsCreations'
  <2>1. Holding' = Holding /\ (stage'[c] # "created" => Creators' = Creators)
    BY <1>1, <1>2, <1>4, PoolSetsMove DEF Creators
  <2>2. CASE stage'[c] # "created"
    BY <1>1, <1>4, <2>1, <2>2 DEF CountsCreations, Pools
  <2>3. CASE stage'[c] = "created"
    <3>1. Cardinality(Creators') = Cardinality(Creators) + 1
      BY <1>1, <1>2, <2>3, PoolSetsMove DEF Creators
    <3>2. Pools' = Pools \cup {n} /\ n \notin Pools
      BY <1>1, <1>4, <2>3, PoolFacts DEF Pools, PoolTypes
    <3>3. Cardinality(Pools') = Cardinality(Pools) + 1
      BY <3>2, PoolSetsFinite, FS_AddElement
    <3>. QED  BY <1>1, <2>1, <3>1, <3>3, PoolSetsFinite DEF CountsCreations, PoolTypes
  <2>. QED  BY <2>2, <2>3
<1>. QED  BY <1>5, <1>6, <1>7, <1>8, <1>9

LEMMA PoolCounts ==
  ASSUME PoolInv, NEW c \in Callers,
         Pool!CountCreated(c) \/ Pool!CountReused(c) \/ Pool!ReleaseConnection(c)
  PROVE  PoolInv'
<1>. USE DEF PoolInv, Pool!Goto
<1>1. UNCHANGED <<managed, pools, epoch, got>>
  BY DEF Pool!CountCreated, Pool!CountReused, Pool!ReleaseConnection
<1>2. \A d \in Callers : d # c =>
        stage'[d] = stage[d] /\ transport'[d] = transport[d] /\ backend'[d] = backend[d]
  BY DEF Pool!CountCreated, Pool!CountReused, Pool!ReleaseConnection, PoolTypes
<1>3. \/ /\ stage[c] = "created" /\ stage'[c] = "holding" /\ active' = active + 1
         /\ UNCHANGED <<transport, backend>>
      \/ /\ stage[c] = "reused" /\ stage'[c] = "holding" /\ UNCHANGED <<active, transport, backend>>
      \/ /\ stage[c] = "holding" /\ stage'[c] = "idle"
         /\ active' = (IF active > 0 THEN active - 1 ELSE active)
         /\ transport'[c] = Pool!NoBackend
  BY DEF Pool!CountCreated, Pool!CountReused, Pool!ReleaseConnection, PoolTypes
<1>4. PoolTypes'
  BY <1>1, <1>3 DEF PoolTypes, Pool!CountCreated, Pool!CountReused, Pool!ReleaseConnection
<1>5. CallersConnect' /\ TransportsArePooled' /\ NamesShareTransport'
  BY <1>1, <1>2, <1>3 DEF CallersConnect, TransportsArePooled, NamesShareTransport, Pool!Pooled, PoolTypes
<1>6. CountsCreations'
  <2>1. Pools' = Pools
    BY <1>1 DEF Pools
  <2>2. CASE stage[c] = "created"
    BY <1>1, <1>2, <1>3, <2>1, <2>2, PoolSetsMove, PoolSetsFinite DEF CountsCreations, PoolTypes
  <2>3. CASE stage[c] = "reused"
    BY <1>1, <1>2, <1>3, <2>1, <2>3, PoolSetsMove, PoolSetsFinite DEF CountsCreations, PoolTypes
  <2>4. CASE stage[c] = "holding"
    <3>1. Cardinality(Holding') = Cardinality(Holding) - 1 /\ Creators' = Creators
      BY <1>2, <1>3, <2>4, PoolSetsMove
    <3>2. Cardinality(Holding') \in Nat
      <4>1. Holding' = Holding \ {c}
        BY <1>2, <1>3, <2>4 DEF Holding
      <4>. QED  BY <4>1, PoolSetsFinite, FS_RemoveElement, FS_CardinalityType
    <3>. QED  BY <1>1, <1>3, <2>1, <2>4, <3>1, <3>2, PoolSetsFinite DEF CountsCreations, PoolTypes
  <2>. QED  BY <1>3, <2>2, <2>3, <2>4
<1>7. StatsAgree'
  BY <1>1, StatsUntouched DEF Pool!CountCreated, Pool!CountReused, Pool!ReleaseConnection, Pool!stats
<1>. QED  BY <1>4, <1>5, <1>6, <1>7

\* The two readings of Stats: with no creation between them, the count that is subtracted is
\* within the transports.
LEMMA PoolStats ==
  ASSUME PoolInv, Pool!CountPools \/ Pool!CountActive
  PROVE  PoolInv'
<1>1. UNCHANGED <<managed, pools, active, stage, backend, transport, epoch, got>>
  BY DEF Pool!CountPools, Pool!CountActive, Pool!caller
<1>2. PoolTypes' /\ CallersConnect' /\ TransportsArePooled' /\ NamesShareTransport' /\ CountsCreations'
  BY <1>1 DEF PoolInv, PoolTypes, CallersConnect, TransportsArePooled, NamesShareTransport,
              Pool!Pooled, CountsCreations, Holding, Creators, Pools
<1>3. Pool!TotalConnections = Cardinality(Pools)
  BY SameCardinality DEF Pools, Pool!TotalConnections
<1>4. Pools' = Pools /\ epoch \in Nat
  BY <1>1 DEF Pools, PoolInv, PoolTypes
<1>5. active \in 0 .. Cardinality(Callers) /\ (epoch = 0 => active <= Cardinality(Pools))
  BY PoolSetsFinite DEF PoolInv, PoolTypes, CountsCreations
<1>6. StatsAgree
  BY DEF PoolInv
<1>7. CASE Pool!CountPools
  <2>1. reading' = TRUE /\ raced' = FALSE /\ total' = Cardinality(Pools) /\ idle' = idle
    BY <1>3, <1>7 DEF Pool!CountPools
  <2>2. reading' \in BOOLEAN /\ raced' \in BOOLEAN /\ reading'
    BY <2>1
  <2>3. total' \in 0 .. Cardinality(Hosts)
    BY <2>1, PoolSetsFinite
  <2>4. idle' \in (0 - Cardinality(Callers)) .. Cardinality(Hosts)
    BY <1>6, <2>1 DEF StatsAgree
  <2>5. NegativeIdleNeedsRace'
    BY <2>2 DEF NegativeIdleNeedsRace, Pool!NegativeIdleNeedsRace
  <2>6. total' = Cardinality(Pools')
    BY <1>4, <2>1
  <2>. QED  BY <1>2, <2>2, <2>3, <2>4, <2>5, <2>6 DEF StatsAgree, PoolInv
<1>8. CASE Pool!CountActive
  <2>1. idle' = total - active /\ total \in 0 .. Cardinality(Hosts) /\ ~reading' /\ reading
        /\ UNCHANGED <<total, raced>>
    BY <1>6, <1>8 DEF Pool!CountActive, StatsAgree
  <2>2. idle' \in (0 - Cardinality(Callers)) .. Cardinality(Hosts)
    BY <1>5, <2>1, PoolSetsFinite
  <2>3. ~raced /\ epoch = 0 => idle' >= 0
    BY <1>5, <1>6, <2>1, PoolSetsFinite DEF StatsAgree
  <2>4. NegativeIdleNeedsRace'
    BY <1>1, <1>4, <2>1, <2>2, <2>3, PoolSetsFinite DEF NegativeIdleNeedsRace, Pool!NegativeIdleNeedsRace
  <2>5. reading' \in BOOLEAN /\ raced' \in BOOLEAN
    BY <1>6, <1>8 DEF Pool!CountActive, StatsAgree
  <2>6. ~reading' /\ total' \in 0 .. Cardinality(Hosts)
    BY <2>1
  <2>. QED  BY <1>2, <2>2, <2>4, <2>5, <2>6 DEF StatsAgree, PoolInv
<1>. QED  BY <1>2, <1>7, <1>8 DEF PoolInv

LEMMA PoolNext == PoolInv /\ [Pool!Next]_(Pool!vars) => PoolInv'
<1>. SUFFICES ASSUME PoolInv, [Pool!Next]_(Pool!vars) PROVE PoolInv'
  OBVIOUS
<1>1. CASE UNCHANGED Pool!vars
  <2>1. StatsAgree'
    BY <1>1, StatsUntouched DEF Pool!vars, Pool!stats, PoolInv
  <2>. QED  BY <1>1, <2>1 DEF Pool!vars, Pool!caller, PoolInv, PoolTypes, CallersConnect,
              TransportsArePooled, NamesShareTransport, Pool!Pooled, CountsCreations, Holding,
              Creators, Pools
<1>2. CASE Pool!Close
  <2>1. epoch' = epoch + 1 /\ epoch' \in 0 .. MaxCloses /\ epoch' # 0
        /\ UNCHANGED <<managed, active, stage, backend, transport, got>>
    BY <1>2, ComponentsAssumption DEF Pool!Close, Pool!caller, PoolInv, PoolTypes
  <2>2. PoolTypes'
    BY <1>2, <2>1 DEF Pool!Close, PoolInv, PoolTypes
  <2>3. CallersConnect' /\ TransportsArePooled' /\ NamesShareTransport'
    <3>1. \A c \in Callers : got[c] < epoch'
      BY <2>1 DEF PoolInv, PoolTypes, CallersConnect
    <3>. QED  BY <2>1, <3>1 DEF PoolInv, PoolTypes, CallersConnect, TransportsArePooled, NamesShareTransport
  <2>4. CountsCreations'
    BY <2>1 DEF PoolInv, CountsCreations, Holding
  <2>5. StatsAgree'
    <3>1. UNCHANGED <<reading, total, idle, raced>> /\ epoch' > 0
      BY <1>2, <2>1 DEF Pool!Close, Pool!stats, PoolInv, PoolTypes
    <3>. QED  BY <2>1, <3>1 DEF PoolInv, StatsAgree, NegativeIdleNeedsRace, Pool!NegativeIdleNeedsRace
  <2>. QED  BY <2>2, <2>3, <2>4, <2>5 DEF PoolInv
<1>. QED  BY <1>1, <1>2, PoolManaged, PoolConnects, PoolCounts, PoolStats DEF Pool!Next, Pool!GetConnection

LEMMA PoolInvariance == Pool!Spec => []PoolInv
BY PoolInit, PoolNext, PTL DEF Pool!Spec

\* However many callers look for a backend at once, and whatever the manager makes of its name,
\* they share one transport until the pool is closed.
THEOREM SameBackendSameTransport == Pool!Spec => []SameBackendSharesTransport
<1>1. PoolInv => SameBackendSharesTransport
  BY DEF PoolInv, NamesShareTransport, SameBackendSharesTransport, Pool!SameBackendSharesTransport
<1>. QED  BY <1>1, PoolInvariance, PTL

\* Whoever calls it while connections are made and released, Stats reports fewer than no idle
\* connections only after a Close, or when a transport was created between its two readings.
THEOREM IdleIsRarelyNegative == Pool!Spec => []NegativeIdleNeedsRace
<1>1. PoolInv => NegativeIdleNeedsRace
  BY DEF PoolInv, StatsAgree
<1>. QED  BY <1>1, PoolInvariance, PTL

\* The count of active connections never exceeds the callers that hold one, nor the transports.
THEOREM ActiveCountIsBounded == Pool!Spec => []ActiveCountBounded
<1>1. PoolInv => ActiveCountBounded
  <2>. SUFFICES ASSUME PoolInv PROVE ActiveCountBounded
    OBVIOUS
  <2>1. active <= Cardinality(Holding)
    BY DEF PoolInv, CountsCreations
  <2>2. epoch = 0 => active <= Cardinality(Pools)
    BY PoolSetsFinite DEF PoolInv, PoolTypes, CountsCreations
  <2>3. Pool!Cardinality({c \in Callers : stage[c] = "holding"}) = Cardinality(Holding)
    BY SameCardinality DEF Holding
  <2>4. Pool!TotalConnections = Cardinality(Pools)
    BY SameCardinality DEF Pools, Pool!TotalConnections
  <2>5. Pool!ActiveCountBounded
    BY <2>1, <2>2, <2>3, <2>4 DEF Pool!ActiveCountBounded
  <2>. QED  BY <2>5 DEF ActiveCountBounded
<1>. QED  BY <1>1, PoolInvariance, PTL

-----------------------------------------------------------------------------
(* The metrics server                                                      *)

MetricsTypes ==
  /\ created \in 0 .. MaxStarts
  /\ server = Metrics!Nil \/ server \in 1 .. created
  /\ stopping \in BOOLEAN /\ crashed \in BOOLEAN /\ refused \in BOOLEAN
  /\ hasty \in BOOLEAN /\ caught \in BOOLEAN
  /\ shut \subseteq 1 .. created
  /\ phase \in [Metrics!Ids -> {"none", "spawned", "called", "listening", "serving", "ended"}]
  /\ serves \in [Metrics!Ids -> 0 .. created]

\* Every server but the one in the field is shut down; that one is while Shutdown runs.
OthersAreShut ==
  /\ \A s \in 1 .. created : s # server => s \in shut
  /\ server # Metrics!Nil => (server \in shut <=> stopping)
  /\ stopping => server # Metrics!Nil

\* A goroutine that has looked found a server.
GoroutinesFound ==
  \A i \in Metrics!Ids : phase[i] \in {"called", "listening", "serving"} => serves[i] # Metrics!Nil

\* A goroutine that has not looked yet will find a server, unless a Stop did not wait for it.
LooksInTime ==
  /\ (\E i \in Metrics!Ids : phase[i] = "spawned") /\ (server = Metrics!Nil \/ stopping) => hasty
  /\ crashed => hasty

MetricsInv ==
  MetricsTypes /\ OthersAreShut /\ GoroutinesFound /\ LooksInTime /\ NoListenerLeftBehind

LEMMA MetricsInit == Metrics!Init => MetricsInv
<1>. SUFFICES ASSUME Metrics!Init PROVE MetricsInv
  OBVIOUS
<1>. USE DEF Metrics!Init, Metrics!Nil
<1>1. MetricsTypes
  <2>1. phase \in [Metrics!Ids -> {"none", "spawned", "called", "listening", "serving", "ended"}]
        /\ serves \in [Metrics!Ids -> 0 .. created]
    OBVIOUS
  <2>2. created \in 0 .. MaxStarts /\ shut \subseteq 1 .. created
    BY ComponentsAssumption
  <2>. QED  BY <2>1, <2>2 DEF MetricsTypes
<1>2. OthersAreShut
  BY DEF OthersAreShut
<1>3. GoroutinesFound /\ LooksInTime /\ NoListenerLeftBehind
  BY DEF GoroutinesFound, LooksInTime, NoListenerLeftBehind, Metrics!NoListenerLeftBehind
<1>. QED  BY <1>1, <1>2, <1>3 DEF MetricsInv

LEMMA MetricsStarts == MetricsInv /\ Metrics!StartMetricsServer => MetricsInv'
<1>. SUFFICES ASSUME MetricsInv, Metrics!StartMetricsServer PROVE MetricsInv'
  OBVIOUS
<1>. USE DEF MetricsInv, Metrics!StartMetricsServer, Metrics!Nil
<1>1. created \in Nat /\ created' = created + 1 /\ created' \in 1 .. MaxStarts /\ server' = created'
      /\ server = 0 /\ ~stopping
  BY ComponentsAssumption DEF MetricsTypes
<1>2. MetricsTypes'
  BY <1>1 DEF MetricsTypes, Metrics!Ids
<1>3. OthersAreShut'
  BY <1>1 DEF OthersAreShut, MetricsTypes
<1>4. \A i \in Metrics!Ids : phase'[i] = phase[i] \/ phase'[i] = "spawned"
  BY DEF MetricsTypes
<1>5. NoListenerLeftBehind'
  <2>1. \A i \in Metrics!Ids : phase[i] # "serving"
    BY <1>1 DEF NoListenerLeftBehind, Metrics!NoListenerLeftBehind, GoroutinesFound
  <2>. QED  BY <1>4, <2>1 DEF NoListenerLeftBehind, Metrics!NoListenerLeftBehind
<1>. QED  BY <1>1, <1>2, <1>3, <1>4, <1>5 DEF GoroutinesFound, LooksInTime

LEMMA MetricsStops == MetricsInv /\ (Metrics!StopMetricsServer \/ Metrics!StopReturns) => MetricsInv'
<1>. SUFFICES ASSUME MetricsInv, Metrics!StopMetricsServer \/ Metrics!StopReturns PROVE MetricsInv'
  OBVIOUS
<1>. USE DEF MetricsInv, MetricsTypes, OthersAreShut, GoroutinesFound, LooksInTime,
             NoListenerLeftBehind, Metrics!NoListenerLeftBehind, Metrics!Nil, Metrics!Shutdown
<1>1. CASE Metrics!StopMetricsServer
  <2>1. \A i \in Metrics!Ids :
          phase'[i] = IF phase[i] = "serving" /\ serves[i] = server THEN "ended" ELSE phase[i]
    BY <1>1 DEF Metrics!StopMetricsServer
  <2>2. MetricsTypes'
    BY <1>1 DEF Metrics!StopMetricsServer
  <2>3. OthersAreShut' /\ GoroutinesFound'
    BY <1>1, <2>1 DEF Metrics!StopMetricsServer
  <2>4. NoListenerLeftBehind'
    BY <1>1, <2>1 DEF Metrics!StopMetricsServer
  <2>5. LooksInTime'
    BY <1>1, <2>1 DEF Metrics!StopMetricsServer
  <2>. QED  BY <2>2, <2>3, <2>4, <2>5
<1>2. CASE Metrics!StopReturns
  BY <1>2 DEF Metrics!StopReturns
<1>. QED  BY <1>1, <1>2

LEMMA MetricsGoroutines ==
  ASSUME MetricsInv, NEW i \in Metrics!Ids, Metrics!Goroutine(i)
  PROVE  MetricsInv'
<1>. USE DEF MetricsInv, MetricsTypes, OthersAreShut, GoroutinesFound, LooksInTime,
             NoListenerLeftBehind, Metrics!NoListenerLeftBehind, Metrics!Nil
<1>1. CASE Metrics!ReadServer(i)
  <2>. USE <1>1 DEF Metrics!ReadServer
  <2>1. server \in 0 .. created
    OBVIOUS
  <2>2. MetricsTypes'
    BY <2>1
  <2>3. OthersAreShut' /\ GoroutinesFound' /\ NoListenerLeftBehind'
    OBVIOUS
  <2>4. LooksInTime'
    OBVIOUS
  <2>. QED  BY <2>2, <2>3, <2>4
<1>2. CASE Metrics!Listen(i)
  <2>. USE <1>2 DEF Metrics!Listen
  <2>1. MetricsTypes' /\ OthersAreShut' /\ GoroutinesFound' /\ LooksInTime'
    OBVIOUS
  <2>2. NoListenerLeftBehind'
    OBVIOUS
  <2>. QED  BY <2>1, <2>2
\* A server that is not shut down when its goroutine registers is the one in the field.
<1>3. CASE Metrics!Serve(i)
  <2>. USE <1>3 DEF Metrics!Serve
  <2>1. MetricsTypes' /\ OthersAreShut' /\ GoroutinesFound' /\ LooksInTime'
    OBVIOUS
  <2>2. serves[i] \in 1 .. created
    OBVIOUS
  <2>3. NoListenerLeftBehind'
    BY <2>2
  <2>. QED  BY <2>1, <2>3
<1>. QED  BY <1>1, <1>2, <1>3 DEF Metrics!Goroutine

LEMMA MetricsNext == MetricsInv /\ [Metrics!Next]_(Metrics!vars) => MetricsInv'
<1>. SUFFICES ASSUME MetricsInv, [Metrics!Next]_(Metrics!vars) PROVE MetricsInv'
  OBVIOUS
<1>1. CASE UNCHANGED Metrics!vars
  BY <1>1 DEF Metrics!vars, MetricsInv, MetricsTypes, OthersAreShut, GoroutinesFound, LooksInTime,
              NoListenerLeftBehind, Metrics!NoListenerLeftBehind
<1>. QED  BY <1>1, MetricsStarts, MetricsStops, MetricsGoroutines DEF Metrics!Next

LEMMA MetricsInvariance == Metrics!Spec => []MetricsInv
BY MetricsInit, MetricsNext, PTL DEF Metrics!Spec

\* However late the goroutine of a start gets to run, or to register, what serves is the
\* server of the field, and nothing after a Stop.
THEOREM NothingListensAfterStop == Metrics!Spec => []NoListenerLeftBehind
<1>1. MetricsInv => NoListenerLeftBehind
  BY DEF MetricsInv
<1>. QED  BY <1>1, MetricsInvariance, PTL

-----------------------------------------------------------------------------
(* The watch of the configuration                                          *)

LEMMA LoaderVersions == Loader!Versions = 1 .. 5 /\ Len(Contents) = 5
BY DEF Loader!Versions, Contents

\* The channel is closed once the context has ended, and the callback panics on that.
ClosedByCancel == (closed => watchDone) /\ (watchPanicked => closed)

LoaderInv == Loader!TypeOK /\ ClosedByCancel

LEMMA LoaderInit == Loader!Init => LoaderInv
<1>. SUFFICES ASSUME Loader!Init PROVE LoaderInv
  OBVIOUS
<1>1. channel \in Seq(Loader!Versions) /\ Len(channel) <= 1
  BY DEF Loader!Init
<1>2. version \in Loader!Versions /\ config \in Loader!Versions /\ received = Loader!None
  BY LoaderVersions DEF Loader!Init
<1>3. {event, closed, watchDone, watchPanicked, late} \subseteq BOOLEAN
  BY DEF Loader!Init
<1>4. Loader!TypeOK
  BY <1>1, <1>2, <1>3 DEF Loader!Init, Loader!TypeOK
<1>5. ClosedByCancel
  BY DEF Loader!Init, ClosedByCancel
<1>. QED  BY <1>4, <1>5 DEF LoaderInv

\* What a select may do, to the channel and to the process.
LEMMA LoaderSelects ==
  /\ Loader!SendInitial =>
       /\ channel' = channel \/ channel' = <<config>>
       /\ closed' = closed \/ (closed' = TRUE /\ watchDone)
  /\ Loader!Select =>
       /\ channel' = channel \/ channel' = <<config>>
       /\ watchPanicked' = watchPanicked \/ (closed /\ watchPanicked' = TRUE)
BY DEF Loader!SendInitial, Loader!Select

LEMMA LoaderNext == LoaderInv /\ [Loader!Next]_(Loader!vars) => LoaderInv'
<1>. SUFFICES ASSUME LoaderInv, [Loader!Next]_(Loader!vars) PROVE LoaderInv'
  OBVIOUS
<1>. USE LoaderVersions DEF LoaderInv, Loader!TypeOK, Loader!None, ClosedByCancel
<1>0. /\ <<config>> \in Seq(Loader!Versions) /\ Len(<<config>>) <= 1
      /\ channel \in Seq(Loader!Versions) /\ Len(channel) <= 1
      /\ closed \in BOOLEAN /\ watchDone \in BOOLEAN /\ watchPanicked \in BOOLEAN
  OBVIOUS
<1>1. CASE Loader!Watch
  <2>1. CASE Loader!ReadInitial
    BY <2>1 DEF Loader!ReadInitial
  <2>2. CASE Loader!SendInitial
    <3>1. channel' = channel \/ channel' = <<config>>
      BY <2>2, LoaderSelects
    <3>2. closed' = closed \/ (closed' = TRUE /\ watchDone)
      BY <2>2, LoaderSelects
    <3>3. channel' \in Seq(Loader!Versions) /\ Len(channel') <= 1
      BY <1>0, <3>1, Zenon
    <3>4. closed' \in BOOLEAN /\ (closed' => watchDone) /\ (closed => closed')
      <4>1. CASE closed' = closed
        BY <4>1
      <4>2. CASE closed' = TRUE /\ watchDone
        BY <4>2
      <4>. QED  BY <3>2, <4>1, <4>2
    <3>. QED  BY <2>2, <3>3, <3>4 DEF Loader!SendInitial
  <2>3. CASE Loader!WatchConfig
    BY <2>3 DEF Loader!WatchConfig
  <2>4. CASE Loader!OnConfigChange
    BY <2>4 DEF Loader!OnConfigChange
  <2>. QED  BY <1>1, <2>1, <2>2, <2>3, <2>4 DEF Loader!Watch
<1>2. CASE Loader!Callback
  <2>1. CASE Loader!Called
    BY <2>1 DEF Loader!Called
  <2>2. CASE Loader!ValidateNew
    BY <2>2 DEF Loader!ValidateNew
  <2>3. CASE Loader!Select
    <3>0. channel' = channel \/ channel' = <<config>>
      BY <2>3, LoaderSelects
    <3>1. channel' \in Seq(Loader!Versions) /\ Len(channel') <= 1
      BY <1>0, <3>0, Zenon
    <3>2. callback' \in {"idle", "validate", "send", "blocked"}
      BY <2>3 DEF Loader!Select
    <3>3. watchPanicked' = watchPanicked \/ (closed /\ watchPanicked' = TRUE)
      BY <2>3, LoaderSelects
    <3>4. watchPanicked' \in BOOLEAN /\ (watchPanicked' => closed)
      <4>1. CASE watchPanicked' = watchPanicked
        BY <4>1
      <4>2. CASE closed /\ watchPanicked' = TRUE
        BY <4>2
      <4>. QED  BY <3>3, <4>1, <4>2
    <3>. QED  BY <2>3, <3>1, <3>2, <3>4 DEF Loader!Select
  <2>. QED  BY <1>2, <2>1, <2>2, <2>3 DEF Loader!Callback
<1>3. CASE Loader!CloseChannel
  BY <1>3 DEF Loader!CloseChannel
<1>4. CASE Loader!Receive
  BY <1>4 DEF Loader!Receive
<1>5. CASE Loader!ContextEnds
  BY <1>5 DEF Loader!ContextEnds
<1>6. CASE Loader!ChangeFile
  BY <1>6 DEF Loader!ChangeFile
<1>7. CASE UNCHANGED Loader!vars
  BY <1>7 DEF Loader!vars
<1>. QED  BY <1>1, <1>2, <1>3, <1>4, <1>5, <1>6, <1>7 DEF Loader!Next

LEMMA LoaderInvariance == Loader!Spec => []LoaderInv
BY LoaderInit, LoaderNext, PTL DEF Loader!Spec

-----------------------------------------------------------------------------
(* Sequences                                                               *)

\* A set of natural numbers has a least element, unless it is empty.
LEMMA LeastElement ==
  ASSUME NEW I, I \subseteq Nat, I # {}
  PROVE  \E x \in I : \A y \in I : x <= y
<1>. DEFINE R == {ss \in Nat \X Nat : ss[1] < ss[2]}
<1>1. IsWellFoundedOn(R, Nat)
  BY NatLessThanWellFounded DEF OpToRel
<1>. HIDE DEF R
<1>2. PICK x \in I : \A y \in I : <<y, x>> \notin R
  BY <1>1, WFMin
<1>3. \A y \in I : ~ (y < x)
  BY <1>2 DEF R
<1>. QED  BY <1>3

\* What is removed has a place in the sequence.
LEMMA RemoveFirstRemovesOne ==
  ASSUME NEW S, NEW q \in Seq(S), NEW e, \E i \in 1 .. Len(q) : q[i] = e
  PROVE  \E k \in 1 .. Len(q) : Events!RemoveFirst(q, e) = Events!RemoveAt(q, k)
<1>. DEFINE I == {i \in 1 .. Len(q) : q[i] = e}
<1>1. I \subseteq Nat /\ I # {} /\ I \subseteq 1 .. Len(q)
  OBVIOUS
<1>2. \E x \in I : \A y \in I : x <= y
  BY <1>1, LeastElement
<1>3. Events!Min(I) \in I
  BY <1>2 DEF Events!Min
<1>4. Events!RemoveFirst(q, e) = Events!RemoveAt(q, Events!Min(I))
  BY <1>1 DEF Events!RemoveFirst, Events!SelectInSeq
<1>. QED  BY <1>1, <1>3, <1>4

LEMMA RemoveFirstKeeps ==
  ASSUME NEW S, NEW q \in Seq(S), NEW e
  PROVE  /\ Events!RemoveFirst(q, e) \in Seq(S)
         /\ Len(Events!RemoveFirst(q, e)) <= Len(q)
         /\ Events!ToSet(Events!RemoveFirst(q, e)) \subseteq Events!ToSet(q)
<1>1. CASE ~ \E i \in 1 .. Len(q) : q[i] = e
  BY <1>1 DEF Events!RemoveFirst
<1>2. CASE \E i \in 1 .. Len(q) : q[i] = e
  <2>1. PICK k \in 1 .. Len(q) : Events!RemoveFirst(q, e) = Events!RemoveAt(q, k)
    BY <1>2, RemoveFirstRemovesOne
  <2>. DEFINE a == SubSeq(q, 1, k - 1)
              b == SubSeq(q, k + 1, Len(q))
  <2>2. Events!RemoveFirst(q, e) = a \o b
    BY <2>1 DEF Events!RemoveAt
  <2>3. /\ a \in Seq(S) /\ Len(a) = k - 1 /\ \A i \in 1 .. k - 1 : a[i] = q[i]
        /\ b \in Seq(S) /\ Len(b) = Len(q) - k /\ \A i \in 1 .. Len(q) - k : b[i] = q[k + i]
    BY <2>1
  <2>. HIDE DEF a, b
  <2>4. a \o b \in Seq(S) /\ Len(a \o b) = Len(a) + Len(b)
    BY <2>3, ConcatProperties
  <2>5. ASSUME NEW i \in 1 .. Len(a \o b) PROVE \E j \in 1 .. Len(q) : (a \o b)[i] = q[j]
    <3>1. CASE i <= Len(a)
      BY <2>1, <2>3, <3>1
    <3>2. CASE i > Len(a)
      <4>1. (a \o b)[i] = b[i - Len(a)]
        BY <2>3, <2>4, <3>2
      <4>2. i - Len(a) \in 1 .. Len(q) - k
        BY <2>1, <2>3, <2>4, <3>2
      <4>3. b[i - Len(a)] = q[k + (i - Len(a))] /\ k + (i - Len(a)) \in 1 .. Len(q)
        BY <2>1, <2>3, <4>2
      <4>. QED  BY <4>1, <4>3
    <3>. QED  BY <2>3, <2>4, <3>1, <3>2
  <2>6. Events!ToSet(a \o b) \subseteq Events!ToSet(q)
    BY <2>4, <2>5 DEF Events!ToSet
  <2>. QED  BY <2>1, <2>2, <2>3, <2>4, <2>6
<1>. QED  BY <1>1, <1>2

-----------------------------------------------------------------------------
(* Health events                                                           *)

EventsTypes ==
  /\ subscribers \in Seq(Callers) /\ Len(subscribers) <= MaxSubscriptions
  /\ channels \in [Callers -> Seq(Events!Events)]
  /\ \A s \in Callers : Len(channels[s]) <= Capacity
  /\ shutChannels \subseteq Callers /\ skipped \subseteq Callers
  /\ published \in [Publishers -> 0 .. MaxEvents]
  /\ at \in [Publishers -> 0 .. Len(subscribers)]
  /\ \A p \in Publishers : at[p] # 0 => published[p] # 0
  /\ seen \in [Callers -> [Publishers -> 0 .. MaxEvents]]
  /\ loopPanicked \in BOOLEAN

\* Nobody has an event that is not published yet.
NotAhead(s) ==
  /\ \A p \in Publishers : seen[s][p] <= published[p]
  /\ \A i \in DOMAIN channels[s] : channels[s][i].no <= published[channels[s][i].by]

\* Has the n-th event of p been offered to s?  The last is, when the loop has passed s.
Offered(s, p, n) ==
  n < published[p] \/ at[p] = 0 \/ \E i \in 1 .. at[p] - 1 : subscribers[i] = s

Complete(s) ==
  \A p \in Publishers : \A n \in 1 .. published[p] : Offered(s, p, n) => Events!Has(s, p, n)

Reached(s) ==
  /\ Events!InOrder(s)
  /\ NotAhead(s)
  /\ s \notin skipped /\ ~loopPanicked => Complete(s)

EventsInv == EventsTypes /\ \A s \in Events!ToSet(subscribers) : Reached(s)

LEMMA EventsInit == Events!Init => EventsInv
<1>. SUFFICES ASSUME Events!Init PROVE EventsInv
  OBVIOUS
<1>1. Events!ToSet(subscribers) = {}
  BY DEF Events!Init, Events!ToSet
<1>2. <<>> \in Seq(Events!Events) /\ subscribers \in Seq(Callers) /\ Len(subscribers) = 0
      /\ \A s \in Callers : Len(channels[s]) = 0
  BY DEF Events!Init
<1>3. EventsTypes
  <2>1. channels \in [Callers -> Seq(Events!Events)] /\ seen \in [Callers -> [Publishers -> 0 .. MaxEvents]]
    BY <1>2, ComponentsAssumption DEF Events!Init
  <2>2. at \in [Publishers -> 0 .. Len(subscribers)] /\ published \in [Publishers -> 0 .. MaxEvents]
    BY <1>2, ComponentsAssumption DEF Events!Init
  <2>3. Len(subscribers) <= MaxSubscriptions /\ \A s \in Callers : Len(channels[s]) <= Capacity
    BY <1>2, ComponentsAssumption
  <2>. QED  BY <1>2, <2>1, <2>2, <2>3 DEF Events!Init, EventsTypes
<1>. QED  BY <1>1, <1>3 DEF EventsInv

LEMMA EnrolledAreCallers ==
  ASSUME EventsTypes
  PROVE  /\ Events!ToSet(subscribers) \subseteq Callers
         /\ Len(subscribers) \in Nat
         /\ \A s \in Events!ToSet(subscribers) : \E i \in 1 .. Len(subscribers) : subscribers[i] = s
<1>1. Len(subscribers) \in Nat /\ DOMAIN subscribers = 1 .. Len(subscribers)
  BY DEF EventsTypes
<1>. QED  BY <1>1 DEF EventsTypes, Events!ToSet

\* What is in a channel.
LEMMA ChannelFacts ==
  ASSUME EventsTypes, NEW s \in Callers
  PROVE  /\ channels[s] \in Seq(Events!Events) /\ Len(channels[s]) \in Nat
         /\ DOMAIN channels[s] = 1 .. Len(channels[s])
         /\ \A i \in DOMAIN channels[s] :
              channels[s][i] \in Events!Events /\ channels[s][i].by \in Publishers
              /\ channels[s][i].no \in 1 .. MaxEvents
         /\ \A p \in Publishers : seen[s][p] \in Nat /\ published[p] \in Nat
         /\ MaxEvents \in Nat
<1>1. channels[s] \in Seq(Events!Events) /\ Len(channels[s]) \in Nat
      /\ DOMAIN channels[s] = 1 .. Len(channels[s])
  BY DEF EventsTypes
<1>2. \A i \in DOMAIN channels[s] : channels[s][i] \in Events!Events
  BY <1>1
<1>3. \A i \in DOMAIN channels[s] :
        channels[s][i].by \in Publishers /\ channels[s][i].no \in 1 .. MaxEvents
  BY <1>2 DEF Events!Events
<1>4. MaxEvents \in Nat /\ \A p \in Publishers : seen[s][p] \in Nat /\ published[p] \in Nat
  BY ComponentsAssumption DEF EventsTypes
<1>. QED  BY <1>1, <1>2, <1>3, <1>4

\* A step that touches nothing of a subscriber.
LEMMA OthersReached ==
  ASSUME NEW r \in Callers, Reached(r),
         channels'[r] = channels[r], seen'[r] = seen[r], UNCHANGED published,
         r \notin skipped' /\ ~loopPanicked' => r \notin skipped /\ ~loopPanicked,
         \A p \in Publishers : \A n \in 1 .. published[p] : Offered(r, p, n)' => Offered(r, p, n)
  PROVE  Reached(r)'
<1>1. Events!InOrder(r)' /\ NotAhead(r)'
  BY DEF Reached, Events!InOrder, NotAhead
<1>2. \A p \in Publishers : \A n \in 1 .. published[p] : Events!Has(r, p, n) => Events!Has(r, p, n)'
  BY DEF Events!Has
<1>3. ASSUME r \notin skipped', ~loopPanicked' PROVE Complete(r)'
  BY <1>2, <1>3 DEF Reached, Complete
<1>. QED  BY <1>1, <1>3 DEF Reached

LEMMA EventsSubscribe ==
  ASSUME EventsInv, NEW s \in Callers, Events!Subscribe(s)
  PROVE  EventsInv'
<1>. USE DEF EventsInv
<1>1. Events!ToSet(subscribers)' = Events!ToSet(subscribers) \cup {s}
  <2>1. subscribers \in Seq(Callers) /\ subscribers' = Append(subscribers, s)
    BY DEF Events!Subscribe, EventsTypes
  <2>2. Len(subscribers') = Len(subscribers) + 1 /\ subscribers'[Len(subscribers) + 1] = s
        /\ \A i \in 1 .. Len(subscribers) : subscribers'[i] = subscribers[i]
        /\ Len(subscribers) \in Nat /\ DOMAIN subscribers = 1 .. Len(subscribers)
        /\ DOMAIN subscribers' = 1 .. Len(subscribers) + 1
    BY <2>1
  <2>. QED  BY <2>2 DEF Events!ToSet
<1>2. /\ UNCHANGED <<channels, shutChannels, published, at, loopPanicked>>
      /\ channels[s] = <<>> /\ \A p \in Publishers : at[p] = 0
  BY DEF Events!Subscribe, Events!Unread
<1>3. EventsTypes'
  <2>1. /\ subscribers' \in Seq(Callers) /\ Len(subscribers') = Len(subscribers) + 1
        /\ Len(subscribers) \in Nat
    BY DEF Events!Subscribe, EventsTypes
  <2>2. seen' \in [Callers -> [Publishers -> 0 .. MaxEvents]] /\ skipped' \subseteq Callers
    BY DEF Events!Subscribe, EventsTypes
  <2>3. Len(subscribers') <= MaxSubscriptions
    BY <2>1, ComponentsAssumption DEF Events!Subscribe
  <2>4. at' \in [Publishers -> 0 .. Len(subscribers')]
    BY <1>2, <2>1 DEF EventsTypes
  <2>. QED  BY <1>2, <2>1, <2>2, <2>3, <2>4 DEF EventsTypes
<1>4. ASSUME NEW r \in Events!ToSet(subscribers)
      PROVE  Reached(r)'
  <2>1. r \in Callers /\ seen'[r] = seen[r] /\ (r \in skipped' <=> r \in skipped)
    BY <1>4, EnrolledAreCallers DEF Events!Subscribe, EventsTypes
  <2>2. \A p \in Publishers : \A n \in 1 .. published[p] : Offered(r, p, n)' => Offered(r, p, n)
    BY <1>2 DEF Offered
  <2>. QED  BY <1>2, <1>4, <2>1, <2>2, OthersReached
<1>5. ASSUME s \notin Events!ToSet(subscribers)
      PROVE  Reached(s)'
  <2>1. seen'[s] = published /\ channels'[s] = <<>> /\ published' = published
    BY <1>2, <1>5 DEF Events!Subscribe, EventsTypes
  <2>2. \A p \in Publishers : published[p] \in Nat
    BY ChannelFacts
  <2>3. Events!InOrder(s)' /\ NotAhead(s)'
    BY <2>1, <2>2 DEF Events!InOrder, NotAhead
  <2>4. Complete(s)'
    BY <2>1, <2>2 DEF Complete, Events!Has
  <2>. QED  BY <2>3, <2>4 DEF Reached
<1>. QED  BY <1>1, <1>3, <1>4, <1>5

LEMMA EventsUnsubscribe ==
  ASSUME EventsInv, NEW s \in Callers, Events!Unsubscribe(s)
  PROVE  EventsInv'
<1>. USE DEF EventsInv
<1>1. /\ subscribers' \in Seq(Callers) /\ Len(subscribers') <= Len(subscribers)
      /\ Events!ToSet(subscribers)' \subseteq Events!ToSet(subscribers)
  <2>1. subscribers \in Seq(Callers) /\ subscribers' = Events!RemoveFirst(subscribers, s)
    BY DEF EventsTypes, Events!Unsubscribe
  <2>2. Events!ToSet(subscribers') \subseteq Events!ToSet(subscribers)
    BY <2>1, RemoveFirstKeeps
  <2>. QED  BY <2>1, <2>2, RemoveFirstKeeps
<1>2. /\ UNCHANGED <<channels, shutChannels, published, at, seen, skipped, loopPanicked>>
      /\ \A p \in Publishers : at[p] = 0
  BY DEF Events!Unsubscribe, Events!Unread
<1>3. EventsTypes'
  <2>1. Len(subscribers') \in Nat /\ Len(subscribers) \in Nat
    BY <1>1 DEF EventsTypes
  <2>2. at' \in [Publishers -> 0 .. Len(subscribers')]
    BY <1>2, <2>1 DEF EventsTypes
  <2>. QED  BY <1>1, <1>2, <2>1, <2>2, ComponentsAssumption DEF EventsTypes
<1>4. ASSUME NEW r \in Events!ToSet(subscribers)
      PROVE  Reached(r)'
  <2>1. \A p \in Publishers : \A n \in 1 .. published[p] : Offered(r, p, n)' => Offered(r, p, n)
    BY <1>2 DEF Offered
  <2>2. r \in Callers
    BY EnrolledAreCallers
  <2>. QED  BY <1>2, <2>1, <2>2, OthersReached
<1>. QED  BY <1>1, <1>3, <1>4

\* Until the loop comes to a subscriber the new event has not been offered to it.
LEMMA EventsPublish ==
  ASSUME EventsInv, NEW p \in Publishers, Events!PublishEvent(p)
  PROVE  EventsInv'
<1>. USE DEF EventsInv
<1>1. /\ published[p] \in Nat /\ published[p] + 1 \in 1 .. MaxEvents /\ at[p] = 0 /\ ~loopPanicked
      /\ published' = [published EXCEPT ![p] = published[p] + 1]
      /\ at' = [at EXCEPT ![p] = IF subscribers = <<>> THEN 0 ELSE 1]
      /\ UNCHANGED <<subscribers, channels, shutChannels, seen, skipped, loopPanicked>>
  BY ComponentsAssumption DEF Events!PublishEvent, EventsTypes
<1>2. /\ published' \in [Publishers -> 0 .. MaxEvents]
      /\ published'[p] = published[p] + 1
      /\ \A q \in Publishers : q # p => published'[q] = published[q] /\ at'[q] = at[q]
      /\ \A q \in Publishers : published[q] \in Nat /\ published[q] <= published'[q]
  BY <1>1, ComponentsAssumption DEF EventsTypes
<1>3. EventsTypes'
  <2>1. Len(subscribers) \in Nat /\ (subscribers # <<>> => Len(subscribers) >= 1)
    BY DEF EventsTypes
  <2>2. at' \in [Publishers -> 0 .. Len(subscribers)]
    BY <1>1, <2>1 DEF EventsTypes
  <2>3. \A q \in Publishers : at'[q] # 0 => published'[q] # 0
    BY <1>1, <1>2 DEF EventsTypes
  <2>. QED  BY <1>1, <1>2, <2>2, <2>3 DEF EventsTypes
<1>4. ASSUME NEW s \in Events!ToSet(subscribers)
      PROVE  Reached(s)'
  <2>1. s \in Callers /\ subscribers # <<>> /\ at'[p] = 1
    <3>1. s \in Callers /\ \E i \in 1 .. Len(subscribers) : subscribers[i] = s
      BY EnrolledAreCallers
    <3>2. subscribers # <<>>
      BY <3>1
    <3>. QED  BY <1>1, <3>1, <3>2 DEF EventsTypes
  <2>2. Events!InOrder(s)'
    BY <1>1, <1>4 DEF Reached, Events!InOrder
  <2>3. NotAhead(s)'
    BY <1>1, <1>2, <2>1, <1>4, ChannelFacts DEF Reached, NotAhead
  <2>4. ASSUME s \notin skipped', ~loopPanicked' PROVE Complete(s)'
    <3>1. ASSUME NEW q \in Publishers, NEW n \in 1 .. published'[q], Offered(s, q, n)'
          PROVE  Events!Has(s, q, n)
      <4>1. n \in 1 .. published[q] /\ Offered(s, q, n)
        <5>1. CASE q = p
          BY <1>1, <1>2, <2>1, <3>1, <5>1 DEF Offered
        <5>2. CASE q # p
          BY <1>1, <1>2, <3>1, <5>2 DEF Offered
        <5>. QED  BY <5>1, <5>2
      <4>. QED  BY <1>1, <1>4, <2>4, <4>1 DEF Reached, Complete
    <3>2. \A q \in Publishers : \A n \in 1 .. published'[q] : Events!Has(s, q, n)' <=> Events!Has(s, q, n)
      BY <1>1 DEF Events!Has
    <3>. QED  BY <3>1, <3>2 DEF Complete
  <2>. QED  BY <2>2, <2>3, <2>4 DEF Reached
<1>. QED  BY <1>1, <1>3, <1>4

\* A subscriber takes the first event of its channel: it is the last it has seen of its
\* publisher.
LEMMA EventsReceive ==
  ASSUME EventsInv, NEW s \in Callers, Events!Receive(s)
  PROVE  EventsInv'
<1>. USE DEF EventsInv
<1>. DEFINE c == channels[s]
            h == channels[s][1]
<1>1. /\ c \in Seq(Events!Events) /\ Len(c) \in Nat /\ Len(c) > 0 /\ Head(c) = h
      /\ Tail(c) \in Seq(Events!Events) /\ Len(Tail(c)) = Len(c) - 1
      /\ \A i \in 1 .. Len(c) - 1 : Tail(c)[i] = c[i + 1]
      /\ DOMAIN c = 1 .. Len(c) /\ DOMAIN Tail(c) = 1 .. Len(c) - 1
  <2>1. c \in Seq(Events!Events) /\ c # <<>>
    BY DEF Events!Receive, EventsTypes
  <2>. HIDE DEF c
  <2>2. Len(c) \in Nat /\ Len(c) > 0 /\ Head(c) = c[1]
    BY <2>1
  <2>3. /\ Tail(c) \in Seq(Events!Events) /\ Len(Tail(c)) = Len(c) - 1
        /\ \A i \in 1 .. Len(c) - 1 : Tail(c)[i] = c[i + 1]
    BY <2>1, <2>2
  <2>. QED  BY <2>1, <2>2, <2>3 DEF c
<1>2. /\ h.by \in Publishers /\ h.no \in 1 .. MaxEvents
      /\ UNCHANGED <<subscribers, shutChannels, published, at, skipped, loopPanicked>>
      /\ channels' = [channels EXCEPT ![s] = Tail(c)]
      /\ seen' = [seen EXCEPT ![s] = [seen[s] EXCEPT ![h.by] = h.no]]
  <2>1. h.by \in Publishers /\ h.no \in 1 .. MaxEvents
    BY <1>1, ChannelFacts
  <2>2. seen' = [seen EXCEPT ![s][Head(c).by] = Head(c).no]
    BY DEF Events!Receive
  <2>. QED  BY <1>1, <2>1, <2>2 DEF Events!Receive
<1>. HIDE DEF h
<1>3. /\ channels'[s] = Tail(c)
      /\ seen'[s][h.by] = h.no
      /\ \A p \in Publishers : p # h.by => seen'[s][p] = seen[s][p]
      /\ \A r \in Callers : r # s => channels'[r] = channels[r] /\ seen'[r] = seen[r]
  BY <1>2 DEF EventsTypes
<1>4. EventsTypes'
  <2>1. seen' \in [Callers -> [Publishers -> 0 .. MaxEvents]]
    <3>1. h.no \in 0 .. MaxEvents
      BY <1>2, ComponentsAssumption
    <3>2. [seen[s] EXCEPT ![h.by] = h.no] \in [Publishers -> 0 .. MaxEvents]
      BY <3>1 DEF EventsTypes
    <3>. QED  BY <1>2, <3>2 DEF EventsTypes
  <2>2. channels' \in [Callers -> Seq(Events!Events)]
    BY <1>1, <1>2 DEF EventsTypes
  <2>3. Len(c) - 1 <= Capacity
    BY <1>1, ComponentsAssumption DEF EventsTypes
  <2>4. \A r \in Callers : Len(channels'[r]) <= Capacity
    BY <1>1, <1>3, <2>3 DEF EventsTypes
  <2>. QED  BY <1>2, <2>1, <2>2, <2>4 DEF EventsTypes
<1>5. ASSUME s \in Events!ToSet(subscribers)
      PROVE  Reached(s)'
  <2>1. Events!InOrder(s) /\ NotAhead(s)
    BY <1>5 DEF Reached
  <2>2. \A i \in 1 .. Len(c) - 1 :
          /\ i + 1 \in DOMAIN c /\ channels'[s][i] = c[i + 1]
          /\ c[i + 1].by \in Publishers /\ c[i + 1].no \in Nat
    BY <1>1, <1>3, ChannelFacts
  <2>3. 1 \in DOMAIN c /\ DOMAIN channels'[s] = 1 .. Len(c) - 1
    BY <1>1, <1>3
  <2>4. \A i \in DOMAIN c : h.by = c[i].by => h.no <= c[i].no
    <3>1. \A i \in DOMAIN c : 1 < i /\ h.by = c[i].by => h.no <= c[i].no
      BY <2>1, <2>3 DEF Events!InOrder, h
    <3>2. \A i \in DOMAIN c : i = 1 \/ 1 < i
      BY <1>1
    <3>3. h = c[1] /\ h.no <= h.no
      BY <1>2 DEF h
    <3>. QED  BY <3>1, <3>2, <3>3
  <2>5. Events!InOrder(s)'
    <3>1. ASSUME NEW i \in 1 .. Len(c) - 1
          PROVE  seen'[s][channels'[s][i].by] <= channels'[s][i].no
      BY <1>2, <1>3, <2>1, <2>2, <2>4 DEF Events!InOrder
    <3>2. ASSUME NEW i \in 1 .. Len(c) - 1, NEW j \in 1 .. Len(c) - 1, i < j,
                 channels'[s][i].by = channels'[s][j].by
          PROVE  channels'[s][i].no <= channels'[s][j].no
      <4>1. i + 1 < j + 1
        BY <3>2
      <4>. QED  BY <2>1, <2>2, <3>2, <4>1 DEF Events!InOrder
    <3>. QED  BY <2>3, <3>1, <3>2 DEF Events!InOrder
  <2>6. NotAhead(s)'
    <3>1. h.no <= published[h.by]
      BY <2>1, <2>3 DEF NotAhead, h
    <3>2. \A p \in Publishers : seen'[s][p] <= published[p]
      BY <1>3, <2>1, <3>1 DEF NotAhead
    <3>3. \A i \in 1 .. Len(c) - 1 : channels'[s][i].no <= published[channels'[s][i].by]
      BY <2>1, <2>2 DEF NotAhead
    <3>. QED  BY <1>2, <2>3, <3>2, <3>3 DEF NotAhead
  <2>7. ASSUME NEW p \in Publishers, NEW n \in Nat, Events!Has(s, p, n)
        PROVE  Events!Has(s, p, n)'
    <3>1. seen[s][p] <= seen'[s][p] /\ seen[s][p] \in Nat /\ seen'[s][p] \in Nat
      <4>1. seen[s][h.by] <= h.no
        BY <2>1, <2>3 DEF Events!InOrder, h
      <4>2. seen[s][p] \in Nat /\ h.no \in Nat
        BY <1>2, ChannelFacts
      <4>. QED  BY <1>3, <4>1, <4>2
    <3>2. CASE n <= seen[s][p]
      BY <3>1, <3>2 DEF Events!Has
    <3>3. ASSUME NEW i \in DOMAIN c, c[i] = [by |-> p, no |-> n]
          PROVE  Events!Has(s, p, n)'
      <4>1. CASE i = 1
        <5>1. h.by = p /\ h.no = n
          BY <3>3, <4>1 DEF h
        <5>. QED  BY <1>3, <5>1 DEF Events!Has
      <4>2. CASE i # 1
        <5>1. i - 1 \in 1 .. Len(c) - 1 /\ (i - 1) + 1 = i
          BY <1>1, <4>2
        <5>2. channels'[s][i - 1] = [by |-> p, no |-> n]
          BY <2>2, <3>3, <5>1
        <5>. QED  BY <2>3, <5>1, <5>2 DEF Events!Has
      <4>. QED  BY <4>1, <4>2
    <3>. QED  BY <2>7, <3>2, <3>3 DEF Events!Has
  <2>8. ASSUME s \notin skipped', ~loopPanicked' PROVE Complete(s)'
    <3>1. \A p \in Publishers : \A n \in 1 .. published[p] : Offered(s, p, n)' <=> Offered(s, p, n)
      BY <1>2 DEF Offered
    <3>2. Complete(s)
      BY <1>2, <1>5, <2>8 DEF Reached
    <3>3. \A p \in Publishers : \A n \in 1 .. published[p] : n \in Nat
      OBVIOUS
    <3>. QED  BY <1>2, <2>7, <3>1, <3>2, <3>3 DEF Complete
  <2>. QED  BY <2>5, <2>6, <2>8 DEF Reached
<1>6. ASSUME NEW r \in Events!ToSet(subscribers), r # s
      PROVE  Reached(r)'
  <2>1. r \in Callers
    BY EnrolledAreCallers
  <2>2. \A p \in Publishers : \A n \in 1 .. published[p] : Offered(r, p, n)' => Offered(r, p, n)
    BY <1>2 DEF Offered
  <2>. QED  BY <1>2, <1>3, <1>6, <2>1, <2>2, OthersReached
<1>. QED  BY <1>2, <1>4, <1>5, <1>6

\* One turn of a publisher's loop, for the subscriber at its index.
LEMMA EventsSend ==
  ASSUME EventsInv, NEW p \in Publishers, Events!Send(p)
  PROVE  EventsInv'
<1>. USE DEF EventsInv
<1>1. /\ Len(subscribers) \in Nat /\ at[p] \in 1 .. Len(subscribers)
      /\ subscribers[at[p]] \in Callers /\ subscribers[at[p]] \in Events!ToSet(subscribers)
      /\ published[p] \in 1 .. MaxEvents
  <2>1. subscribers \in Seq(Callers) /\ Len(subscribers) \in Nat /\ DOMAIN subscribers = 1 .. Len(subscribers)
    BY DEF EventsTypes
  <2>2. at[p] \in 1 .. Len(subscribers) /\ published[p] \in 1 .. MaxEvents
    BY <2>1, ComponentsAssumption DEF Events!Send, EventsTypes
  <2>3. subscribers[at[p]] \in Events!ToSet(subscribers)
    BY <2>1, <2>2 DEF Events!ToSet
  <2>. QED  BY <2>1, <2>2, <2>3
<1>2. PICK s \in Callers : s = subscribers[at[p]]
  BY <1>1
<1>. DEFINE c == channels[s]
            e == [by |-> p, no |-> published[p]]
            a == Append(c, e)
<1>3. /\ ~loopPanicked /\ UNCHANGED <<subscribers, shutChannels, published, seen>>
      /\ at' = [at EXCEPT ![p] = IF at[p] < Len(subscribers) THEN at[p] + 1 ELSE 0]
      /\ \/ loopPanicked' = TRUE /\ UNCHANGED <<channels, skipped>>
         \/ /\ Len(c) < Capacity /\ UNCHANGED <<skipped, loopPanicked>>
            /\ channels' = [channels EXCEPT ![s] = a]
         \/ skipped' = skipped \cup {s} /\ UNCHANGED <<channels, loopPanicked>>
  BY <1>2 DEF Events!Send, Events!Offer
<1>4. /\ c \in Seq(Events!Events) /\ Len(c) \in Nat /\ DOMAIN c = 1 .. Len(c)
      /\ e \in Events!Events /\ e.by = p /\ e.no = published[p]
      /\ a \in Seq(Events!Events) /\ Len(a) = Len(c) + 1 /\ DOMAIN a = 1 .. Len(c) + 1
      /\ \A i \in 1 .. Len(c) : a[i] = c[i]
      /\ a[Len(c) + 1] = e
  <2>1. c \in Seq(Events!Events) /\ Len(c) \in Nat /\ DOMAIN c = 1 .. Len(c)
    BY ChannelFacts
  <2>2. e \in Events!Events /\ e.by = p /\ e.no = published[p]
    BY <1>1 DEF Events!Events
  <2>. HIDE DEF c, e
  <2>. QED  BY <2>1, <2>2
<1>. HIDE DEF e, a
<1>5. EventsTypes'
  <2>1. channels' \in [Callers -> Seq(Events!Events)] /\ \A r \in Callers : Len(channels'[r]) <= Capacity
    <3>1. CASE UNCHANGED channels
      BY <3>1 DEF EventsTypes
    <3>2. CASE Len(c) < Capacity /\ channels' = [channels EXCEPT ![s] = a]
      <4>1. Len(a) <= Capacity
        BY <1>4, <3>2, ComponentsAssumption
      <4>. QED  BY <1>4, <3>2, <4>1 DEF EventsTypes
    <3>. QED  BY <1>3, <3>1, <3>2
  <2>2. skipped' \subseteq Callers
    BY <1>3 DEF EventsTypes
  <2>3. loopPanicked' \in BOOLEAN
    BY <1>3 DEF EventsTypes
  <2>4. at' \in [Publishers -> 0 .. Len(subscribers)]
    BY <1>1, <1>3 DEF EventsTypes
  <2>5. \A q \in Publishers : at'[q] # 0 => published[q] # 0
    BY <1>1, <1>3 DEF EventsTypes
  <2>. QED  BY <1>3, <2>1, <2>2, <2>3, <2>4, <2>5 DEF EventsTypes
\* The subscriber whose turn it is: it has the event, or has missed it, or the process is gone.
<1>6. Reached(s)'
  <2>1. Reached(s)
    BY <1>1, <1>2
  <2>2. CASE loopPanicked' = TRUE /\ UNCHANGED <<channels, skipped>>
    BY <1>3, <2>1, <2>2 DEF Reached, Events!InOrder, NotAhead
  <2>3. CASE skipped' = skipped \cup {s} /\ UNCHANGED <<channels, loopPanicked>>
    <3>1. s \in skipped'
      BY <2>3
    <3>. QED  BY <1>3, <2>1, <2>3, <3>1 DEF Reached, Events!InOrder, NotAhead
  <2>4. CASE channels' = [channels EXCEPT ![s] = a] /\ UNCHANGED <<skipped, loopPanicked>>
    <3>1. channels'[s] = a /\ seen'[s] = seen[s]
      BY <1>3, <2>4 DEF EventsTypes
    <3>2. /\ Events!InOrder(s) /\ NotAhead(s)
          /\ \A i \in 1 .. Len(c) : c[i].by \in Publishers /\ c[i].no \in Nat
          /\ published[p] \in Nat /\ seen[s][p] \in Nat
      BY <2>1, ChannelFacts DEF Reached
    <3>3. \A i \in 1 .. Len(c) : c[i].by = p => c[i].no <= published[p]
      BY <1>4, <3>2 DEF NotAhead
    <3>4. \A i \in DOMAIN a : i \in 1 .. Len(c) \/ i = Len(c) + 1
      BY <1>4
    <3>5. Events!InOrder(s)'
      <4>1. ASSUME NEW i \in DOMAIN a PROVE seen[s][a[i].by] <= a[i].no
        BY <1>4, <3>2, <3>4 DEF Events!InOrder, NotAhead
      <4>2. ASSUME NEW i \in DOMAIN a, NEW j \in DOMAIN a, i < j, a[i].by = a[j].by
            PROVE  a[i].no <= a[j].no
        <5>1. i \in 1 .. Len(c)
          BY <1>4, <4>2
        <5>2. CASE j \in 1 .. Len(c)
          BY <1>4, <3>2, <4>2, <5>1, <5>2 DEF Events!InOrder
        <5>3. CASE j = Len(c) + 1
          BY <1>4, <3>3, <4>2, <5>1, <5>3
        <5>. QED  BY <3>4, <5>2, <5>3
      <4>. QED  BY <3>1, <4>1, <4>2 DEF Events!InOrder
    <3>6. NotAhead(s)'
      <4>1. ASSUME NEW i \in DOMAIN a PROVE a[i].no <= published[a[i].by]
        BY <1>4, <3>2, <3>4 DEF NotAhead
      <4>. QED  BY <1>3, <3>1, <3>2, <4>1 DEF NotAhead
    <3>7. ASSUME NEW q \in Publishers, NEW n \in Nat, Events!Has(s, q, n)
          PROVE  Events!Has(s, q, n)'
      BY <1>4, <3>1, <3>7 DEF Events!Has
    <3>8. Events!Has(s, p, published[p])'
      <4>1. Len(c) + 1 \in DOMAIN a /\ a[Len(c) + 1] = [by |-> p, no |-> published[p]]
        BY <1>4 DEF e
      <4>2. channels'[s][Len(c) + 1] = [by |-> p, no |-> published'[p]] /\ Len(c) + 1 \in DOMAIN channels'[s]
        BY <1>3, <3>1, <4>1
      <4>. QED  BY <4>2 DEF Events!Has
    <3>9. ASSUME s \notin skipped', ~loopPanicked' PROVE Complete(s)'
      <4>. SUFFICES ASSUME NEW q \in Publishers, NEW n \in 1 .. published[q], Offered(s, q, n)'
                    PROVE  Events!Has(s, q, n)'
        BY <1>3 DEF Complete
      <4>1. CASE q = p /\ n = published[p]
        <5>1. published'[p] = published[p]
          BY <1>3
        <5>. QED  BY <3>8, <4>1, <5>1
      <4>2. CASE q = p /\ n # published[p]
        <5>1. Offered(s, q, n)
          BY <3>2, <4>2 DEF Offered
        <5>. QED  BY <2>1, <2>4, <3>7, <3>9, <5>1 DEF Reached, Complete
      <4>3. CASE q # p
        <5>1. Offered(s, q, n)
          BY <1>3, <4>3 DEF Offered, EventsTypes
        <5>. QED  BY <2>1, <2>4, <3>7, <3>9, <5>1 DEF Reached, Complete
      <4>. QED  BY <4>1, <4>2, <4>3
    <3>. QED  BY <3>5, <3>6, <3>9 DEF Reached
  <2>. QED  BY <1>3, <2>2, <2>3, <2>4
\* The others: the loop does not pass them in this turn.
<1>7. ASSUME NEW r \in Events!ToSet(subscribers), r # s
      PROVE  Reached(r)'
  <2>1. r \in Callers /\ \E i \in 1 .. Len(subscribers) : subscribers[i] = r
    BY EnrolledAreCallers
  <2>2. channels'[r] = channels[r] /\ (r \notin skipped' => r \notin skipped)
    BY <1>3, <1>7, <2>1 DEF EventsTypes
  <2>3. ASSUME NEW q \in Publishers, NEW n \in 1 .. published[q], Offered(r, q, n)'
        PROVE  Offered(r, q, n)
    <3>1. CASE q # p
      BY <1>3, <2>3, <3>1 DEF Offered, EventsTypes
    <3>2. CASE q = p /\ at[p] < Len(subscribers)
      <4>1. at'[p] = at[p] + 1 /\ at[p] \in Nat
        BY <1>1, <1>3, <3>2 DEF EventsTypes
      <4>. QED  BY <1>1, <1>2, <1>3, <1>7, <2>3, <3>2, <4>1 DEF Offered
    <3>3. CASE q = p /\ at[p] = Len(subscribers)
      <4>1. PICK i \in 1 .. Len(subscribers) : subscribers[i] = r
        BY <2>1
      <4>2. i # at[p] /\ i \in 1 .. at[p] - 1
        BY <1>1, <1>2, <1>7, <3>3, <4>1
      <4>. QED  BY <3>3, <4>1, <4>2 DEF Offered
    <3>. QED  BY <1>1, <3>1, <3>2, <3>3
  <2>. QED  BY <1>3, <1>7, <2>1, <2>2, <2>3, OthersReached
<1>. QED  BY <1>2, <1>3, <1>5, <1>6, <1>7

LEMMA EventsNext == EventsInv /\ [Events!Next]_(Events!vars) => EventsInv'
<1>. SUFFICES ASSUME EventsInv, [Events!Next]_(Events!vars) PROVE EventsInv'
  OBVIOUS
<1>1. CASE UNCHANGED <<subscribers, channels, published, at, seen, skipped, loopPanicked>>
           /\ shutChannels' \subseteq Callers
  <2>1. EventsTypes'
    BY <1>1 DEF EventsInv, EventsTypes
  <2>2. ASSUME NEW r \in Events!ToSet(subscribers) PROVE Reached(r)'
    <3>1. r \in Callers /\ Reached(r)
      BY EnrolledAreCallers DEF EventsInv
    <3>2. \A p \in Publishers : \A n \in 1 .. published[p] : Offered(r, p, n)' => Offered(r, p, n)
      BY <1>1 DEF Offered
    <3>. QED  BY <1>1, <3>1, <3>2, OthersReached
  <2>. QED  BY <1>1, <2>1, <2>2 DEF EventsInv
<1>2. CASE UNCHANGED Events!vars
  BY <1>1, <1>2 DEF Events!vars, EventsInv, EventsTypes
<1>3. CASE \E s \in Callers : Events!CloseChannel(s)
  BY <1>1, <1>3 DEF Events!CloseChannel, EventsInv, EventsTypes
<1>. QED  BY <1>2, <1>3, EventsSubscribe, EventsUnsubscribe, EventsPublish, EventsReceive, EventsSend
          DEF Events!Next

LEMMA EventsInvariance == Events!Spec => []EventsInv
BY EventsInit, EventsNext, PTL DEF Events!Spec

\* However many publish at once, and whoever subscribes, unsubscribes or is full meanwhile, a
\* subscriber gets the events of each publisher in order and, as long as its own channel was
\* never full, each of them, up to the last.
THEOREM SubscribersGetEvents == Events!Spec => []EventsReachSubscribers
<1>1. EventsInv => EventsReachSubscribers
  BY DEF EventsInv, Reached, Complete, Offered, EventsReachSubscribers, Events!EventsReachSubscribers
<1>. QED  BY <1>1, EventsInvariance, PTL

\* A publisher panics at an entry of the list, which nobody changes after that.
LEMMA EventsPanics ==
  EventsInv /\ Events!PanicNeedsClosedChannel /\ [Events!Next]_(Events!vars)
    => Events!PanicNeedsClosedChannel'
<1>. SUFFICES ASSUME EventsInv, Events!PanicNeedsClosedChannel, [Events!Next]_(Events!vars)
              PROVE  Events!PanicNeedsClosedChannel'
  OBVIOUS
<1>. USE DEF Events!PanicNeedsClosedChannel, Events!ToSet
<1>1. CASE UNCHANGED Events!vars
  BY <1>1 DEF Events!vars
<1>2. CASE \E p \in Publishers : Events!PublishEvent(p)
  BY <1>2 DEF Events!PublishEvent
<1>3. CASE \E p \in Publishers : Events!Send(p)
  <2>1. PICK p \in Publishers : Events!Send(p)
    BY <1>3
  <2>2. at[p] \in 1 .. Len(subscribers) /\ DOMAIN subscribers = 1 .. Len(subscribers)
    BY <2>1 DEF Events!Send, EventsInv, EventsTypes
  <2>. QED  BY <2>1, <2>2 DEF Events!Send, Events!Offer
<1>4. CASE \E s \in Callers :
             Events!Subscribe(s) \/ Events!Unsubscribe(s) \/ Events!Receive(s) \/ Events!CloseChannel(s)
  BY <1>4 DEF Events!Subscribe, Events!Unsubscribe, Events!Receive, Events!CloseChannel
<1>. QED  BY <1>1, <1>2, <1>3, <1>4 DEF Events!Next

-----------------------------------------------------------------------------
(* Side by side                                                            *)

\* A step of one component leaves the others alone.
LEMMA StepsApart ==
  [MCNext]_all =>
    /\ [Next]_vars /\ [Manager!Next]_(Manager!vars) /\ [Pool!Next]_(Pool!vars)
    /\ [Metrics!Next]_(Metrics!vars) /\ [Loader!Next]_(Loader!vars) /\ [Events!Next]_(Events!vars)
<1>. SUFFICES ASSUME [MCNext]_all
              PROVE  /\ [Next]_vars /\ [Manager!Next]_(Manager!vars) /\ [Pool!Next]_(Pool!vars)
                     /\ [Metrics!Next]_(Metrics!vars) /\ [Loader!Next]_(Loader!vars)
                     /\ [Events!Next]_(Events!vars)
  OBVIOUS
<1>1. Next \/ UNCHANGED vars
  BY DEF MCNext, all
<1>2. Manager!Next \/ UNCHANGED manager
  BY DEF MCNext, all
<1>3. Pool!Next \/ UNCHANGED pool
  BY DEF MCNext, all
<1>4. Metrics!Next \/ UNCHANGED metrics
  BY DEF MCNext, all
<1>5. Loader!Next \/ UNCHANGED loader
  BY DEF MCNext, all
<1>6. Events!Next \/ UNCHANGED health
  BY DEF MCNext, all
<1>7. UNCHANGED manager => UNCHANGED Manager!vars
  BY DEF manager, offers, started, Manager!vars, Manager!run, Manager!renewal, Manager!shake
<1>8. UNCHANGED pool => UNCHANGED Pool!vars
  BY DEF pool, Pool!vars, Pool!caller, Pool!stats
<1>9. UNCHANGED metrics => UNCHANGED Metrics!vars
  BY DEF metrics, Metrics!vars
<1>10. UNCHANGED loader => UNCHANGED Loader!vars
  BY DEF loader, Loader!vars
<1>11. UNCHANGED health => UNCHANGED Events!vars
  BY DEF health, Events!vars
<1>. QED  BY <1>1, <1>2, <1>3, <1>4, <1>5, <1>6, <1>7, <1>8, <1>9, <1>10, <1>11

\* So the invariant of each is one of all.
LEMMA AllInvariance ==
  MCInit /\ [][MCNext]_all =>
    [](IInv /\ ManagerInv /\ PoolInv /\ MetricsInv /\ LoaderInv /\ EventsInv
       /\ Events!PanicNeedsClosedChannel)
<1>1. MCInit => IInv /\ ManagerInv /\ PoolInv /\ MetricsInv /\ LoaderInv /\ EventsInv
  BY InitIInv, ManagerInit, PoolInit, MetricsInit, LoaderInit, EventsInit DEF MCInit
<1>2. MCInit => Events!PanicNeedsClosedChannel
  BY DEF MCInit, Events!Init, Events!PanicNeedsClosedChannel
<1>. QED  BY <1>1, <1>2, StepsApart, NextIInv, ManagerNext, PoolNext, MetricsNext, LoaderNext,
             EventsNext, EventsPanics, PTL

\* All variables keep their types.
THEOREM AllTypesCorrect == MCInit /\ [][MCNext]_all => []TypesOK
<1>1. PoolInv => Pool!TypeOK
  <2>. SUFFICES ASSUME PoolInv PROVE Pool!TypeOK
    OBVIOUS
  <2>1. active \in 0 .. Pool!Cardinality(Callers)
    BY PoolSetsFinite, SameCardinality DEF PoolInv, PoolTypes, CountsCreations
  <2>2. /\ reading \in BOOLEAN /\ raced \in BOOLEAN
        /\ total \in 0 .. Pool!Cardinality(Hosts)
        /\ idle \in (0 - Pool!Cardinality(Callers)) .. Pool!Cardinality(Hosts)
    BY SameCardinality DEF PoolInv, StatsAgree
  <2>. QED  BY <2>1, <2>2 DEF PoolInv, PoolTypes, Pool!TypeOK
<1>2. MetricsInv => Metrics!TypeOK
  BY ComponentsAssumption DEF MetricsInv, MetricsTypes, Metrics!TypeOK, Metrics!Ids, Metrics!Nil
<1>3. EventsInv => Events!TypeOK
  BY ComponentsAssumption DEF EventsInv, EventsTypes, Events!TypeOK
<1>4. IInv => TypeOK
  BY DEF IInv
<1>5. ManagerInv /\ LoaderInv => Manager!TypeOK /\ Loader!TypeOK
  BY DEF ManagerInv, LoaderInv
<1>. QED  BY <1>1, <1>2, <1>3, <1>4, <1>5, AllInvariance, PTL DEF TypesOK

\* Each of the four panics needs its one situation: a manager started again after its Stop,
\* a metrics server stopped before its goroutine ran, a watch whose context has ended, and a
\* subscriber that closed its channel.
THEOREM PanicsAreExplained == MCInit /\ [][MCNext]_all => []PanicsExplained
<1>1. ManagerInv => Manager!PanicNeedsRestart
  BY DEF ManagerInv, ManagerLifecycle, Manager!PanicNeedsRestart
<1>2. MetricsInv => Metrics!PanicNeedsHastyStop
  BY DEF MetricsInv, LooksInTime, Metrics!PanicNeedsHastyStop
<1>3. LoaderInv => Loader!PanicNeedsCancel
  BY DEF LoaderInv, ClosedByCancel, Loader!PanicNeedsCancel
<1>. QED  BY <1>1, <1>2, <1>3, AllInvariance, PTL DEF PanicsExplained
=============================================================================
