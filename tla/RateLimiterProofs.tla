-------------------------- MODULE RateLimiterProofs --------------------------
(***************************************************************************)
(* Types, and that no key is admitted more than its bucket and the workers *)
(* caught by a removal allow: of either limiter, for any number of         *)
(* workers, clients and tokens.                                            *)
(***************************************************************************)
EXTENDS RateLimiter, FiniteSetTheorems, TLAPS

\* A worker has a bucket from getLimiter until allow or stats lets it go.
HoldsWhileUsing == \A s \in Workers : held[s] # NoBucket <=> step[s] \in {"hold", "reserved"}

\* The bucket of a key is no other's, be it in the map or in the hands of a worker.
OneOwner ==
  /\ \A j, k \in Clients : limiters[j] = limiters[k] /\ limiters[k] # NoBucket => j = k
  /\ \A s \in Workers, k \in Clients : held[s] = limiters[k] /\ limiters[k] # NoBucket => key[s] = k

\* What a key can still take from the map: of the bucket there, or of the next one, ...
Available(k) ==
  IF limiters[k] = NoBucket THEN Burst
  ELSE IF Tokens(limiters[k]) < 0 THEN 0 ELSE Tokens(limiters[k])

\* ... and beside the map: the workers about to call allow of a bucket that was removed.
Strays(k) ==
  {s \in Workers : /\ call[s] = "Allow" /\ step[s] = "hold" /\ key[s] = k
                   /\ held[s] \in Buckets \ {limiters[k]}}

CreditCovers == \A k \in Clients : credit[k] >= Available(k) + Cardinality(Strays(k))

LimiterInv == LimiterTypeOK /\ HoldsWhileUsing /\ OneOwner /\ CreditCovers

-----------------------------------------------------------------------------
(* Sets of workers and of buckets                                          *)

LEMMA BucketNumbers ==
  /\ Cardinality(Clients) \in Nat /\ Cardinality(Workers) \in Nat
  /\ IsFiniteSet(Buckets)
  /\ Cardinality(Buckets) = Cardinality(Clients) + Cardinality(Workers)
<1>1. Cardinality(Clients) \in Nat /\ Cardinality(Workers) \in Nat
  BY LimiterAssumption, FS_CardinalityType
<1>. DEFINE n == Cardinality(Clients) + Cardinality(Workers)
<1>2. n \in Nat /\ Buckets = 1 .. n
  BY <1>1 DEF Buckets
<1>. HIDE DEF n
<1>3. IsFiniteSet(1 .. n) /\ Cardinality(1 .. n) = IF 1 > n THEN 0 ELSE n - 1 + 1
  BY <1>2, FS_Interval
<1>4. Cardinality(1 .. n) = n
  BY <1>2, <1>3
<1>. QED  BY <1>1, <1>2, <1>3, <1>4 DEF n

LEMMA SomeWorkers ==
  ASSUME NEW A, NEW B, B \subseteq Workers, A \subseteq B
  PROVE  /\ IsFiniteSet(A) /\ IsFiniteSet(B)
         /\ Cardinality(A) \in Nat /\ Cardinality(B) \in Nat
         /\ Cardinality(A) <= Cardinality(B)
<1>1. IsFiniteSet(B)
  BY LimiterAssumption, FS_Subset
<1>2. IsFiniteSet(A) /\ Cardinality(A) <= Cardinality(B)
  BY <1>1, FS_Subset
<1>. QED  BY <1>1, <1>2, FS_CardinalityType

LEMMA RangeIsSmall ==
  ASSUME NEW S, IsFiniteSet(S), NEW f, f = [x \in S |-> f[x]]
  PROVE  IsFiniteSet(Range(f)) /\ Cardinality(Range(f)) <= Cardinality(S)
<1>1. f \in Surjection(S, Range(f))
  BY DEF Surjection, Range
<1>. QED  BY <1>1, FS_Surjection

\* There is a bucket for a key that has none: the other keys and the workers have fewer.
LEMMA BucketToSpare ==
  ASSUME LimiterTypeOK, NEW k \in Clients, limiters[k] = NoBucket
  PROVE  \E b \in Buckets : b \notin Range(limiters) \cup Range(held)
<1>. DEFINE U == Range(limiters) \cup Range(held)
            c == Cardinality(Clients)
            w == Cardinality(Workers)
<1>1. /\ IsFiniteSet(Range(limiters)) /\ Cardinality(Range(limiters)) <= c
      /\ IsFiniteSet(Range(held)) /\ Cardinality(Range(held)) <= w
  BY LimiterAssumption, RangeIsSmall DEF LimiterTypeOK
<1>2. /\ Cardinality(Range(limiters)) \in Nat /\ Cardinality(Range(held)) \in Nat
      /\ IsFiniteSet(U) /\ Cardinality(U) \in Nat
      /\ IsFiniteSet(Range(limiters) \cap Range(held))
      /\ Cardinality(Range(limiters) \cap Range(held)) \in Nat
  BY <1>1, FS_CardinalityType, FS_Union, FS_Subset
<1>3. Cardinality(U) <= c + w
  <2>1. Cardinality(U) = Cardinality(Range(limiters)) + Cardinality(Range(held))
                         - Cardinality(Range(limiters) \cap Range(held))
    BY <1>1, FS_Union
  <2>. HIDE DEF U
  <2>. QED  BY <1>1, <1>2, <2>1, BucketNumbers
<1>4. NoBucket \in U
  <2>1. k \in DOMAIN limiters /\ limiters[k] = NoBucket
    BY DEF LimiterTypeOK
  <2>. QED  BY <2>1 DEF Range
<1>. HIDE DEF U
<1>5. IsFiniteSet(U \ {NoBucket}) /\ Cardinality(U \ {NoBucket}) = Cardinality(U) - 1
  BY <1>2, <1>4, FS_RemoveElement
<1>6. ~ (Buckets \subseteq U \ {NoBucket})
  <2>. SUFFICES ASSUME Buckets \subseteq U \ {NoBucket} PROVE FALSE
    OBVIOUS
  <2>1. Cardinality(Buckets) <= Cardinality(U \ {NoBucket})
    BY <1>5, FS_Subset
  <2>. QED  BY <1>2, <1>3, <1>5, <2>1, BucketNumbers
<1>. QED  BY <1>6, NoBucketAssumption DEF U

LEMMA Least2 ==
  ASSUME NEW m \in Int, NEW n \in Int
  PROVE  Least(m, n) \in {m, n} /\ Least(m, n) <= m /\ Least(m, n) <= n
BY DEF Least

LEMMA TokensFacts ==
  ASSUME LimiterTypeOK, NEW b \in Buckets
  PROVE  /\ bucket[b].tokens \in -MaxDebt .. Burst /\ bucket[b].elapsed \in 0 .. Idle
         /\ Tokens(b) \in -MaxDebt .. Burst
         /\ bucket[b].tokens <= Tokens(b)
<1>1. bucket[b].tokens \in -MaxDebt .. Burst /\ bucket[b].elapsed \in 0 .. Idle
  BY DEF LimiterTypeOK
<1>. QED  BY <1>1, LimiterAssumption DEF Tokens, Least, Idle

CreditTypes ==
  \A k \in Clients :
    /\ credit[k] \in Int
    /\ Available(k) \in 0 .. Burst
    /\ Strays(k) \subseteq Workers
    /\ IsFiniteSet(Strays(k)) /\ Cardinality(Strays(k)) \in Nat

LEMMA CreditFacts == LimiterTypeOK => CreditTypes
<1>. SUFFICES ASSUME LimiterTypeOK, NEW k \in Clients
              PROVE  /\ credit[k] \in Int
                     /\ Available(k) \in 0 .. Burst
                     /\ Strays(k) \subseteq Workers
                     /\ IsFiniteSet(Strays(k)) /\ Cardinality(Strays(k)) \in Nat
  BY DEF CreditTypes
<1>1. Strays(k) \subseteq Workers
  BY DEF Strays
<1>2. Available(k) \in 0 .. Burst
  <2>1. CASE limiters[k] = NoBucket
    BY <2>1, LimiterAssumption DEF Available
  <2>2. CASE limiters[k] # NoBucket
    <3>1. limiters[k] \in Buckets
      BY <2>2 DEF LimiterTypeOK
    <3>2. Tokens(limiters[k]) \in -MaxDebt .. Burst
      BY <3>1, TokensFacts
    <3>. QED  BY <2>2, <3>2, LimiterAssumption DEF Available
  <2>. QED  BY <2>1, <2>2
<1>. QED  BY <1>1, <1>2, SomeWorkers DEF LimiterTypeOK

LEMMA CreditFactsAfter == LimiterTypeOK' => CreditTypes'
BY CreditFacts, PTL

-----------------------------------------------------------------------------
(* The steps                                                               *)

LEMMA LimiterInitInv == LimiterInit => LimiterInv
<1>. SUFFICES ASSUME LimiterInit PROVE LimiterInv
  OBVIOUS
<1>. USE LimiterAssumption DEF LimiterInit
<1>1. LimiterTypeOK
  <2>1. bucket \in [Buckets -> [tokens : -MaxDebt .. Burst, elapsed : 0 .. Idle]]
    <3>1. newSimpleLimiter \in [tokens : -MaxDebt .. Burst, elapsed : 0 .. Idle]
      BY DEF newSimpleLimiter, Idle
    <3>. QED  BY <3>1
  <2>2. credit \in [Clients -> Int]
    OBVIOUS
  <2>. QED  BY <2>1, <2>2 DEF LimiterTypeOK
<1>2. HoldsWhileUsing /\ OneOwner
  BY DEF HoldsWhileUsing, OneOwner
<1>3. CreditCovers
  <2>1. ASSUME NEW k \in Clients PROVE Strays(k) = {} /\ Available(k) = Burst
    BY DEF Strays, Available
  <2>. QED  BY <2>1, FS_EmptySet DEF CreditCovers
<1>. QED  BY <1>1, <1>2, <1>3 DEF LimiterInv

\* A key keeps its credit if no more can be taken, ...
LEMMA CreditLasts ==
  ASSUME LimiterTypeOK, LimiterTypeOK', NEW k \in Clients,
         credit[k] >= Available(k) + Cardinality(Strays(k)),
         credit'[k] >= credit[k], Available(k)' <= Available(k), Strays(k)' \subseteq Strays(k)
  PROVE  credit'[k] >= Available(k)' + Cardinality(Strays(k)')
<1>1. /\ Cardinality(Strays(k)') <= Cardinality(Strays(k))
      /\ Cardinality(Strays(k)') \in Nat /\ Cardinality(Strays(k)) \in Nat
  BY CreditFacts, SomeWorkers DEF CreditTypes
<1>2. Available(k) \in Int /\ credit[k] \in Int
  BY CreditFacts DEF CreditTypes
<1>3. Available(k)' \in Int /\ credit'[k] \in Int
  BY CreditFactsAfter DEF CreditTypes
<1>. QED  BY <1>1, <1>2, <1>3

\* ... as it is when neither the buckets in the map nor the credit change.
LEMMA CreditStays ==
  ASSUME LimiterInv, LimiterTypeOK', UNCHANGED <<limiters, credit>>,
         \A k \in Clients : limiters[k] # NoBucket => bucket'[limiters[k]] = bucket[limiters[k]],
         \A k \in Clients : Strays(k)' \subseteq Strays(k)
  PROVE  CreditCovers'
<1>. SUFFICES ASSUME NEW k \in Clients
              PROVE  credit'[k] >= Available(k)' + Cardinality(Strays(k)')
  BY DEF CreditCovers
<1>1. Available(k)' = Available(k) /\ Available(k) \in Int /\ credit[k] \in Int
  BY CreditFacts DEF LimiterInv, CreditTypes, Available, Tokens
<1>. QED  BY <1>1, CreditLasts DEF LimiterInv, CreditCovers

BucketStates == [tokens : -MaxDebt .. Burst, elapsed : 0 .. Idle]

LEMMA CollectFacts ==
  ASSUME NEW f \in [Buckets -> BucketStates], NEW ls, NEW hs
  PROVE  /\ Collect(f, ls, hs) \in [Buckets -> BucketStates]
         /\ \A b \in Buckets : b \in Range(ls) => Collect(f, ls, hs)[b] = f[b]
<1>1. newSimpleLimiter \in BucketStates
  BY LimiterAssumption DEF newSimpleLimiter, BucketStates, Idle
<1>. QED  BY <1>1 DEF Collect

LEMMA InTheMap ==
  ASSUME LimiterTypeOK, NEW k \in Clients, limiters[k] # NoBucket
  PROVE  limiters[k] \in Buckets /\ limiters[k] \in Range(limiters)
BY DEF LimiterTypeOK, Range

\* Steps that take no bucket and none away.
LEMMA CallsKeep ==
  ASSUME LimiterInv, NEW s \in Workers,
         ContextDone(s) \/ Done(s) \/ \E k \in Clients : Called(s, k)
  PROVE  LimiterInv'
<1>. USE DEF LimiterInv, ContextDone, Done, Called
<1>1. UNCHANGED <<kind, limiters, bucket, held, credit>>
  OBVIOUS
<1>2. LimiterTypeOK'
  <2>1. /\ call' \in [Workers -> {"none", "Allow", "Stats"}] /\ key' \in [Workers -> Clients]
        /\ step' \in [Workers -> {"idle", "lookup", "create", "hold", "reserved", "done"}]
    <3>1. CASE ContextDone(s)
      BY <3>1 DEF LimiterTypeOK
    <3>2. CASE Done(s)
      BY <3>2 DEF LimiterTypeOK
    <3>3. CASE \E k \in Clients : Called(s, k)
      BY <3>3 DEF LimiterTypeOK
    <3>. QED  BY <3>1, <3>2, <3>3
  <2>. QED  BY <1>1, <2>1 DEF LimiterTypeOK
<1>3. /\ \A t \in Workers : t # s => call'[t] = call[t] /\ step'[t] = step[t] /\ key'[t] = key[t]
      /\ step[s] \notin {"hold", "reserved"} /\ step'[s] \notin {"hold", "reserved"}
      /\ held[s] = NoBucket
  BY DEF LimiterTypeOK, HoldsWhileUsing
<1>4. HoldsWhileUsing' /\ OneOwner'
  BY <1>1, <1>3 DEF HoldsWhileUsing, OneOwner
<1>5. \A k \in Clients : Strays(k)' \subseteq Strays(k)
  BY <1>1, <1>3 DEF Strays
<1>. QED  BY <1>1, <1>2, <1>4, <1>5, CreditStays

\* The bucket that is in the map.
LEMMA HoldsKeeps ==
  ASSUME LimiterInv, NEW s \in Workers, step[s] \in {"lookup", "create"},
         limiters[key[s]] # NoBucket, Holds(s, limiters[key[s]])
  PROVE  LimiterInv'
<1>. USE DEF LimiterInv, Holds
<1>1. key[s] \in Clients /\ limiters[key[s]] \in Buckets
  BY DEF LimiterTypeOK
<1>2. LimiterTypeOK'
  BY <1>1 DEF LimiterTypeOK
<1>3. /\ \A t \in Workers : t # s => step'[t] = step[t] /\ held'[t] = held[t]
      /\ step'[s] = "hold" /\ held'[s] = limiters[key[s]]
  BY DEF LimiterTypeOK
<1>4. HoldsWhileUsing' /\ OneOwner'
  BY <1>1, <1>3 DEF HoldsWhileUsing, OneOwner
<1>5. \A k \in Clients : Strays(k)' \subseteq Strays(k)
  BY <1>3 DEF Strays
<1>. QED  BY <1>2, <1>4, <1>5, CreditStays

\* A new one: it is nobody's yet.
LEMMA MakesKeeps ==
  ASSUME LimiterInv, NEW s \in Workers, step[s] \in {"lookup", "create"},
         limiters[key[s]] = NoBucket, Makes(s)
  PROVE  LimiterInv'
<1>. USE DEF LimiterInv
<1>. DEFINE n == key[s]
<1>1. n \in Clients
  BY DEF LimiterTypeOK
<1>2. PICK b \in Buckets :
        /\ b = CHOOSE c \in Buckets : c \notin Range(limiters) \cup Range(held)
        /\ limiters' = [limiters EXCEPT ![n] = b]
        /\ held'     = [held EXCEPT ![s] = b]
        /\ step'     = [step EXCEPT ![s] = "hold"]
        /\ bucket'   = Collect(bucket, limiters', held')
        /\ UNCHANGED <<kind, call, key, credit>>
  BY DEF Makes
<1>3. b \notin Range(limiters) /\ b \notin Range(held) /\ b # NoBucket
  BY <1>1, <1>2, BucketToSpare, NoBucketAssumption
<1>4. /\ \A k \in Clients : limiters[k] # b
      /\ \A t \in Workers : held[t] # b
  BY <1>3 DEF LimiterTypeOK, Range
<1>5. /\ \A k \in Clients : k # n => limiters'[k] = limiters[k]
      /\ limiters'[n] = b
      /\ \A t \in Workers : t # s => step'[t] = step[t] /\ held'[t] = held[t]
      /\ step'[s] = "hold" /\ held'[s] = b
  BY <1>1, <1>2 DEF LimiterTypeOK
<1>6. bucket \in [Buckets -> BucketStates]
  BY DEF LimiterTypeOK, BucketStates
<1>7. LimiterTypeOK'
  <2>1. bucket' \in [Buckets -> BucketStates]
    BY <1>2, <1>6, CollectFacts
  <2>. QED  BY <1>1, <1>2, <2>1 DEF LimiterTypeOK, BucketStates
<1>8. HoldsWhileUsing'
  BY <1>3, <1>5 DEF HoldsWhileUsing
<1>9. OneOwner'
  <2>1. ASSUME NEW j \in Clients, NEW k \in Clients, limiters'[j] = limiters'[k], limiters'[k] # NoBucket
        PROVE  j = k
    BY <1>4, <1>5, <2>1 DEF OneOwner
  <2>2. ASSUME NEW t \in Workers, NEW k \in Clients, held'[t] = limiters'[k], limiters'[k] # NoBucket
        PROVE  key'[t] = k
    BY <1>2, <1>4, <1>5, <2>2 DEF OneOwner
  <2>. QED  BY <2>1, <2>2 DEF OneOwner
<1>10. ASSUME NEW k \in Clients
       PROVE  credit'[k] >= Available(k)' + Cardinality(Strays(k)')
  <2>1. Available(k)' <= Available(k)
    <3>1. CASE k = n
      BY <1>7, <3>1, CreditFactsAfter DEF CreditTypes, Available
    <3>2. CASE k # n /\ limiters[k] = NoBucket
      BY <1>5, <3>2, LimiterAssumption DEF Available
    <3>3. CASE k # n /\ limiters[k] # NoBucket
      <4>1. limiters'[k] = limiters[k] /\ limiters[k] \in Buckets /\ limiters'[k] \in Range(limiters')
        BY <1>5, <1>7, <3>3 DEF LimiterTypeOK, Range
      <4>2. bucket'[limiters[k]] = bucket[limiters[k]]
        BY <1>2, <1>6, <4>1, CollectFacts
      <4>3. Available(k)' = Available(k)
        BY <4>1, <4>2 DEF Available, Tokens
      <4>. QED  BY <4>3, CreditFacts DEF CreditTypes
    <3>. QED  BY <3>1, <3>2, <3>3
  <2>2. ASSUME NEW t \in Strays(k)' PROVE t \in Strays(k)
    <3>1. t \in Workers /\ call[t] = "Allow" /\ step'[t] = "hold" /\ key[t] = k
          /\ held'[t] \in Buckets /\ held'[t] # limiters'[k]
      BY <1>2, <2>2 DEF Strays
    <3>2. t # s
      BY <1>5, <3>1
    <3>3. held[t] \in Buckets \ {limiters[k]}
      BY <1>5, <3>1, <3>2, NoBucketAssumption
    <3>. QED  BY <1>5, <3>1, <3>2, <3>3 DEF Strays
  <2>3. credit'[k] >= credit[k]
    BY <1>2, CreditFacts DEF CreditTypes
  <2>. QED  BY <1>7, <2>1, <2>2, <2>3, CreditLasts DEF CreditCovers
<1>. QED  BY <1>7, <1>8, <1>9, <1>10 DEF CreditCovers

LEMMA GetsKeep ==
  ASSUME LimiterInv, NEW s \in Workers, getLimiter(s) \/ Create(s)
  PROVE  LimiterInv'
<1>1. CASE step[s] = "lookup" /\ limiters[key[s]] = NoBucket /\ step' = [step EXCEPT ![s] = "create"]
           /\ UNCHANGED <<kind, limiters, bucket, call, key, held, credit>>
  <2>1. LimiterTypeOK'
    BY <1>1 DEF LimiterInv, LimiterTypeOK
  <2>2. /\ \A t \in Workers : t # s => step'[t] = step[t]
        /\ step'[s] = "create"
    BY <1>1 DEF LimiterInv, LimiterTypeOK
  <2>3. HoldsWhileUsing' /\ OneOwner'
    BY <1>1, <2>2 DEF LimiterInv, HoldsWhileUsing, OneOwner
  <2>4. \A k \in Clients : Strays(k)' \subseteq Strays(k)
    BY <1>1, <2>2 DEF Strays
  <2>. QED  BY <1>1, <2>1, <2>3, <2>4, CreditStays DEF LimiterInv
<1>. QED  BY <1>1, HoldsKeeps, MakesKeeps DEF getLimiter, Create

\* Letting a bucket go: nobody else's tokens change.
LEMMA LeavesFacts ==
  ASSUME LimiterInv, NEW s \in Workers, step[s] \in {"hold", "reserved"},
         NEW n \in -MaxDebt .. Burst, LeavesBucket(s, n), limiters' = limiters
  PROVE  /\ bucket' \in [Buckets -> BucketStates]
         /\ held' = [held EXCEPT ![s] = NoBucket]
         /\ \A k \in Clients : limiters[k] # NoBucket /\ limiters[k] # held[s] =>
                                Available(k)' = Available(k)
         /\ \A k \in Clients : limiters[k] # NoBucket /\ limiters[k] = held[s] =>
                                Available(k)' = IF n < 0 THEN 0 ELSE n
<1>. USE DEF LimiterInv
<1>. DEFINE f == [bucket EXCEPT ![held[s]] = [tokens |-> n, elapsed |-> 0]]
<1>1. held[s] \in Buckets
  BY DEF LimiterTypeOK, HoldsWhileUsing
<1>2. [tokens |-> n, elapsed |-> 0] \in BucketStates
  BY LimiterAssumption DEF BucketStates, Idle
<1>3. f \in [Buckets -> BucketStates] /\ f[held[s]] = [tokens |-> n, elapsed |-> 0]
      /\ \A b \in Buckets : b # held[s] => f[b] = bucket[b]
  BY <1>1, <1>2 DEF LimiterTypeOK, BucketStates
<1>4. bucket' = Collect(f, limiters, held') /\ held' = [held EXCEPT ![s] = NoBucket]
  BY DEF LeavesBucket
<1>. HIDE DEF f
<1>5. bucket' \in [Buckets -> BucketStates]
  BY <1>3, <1>4, CollectFacts
<1>6. ASSUME NEW k \in Clients, limiters[k] # NoBucket
      PROVE  bucket'[limiters[k]] = f[limiters[k]] /\ limiters[k] \in Buckets
  BY <1>3, <1>4, <1>6, CollectFacts, InTheMap
<1>7. ASSUME NEW k \in Clients, limiters[k] # NoBucket, limiters[k] # held[s]
      PROVE  Available(k)' = Available(k)
  <2>1. bucket'[limiters[k]] = bucket[limiters[k]]
    BY <1>3, <1>6, <1>7
  <2>. QED  BY <2>1 DEF Available, Tokens
<1>8. ASSUME NEW k \in Clients, limiters[k] # NoBucket, limiters[k] = held[s]
      PROVE  Available(k)' = IF n < 0 THEN 0 ELSE n
  <2>1. bucket'[limiters[k]] = [tokens |-> n, elapsed |-> 0]
    BY <1>3, <1>6, <1>8
  <2>2. Tokens(limiters[k])' = Least(n + 0, Burst)
    BY <2>1 DEF Tokens
  <2>3. Tokens(limiters[k])' = n
    BY <2>2, LimiterAssumption DEF Least
  <2>. QED  BY <1>8, <2>3 DEF Available
<1>. QED  BY <1>4, <1>5, <1>7, <1>8

LEMMA AvailableFacts ==
  ASSUME LimiterTypeOK, NEW k \in Clients, limiters[k] # NoBucket
  PROVE  Available(k) = IF Tokens(limiters[k]) < 0 THEN 0 ELSE Tokens(limiters[k])
BY DEF Available

\* A worker that lets its bucket go, with no more tokens than there were, and admits nothing.
LEMMA LeavesKeeps ==
  ASSUME LimiterInv, NEW s \in Workers, step[s] \in {"hold", "reserved"},
         NEW n \in -MaxDebt .. Burst, LeavesBucket(s, n), n <= Tokens(held[s]) \/ n <= 0,
         call' \in [Workers -> {"none", "Allow", "Stats"}],
         step' = [step EXCEPT ![s] = "lookup"] \/ step' = [step EXCEPT ![s] = "done"],
         \A t \in Workers : t # s => call'[t] = call[t],
         UNCHANGED <<kind, limiters, key, credit>>
  PROVE  LimiterInv'
<1>. USE DEF LimiterInv
<1>1. /\ bucket' \in [Buckets -> BucketStates]
      /\ held' = [held EXCEPT ![s] = NoBucket]
  BY LeavesFacts
<1>2. LimiterTypeOK'
  BY <1>1 DEF LimiterTypeOK, BucketStates
<1>3. /\ \A t \in Workers : t # s => step'[t] = step[t] /\ held'[t] = held[t]
      /\ step'[s] \in {"lookup", "done"} /\ held'[s] = NoBucket
  BY <1>1 DEF LimiterTypeOK
<1>4. HoldsWhileUsing' /\ OneOwner'
  BY <1>3 DEF HoldsWhileUsing, OneOwner
<1>5. ASSUME NEW k \in Clients
      PROVE  credit'[k] >= Available(k)' + Cardinality(Strays(k)')
  <2>1. Strays(k)' \subseteq Strays(k)
    BY <1>3 DEF Strays
  <2>2. Available(k)' <= Available(k)
    <3>. /\ Available(k) \in 0 .. Burst /\ Available(k)' \in 0 .. Burst
      BY <1>2, CreditFacts, CreditFactsAfter DEF CreditTypes
    <3>1. CASE limiters[k] = NoBucket
      BY <3>1 DEF Available
    <3>2. CASE limiters[k] # NoBucket /\ limiters[k] # held[s]
      BY <3>2, LeavesFacts
    <3>3. CASE limiters[k] # NoBucket /\ limiters[k] = held[s]
      <4>1. Available(k)' = IF n < 0 THEN 0 ELSE n
        BY <3>3, LeavesFacts
      <4>2. Available(k) = IF Tokens(held[s]) < 0 THEN 0 ELSE Tokens(held[s])
        BY <3>3, AvailableFacts
      <4>3. Tokens(held[s]) \in Int
        BY <3>3, InTheMap, TokensFacts
      <4>. QED  BY <4>1, <4>2, <4>3
    <3>. QED  BY <3>1, <3>2, <3>3
  <2>. QED  BY <1>2, <2>1, <2>2, CreditLasts, CreditFacts DEF CreditTypes, CreditCovers
<1>. QED  BY <1>2, <1>4, <1>5 DEF CreditCovers

\* A request that is admitted: a token of the bucket in the map, or one stray less.
LEMMA AdmitsKeeps ==
  ASSUME LimiterInv, NEW s \in Workers, call[s] = "Allow", step[s] = "hold",
         Tokens(held[s]) >= 1, LeavesBucket(s, Tokens(held[s]) - 1),
         step' = [step EXCEPT ![s] = "done"], credit' = [credit EXCEPT ![key[s]] = @ - 1],
         UNCHANGED <<kind, limiters, call, key>>
  PROVE  LimiterInv'
<1>. USE DEF LimiterInv
<1>. DEFINE n == Tokens(held[s]) - 1
<1>1. held[s] \in Buckets /\ key[s] \in Clients /\ credit[key[s]] \in Int
  BY DEF LimiterTypeOK, HoldsWhileUsing
<1>2. n \in 0 .. Burst /\ n \in -MaxDebt .. Burst /\ Tokens(held[s]) = n + 1
  BY <1>1, TokensFacts, LimiterAssumption
<1>3. LeavesBucket(s, n)
  OBVIOUS
<1>. HIDE DEF n
<1>4. /\ bucket' \in [Buckets -> BucketStates]
      /\ held' = [held EXCEPT ![s] = NoBucket]
  BY <1>2, <1>3, LeavesFacts
<1>5. LimiterTypeOK'
  <2>1. credit' \in [Clients -> Int]
    BY <1>1 DEF LimiterTypeOK
  <2>. QED  BY <1>4, <2>1 DEF LimiterTypeOK, BucketStates
<1>6. /\ \A t \in Workers : t # s => step'[t] = step[t] /\ held'[t] = held[t]
      /\ step'[s] = "done" /\ held'[s] = NoBucket
  BY <1>4 DEF LimiterTypeOK
<1>7. HoldsWhileUsing' /\ OneOwner'
  BY <1>6 DEF HoldsWhileUsing, OneOwner
<1>8. ASSUME NEW k \in Clients
      PROVE  credit'[k] >= Available(k)' + Cardinality(Strays(k)')
  <2>1. Strays(k)' \subseteq Strays(k) \ {s}
    BY <1>6 DEF Strays
  <2>2. /\ Available(k) \in 0 .. Burst /\ Available(k)' \in 0 .. Burst
        /\ credit[k] \in Int /\ credit[k] >= Available(k) + Cardinality(Strays(k))
        /\ IsFiniteSet(Strays(k)) /\ Cardinality(Strays(k)) \in Nat
        /\ Cardinality(Strays(k)') \in Nat
    BY <1>5, CreditFacts, CreditFactsAfter DEF CreditTypes, CreditCovers
  <2>3. limiters[k] # held[s] => Available(k)' = Available(k)
    <3>1. CASE limiters[k] = NoBucket
      BY <3>1 DEF Available
    <3>2. CASE limiters[k] # NoBucket
      BY <1>2, <1>3, <3>2, LeavesFacts
    <3>. QED  BY <3>1, <3>2
  <2>4. Cardinality(Strays(k)') <= Cardinality(Strays(k) \ {s})
    BY <2>1, <2>2, FS_RemoveElement, FS_Subset
  <2>5. CASE k # key[s]
    <3>1. limiters[k] # held[s] /\ credit'[k] = credit[k]
      BY <1>1, <2>5, NoBucketAssumption DEF OneOwner, LimiterTypeOK
    <3>2. Strays(k) \ {s} \subseteq Strays(k)
      OBVIOUS
    <3>3. Cardinality(Strays(k)') <= Cardinality(Strays(k))
      BY <2>1, <2>2, FS_Subset
    <3>. QED  BY <2>2, <2>3, <3>1, <3>3
  <2>6. CASE k = key[s] /\ limiters[k] = held[s]
    <3>1. credit'[k] = credit[k] - 1
      BY <1>1, <2>6 DEF LimiterTypeOK
    <3>2. Available(k)' = n /\ Available(k) = n + 1
      BY <1>1, <1>2, <1>3, <2>6, LeavesFacts, AvailableFacts, NoBucketAssumption
    <3>3. Cardinality(Strays(k)') <= Cardinality(Strays(k))
      BY <2>1, <2>2, FS_Subset
    <3>. QED  BY <1>2, <2>2, <3>1, <3>2, <3>3
  <2>7. CASE k = key[s] /\ limiters[k] # held[s]
    <3>1. credit'[k] = credit[k] - 1
      BY <1>1, <2>7 DEF LimiterTypeOK
    <3>2. s \in Strays(k)
      BY <1>1, <2>7 DEF Strays
    <3>3. Cardinality(Strays(k) \ {s}) = Cardinality(Strays(k)) - 1
      BY <2>2, <3>2, FS_RemoveElement
    <3>. QED  BY <2>2, <2>3, <2>4, <2>7, <3>1, <3>3
  <2>. QED  BY <2>5, <2>6, <2>7
<1>. QED  BY <1>5, <1>7, <1>8 DEF CreditCovers

LEMMA AllowKeeps ==
  ASSUME LimiterInv, NEW s \in Workers, Allow(s)
  PROVE  LimiterInv'
<1>1. call[s] = "Allow" /\ step[s] = "hold" /\ held[s] \in Buckets
  BY DEF Allow, LimiterInv, LimiterTypeOK, HoldsWhileUsing
<1>2. CASE Tokens(held[s]) >= 1
  <2>1. Tokens(held[s]) \in Int
    BY <1>1, TokensFacts DEF LimiterInv
  <2>. QED  BY <1>1, <1>2, <2>1, AdmitsKeeps DEF Allow
<1>3. CASE ~ (Tokens(held[s]) >= 1)
  <2>1. Tokens(held[s]) \in -MaxDebt .. Burst /\ Tokens(held[s]) <= Tokens(held[s])
    BY <1>1, TokensFacts DEF LimiterInv
  <2>2. /\ LeavesBucket(s, Tokens(held[s]))
        /\ call' = [call EXCEPT ![s] = "Stats"] /\ step' = [step EXCEPT ![s] = "lookup"]
        /\ UNCHANGED <<kind, limiters, key, credit>>
    BY <1>3 DEF Allow
  <2>3. call' \in [Workers -> {"none", "Allow", "Stats"}] /\ \A t \in Workers : t # s => call'[t] = call[t]
    BY <2>2 DEF LimiterInv, LimiterTypeOK
  <2>. QED  BY <1>1, <2>1, <2>2, <2>3, LeavesKeeps
<1>. QED  BY <1>2, <1>3

LEMMA StatsKeeps ==
  ASSUME LimiterInv, NEW s \in Workers, Stats(s)
  PROVE  LimiterInv'
<1>. USE DEF LimiterInv, Stats
<1>1. bucket \in [Buckets -> BucketStates]
  BY DEF LimiterTypeOK, BucketStates
<1>2. bucket' \in [Buckets -> BucketStates]
  BY <1>1, CollectFacts
<1>3. LimiterTypeOK'
  BY <1>2 DEF LimiterTypeOK, BucketStates
<1>4. /\ \A t \in Workers : t # s => step'[t] = step[t] /\ held'[t] = held[t]
      /\ step'[s] = "done" /\ held'[s] = NoBucket
  BY DEF LimiterTypeOK
<1>5. HoldsWhileUsing' /\ OneOwner'
  BY <1>4 DEF HoldsWhileUsing, OneOwner
<1>6. ASSUME NEW k \in Clients, limiters[k] # NoBucket
      PROVE  bucket'[limiters[k]] = bucket[limiters[k]]
  BY <1>1, <1>6, InTheMap, CollectFacts
<1>7. \A k \in Clients : Strays(k)' \subseteq Strays(k)
  BY <1>4 DEF Strays
<1>. QED  BY <1>3, <1>5, <1>6, <1>7, CreditStays

LEMMA ReserveKeeps ==
  ASSUME LimiterInv, NEW s \in Workers, Reserve(s)
  PROVE  LimiterInv'
<1>. USE DEF LimiterInv, Reserve
<1>. DEFINE m == bucket[held[s]].tokens
<1>1. held[s] \in Buckets
  BY DEF LimiterTypeOK, HoldsWhileUsing
<1>2. m \in -MaxDebt .. Burst /\ m - 1 \in -MaxDebt .. Burst
  BY <1>1, TokensFacts, LimiterAssumption
<1>3. bucket' = [bucket EXCEPT ![held[s]] = [tokens |-> m - 1, elapsed |-> bucket[held[s]].elapsed]]
  <2>1. bucket[held[s]] \in BucketStates
    BY <1>1 DEF LimiterTypeOK, BucketStates
  <2>2. [bucket[held[s]] EXCEPT !.tokens = m - 1] = [tokens |-> m - 1, elapsed |-> bucket[held[s]].elapsed]
    BY <2>1 DEF BucketStates
  <2>3. bucket' = [bucket EXCEPT ![held[s]] = [bucket[held[s]] EXCEPT !.tokens = m - 1]]
    OBVIOUS
  <2>. QED  BY <2>2, <2>3
<1>4. LimiterTypeOK'
  BY <1>1, <1>2, <1>3 DEF LimiterTypeOK
<1>5. /\ \A t \in Workers : t # s => step'[t] = step[t]
      /\ step'[s] = "reserved"
  BY DEF LimiterTypeOK
<1>6. HoldsWhileUsing' /\ OneOwner'
  BY <1>5 DEF HoldsWhileUsing, OneOwner
<1>7. ASSUME NEW k \in Clients
      PROVE  credit'[k] >= Available(k)' + Cardinality(Strays(k)')
  <2>1. Strays(k)' \subseteq Strays(k)
    BY <1>5 DEF Strays
  <2>2. Available(k)' <= Available(k)
    <3>1. CASE limiters[k] = NoBucket
      BY <3>1, LimiterAssumption DEF Available
    <3>2. CASE limiters[k] # NoBucket
      <4>. DEFINE b == limiters[k]
      <4>1. b \in Buckets
        BY <3>2, InTheMap
      <4>2. bucket'[b].tokens <= bucket[b].tokens /\ bucket'[b].elapsed = bucket[b].elapsed
            /\ bucket'[b].tokens \in Int /\ bucket[b].tokens \in Int /\ bucket[b].elapsed \in Int
        BY <1>1, <1>2, <1>3, <4>1 DEF LimiterTypeOK, Idle
      <4>3. Least(bucket'[b].tokens + bucket'[b].elapsed, Burst) <= Least(bucket[b].tokens + bucket[b].elapsed, Burst)
            /\ Least(bucket'[b].tokens + bucket'[b].elapsed, Burst) \in Int
            /\ Least(bucket[b].tokens + bucket[b].elapsed, Burst) \in Int
        BY <4>2, LimiterAssumption DEF Least
      <4>. QED  BY <3>2, <4>3 DEF Available, Tokens
    <3>. QED  BY <3>1, <3>2
  <2>. QED  BY <1>4, <2>1, <2>2, CreditLasts, CreditFacts DEF CreditTypes, CreditCovers
<1>. QED  BY <1>4, <1>6, <1>7 DEF CreditCovers

LEMMA CancelKeeps ==
  ASSUME LimiterInv, NEW s \in Workers, Cancel(s)
  PROVE  LimiterInv'
<1>. DEFINE m == bucket[held[s]].tokens
<1>1. step[s] = "reserved" /\ held[s] \in Buckets
  BY DEF Cancel, LimiterInv, LimiterTypeOK, HoldsWhileUsing
<1>2. m \in -MaxDebt .. Burst /\ m <= Tokens(held[s])
  BY <1>1, TokensFacts DEF LimiterInv
<1>3. m < 0 => m + 1 \in -MaxDebt .. Burst /\ m + 1 <= 0
  BY <1>2, LimiterAssumption
<1>4. /\ LeavesBucket(s, m) \/ (m < 0 /\ LeavesBucket(s, m + 1))
      /\ step' = [step EXCEPT ![s] = "done"]
      /\ UNCHANGED <<kind, limiters, call, key, credit>>
  BY DEF Cancel
<1>5. call' \in [Workers -> {"none", "Allow", "Stats"}] /\ \A t \in Workers : t # s => call'[t] = call[t]
  BY <1>4 DEF LimiterInv, LimiterTypeOK
<1>. HIDE DEF m
<1>6. CASE LeavesBucket(s, m)
  BY <1>1, <1>2, <1>4, <1>5, <1>6, LeavesKeeps
<1>7. CASE m < 0 /\ LeavesBucket(s, m + 1)
  <2>1. m + 1 \in -MaxDebt .. Burst /\ (m + 1 <= Tokens(held[s]) \/ m + 1 <= 0)
    BY <1>3, <1>7
  <2>. QED  BY <1>1, <1>4, <1>5, <1>7, <2>1, LeavesKeeps
<1>. QED  BY <1>4, <1>6, <1>7

-----------------------------------------------------------------------------
(* Time and removal                                                        *)

\* A tick brings a token at most.
LEMMA AgedFacts ==
  ASSUME NEW r \in BucketStates
  PROVE  /\ Aged(r) \in BucketStates
         /\ LET before == Least(r.tokens + r.elapsed, Burst)
                after  == Least(Aged(r).tokens + Aged(r).elapsed, Burst)
            IN  before \in Int /\ after \in Int /\ after <= before + 1
<1>. USE LimiterAssumption
<1>. DEFINE t == r.tokens
            e == r.elapsed
<1>1. r = [tokens |-> t, elapsed |-> e] /\ t \in -MaxDebt .. Burst /\ e \in 0 .. Idle
  BY DEF BucketStates
<1>2. Burst \in Nat /\ MaxDebt \in Nat /\ Idle = Burst + 1 /\ Burst >= 1
  BY DEF Idle
<1>3. CASE kind = "simple"
  <2>1. Aged(r) = [tokens |-> t, elapsed |-> Least(e + 1, Idle)]
    BY <1>1, <1>3 DEF Aged
  <2>2. Least(e + 1, Idle) \in 0 .. Idle /\ Least(e + 1, Idle) <= e + 1
    BY <1>1, <1>2 DEF Least
  <2>. HIDE DEF t, e
  <2>. QED  BY <1>1, <1>2, <2>1, <2>2 DEF BucketStates, Least
<1>4. CASE kind # "simple"
  <2>1. Aged(r) = [tokens |-> Least(t + 1, Burst), elapsed |-> e]
    BY <1>1, <1>4 DEF Aged
  <2>2. Least(t + 1, Burst) \in -MaxDebt .. Burst /\ Least(t + 1, Burst) <= t + 1
    BY <1>1, <1>2 DEF Least
  <2>. HIDE DEF t, e
  <2>. QED  BY <1>1, <1>2, <2>1, <2>2 DEF BucketStates, Least
<1>. QED  BY <1>3, <1>4

LEMMA TickKeeps ==
  ASSUME LimiterInv, Tick
  PROVE  LimiterInv'
<1>. USE DEF LimiterInv
<1>. DEFINE f == [b \in Buckets |-> Aged(bucket[b])]
<1>1. \A b \in Buckets : bucket[b] \in BucketStates
  BY DEF LimiterTypeOK, BucketStates
<1>2. f \in [Buckets -> BucketStates] /\ \A b \in Buckets : f[b] = Aged(bucket[b])
  BY <1>1, AgedFacts
<1>3. bucket' = Collect(f, limiters, held) /\ UNCHANGED <<kind, limiters, call, step, key, held>>
  BY DEF Tick, worker
<1>. HIDE DEF f
<1>4. bucket' \in [Buckets -> BucketStates]
  BY <1>2, <1>3, CollectFacts
<1>5. ASSUME NEW k \in Clients
      PROVE  Holders(k, Buckets \ {limiters[k]}) = Cardinality(Strays(k)) /\ Strays(k)' = Strays(k)
  BY <1>3 DEF Holders, Strays
<1>6. ASSUME NEW k \in Clients
      PROVE  credit'[k] = Least(credit[k] + 1, Burst + Cardinality(Strays(k)))
             /\ credit'[k] \in Int
  <2>1. credit'[k] = Least(credit[k] + 1, Burst + Cardinality(Strays(k)))
    BY <1>5 DEF Tick
  <2>2. credit[k] \in Int /\ Cardinality(Strays(k)) \in Nat
    BY CreditFacts DEF CreditTypes
  <2>. QED  BY <2>1, <2>2, LimiterAssumption DEF Least
<1>7. LimiterTypeOK'
  <2>1. DOMAIN credit' = Clients /\ credit' = [k \in Clients |-> credit'[k]]
    BY DEF Tick
  <2>2. credit' \in [Clients -> Int]
    BY <1>6, <2>1
  <2>. QED  BY <1>3, <1>4, <2>2 DEF LimiterTypeOK, BucketStates
<1>8. HoldsWhileUsing' /\ OneOwner'
  BY <1>3 DEF HoldsWhileUsing, OneOwner
<1>9. ASSUME NEW k \in Clients
      PROVE  credit'[k] >= Available(k)' + Cardinality(Strays(k)')
  <2>1. /\ Available(k) \in 0 .. Burst /\ Available(k)' \in 0 .. Burst
        /\ credit[k] \in Int /\ credit[k] >= Available(k) + Cardinality(Strays(k))
        /\ Cardinality(Strays(k)) \in Nat
    BY <1>7, CreditFacts, CreditFactsAfter DEF CreditTypes, CreditCovers
  <2>2. Available(k)' <= Available(k) + 1
    <3>1. CASE limiters[k] = NoBucket
      BY <1>3, <2>1, <3>1 DEF Available
    <3>2. CASE limiters[k] # NoBucket
      <4>. DEFINE b == limiters[k]
      <4>1. b \in Buckets /\ b \in Range(limiters)
        BY <3>2, InTheMap
      <4>2. bucket'[b] = Aged(bucket[b])
        BY <1>2, <1>3, <4>1, CollectFacts
      <4>. DEFINE before == Least(bucket[b].tokens + bucket[b].elapsed, Burst)
                  after  == Least(Aged(bucket[b]).tokens + Aged(bucket[b]).elapsed, Burst)
      <4>3. before \in Int /\ after \in Int /\ after <= before + 1
        BY <1>1, <4>1, AgedFacts
      <4>4. Available(k) = (IF before < 0 THEN 0 ELSE before)
            /\ Available(k)' = (IF after < 0 THEN 0 ELSE after)
        BY <1>3, <3>2, <4>2 DEF Available, Tokens
      <4>. HIDE DEF before, after
      <4>. QED  BY <4>3, <4>4
    <3>. QED  BY <3>1, <3>2
  <2>3. Available(k)' + Cardinality(Strays(k)) <= credit[k] + 1
        /\ Available(k)' + Cardinality(Strays(k)) <= Burst + Cardinality(Strays(k))
    BY <2>1, <2>2, LimiterAssumption
  <2>4. credit'[k] \in {credit[k] + 1, Burst + Cardinality(Strays(k))}
    BY <1>6 DEF Least
  <2>. QED  BY <1>5, <2>1, <2>3, <2>4, LimiterAssumption
<1>. QED  BY <1>7, <1>8, <1>9 DEF CreditCovers

LEMMA HoldersFacts ==
  ASSUME LimiterTypeOK, NEW k \in Clients, NEW B
  PROVE  /\ Holders(k, B) \in Nat
         /\ limiters[k] = NoBucket => Holders(k, Buckets) = Cardinality(Strays(k))
<1>. DEFINE H(C) == {s \in Workers : call[s] = "Allow" /\ step[s] = "hold" /\ key[s] = k /\ held[s] \in C}
<1>1. H(B) \subseteq Workers
  OBVIOUS
<1>2. Holders(k, B) \in Nat
  BY <1>1, SomeWorkers DEF Holders
<1>3. limiters[k] = NoBucket => H(Buckets) = Strays(k)
  BY NoBucketAssumption DEF Strays
<1>. QED  BY <1>2, <1>3 DEF Holders

\* Who holds any bucket of the key is a stray, or holds the one in the map.
LEMMA HoldersSplit ==
  ASSUME LimiterTypeOK, NEW k \in Clients
  PROVE  Holders(k, Buckets) <= Cardinality(Strays(k)) + Holders(k, {limiters[k]})
<1>. DEFINE H(C) == {s \in Workers : call[s] = "Allow" /\ step[s] = "hold" /\ key[s] = k /\ held[s] \in C}
            M == H({limiters[k]})
<1>1. H(Buckets) \subseteq Strays(k) \cup M
  BY DEF Strays
<1>2. IsFiniteSet(Strays(k)) /\ IsFiniteSet(M) /\ Strays(k) \subseteq Workers /\ M \subseteq Workers
      /\ Cardinality(Strays(k)) \in Nat /\ Cardinality(M) \in Nat
  <2>1. M \subseteq Workers
    OBVIOUS
  <2>. QED  BY <2>1, SomeWorkers, CreditFacts DEF CreditTypes
<1>3. Cardinality(H(Buckets)) <= Cardinality(Strays(k) \cup M)
      /\ Cardinality(H(Buckets)) \in Nat /\ Cardinality(Strays(k) \cup M) \in Nat
  BY <1>1, <1>2, SomeWorkers
<1>4. Cardinality(Strays(k) \cup M) <= Cardinality(Strays(k)) + Cardinality(M)
  <2>1. Cardinality(Strays(k) \cup M) = Cardinality(Strays(k)) + Cardinality(M) - Cardinality(Strays(k) \cap M)
    BY <1>2, FS_Union
  <2>2. Cardinality(Strays(k) \cap M) \in Nat
    <3>1. Strays(k) \cap M \subseteq Workers
      BY <1>2
    <3>. QED  BY <3>1, SomeWorkers
  <2>. HIDE DEF M
  <2>. QED  BY <1>2, <2>1, <2>2
<1>5. Holders(k, Buckets) = Cardinality(H(Buckets)) /\ Holders(k, {limiters[k]}) = Cardinality(M)
  BY DEF Holders
<1>. HIDE DEF H, M
<1>. QED  BY <1>2, <1>3, <1>4, <1>5

\* The keys whose buckets go get what may be taken from them besides the new ones.
LEMMA RemovesKeep ==
  ASSUME LimiterInv, NEW K \in SUBSET Clients, NEW rest, Removes(K, rest),
         \A k \in K : rest[k] \in Int /\ rest[k] >= Burst + Holders(k, Buckets)
  PROVE  LimiterInv'
<1>. USE DEF LimiterInv
<1>1. /\ UNCHANGED <<kind, call, step, key, held>>
      /\ \A k \in Clients : limiters'[k] = IF k \in K THEN NoBucket ELSE limiters[k]
      /\ \A k \in Clients : credit'[k] = IF k \in K THEN rest[k] ELSE credit[k]
      /\ bucket' = Collect(bucket, limiters', held)
      /\ limiters' \in [Clients -> Buckets \cup {NoBucket}]
      /\ credit' \in [Clients -> Int]
  BY DEF Removes, worker, LimiterTypeOK
<1>2. bucket \in [Buckets -> BucketStates]
  BY DEF LimiterTypeOK, BucketStates
<1>3. bucket' \in [Buckets -> BucketStates]
  BY <1>1, <1>2, CollectFacts
<1>4. LimiterTypeOK'
  BY <1>1, <1>3 DEF LimiterTypeOK, BucketStates
<1>5. HoldsWhileUsing' /\ OneOwner'
  BY <1>1 DEF HoldsWhileUsing, OneOwner
<1>6. ASSUME NEW k \in Clients
      PROVE  credit'[k] >= Available(k)' + Cardinality(Strays(k)')
  <2>1. CASE k \in K
    <3>1. limiters'[k] = NoBucket /\ credit'[k] = rest[k] /\ Available(k)' = Burst
      BY <1>1, <2>1 DEF Available
    <3>2. Holders(k, Buckets) = Cardinality(Strays(k)')
      <4>1. Strays(k)' = {s \in Workers : call[s] = "Allow" /\ step[s] = "hold" /\ key[s] = k
                                          /\ held[s] \in Buckets}
        BY <1>1, <3>1, NoBucketAssumption DEF Strays
      <4>. QED  BY <4>1 DEF Holders
    <3>. QED  BY <2>1, <3>1, <3>2
  <2>2. CASE k \notin K
    <3>1. limiters'[k] = limiters[k] /\ credit'[k] = credit[k]
      BY <1>1, <2>2
    <3>2. Strays(k)' = Strays(k)
      BY <1>1, <3>1 DEF Strays
    <3>3. Available(k)' = Available(k)
      <4>1. CASE limiters[k] = NoBucket
        BY <3>1, <4>1 DEF Available
      <4>2. CASE limiters[k] # NoBucket
        <5>1. limiters[k] \in Buckets /\ limiters[k] \in Range(limiters')
          BY <1>4, <3>1, <4>2 DEF LimiterTypeOK, Range
        <5>2. bucket'[limiters[k]] = bucket[limiters[k]]
          BY <1>1, <1>2, <5>1, CollectFacts
        <5>. QED  BY <3>1, <5>2 DEF Available, Tokens
      <4>. QED  BY <4>1, <4>2
    <3>. QED  BY <3>1, <3>2, <3>3 DEF CreditCovers
  <2>. QED  BY <2>1, <2>2
<1>. QED  BY <1>4, <1>5, <1>6 DEF CreditCovers

LEMMA ResetKeeps ==
  ASSUME LimiterInv, NEW k \in Clients, Reset(k)
  PROVE  LimiterInv'
<1>. DEFINE rest == [j \in Clients |-> Burst + Holders(j, Buckets)]
<1>1. Removes({k}, rest) /\ {k} \in SUBSET Clients
  BY DEF Reset
<1>2. rest[k] \in Int /\ rest[k] >= Burst + Holders(k, Buckets)
  BY HoldersFacts, LimiterAssumption DEF LimiterInv
<1>. HIDE DEF rest
<1>. QED  BY <1>1, <1>2, RemovesKeep

\* The cleanup takes full buckets only.
LEMMA CleanupKeeps ==
  ASSUME LimiterInv, Cleanup
  PROVE  LimiterInv'
<1>. USE DEF LimiterInv
<1>. DEFINE K    == {k \in Clients : limiters[k] # NoBucket /\ isIdle(limiters[k])}
            rest == [k \in Clients |-> credit[k] + Holders(k, {limiters[k]})]
<1>1. Removes(K, rest) /\ K \in SUBSET Clients
  BY DEF Cleanup
<1>2. ASSUME NEW k \in K
      PROVE  rest[k] \in Int /\ rest[k] >= Burst + Holders(k, Buckets)
  <2>1. k \in Clients /\ limiters[k] \in Buckets /\ limiters[k] # NoBucket /\ isIdle(limiters[k])
    BY InTheMap
  <2>2. Tokens(limiters[k]) >= Burst /\ Tokens(limiters[k]) \in Int
    BY <2>1, TokensFacts, LimiterAssumption DEF isIdle
  <2>3. Available(k) >= Burst
    BY <2>1, <2>2, LimiterAssumption DEF Available
  <2>4. /\ credit[k] >= Available(k) + Cardinality(Strays(k)) /\ credit[k] \in Int
        /\ Available(k) \in Int /\ Cardinality(Strays(k)) \in Nat
    BY <2>1, CreditFacts DEF CreditTypes, CreditCovers
  <2>5. /\ Holders(k, {limiters[k]}) \in Nat /\ Holders(k, Buckets) \in Nat
        /\ Holders(k, Buckets) <= Cardinality(Strays(k)) + Holders(k, {limiters[k]})
    BY <2>1, HoldersFacts, HoldersSplit
  <2>6. rest[k] = credit[k] + Holders(k, {limiters[k]})
    BY <2>1
  <2>. HIDE DEF rest, K
  <2>. QED  BY <2>3, <2>4, <2>5, <2>6, LimiterAssumption
<1>. HIDE DEF rest, K
<1>. QED  BY <1>1, <1>2, RemovesKeep

-----------------------------------------------------------------------------

LEMMA LimiterNextInv == LimiterInv /\ [LimiterNext]_lvars => LimiterInv'
<1>. SUFFICES ASSUME LimiterInv, [LimiterNext]_lvars PROVE LimiterInv'
  OBVIOUS
<1>1. CASE UNCHANGED lvars
  BY <1>1 DEF lvars, worker, LimiterInv, LimiterTypeOK, HoldsWhileUsing, OneOwner, CreditCovers,
              Available, Tokens, Strays
<1>2. ASSUME NEW s \in Workers, Limits(s) \/ Done(s) \/ \E k \in Clients : Called(s, k)
      PROVE  LimiterInv'
  BY <1>2, CallsKeep, GetsKeep, AllowKeeps, StatsKeeps, ReserveKeeps, CancelKeeps DEF Limits
<1>. QED  BY <1>1, <1>2, TickKeeps, ResetKeeps, CleanupKeeps DEF LimiterNext

LEMMA LimiterInvariance == LimiterSpec => []LimiterInv
BY LimiterInitInv, LimiterNextInv, PTL DEF LimiterSpec

LEMMA LimiterInvAdmits == LimiterInv => NeverOverAdmits
<1>. SUFFICES ASSUME LimiterInv, NEW k \in Clients PROVE credit[k] >= 0
  BY DEF NeverOverAdmits
<1>1. /\ credit[k] >= Available(k) + Cardinality(Strays(k)) /\ credit[k] \in Int
      /\ Available(k) \in 0 .. Burst /\ Cardinality(Strays(k)) \in Nat
  BY CreditFacts DEF LimiterInv, CreditTypes, CreditCovers
<1>. QED  BY <1>1, LimiterAssumption

\* Whatever interleaving of lookups, creations, resets and cleanups, of either limiter: a key is
\* admitted no more than one token bucket allows, and one for each worker whose bucket was
\* removed between getLimiter and allow.
THEOREM NoOverAdmission == LimiterSpec => []NeverOverAdmits
BY LimiterInvAdmits, LimiterInvariance, PTL
==============================================================================
