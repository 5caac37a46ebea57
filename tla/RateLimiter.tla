----------------------------- MODULE RateLimiter -----------------------------
(***************************************************************************)
(* internal/middleware: the two rate limiters, "simple" (providers.go, the *)
(* one that is wired) and "token" (ratelimit.go), which takes its buckets  *)
(* from golang.org/x/time/rate.  Both keep a bucket per key in a map that  *)
(* a periodic cleanup and Reset remove from, and take the bucket out of    *)
(* the map under one lock and its token under another.                     *)
(*                                                                         *)
(* A Tick is the time in which one token comes back.  A worker is a        *)
(* goroutine of net/http: it calls Allow and, if that refuses, Stats.      *)
(***************************************************************************)
EXTENDS Integers, FiniteSets, Functions

CONSTANTS
  Workers,
  Clients,   \* the keys: addresses of clients
  NoBucket,
  Burst,     \* tokens of a full bucket
  MaxDebt    \* bound: tokens that Stats may have reserved and not given back

ASSUME LimiterAssumption ==
  IsFiniteSet(Workers) /\ IsFiniteSet(Clients) /\ Burst \in Nat \ {0} /\ MaxDebt \in Nat

Buckets == 1 .. Cardinality(Clients) + Cardinality(Workers)   \* enough for all that can be reached

ASSUME NoBucketAssumption == NoBucket \notin Buckets

VARIABLES
  kind,      \* "simple" or "token"
  limiters,  \* the map
  bucket,    \* the tokens of a bucket at its last refill, and the time since
  call,      \* the method that each worker is in
  step, key, held,
  credit     \* history: what a token bucket per key would still admit

worker == <<call, step, key, held>>
lvars  == <<kind, limiters, bucket, worker, credit>>

Idle   == Burst + 1   \* elapsed: longer than maxIdleTime
Least(m, n) == IF m < n THEN m ELSE n

LimiterTypeOK ==
  /\ kind \in {"simple", "token"}
  /\ limiters \in [Clients -> Buckets \cup {NoBucket}]
  /\ bucket \in [Buckets -> [tokens : -MaxDebt .. Burst, elapsed : 0 .. Idle]]
  /\ call \in [Workers -> {"none", "Allow", "Stats"}]
  /\ step \in [Workers -> {"idle", "lookup", "create", "hold", "reserved", "done"}]
  /\ key \in [Workers -> Clients] /\ held \in [Workers -> Buckets \cup {NoBucket}]
  /\ credit \in [Clients -> Int]

newSimpleLimiter == [tokens |-> Burst, elapsed |-> 0]

LimiterInit ==
  /\ kind \in {"simple", "token"}
  /\ limiters = [k \in Clients |-> NoBucket]
  /\ bucket   = [b \in Buckets |-> newSimpleLimiter]
  /\ call     = [s \in Workers |-> "none"]
  /\ step     = [s \in Workers |-> "idle"]
  /\ key      \in [Workers -> Clients]
  /\ held     = [s \in Workers |-> NoBucket]
  /\ credit   = [k \in Clients |-> Burst]

\* Garbage collection: what neither the map ls nor a worker of hs refers to is forgotten.
Collect(bs, ls, hs) ==
  [b \in Buckets |-> IF b \in Range(ls) \cup Range(hs) THEN bs[b] ELSE newSimpleLimiter]

Tokens(b) == Least(bucket[b].tokens + bucket[b].elapsed, Burst)

\* Workers between getLimiter and allow, with a bucket of set B.
Holders(k, B) ==
  Cardinality({s \in Workers : call[s] = "Allow" /\ step[s] = "hold" /\ key[s] = k /\ held[s] \in B})

-----------------------------------------------------------------------------
(* A request                                                               *)

Called(s, k) ==
  /\ step[s] = "idle"
  /\ call' = [call EXCEPT ![s] = "Allow"]
  /\ step' = [step EXCEPT ![s] = "lookup"]
  /\ key'  = [key EXCEPT ![s] = k]
  /\ UNCHANGED <<kind, limiters, bucket, held, credit>>

\* The simple limiter refuses a request whose context is done.
ContextDone(s) ==
  /\ kind = "simple" /\ call[s] = "Allow" /\ step[s] = "lookup"
  /\ call' = [call EXCEPT ![s] = "Stats"]
  /\ UNCHANGED <<kind, limiters, bucket, step, key, held, credit>>

Holds(s, b) ==
  /\ step' = [step EXCEPT ![s] = "hold"]
  /\ held' = [held EXCEPT ![s] = b]
  /\ UNCHANGED <<kind, limiters, bucket, call, key, credit>>

Makes(s) ==
  \E b \in Buckets :
    /\ b = CHOOSE c \in Buckets : c \notin Range(limiters) \cup Range(held)
    /\ limiters' = [limiters EXCEPT ![key[s]] = b]
    /\ held'     = [held EXCEPT ![s] = b]
    /\ step'     = [step EXCEPT ![s] = "hold"]
    /\ bucket'   = Collect(bucket, limiters', held')
    /\ UNCHANGED <<kind, call, key, credit>>

\* The simple one looks under the read lock and lets it go to create.
getLimiter(s) ==
  /\ step[s] = "lookup"
  /\ \/ limiters[key[s]] # NoBucket /\ Holds(s, limiters[key[s]])
     \/ limiters[key[s]] = NoBucket /\ kind = "token" /\ Makes(s)
     \/ /\ limiters[key[s]] = NoBucket /\ kind = "simple"
        /\ step' = [step EXCEPT ![s] = "create"]
        /\ UNCHANGED <<kind, limiters, bucket, call, key, held, credit>>

\* Mutation: a bucket that was made meanwhile is replaced.
CreateUnchecked(s) == step[s] = "create" /\ Makes(s)

\* Under the write lock, with the double check.
Create(s) ==
  /\ step[s] = "create"
  /\ IF limiters[key[s]] = NoBucket THEN Makes(s) ELSE Holds(s, limiters[key[s]])

\* Lets the bucket go with the tokens it has left; of the token limiter's the time
\* since the refill is counted at once, by Tick.
LeavesBucket(s, tokens) ==
  /\ held'   = [held EXCEPT ![s] = NoBucket]
  /\ bucket' = Collect([bucket EXCEPT ![held[s]] = [tokens |-> tokens, elapsed |-> 0]], limiters, held')

\* allow, of either limiter.
Allow(s) ==
  LET tokens == Tokens(held[s]) IN
  /\ call[s] = "Allow" /\ step[s] = "hold"
  /\ \/ /\ tokens >= 1
        /\ LeavesBucket(s, tokens - 1)
        /\ step'   = [step EXCEPT ![s] = "done"]
        /\ credit' = [credit EXCEPT ![key[s]] = @ - 1]
        /\ UNCHANGED call
     \/ /\ tokens < 1
        /\ LeavesBucket(s, tokens)
        /\ call' = [call EXCEPT ![s] = "Stats"]
        /\ step' = [step EXCEPT ![s] = "lookup"]
        /\ UNCHANGED credit
  /\ UNCHANGED <<kind, limiters, key>>

\* stats of the simple limiter changes nothing.
Stats(s) ==
  /\ kind = "simple" /\ call[s] = "Stats" /\ step[s] = "hold"
  /\ held'   = [held EXCEPT ![s] = NoBucket]
  /\ bucket' = Collect(bucket, limiters, held')
  /\ step'   = [step EXCEPT ![s] = "done"]
  /\ UNCHANGED <<kind, limiters, call, key, credit>>

\* Stats of the token limiter takes a token to see whether it would have to wait ...
Reserve(s) ==
  /\ kind = "token" /\ call[s] = "Stats" /\ step[s] = "hold"
  /\ bucket[held[s]].tokens > -MaxDebt
  /\ bucket' = [bucket EXCEPT ![held[s]].tokens = @ - 1]
  /\ step'   = [step EXCEPT ![s] = "reserved"]
  /\ UNCHANGED <<kind, limiters, call, key, held, credit>>

\* ... and gives it back, which x/time/rate ignores once the time of the token has come,
\* as it has if the token was there at once, and may if another was reserved since.
Cancel(s) ==
  LET tokens == bucket[held[s]].tokens IN
  /\ step[s] = "reserved"
  /\ \/ LeavesBucket(s, tokens)
     \/ tokens < 0 /\ LeavesBucket(s, tokens + 1)
  /\ step' = [step EXCEPT ![s] = "done"]
  /\ UNCHANGED <<kind, limiters, call, key, credit>>

Done(s) ==
  /\ step[s] = "done"
  /\ call' = [call EXCEPT ![s] = "none"]
  /\ step' = [step EXCEPT ![s] = "idle"]
  /\ UNCHANGED <<kind, limiters, bucket, key, held, credit>>

-----------------------------------------------------------------------------
(* Removal                                                                 *)

Removes(K, rest) ==
  /\ limiters' = [k \in Clients |-> IF k \in K THEN NoBucket ELSE limiters[k]]
  /\ bucket'   = Collect(bucket, limiters', held)
  /\ credit'   = [k \in Clients |-> IF k \in K THEN rest[k] ELSE credit[k]]
  /\ UNCHANGED <<kind, worker>>

\* The key starts anew; the workers that hold a bucket may each still take a token of it.
Reset(k) == Removes({k}, [j \in Clients |-> Burst + Holders(j, Buckets)])

\* Mutation: a bucket may go after a time, and only if it was never drawn from.
isIdleUndrawn(b) == bucket[b].elapsed = Idle /\ bucket[b].tokens >= Burst

\* May the cleanup remove a bucket?  The simple limiter looks at the tokens of the last
\* refill, which are never Burst once a request has been admitted.
isIdle(b) ==
  IF kind = "simple"
  THEN bucket[b].elapsed = Idle /\ bucket[b].tokens >= Burst
  ELSE Tokens(b) >= Burst

\* Cleanup and performCleanup.
Cleanup ==
  Removes({k \in Clients : limiters[k] # NoBucket /\ isIdle(limiters[k])},
          [k \in Clients |-> credit[k] + Holders(k, {limiters[k]})])

-----------------------------------------------------------------------------

\* Mutation: a bucket grows beyond its size.
AgedUncapped(r) == IF kind = "simple" THEN [r EXCEPT !.elapsed = @ + 1] ELSE [r EXCEPT !.tokens = @ + 1]

Aged(r) == IF kind = "simple"
           THEN [r EXCEPT !.elapsed = Least(@ + 1, Idle)]
           ELSE [r EXCEPT !.tokens = Least(@ + 1, Burst)]

Tick ==
  /\ bucket' = Collect([b \in Buckets |-> Aged(bucket[b])], limiters, held)
  /\ credit' = [k \in Clients |->
                  Least(credit[k] + 1, Burst + Holders(k, Buckets \ {limiters[k]}))]
  /\ UNCHANGED <<kind, limiters, worker>>

Limits(s) ==
  ContextDone(s) \/ getLimiter(s) \/ Create(s) \/ Allow(s) \/ Stats(s) \/ Reserve(s) \/ Cancel(s)

LimiterNext ==
  \/ Cleanup \/ Tick
  \/ \E k \in Clients : Reset(k)
  \/ \E s \in Workers : Limits(s) \/ Done(s) \/ \E k \in Clients : Called(s, k)

LimiterSpec == LimiterInit /\ [][LimiterNext]_lvars

-----------------------------------------------------------------------------
(* Properties                                                              *)

\* However lookups, creations, resets and cleanups interleave, a key is admitted no more
\* requests than a single token bucket would admit, and one for each worker whose bucket
\* was removed from the map between getLimiter and allow.
NeverOverAdmits == \A k \in Clients : credit[k] >= 0

\* "performCleanup removes limiters that haven't been used recently." (ratelimit.go
\* l.121): the bucket of a key for which no more requests come is given up.
Reclaimed(k) ==
  <>[](\A s \in Workers : step[s] = "idle" \/ key[s] # k) => <>[](limiters[k] = NoBucket)

\* It is by the cleanup of the token limiter.
MemoryReclaimed == kind = "token" => \A k \in Clients : Reclaimed(k)
=============================================================================
