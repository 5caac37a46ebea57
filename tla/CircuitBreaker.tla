--------------------------- MODULE CircuitBreaker ---------------------------
(***************************************************************************)
(* The circuit breaker of internal/health/circuit.go: a map from target to *)
(* circuit guarded by one RWMutex, and in each circuit a state, two        *)
(* counters and the time of the last failure, guarded by a second RWMutex. *)
(*                                                                         *)
(* Callers run concurrently.  A call looks its circuit up (creating it     *)
(* when the lookup found none), then runs one critical section on it.      *)
(* Every critical section is one step; what matters is what happens        *)
(* between them: two callers creating the same circuit, and the gap in     *)
(* transitionToHalfOpen between RUnlock and Lock.                          *)
(*                                                                         *)
(* A circuit object is named by the caller that allocated it, so that two  *)
(* allocations for one target are two objects.                             *)
(***************************************************************************)
EXTENDS Naturals

CONSTANTS
  Callers,           \* goroutines that call the breaker
  Targets,           \* non-empty target names
  NoCircuit,         \* the nil *circuitState
  FailureThreshold,  \* CircuitBreakerConfig
  SuccessThreshold,
  Timeout,           \* in clock ticks
  MaxRequests,
  CountCap           \* bound: the failure and success counters stop here

ASSUME NoCircuitAssumption == NoCircuit \notin Callers

\* validateCustomRules (config/loader.go) refuses thresholds that are not positive.
ASSUME ThresholdAssumption ==
  /\ FailureThreshold \in Nat \ {0}
  /\ SuccessThreshold \in Nat \ {0}
  /\ Timeout \in Nat
  /\ MaxRequests \in Nat

\* The counters are only ever compared with the thresholds.
ASSUME CountCapAssumption ==
  /\ CountCap \in Nat
  /\ CountCap >= FailureThreshold
  /\ CountCap >= SuccessThreshold

VARIABLES
  circuits,   \* cb.circuits: the published circuit of each target
  heap,       \* heap[t][c]: the circuit object allocated for t by caller c
  pc,         \* where each caller is
  op,         \* the method it is executing
  target,     \* the target of that call, or of the request it has under way
  circuit,    \* its local variable circuit
  grant,      \* the state in which Allow granted the request it has under way
  backendUp   \* environment: does the target answer requests?

locals == <<pc, op, target, circuit, grant>>
vars   == <<circuits, heap, locals, backendUp>>

-----------------------------------------------------------------------------
(* Circuits                                                                *)

CircuitStates == {"closed", "open", "half-open"}

Circuit == [state            : CircuitStates,
            failures         : 0 .. CountCap,
            successes        : 0 .. CountCap,
            age              : 0 .. Timeout,   \* time.Since(lastFailureTime), up to Timeout
            halfOpenRequests : Nat]

\* &circuitState{state: CircuitClosed}: a zero lastFailureTime is long ago.
NewCircuit == [state            |-> "closed",
               failures         |-> 0,
               successes        |-> 0,
               age              |-> Timeout,
               halfOpenRequests |-> 0]

Incremented(n) == IF n < CountCap THEN n + 1 ELSE n

TimeoutElapsed(k) == k.age >= Timeout

\* Mutation: a success leaves the failure count alone.
SuccessKeepingFailures(k) ==
  LET n      == Incremented(k.successes)
      closes == k.state = "half-open" /\ n >= SuccessThreshold
  IN  [k EXCEPT !.state = IF closes THEN "closed" ELSE @, !.successes = n]

\* The critical section of RecordSuccess.
SuccessRecorded(k) ==
  LET n      == Incremented(k.successes)
      closes == k.state = "half-open" /\ n >= SuccessThreshold
  IN  [state            |-> IF closes THEN "closed" ELSE k.state,
       failures         |-> 0,
       successes        |-> n,
       age              |-> k.age,
       halfOpenRequests |-> IF closes THEN 0 ELSE k.halfOpenRequests]

\* Mutation: every failure gives back a half-open slot nobody took.
FailureReleasingSlot(k) ==
  LET n     == Incremented(k.failures)
      opens == k.state # "open" /\ n >= FailureThreshold
  IN  [k EXCEPT !.state = IF opens THEN "open" ELSE @, !.successes = 0, !.failures = n,
                !.age = 0, !.halfOpenRequests = @ - 1]

\* The critical section of RecordFailure.
FailureRecorded(k) ==
  LET n     == Incremented(k.failures)
      opens == \/ k.state = "half-open"
               \/ k.state = "closed" /\ n >= FailureThreshold
  IN  [state            |-> IF opens THEN "open" ELSE k.state,
       failures         |-> n,
       successes        |-> 0,
       age              |-> 0,
       halfOpenRequests |-> IF k.state = "half-open" THEN 0 ELSE k.halfOpenRequests]

\* The critical section of Reset leaves what a new circuit starts with.
ResetDone(k) == NewCircuit

\* Mutation: the lock upgrade trusts the check made under the read lock.
HalfOpenedUnchecked(k) ==
  [k EXCEPT !.state = "half-open", !.halfOpenRequests = 0, !.successes = 0]

\* The write-locked section of transitionToHalfOpen, with its double check.
HalfOpened(k) ==
  IF k.state = "open" /\ TimeoutElapsed(k)
  THEN [state            |-> "half-open",
        failures         |-> k.failures,
        successes        |-> 0,
        age              |-> k.age,
        halfOpenRequests |-> 0]
  ELSE k

\* Mutation: the comparison counts the request that is asking.
HalfOpenAdmitsOneLess(k) == k.halfOpenRequests + 1 < MaxRequests

HalfOpenAdmits(k) == k.halfOpenRequests < MaxRequests

-----------------------------------------------------------------------------
(* Calls                                                                   *)

TypeOK ==
  /\ circuits  \in [Targets -> Callers \cup {NoCircuit}]
  /\ heap      \in [Targets -> [Callers -> Circuit]]
  /\ pc        \in [Callers -> {"idle", "create", "section", "upgrade"}]
  /\ op        \in [Callers -> {"none", "allow", "success", "failure", "reset"}]
  /\ target    \in [Callers -> Targets]
  /\ circuit   \in [Callers -> Callers \cup {NoCircuit}]
  /\ grant     \in [Callers -> CircuitStates \cup {"none"}]
  /\ backendUp \in [Targets -> BOOLEAN]

Init ==
  /\ circuits  = [t \in Targets |-> NoCircuit]
  /\ heap      = [t \in Targets |-> [c \in Callers |-> NewCircuit]]
  /\ pc        = [c \in Callers |-> "idle"]
  /\ op        = [c \in Callers |-> "none"]
  /\ target    \in [Callers -> Targets]
  /\ circuit   = [c \in Callers |-> NoCircuit]
  /\ grant     = [c \in Callers |-> "none"]
  /\ backendUp = [t \in Targets |-> TRUE]

Idle(c) == pc[c] = "idle"

Acquire(c, k, step) ==
  /\ circuit' = [circuit EXCEPT ![c] = k]
  /\ pc'      = [pc EXCEPT ![c] = step]

\* Every method starts with the same read-locked lookup.  (With an empty
\* target it returns before it, and changes nothing.)
Call(c, method, t) ==
  /\ Idle(c)
  /\ op'     = [op EXCEPT ![c] = method]
  /\ target' = [target EXCEPT ![c] = t]
  /\ IF circuits[t] = NoCircuit
     THEN Acquire(c, NoCircuit, "create")
     ELSE Acquire(c, circuits[t], "section")
  /\ UNCHANGED <<circuits, heap, grant, backendUp>>

\* A request asks for admission.
CallAllow(c, t) == grant[c] = "none" /\ Call(c, "allow", t)

\* A request that was admitted reports how the backend answered; so may
\* anyone who probed the backend without asking.
Report(c, t) ==
  /\ grant[c] # "none" => t = target[c]
  /\ Call(c, IF backendUp[t] THEN "success" ELSE "failure", t)

\* An operator resets the circuit; without a circuit Reset returns at once.
CallReset(c, t) ==
  /\ grant[c] = "none"
  /\ circuits[t] # NoCircuit
  /\ Call(c, "reset", t)

\* Mutation: the creator does not look again under the write lock.
CreateUnchecked(c) ==
  /\ pc[c] = "create"
  /\ heap'     = [heap EXCEPT ![target[c]][c] = NewCircuit]
  /\ circuits' = [circuits EXCEPT ![target[c]] = c]
  /\ Acquire(c, c, "section")
  /\ UNCHANGED <<op, target, grant, backendUp>>

\* The write-locked double check of the methods that create their circuit.
Create(c) ==
  /\ pc[c] = "create"
  /\ LET t == target[c] IN
       IF circuits[t] = NoCircuit
       THEN /\ heap'     = [heap EXCEPT ![t][c] = NewCircuit]
            /\ circuits' = [circuits EXCEPT ![t] = c]
            /\ Acquire(c, c, "section")
       ELSE /\ Acquire(c, circuits[t], "section")
            /\ UNCHANGED <<heap, circuits>>
  /\ UNCHANGED <<op, target, grant, backendUp>>

Held(c) == heap[target[c]][circuit[c]]

Return(c, granted) ==
  /\ pc'      = [pc EXCEPT ![c] = "idle"]
  /\ op'      = [op EXCEPT ![c] = "none"]
  /\ circuit' = [circuit EXCEPT ![c] = NoCircuit]
  /\ grant'   = [grant EXCEPT ![c] = granted]
  /\ UNCHANGED <<circuits, target, backendUp>>

\* The read-locked section of Allow.
AllowSection(c) ==
  /\ pc[c] = "section"
  /\ op[c] = "allow"
  /\ UNCHANGED heap
  /\ \/ /\ Held(c).state = "closed"
        /\ Return(c, "closed")
     \/ /\ Held(c).state = "open"
        /\ ~TimeoutElapsed(Held(c))
        /\ Return(c, "none")
     \/ /\ Held(c).state = "open"
        /\ TimeoutElapsed(Held(c))
        /\ pc' = [pc EXCEPT ![c] = "upgrade"]
        /\ UNCHANGED <<circuits, op, target, circuit, grant, backendUp>>
     \/ /\ Held(c).state = "half-open"
        /\ Return(c, IF HalfOpenAdmits(Held(c)) THEN "half-open" ELSE "none")

\* transitionToHalfOpen: whatever its double check finds, Allow returns true.
Upgrade(c) ==
  /\ pc[c] = "upgrade"
  /\ heap' = [heap EXCEPT ![target[c]][circuit[c]] = HalfOpened(@)]
  /\ Return(c, "open")

RecordSuccess(c) ==
  /\ pc[c] = "section"
  /\ op[c] = "success"
  /\ heap' = [heap EXCEPT ![target[c]][circuit[c]] = SuccessRecorded(@)]
  /\ Return(c, "none")

RecordFailure(c) ==
  /\ pc[c] = "section"
  /\ op[c] = "failure"
  /\ heap' = [heap EXCEPT ![target[c]][circuit[c]] = FailureRecorded(@)]
  /\ Return(c, "none")

Reset(c) ==
  /\ pc[c] = "section"
  /\ op[c] = "reset"
  /\ heap' = [heap EXCEPT ![target[c]][circuit[c]] = ResetDone(@)]
  /\ Return(c, "none")

-----------------------------------------------------------------------------
(* Environment: time passes, backends fail and come back.                  *)

Aged(k) == [k EXCEPT !.age = IF @ < Timeout THEN @ + 1 ELSE @]

Tick ==
  /\ heap' = [t \in Targets |-> [c \in Callers |-> Aged(heap[t][c])]]
  /\ UNCHANGED <<circuits, locals, backendUp>>

Flip(t) ==
  /\ backendUp' = [backendUp EXCEPT ![t] = ~@]
  /\ UNCHANGED <<circuits, heap, locals>>

-----------------------------------------------------------------------------

Begin(c) == \E t \in Targets : CallAllow(c, t) \/ Report(c, t) \/ CallReset(c, t)

Section(c) ==
  \/ AllowSection(c)
  \/ Upgrade(c)
  \/ RecordSuccess(c)
  \/ RecordFailure(c)
  \/ Reset(c)

Next ==
  \/ \E c \in Callers : Begin(c) \/ Create(c) \/ Section(c)
  \/ \E t \in Targets : Flip(t)
  \/ Tick

Spec == Init /\ [][Next]_vars

\* Goroutines are scheduled and time passes; requests for each target keep
\* coming (an assumption on the traffic) and each request ends.
Fairness ==
  /\ \A c \in Callers : WF_vars(Create(c)) /\ WF_vars(Section(c))
  /\ \A c \in Callers : WF_vars(grant[c] # "none" /\ \E t \in Targets : Report(c, t))
  /\ \A t \in Targets : SF_vars(\E c \in Callers : CallAllow(c, t))
  /\ WF_vars(Tick)

FairSpec == Spec /\ Fairness
=============================================================================
