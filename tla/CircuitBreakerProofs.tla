------------------------ MODULE CircuitBreakerProofs ------------------------
(***************************************************************************)
(* What holds of CircuitBreaker for every number of callers and targets    *)
(* and every configuration.                                                *)
(***************************************************************************)
EXTENDS CircuitBreakerProps, TLAPS

\* What the critical sections and the clock make of a circuit is a circuit.
LEMMA CircuitOps ==
  ASSUME NEW k \in Circuit
  PROVE  /\ NewCircuit \in Circuit
         /\ SuccessRecorded(k) \in Circuit
         /\ FailureRecorded(k) \in Circuit
         /\ ResetDone(k) \in Circuit
         /\ HalfOpened(k) \in Circuit
         /\ Aged(k) \in Circuit
<1>. USE ThresholdAssumption, CountCapAssumption
<1>1. NewCircuit \in Circuit
  BY DEF NewCircuit, Circuit, CircuitStates
<1>2. SuccessRecorded(k) \in Circuit
  <2>1. Incremented(k.successes) \in 0 .. CountCap
    BY DEF Incremented, Circuit
  <2>2. CASE k.state = "half-open" /\ Incremented(k.successes) >= SuccessThreshold
    BY <2>1, <2>2 DEF SuccessRecorded, Circuit, CircuitStates
  <2>3. CASE ~(k.state = "half-open" /\ Incremented(k.successes) >= SuccessThreshold)
    BY <2>1, <2>3 DEF SuccessRecorded, Circuit, CircuitStates
  <2>. QED  BY <2>2, <2>3
<1>3. FailureRecorded(k) \in Circuit
  <2>1. Incremented(k.failures) \in 0 .. CountCap
    BY DEF Incremented, Circuit
  <2>2. CASE k.state = "half-open"
    BY <2>1, <2>2 DEF FailureRecorded, Circuit, CircuitStates
  <2>3. CASE k.state # "half-open" /\ Incremented(k.failures) >= FailureThreshold
    BY <2>1, <2>3 DEF FailureRecorded, Circuit, CircuitStates
  <2>4. CASE k.state # "half-open" /\ ~(Incremented(k.failures) >= FailureThreshold)
    BY <2>1, <2>4 DEF FailureRecorded, Circuit, CircuitStates
  <2>. QED  BY <2>2, <2>3, <2>4
<1>4. HalfOpened(k) \in Circuit
  BY DEF HalfOpened, TimeoutElapsed, Circuit, CircuitStates
<1>5. Aged(k) \in Circuit
  BY DEF Aged, Circuit, CircuitStates
<1>. QED  BY <1>1, <1>2, <1>3, <1>4, <1>5 DEF ResetDone

-----------------------------------------------------------------------------
(* Type correctness, and one circuit per target.  The second needs the     *)
(* first; together they are inductive.                                     *)

IInv == TypeOK /\ OneCircuitPerTarget

LEMMA InitIInv == Init => IInv
<1>. SUFFICES ASSUME Init PROVE IInv
  OBVIOUS
<1>1. NewCircuit \in Circuit
  BY ThresholdAssumption, CountCapAssumption DEF NewCircuit, Circuit, CircuitStates
<1>2. TypeOK
  BY <1>1 DEF Init, TypeOK
<1>3. OneCircuitPerTarget
  BY DEF Init, OneCircuitPerTarget
<1>. QED  BY <1>2, <1>3 DEF IInv

\* A call that starts.
LEMMA BeginKeepsIInv ==
  ASSUME IInv, NEW c \in Callers, Begin(c)
  PROVE  IInv'
<1>. USE DEF IInv, TypeOK
<1>1. PICK t \in Targets, m \in {"allow", "success", "failure", "reset"} : Call(c, m, t)
  BY DEF Begin, CallAllow, Report, CallReset
<1>2. TypeOK'
  <2>1. CASE circuits[t] = NoCircuit
    BY <1>1, <2>1 DEF Call, Acquire
  <2>2. CASE circuits[t] # NoCircuit
    BY <1>1, <2>2 DEF Call, Acquire
  <2>. QED  BY <2>1, <2>2
<1>3. OneCircuitPerTarget'
  <2>. SUFFICES ASSUME NEW d \in Callers, pc'[d] \in {"section", "upgrade"}
                PROVE  /\ circuit'[d] # NoCircuit
                       /\ circuit'[d] = circuits'[target'[d]]
    BY DEF OneCircuitPerTarget
  <2>1. CASE d = c
    BY <1>1, <2>1 DEF Call, Acquire
  <2>2. CASE d # c
    BY <1>1, <2>2 DEF Call, Acquire, OneCircuitPerTarget
  <2>. QED  BY <2>1, <2>2
<1>. QED  BY <1>2, <1>3

\* The double check: the second of two creators adopts the first one's circuit.
LEMMA CreateKeepsIInv ==
  ASSUME IInv, NEW c \in Callers, Create(c)
  PROVE  IInv'
<1>. USE NoCircuitAssumption DEF IInv, TypeOK
<1>1. NewCircuit \in Circuit
  BY ThresholdAssumption, CountCapAssumption DEF NewCircuit, Circuit, CircuitStates
<1>2. CASE circuits[target[c]] = NoCircuit
  <2>1. /\ heap'     = [heap EXCEPT ![target[c]][c] = NewCircuit]
        /\ circuits' = [circuits EXCEPT ![target[c]] = c]
        /\ circuit'  = [circuit EXCEPT ![c] = c]
        /\ pc'       = [pc EXCEPT ![c] = "section"]
        /\ UNCHANGED <<op, target, grant, backendUp>>
    BY <1>2 DEF Create, Acquire
  <2>2. TypeOK'
    BY <1>1, <2>1
  <2>3. OneCircuitPerTarget'
    BY <1>2, <2>1 DEF OneCircuitPerTarget
  <2>. QED  BY <2>2, <2>3
<1>3. CASE circuits[target[c]] # NoCircuit
  <2>1. /\ circuit' = [circuit EXCEPT ![c] = circuits[target[c]]]
        /\ pc'      = [pc EXCEPT ![c] = "section"]
        /\ UNCHANGED <<heap, circuits, op, target, grant, backendUp>>
    BY <1>3 DEF Create, Acquire
  <2>2. TypeOK'
    BY <2>1
  <2>3. OneCircuitPerTarget'
    BY <1>3, <2>1 DEF OneCircuitPerTarget
  <2>. QED  BY <2>2, <2>3
<1>. QED  BY <1>2, <1>3

\* A critical section on the caller's circuit.
LEMMA SectionKeepsIInv ==
  ASSUME IInv, NEW c \in Callers, Section(c)
  PROVE  IInv'
<1>. USE DEF IInv, TypeOK
<1>1. pc[c] \in {"section", "upgrade"}
  BY DEF Section, AllowSection, Upgrade, RecordSuccess, RecordFailure, Reset
<1>2. circuit[c] \in Callers
  BY <1>1 DEF OneCircuitPerTarget
<1>3. Held(c) \in Circuit
  BY <1>2 DEF Held
<1>4. /\ UNCHANGED <<circuits, target, backendUp>>
      /\ pc' \in [Callers -> {"idle", "create", "section", "upgrade"}]
      /\ op' \in [Callers -> {"none", "allow", "success", "failure", "reset"}]
      /\ circuit' \in [Callers -> Callers \cup {NoCircuit}]
      /\ grant' \in [Callers -> CircuitStates \cup {"none"}]
      /\ \A d \in Callers \ {c} : pc'[d] = pc[d] /\ circuit'[d] = circuit[d]
      /\ pc'[c] = "upgrade" => circuit'[c] = circuit[c]
      /\ pc'[c] # "section"
  <2>1. ASSUME NEW g \in CircuitStates \cup {"none"}, Return(c, g)
        PROVE  <1>4!:
    BY <2>1 DEF Return
  <2>2. CASE AllowSection(c)
    BY <2>1, <2>2 DEF AllowSection, CircuitStates
  <2>3. CASE Upgrade(c)
    BY <2>1, <2>3 DEF Upgrade, CircuitStates
  <2>4. CASE RecordSuccess(c) \/ RecordFailure(c) \/ Reset(c)
    BY <2>1, <2>4 DEF RecordSuccess, RecordFailure, Reset
  <2>. QED  BY <2>2, <2>3, <2>4 DEF Section
<1>5. heap' \in [Targets -> [Callers -> Circuit]]
  <2>1. CASE AllowSection(c)
    BY <2>1 DEF AllowSection
  <2>2. CASE Upgrade(c)
    BY <2>2, <1>2, <1>3, CircuitOps DEF Upgrade, Held
  <2>3. CASE RecordSuccess(c)
    BY <2>3, <1>2, <1>3, CircuitOps DEF RecordSuccess, Held
  <2>4. CASE RecordFailure(c)
    BY <2>4, <1>2, <1>3, CircuitOps DEF RecordFailure, Held
  <2>5. CASE Reset(c)
    BY <2>5, <1>2, <1>3, CircuitOps DEF Reset, Held
  <2>. QED  BY <2>1, <2>2, <2>3, <2>4, <2>5 DEF Section
<1>6. OneCircuitPerTarget'
  BY <1>1, <1>4 DEF OneCircuitPerTarget
<1>. QED  BY <1>4, <1>5, <1>6

\* The clock and the backends.
LEMMA EnvironmentKeepsIInv ==
  ASSUME IInv, Tick \/ \E t \in Targets : Flip(t)
  PROVE  IInv'
<1>. USE DEF IInv, TypeOK
<1>1. CASE Tick
  <2>1. heap' \in [Targets -> [Callers -> Circuit]]
    BY <1>1, CircuitOps DEF Tick
  <2>. QED  BY <1>1, <2>1 DEF Tick, locals, OneCircuitPerTarget
<1>2. CASE \E t \in Targets : Flip(t)
  BY <1>2 DEF Flip, locals, OneCircuitPerTarget
<1>. QED  BY <1>1, <1>2

LEMMA NextIInv == IInv /\ [Next]_vars => IInv'
<1>. SUFFICES ASSUME IInv, [Next]_vars PROVE IInv'
  OBVIOUS
<1>1. CASE UNCHANGED vars
  BY <1>1 DEF IInv, TypeOK, OneCircuitPerTarget, vars, locals
<1>2. CASE Next
  BY <1>2, BeginKeepsIInv, CreateKeepsIInv, SectionKeepsIInv, EnvironmentKeepsIInv DEF Next
<1>. QED  BY <1>1, <1>2

\* The variables keep their types.
THEOREM TypeCorrect == Spec => []TypeOK
<1>1. IInv => TypeOK
  BY DEF IInv
<1>. QED  BY <1>1, InitIInv, NextIInv, PTL DEF Spec

\* All callers of a target work on the one circuit that is published for it,
\* whatever the number of goroutines that race to create it.
THEOREM OneCircuit == Spec => []OneCircuitPerTarget
<1>1. IInv => OneCircuitPerTarget
  BY DEF IInv
<1>. QED  BY <1>1, InitIInv, NextIInv, PTL DEF Spec

-----------------------------------------------------------------------------
(* What a step does to the published circuits.  Both remaining theorems    *)
(* follow from this without looking at the callers again.                  *)

\* Target s's circuit becomes k, the others stay.
Becomes(s, k) ==
  \A t \in Targets : Published(t)' = IF t = s THEN k ELSE Published(t)

PublishedStep ==
  \/ \A t \in Targets : Published(t)' = Published(t)
  \/ \A t \in Targets : Published(t)' = Aged(Published(t))
  \/ \E s \in Targets :
       \/ Becomes(s, SuccessRecorded(Published(s)))
       \/ Becomes(s, FailureRecorded(Published(s)))
       \/ Becomes(s, NewCircuit)
       \/ Becomes(s, HalfOpened(Published(s)))

LEMMA PublishedType ==
  ASSUME IInv, NEW t \in Targets
  PROVE  Published(t) \in Circuit
<1>1. NewCircuit \in Circuit
  BY ThresholdAssumption, CountCapAssumption DEF NewCircuit, Circuit, CircuitStates
<1>2. CASE circuits[t] = NoCircuit
  BY <1>1, <1>2 DEF Published
<1>3. CASE circuits[t] # NoCircuit
  BY <1>3 DEF Published, IInv, TypeOK
<1>. QED  BY <1>2, <1>3

\* Writing through the caller's pointer writes the published circuit.
LEMMA HeldIsPublished ==
  ASSUME IInv, NEW c \in Callers, pc[c] \in {"section", "upgrade"}, UNCHANGED circuits,
         NEW k, heap' = [heap EXCEPT ![target[c]][circuit[c]] = k]
  PROVE  /\ Held(c) = Published(target[c])
         /\ Becomes(target[c], k)
<1>. USE DEF IInv, TypeOK
<1>1. /\ circuit[c] # NoCircuit
      /\ circuit[c] = circuits[target[c]]
      /\ circuit[c] \in Callers
      /\ target[c] \in Targets
  BY DEF OneCircuitPerTarget
<1>2. Held(c) = Published(target[c])
  BY <1>1 DEF Held, Published
<1>3. ASSUME NEW t \in Targets
      PROVE  Published(t)' = IF t = target[c] THEN k ELSE Published(t)
  <2>1. CASE t = target[c]
    BY <1>1, <2>1 DEF Published
  <2>2. CASE t # target[c]
    BY <1>1, <2>2 DEF Published
  <2>. QED  BY <2>1, <2>2
<1>. QED  BY <1>2, <1>3 DEF Becomes

LEMMA NextPublished ==
  ASSUME IInv, [Next]_vars
  PROVE  PublishedStep
<1>. USE DEF IInv, TypeOK
<1>1. ASSUME UNCHANGED <<circuits, heap>>
      PROVE  PublishedStep
  BY <1>1 DEF PublishedStep, Published
<1>2. CASE UNCHANGED vars
  BY <1>1, <1>2 DEF vars
<1>3. ASSUME NEW c \in Callers, Begin(c)
      PROVE  PublishedStep
  BY <1>1, <1>3 DEF Begin, CallAllow, Report, CallReset, Call
<1>4. ASSUME NEW c \in Callers, Create(c)
      PROVE  PublishedStep
  <2>1. CASE circuits[target[c]] = NoCircuit
    <3>1. /\ heap'     = [heap EXCEPT ![target[c]][c] = NewCircuit]
          /\ circuits' = [circuits EXCEPT ![target[c]] = c]
      BY <1>4, <2>1 DEF Create
    <3>2. ASSUME NEW t \in Targets
          PROVE  Published(t)' = Published(t)
      <4>1. CASE t = target[c]
        BY <2>1, <3>1, <4>1, NoCircuitAssumption DEF Published
      <4>2. CASE t # target[c]
        BY <3>1, <4>2 DEF Published
      <4>. QED  BY <4>1, <4>2
    <3>. QED  BY <3>2 DEF PublishedStep
  <2>2. CASE circuits[target[c]] # NoCircuit
    BY <1>1, <1>4, <2>2 DEF Create
  <2>. QED  BY <2>1, <2>2
<1>5. ASSUME NEW c \in Callers, Section(c)
      PROVE  PublishedStep
  <2>1. CASE AllowSection(c)
    BY <1>1, <2>1 DEF AllowSection, Return
  <2>2. CASE Upgrade(c)
    <3>1. /\ pc[c] \in {"section", "upgrade"}
          /\ UNCHANGED circuits
          /\ heap' = [heap EXCEPT ![target[c]][circuit[c]] = HalfOpened(Held(c))]
      BY <2>2 DEF Upgrade, Return, Held
    <3>. QED  BY <3>1, HeldIsPublished DEF PublishedStep
  <2>3. CASE RecordSuccess(c)
    <3>1. /\ pc[c] \in {"section", "upgrade"}
          /\ UNCHANGED circuits
          /\ heap' = [heap EXCEPT ![target[c]][circuit[c]] = SuccessRecorded(Held(c))]
      BY <2>3 DEF RecordSuccess, Return, Held
    <3>. QED  BY <3>1, HeldIsPublished DEF PublishedStep
  <2>4. CASE RecordFailure(c)
    <3>1. /\ pc[c] \in {"section", "upgrade"}
          /\ UNCHANGED circuits
          /\ heap' = [heap EXCEPT ![target[c]][circuit[c]] = FailureRecorded(Held(c))]
      BY <2>4 DEF RecordFailure, Return, Held
    <3>. QED  BY <3>1, HeldIsPublished DEF PublishedStep
  <2>5. CASE Reset(c)
    <3>1. /\ pc[c] \in {"section", "upgrade"}
          /\ UNCHANGED circuits
          /\ heap' = [heap EXCEPT ![target[c]][circuit[c]] = NewCircuit]
      BY <2>5 DEF Reset, Return, ResetDone
    <3>. QED  BY <3>1, HeldIsPublished DEF PublishedStep
  <2>. QED  BY <1>5, <2>1, <2>2, <2>3, <2>4, <2>5 DEF Section
<1>6. CASE Tick
  <2>1. ASSUME NEW t \in Targets
        PROVE  Published(t)' = Aged(Published(t))
    <3>1. CASE circuits[t] = NoCircuit
      BY <1>6, <3>1, ThresholdAssumption DEF Tick, Published, Aged, NewCircuit
    <3>2. CASE circuits[t] # NoCircuit
      BY <1>6, <3>2 DEF Tick, Published
    <3>. QED  BY <3>1, <3>2
  <2>. QED  BY <2>1 DEF PublishedStep
<1>7. CASE \E t \in Targets : Flip(t)
  BY <1>1, <1>7 DEF Flip
<1>. QED  BY <1>2, <1>3, <1>4, <1>5, <1>6, <1>7 DEF Next

-----------------------------------------------------------------------------
(* Counters and states agree, in every published circuit.                  *)

LEMMA OpsAgree ==
  ASSUME NEW k \in Circuit
  PROVE  /\ Agrees(NewCircuit)
         /\ Agrees(k) => Agrees(SuccessRecorded(k))
         /\ Agrees(k) => Agrees(FailureRecorded(k))
         /\ Agrees(k) => Agrees(HalfOpened(k))
         /\ Agrees(k) => Agrees(Aged(k))
<1>. USE ThresholdAssumption, CountCapAssumption DEF Agrees, Circuit, CircuitStates
<1>1. Agrees(NewCircuit)
  BY DEF NewCircuit
<1>2. Agrees(k) => Agrees(SuccessRecorded(k))
  BY DEF SuccessRecorded, Incremented
<1>3. Agrees(k) => Agrees(FailureRecorded(k))
  BY DEF FailureRecorded, Incremented
<1>4. Agrees(k) => Agrees(HalfOpened(k))
  BY DEF HalfOpened, TimeoutElapsed
<1>5. Agrees(k) => Agrees(Aged(k))
  BY DEF Aged
<1>. QED  BY <1>1, <1>2, <1>3, <1>4, <1>5

CInv == IInv /\ CountersAgreeWithState

LEMMA InitCInv == Init => CInv
<1>. SUFFICES ASSUME Init PROVE CountersAgreeWithState
  BY InitIInv DEF CInv
<1>1. \A t \in Targets : Published(t) = NewCircuit
  BY DEF Init, Published
<1>. QED  BY <1>1, ThresholdAssumption DEF CountersAgreeWithState, Agrees, NewCircuit

LEMMA NextCInv == CInv /\ [Next]_vars => CInv'
<1>. SUFFICES ASSUME CInv, [Next]_vars PROVE CountersAgreeWithState'
  BY NextIInv DEF CInv
<1>1. PublishedStep
  BY NextPublished DEF CInv
<1>2. \A t \in Targets : Published(t) \in Circuit /\ Agrees(Published(t))
  BY PublishedType DEF CInv, CountersAgreeWithState
<1>. SUFFICES ASSUME NEW t \in Targets PROVE Agrees(Published(t)')
  BY DEF CountersAgreeWithState, Agrees
<1>3. CASE Published(t)' = Published(t) \/ Published(t)' = Aged(Published(t))
  BY <1>2, <1>3, OpsAgree
<1>4. ASSUME NEW s \in Targets,
             \/ Becomes(s, SuccessRecorded(Published(s)))
             \/ Becomes(s, FailureRecorded(Published(s)))
             \/ Becomes(s, NewCircuit)
             \/ Becomes(s, HalfOpened(Published(s)))
      PROVE  Agrees(Published(t)')
  <2>1. CASE t = s
    BY <1>2, <1>4, <2>1, OpsAgree DEF Becomes
  <2>2. CASE t # s
    BY <1>2, <1>4, <2>2 DEF Becomes
  <2>. QED  BY <2>1, <2>2
<1>. QED  BY <1>1, <1>3, <1>4 DEF PublishedStep

\* No published circuit stays in a state its counters say it should have left.
THEOREM CountersAgree == Spec => []CountersAgreeWithState
<1>1. CInv => CountersAgreeWithState
  BY DEF CInv
<1>. QED  BY <1>1, InitCInv, NextCInv, PTL DEF Spec

-----------------------------------------------------------------------------
(* Every step is a step of BreakerProtocol or leaves its variables alone.  *)

LEMMA BecomesMove ==
  ASSUME NEW s \in Targets, NEW k, Becomes(s, k)
  PROVE  Protocol!Move(s, k.state, Streak(k), k.age)
BY DEF Becomes, Protocol!Move

LEMMA UnchangedStutters ==
  ASSUME \A t \in Targets : /\ Published(t)'.state = Published(t).state
                            /\ Streak(Published(t)') = Streak(Published(t))
                            /\ Published(t)'.age = Published(t).age
  PROVE  UNCHANGED Protocol!vars
BY DEF Protocol!vars, Streak

LEMMA SuccessIsSucceed ==
  ASSUME CInv, NEW s \in Targets, Becomes(s, SuccessRecorded(Published(s)))
  PROVE  [Protocol!Next]_Protocol!vars
<1>. DEFINE k == Published(s)
            n == SuccessRecorded(Published(s))
<1>1. k \in Circuit /\ Agrees(k)
  BY PublishedType DEF CInv, CountersAgreeWithState
<1>2. Protocol!Move(s, n.state, Streak(n), n.age)
  BY BecomesMove
<1>3. k.state = "half-open" => Incremented(k.successes) = k.successes + 1
  BY <1>1, ThresholdAssumption, CountCapAssumption DEF Circuit, Agrees, Incremented
<1>4. CASE k.state = "closed"
  <2>1. n.state = "closed" /\ Streak(n) = 0 /\ n.age = k.age
    BY <1>4 DEF SuccessRecorded, Streak
  <2>2. Protocol!Succeed(s)
    BY <1>2, <1>4, <2>1 DEF Protocol!Succeed
  <2>. QED  BY <2>2 DEF Protocol!Next
<1>5. CASE k.state = "half-open" /\ k.successes + 1 < SuccessThreshold
  <2>1. n.state = "half-open" /\ Streak(n) = k.successes + 1 /\ n.age = k.age
    BY <1>1, <1>3, <1>5, ThresholdAssumption DEF SuccessRecorded, Streak, Circuit
  <2>2. Streak(k) = k.successes
    BY <1>5 DEF Streak
  <2>3. Protocol!Succeed(s)
    BY <1>2, <1>5, <2>1, <2>2 DEF Protocol!Succeed
  <2>. QED  BY <2>3 DEF Protocol!Next
<1>6. CASE k.state = "half-open" /\ ~(k.successes + 1 < SuccessThreshold)
  <2>1. k.successes + 1 = SuccessThreshold
    BY <1>1, <1>6, ThresholdAssumption DEF Agrees, Circuit
  <2>2. n.state = "closed" /\ Streak(n) = 0 /\ n.age = k.age
    BY <1>3, <1>6, <2>1, ThresholdAssumption DEF SuccessRecorded, Streak
  <2>3. Streak(k) = k.successes
    BY <1>6 DEF Streak
  <2>4. Protocol!Succeed(s)
    BY <1>2, <1>6, <2>1, <2>2, <2>3 DEF Protocol!Succeed
  <2>. QED  BY <2>4 DEF Protocol!Next
<1>7. CASE k.state = "open"
  <2>1. n.state = k.state /\ Streak(n) = Streak(k) /\ n.age = k.age
    BY <1>7 DEF SuccessRecorded, Streak
  <2>2. UNCHANGED Protocol!vars
    BY <2>1, UnchangedStutters DEF Becomes
  <2>. QED  BY <2>2
<1>. QED  BY <1>1, <1>4, <1>5, <1>6, <1>7 DEF Circuit, CircuitStates

LEMMA FailureIsFail ==
  ASSUME CInv, NEW s \in Targets, Becomes(s, FailureRecorded(Published(s)))
  PROVE  Protocol!Fail(s)
<1>. DEFINE k == Published(s)
            n == FailureRecorded(Published(s))
<1>1. k \in Circuit /\ Agrees(k)
  BY PublishedType DEF CInv, CountersAgreeWithState
<1>2. Protocol!Move(s, n.state, Streak(n), n.age)
  BY BecomesMove
<1>3. k.state = "closed" => Incremented(k.failures) = k.failures + 1
  BY <1>1, ThresholdAssumption, CountCapAssumption DEF Circuit, Agrees, Incremented
<1>4. CASE k.state = "closed" /\ k.failures + 1 < FailureThreshold
  <2>1. n.state = "closed" /\ Streak(n) = k.failures + 1 /\ n.age = 0
    BY <1>1, <1>3, <1>4, ThresholdAssumption DEF FailureRecorded, Streak, Circuit
  <2>2. Streak(k) = k.failures
    BY <1>4 DEF Streak
  <2>. QED  BY <1>2, <1>4, <2>1, <2>2 DEF Protocol!Fail
<1>5. CASE k.state = "closed" /\ ~(k.failures + 1 < FailureThreshold)
  <2>1. k.failures + 1 = FailureThreshold
    BY <1>1, <1>5, ThresholdAssumption DEF Agrees, Circuit
  <2>2. n.state = "open" /\ Streak(n) = 0 /\ n.age = 0
    BY <1>3, <1>5, <2>1, ThresholdAssumption DEF FailureRecorded, Streak
  <2>3. Streak(k) = k.failures
    BY <1>5 DEF Streak
  <2>. QED  BY <1>2, <1>5, <2>1, <2>2, <2>3 DEF Protocol!Fail
<1>6. CASE k.state # "closed"
  <2>1. n.state = "open" /\ Streak(n) = 0 /\ n.age = 0
    BY <1>1, <1>6 DEF FailureRecorded, Streak, Circuit, CircuitStates
  <2>. QED  BY <1>2, <1>6, <2>1 DEF Protocol!Fail
<1>. QED  BY <1>4, <1>5, <1>6

LEMMA HalfOpenIsRetry ==
  ASSUME CInv, NEW s \in Targets, Becomes(s, HalfOpened(Published(s)))
  PROVE  [Protocol!Next]_Protocol!vars
<1>. DEFINE k == Published(s)
            n == HalfOpened(Published(s))
<1>1. k \in Circuit
  BY PublishedType DEF CInv
<1>2. Protocol!Move(s, n.state, Streak(n), n.age)
  BY BecomesMove
<1>3. CASE k.state = "open" /\ TimeoutElapsed(k)
  <2>1. k.age = Timeout
    BY <1>1, <1>3, ThresholdAssumption DEF Circuit, TimeoutElapsed
  <2>2. n.state = "half-open" /\ Streak(n) = 0 /\ n.age = k.age
    BY <1>3 DEF HalfOpened, Streak
  <2>3. Protocol!Retry(s)
    BY <1>2, <1>3, <2>1, <2>2 DEF Protocol!Retry
  <2>. QED  BY <2>3 DEF Protocol!Next
<1>4. CASE ~(k.state = "open" /\ TimeoutElapsed(k))
  <2>1. n = k
    BY <1>4 DEF HalfOpened
  <2>2. UNCHANGED Protocol!vars
    BY <2>1, UnchangedStutters DEF Becomes
  <2>. QED  BY <2>2
<1>. QED  BY <1>3, <1>4

LEMMA NextProtocol ==
  ASSUME CInv, [Next]_vars
  PROVE  [Protocol!Next]_Protocol!vars
<1>1. PublishedStep
  BY NextPublished DEF CInv
<1>2. CASE \A t \in Targets : Published(t)' = Published(t)
  BY <1>2, UnchangedStutters
<1>3. CASE \A t \in Targets : Published(t)' = Aged(Published(t))
  <2>1. ASSUME NEW t \in Targets
        PROVE  /\ Published(t)'.state = Published(t).state
               /\ Streak(Published(t)') = Streak(Published(t))
               /\ Published(t)'.age = IF Published(t).age < Timeout
                                      THEN Published(t).age + 1 ELSE Published(t).age
    <3>1. Published(t) \in Circuit
      BY PublishedType DEF CInv
    <3>. QED  BY <1>3, <3>1 DEF Aged, Streak, Circuit
  <2>2. Protocol!Elapse
    BY <2>1 DEF Protocol!Elapse, Streak
  <2>. QED  BY <2>2 DEF Protocol!Next
<1>4. ASSUME NEW s \in Targets, Becomes(s, NewCircuit)
      PROVE  [Protocol!Next]_Protocol!vars
  <2>1. Protocol!Clear(s)
    BY <1>4, BecomesMove DEF Protocol!Clear, NewCircuit, Streak
  <2>. QED  BY <2>1 DEF Protocol!Next
<1>5. ASSUME NEW s \in Targets, Becomes(s, FailureRecorded(Published(s)))
      PROVE  [Protocol!Next]_Protocol!vars
  BY <1>5, FailureIsFail DEF Protocol!Next
<1>. QED  BY <1>1, <1>2, <1>3, <1>4, <1>5, SuccessIsSucceed, HalfOpenIsRetry DEF PublishedStep

\* The concurrent breaker implements the protocol its interface promises, for any
\* number of goroutines and targets and any thresholds, timeout and MaxRequests.
THEOREM BreakerImplementsProtocol == Spec => ImplementsProtocol
<1>1. Init => Protocol!Init
  <2>. SUFFICES ASSUME Init PROVE Protocol!Init
    OBVIOUS
  <2>1. \A t \in Targets : Published(t) = NewCircuit
    BY DEF Init, Published
  <2>. QED  BY <2>1 DEF Protocol!Init, NewCircuit, Streak
<1>2. CInv /\ [Next]_vars => [Protocol!Next]_Protocol!vars
  BY NextProtocol
<1>. QED  BY <1>1, <1>2, InitCInv, NextCInv, PTL DEF Spec, ImplementsProtocol, Protocol!Spec
=============================================================================
