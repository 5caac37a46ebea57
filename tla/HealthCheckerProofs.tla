------------------------- MODULE HealthCheckerProofs -------------------------
(***************************************************************************)
(* The safety properties of HealthChecker, for any number of targets and   *)
(* loops, any thresholds and any number of restarts.                       *)
(***************************************************************************)
EXTENDS HealthChecker, FiniteSetTheorems, TLAPS

\* A loop between reading a status and publishing has a target.
BusyLoopsHaveTarget ==
  \A l \in Loops : phase[l] \in {"request", "store", "publish"} => current[l] \in Targets

\* The channel of the monitoring under way is not closed, and no loop has seen
\* one that is not made yet.
ChannelsInOrder ==
  /\ running => stopChan \notin closed /\ stopChan > 0
  /\ \A l \in Loops : chan[l] <= stopChan

IInv ==
  /\ TypeOK
  /\ BusyLoopsHaveTarget
  /\ ChannelsInOrder
  /\ MonitoredWhileRunning

\* The counting keeps to the type of a status.
LEMMA CountedType ==
  ASSUME NEW old \in Status, NEW healthy \in BOOLEAN
  PROVE  Counted(old, healthy) \in Status
<1>1. 0 \in 0 .. CountCap /\ 1 \in 0 .. CountCap
  BY CheckerAssumption
<1>2. \A n \in 0 .. CountCap : Successor(n) \in 0 .. CountCap
  BY CheckerAssumption DEF Successor
<1>3. /\ Successor(old.failures) \in 0 .. CountCap
      /\ Successor(old.successes) \in 0 .. CountCap
  BY <1>2 DEF Status
<1>. DEFINE f == IF healthy THEN 0 ELSE IF old.healthy THEN 1 ELSE Successor(old.failures)
            n == IF ~healthy THEN 0 ELSE IF old.healthy THEN Successor(old.successes) ELSE 1
<1>4. f \in 0 .. CountCap /\ n \in 0 .. CountCap
  BY <1>1, <1>3
<1>. HIDE DEF f, n
<1>5. [known |-> TRUE, healthy |-> healthy, failures |-> f, successes |-> n] \in Status
  BY <1>4 DEF Status
<1>. QED  BY <1>5 DEF Counted, f, n

LEMMA NoStatusType == NoStatus \in Status
<1>1. 0 \in 0 .. CountCap
  BY CheckerAssumption
<1>. QED  BY <1>1 DEF NoStatus, Status

LEMMA InitIInv == Init => IInv
<1>. SUFFICES ASSUME Init PROVE IInv
  OBVIOUS
<1>1. 0 \in 0 .. MaxStarts
  BY CheckerAssumption
<1>2. TypeOK
  BY <1>1, NoStatusType DEF Init, TypeOK, Phases
<1>3. BusyLoopsHaveTarget /\ ChannelsInOrder /\ MonitoredWhileRunning
  BY DEF Init, BusyLoopsHaveTarget, ChannelsInOrder, MonitoredWhileRunning
<1>. QED  BY <1>2, <1>3 DEF IInv

LEMMA RegistryKeepsIInv ==
  ASSUME IInv, NEW t \in Targets, RegisterTarget(t) \/ UnregisterTarget(t) \/ Flip(t)
  PROVE  IInv'
<1>. USE DEF IInv, TypeOK, BusyLoopsHaveTarget, ChannelsInOrder, MonitoredWhileRunning,
             registry, monitor, loop, check
<1>1. CASE RegisterTarget(t)
  BY <1>1 DEF RegisterTarget
<1>2. CASE UnregisterTarget(t)
  BY <1>2, NoStatusType DEF UnregisterTarget
<1>3. CASE Flip(t)
  BY <1>3 DEF Flip
<1>. QED  BY <1>1, <1>2, <1>3

LEMMA StartKeepsIInv ==
  ASSUME IInv, NEW l \in Loops, StartMonitoring(l)
  PROVE  IInv'
<1>. USE CheckerAssumption DEF IInv, StartMonitoring, registry, check
<1>1. /\ stopChan \in Nat /\ stopChan + 1 \in 0 .. MaxStarts /\ stopChan + 1 > 0
      /\ stopChan + 1 \notin closed
  BY DEF TypeOK
<1>2. TypeOK'
  BY <1>1 DEF TypeOK, Phases
<1>3. BusyLoopsHaveTarget'
  BY DEF TypeOK, BusyLoopsHaveTarget
<1>4. ChannelsInOrder'
  BY <1>1 DEF TypeOK, ChannelsInOrder
<1>5. chan'[l] = stopChan' /\ phase'[l] # "none"
  BY DEF TypeOK
<1>6. MonitoredWhileRunning'
  BY <1>5 DEF MonitoredWhileRunning
<1>. QED  BY <1>2, <1>3, <1>4, <1>6

LEMMA StopKeepsIInv ==
  ASSUME IInv, StopMonitoring
  PROVE  IInv'
<1>. USE DEF IInv, StopMonitoring, registry, loop, check
<1>1. stopChan \in 1 .. stopChan
  BY DEF TypeOK, ChannelsInOrder
<1>2. closed' \subseteq 1 .. stopChan
  BY <1>1 DEF TypeOK
<1>3. TypeOK'
  BY <1>2 DEF TypeOK
<1>4. BusyLoopsHaveTarget' /\ ChannelsInOrder' /\ MonitoredWhileRunning'
  BY DEF BusyLoopsHaveTarget, ChannelsInOrder, MonitoredWhileRunning
<1>. QED  BY <1>3, <1>4

\* The steps of a sweep move the loop between phases other than "none".
LEMMA SweepKeepsIInv ==
  ASSUME IInv, NEW l \in Loops, Sweep(l)
  PROVE  IInv'
<1>. USE DEF IInv, TypeOK, Phases, BusyLoopsHaveTarget, ChannelsInOrder,
             MonitoredWhileRunning, Goto, registry, monitor, check
<1>1. CASE CopyTargets(l)
  BY <1>1 DEF CopyTargets
<1>2. CASE ReadPrevious(l)
  BY <1>2 DEF ReadPrevious
<1>3. CASE Check(l)
  <2>. DEFINE verdict == backendUp[current[l]] /\ ~cancelled[l]
  <2>1. Counted(previous[l], verdict) \in Status
    BY <1>3, CountedType, verdict \in BOOLEAN
  <2>. HIDE DEF Counted
  <2>2. new' \in [Loops -> Status]
    BY <1>3, <2>1 DEF Check
  <2>. QED  BY <1>3, <2>2 DEF Check
<1>4. CASE Store(l)
  BY <1>4 DEF Store
<1>5. CASE Publish(l)
  BY <1>5, NoStatusType DEF Publish
<1>6. CASE EnterSelect(l)
  BY <1>6 DEF EnterSelect
<1>7. CASE SelectTick(l)
  BY <1>7 DEF SelectTick
<1>. QED  BY <1>1, <1>2, <1>3, <1>4, <1>5, <1>6, <1>7 DEF Sweep

\* The loop of the monitoring under way ends only with its context.
LEMMA LoopEndKeepsIInv ==
  ASSUME IInv, NEW l \in Loops, SelectDone(l) \/ Cancel(l)
  PROVE  IInv'
<1>. USE DEF IInv, TypeOK, Phases, BusyLoopsHaveTarget, ChannelsInOrder,
             MonitoredWhileRunning, Goto, registry, monitor, check
<1>1. CASE SelectDone(l)
  BY <1>1 DEF SelectDone
<1>2. CASE Cancel(l)
  BY <1>2 DEF Cancel
<1>. QED  BY <1>1, <1>2

LEMMA NextIInv == IInv /\ [Next]_vars => IInv'
<1>. SUFFICES ASSUME IInv, [Next]_vars PROVE IInv'
  OBVIOUS
<1>1. CASE UNCHANGED vars
  BY <1>1 DEF vars, registry, monitor, loop, check, IInv, TypeOK, BusyLoopsHaveTarget,
              ChannelsInOrder, MonitoredWhileRunning
<1>2. CASE Next
  BY <1>2, RegistryKeepsIInv, StartKeepsIInv, StopKeepsIInv, SweepKeepsIInv, LoopEndKeepsIInv
  DEF Next
<1>. QED  BY <1>1, <1>2

\* The variables keep their types; in particular only channels that were made
\* are closed.
THEOREM TypeCorrect == Spec => []TypeOK
<1>1. IInv => TypeOK
  BY DEF IInv
<1>. QED  BY <1>1, InitIInv, NextIInv, PTL DEF Spec

\* However often monitoring is stopped and started again, and whichever loops
\* outlive it, a loop of its own is there while it is on.
THEOREM RestartsKeepMonitoring == Spec => []MonitoredWhileRunning
<1>1. IInv => MonitoredWhileRunning
  BY DEF IInv
<1>. QED  BY <1>1, InitIInv, NextIInv, PTL DEF Spec

-----------------------------------------------------------------------------
(* Events, while no two loops are at work                                  *)

Verdict(s) == IF s.healthy THEN "healthy" ELSE "unhealthy"

Busy(l) == phase[l] \in {"request", "store", "publish"}

\* What a loop that is checking a target knows of it: the verdict it started from was told,
\* and what it has stored is there until the target is unregistered.
ChecksInStep ==
  \A l \in Loops :
    /\ Busy(l) /\ previous[l].known => told[current[l]] = Verdict(previous[l])
    /\ phase[l] \in {"store", "publish"} => new[l].known
    /\ phase[l] = "publish" => status[current[l]] = new[l] \/ ~status[current[l]].known

Published(t) == \A l \in Loops : phase[l] = "publish" => current[l] # t

StatusesTold == \A t \in Known : Published(t) => Told(t)

LEMMA NoOtherLoop ==
  OneLoop => \A k, l \in Loops : phase[k] # "none" /\ phase[l] # "none" => k = l
<1>. SUFFICES ASSUME OneLoop, NEW k \in Loops, NEW l \in Loops,
                     phase[k] # "none", phase[l] # "none", k # l
              PROVE  FALSE
  OBVIOUS
<1>. DEFINE S == {m \in Loops : phase[m] # "none"}
<1>1. IsFiniteSet(S) /\ Cardinality(S) <= 1 /\ k \in S /\ l \in S
  BY CheckerAssumption, FS_Subset DEF OneLoop
<1>. HIDE DEF S
<1>2. IsFiniteSet({k, l}) /\ Cardinality({k, l}) = 2
  <2>1. IsFiniteSet({k}) /\ Cardinality({k}) = 1
    BY FS_Singleton
  <2>2. IsFiniteSet({k} \cup {l}) /\ Cardinality({k} \cup {l}) = 2
    BY <2>1, FS_AddElement
  <2>3. {k, l} = {k} \cup {l}
    OBVIOUS
  <2>. QED  BY <2>2, <2>3
<1>3. Cardinality({k, l}) <= Cardinality(S) /\ Cardinality(S) \in Nat
  BY <1>1, FS_Subset, FS_CardinalityType
<1>. QED  BY <1>1, <1>2, <1>3

LEMMA InitTold == Init => ChecksInStep /\ StatusesTold
BY DEF Init, NoStatus, ChecksInStep, Busy, StatusesTold, Known

LEMMA SweepKeepsTold ==
  ASSUME IInv, OneLoop, ChecksInStep, StatusesTold, NEW l \in Loops, Sweep(l)
  PROVE  ChecksInStep' /\ StatusesTold'
<1>. USE DEF Goto, registry, monitor, check
<1>1. /\ phase \in [Loops -> Phases] /\ current \in [Loops -> Targets \cup {NoTarget}]
      /\ previous \in [Loops -> Status] /\ new \in [Loops -> Status]
      /\ status \in [Targets -> Status] /\ todo \in [Loops -> SUBSET Targets]
      /\ told \in [Targets -> {"nothing", "healthy", "unhealthy"}]
      /\ Busy(l) => current[l] \in Targets
  BY DEF IInv, TypeOK, BusyLoopsHaveTarget, Busy
<1>2. phase[l] # "none" /\ \A k \in Loops : k # l => phase[k] = "none"
  <2>1. phase[l] # "none"
    BY DEF Sweep, CopyTargets, ReadPrevious, Check, Store, Publish, EnterSelect, SelectTick
  <2>. QED  BY <2>1, NoOtherLoop
<1>3. CASE CopyTargets(l) \/ EnterSelect(l) \/ SelectTick(l)
  BY <1>1, <1>2, <1>3 DEF CopyTargets, EnterSelect, SelectTick, ChecksInStep, Busy, StatusesTold,
     Known, Told, Published
<1>4. CASE ReadPrevious(l)
  BY <1>1, <1>2, <1>4 DEF ReadPrevious, ChecksInStep, Busy, StatusesTold, Known, Told, Verdict,
     Published
<1>5. CASE Check(l)
  <2>1. new'[l].known
    BY <1>1, <1>5 DEF Check, Counted
  <2>. QED  BY <1>1, <1>2, <1>5, <2>1 DEF Check, ChecksInStep, Busy, StatusesTold, Known, Told,
            Published
<1>6. CASE Store(l)
  BY <1>1, <1>2, <1>6 DEF Store, ChecksInStep, Busy, StatusesTold, Known, Told, Published
<1>7. CASE Publish(l)
  <2>1. told'[current[l]] = Verdict(new[l])
    <3>1. CASE Publishes(previous[l], new[l])
      BY <1>1, <1>7, <3>1 DEF Publish, Verdict, Busy
    <3>2. CASE ~Publishes(previous[l], new[l])
      BY <1>1, <1>7, <3>2 DEF Publish, Publishes, Verdict, Busy, ChecksInStep
    <3>. QED  BY <3>1, <3>2
  <2>2. status[current[l]].known => status[current[l]] = new[l]
    BY <1>7 DEF Publish, ChecksInStep
  <2>3. \A t \in Targets : t # current[l] => told'[t] = told[t]
    BY <1>1, <1>7 DEF Publish
  <2>4. ChecksInStep'
    BY <1>1, <1>2, <1>7 DEF Publish, ChecksInStep, Busy
  <2>5. ASSUME NEW t \in Targets, status[t].known
        PROVE  told'[t] = Verdict(status[t])
    <3>1. CASE t = current[l]
      BY <2>1, <2>2, <2>5, <3>1
    <3>2. CASE t # current[l]
      BY <1>2, <2>3, <2>5, <3>2 DEF StatusesTold, Known, Told, Published, Verdict
    <3>. QED  BY <3>1, <3>2
  <2>6. status' = status
    BY <1>7 DEF Publish
  <2>. QED  BY <2>4, <2>5, <2>6 DEF StatusesTold, Known, Told, Verdict
<1>. QED  BY <1>3, <1>4, <1>5, <1>6, <1>7 DEF Sweep

LEMMA NextTold ==
  IInv /\ OneLoop /\ ChecksInStep /\ StatusesTold /\ [Next]_vars => ChecksInStep' /\ StatusesTold'
<1>. SUFFICES ASSUME IInv, OneLoop, ChecksInStep, StatusesTold, [Next]_vars
              PROVE  ChecksInStep' /\ StatusesTold'
  OBVIOUS
<1>. USE DEF ChecksInStep, StatusesTold, Busy, Known, Told, Published, registry, monitor, loop, check
<1>1. CASE UNCHANGED vars
  BY <1>1 DEF vars
<1>2. ASSUME NEW t \in Targets, RegisterTarget(t) \/ Flip(t)
      PROVE  ChecksInStep' /\ StatusesTold'
  BY <1>2 DEF RegisterTarget, Flip
<1>3. ASSUME NEW t \in Targets, UnregisterTarget(t)
      PROVE  ChecksInStep' /\ StatusesTold'
  <2>1. /\ status \in [Targets -> Status] /\ ~status'[t].known
        /\ \A u \in Targets : u # t => status'[u] = status[u]
        /\ \A l \in Loops : phase[l] = "publish" => current[l] \in Targets
    BY <1>3 DEF UnregisterTarget, NoStatus, IInv, TypeOK, BusyLoopsHaveTarget
  <2>. QED  BY <1>3, <2>1 DEF UnregisterTarget
<1>4. ASSUME NEW l \in Loops, StartMonitoring(l) \/ SelectDone(l) \/ Cancel(l)
      PROVE  ChecksInStep' /\ StatusesTold'
  <2>1. phase \in [Loops -> Phases]
    BY DEF IInv, TypeOK
  <2>2. \A k \in Loops : phase'[k] \in {"request", "store", "publish"} => phase'[k] = phase[k]
    BY <1>4, <2>1 DEF StartMonitoring, SelectDone, Cancel, Goto
  <2>3. \A k \in Loops : phase[k] = "publish" => phase'[k] = "publish"
    BY <1>4, <2>1 DEF StartMonitoring, SelectDone, Cancel, Goto
  <2>4. UNCHANGED <<status, told, current, previous, new>>
    BY <1>4 DEF StartMonitoring, SelectDone, Cancel
  <2>. QED  BY <2>2, <2>3, <2>4
<1>5. CASE StopMonitoring
  BY <1>5 DEF StopMonitoring
<1>. HIDE DEF ChecksInStep, StatusesTold, Busy, Known, Told, Published, registry, monitor, loop, check
<1>. QED  BY <1>1, <1>2, <1>3, <1>4, <1>5, SweepKeepsTold DEF Next

\* As long as no two loops are at work, the last event about a target agrees with its status,
\* however registration, checks and restarts come between: what a loop does not publish was
\* told before.
THEOREM StatusesAreTold == Spec => EventsFollowStatus
<1>1. StatusesTold =>
        \A t \in Known : (\A l \in Loops : phase[l] = "publish" => current[l] # t) => Told(t)
  BY DEF StatusesTold, Published
<1>2. Spec => []IInv
  BY InitIInv, NextIInv, PTL DEF Spec
<1>. QED  BY <1>1, <1>2, InitTold, NextTold, PTL DEF Spec, EventsFollowStatus
=============================================================================
