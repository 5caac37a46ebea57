---------------------------- MODULE HealthChecker ----------------------------
(***************************************************************************)
(* internal/health: the periodic checker (checker.go), and the verdict the *)
(* aggregator (aggregator.go) draws from its status map.                   *)
(*                                                                         *)
(* StartMonitoring spawns a goroutine, the monitoring loop; StopMonitoring *)
(* closes stopChan and does not wait for it.  The loop copies the targets, *)
(* then for each target reads its status under the lock, sends the request *)
(* without it, stores the new status under the lock and publishes events.  *)
(* Between these steps targets come and go, and monitoring is stopped and  *)
(* started again: a loop that comes back to its select finds the stopChan  *)
(* of that moment, which may be its successor's.                           *)
(*                                                                         *)
(* stopChan is a number, the channel that the n-th StartMonitoring made    *)
(* (0: the one of the constructor, which no loop waits for).               *)
(* Nothing in the code tells a second consecutive success or failure from  *)
(* a later one, so that a small CountCap loses nothing.                    *)
(***************************************************************************)
EXTENDS Naturals, FiniteSets

CONSTANTS
  Targets,             \* target names
  NoTarget,
  Loops,               \* monitoring goroutines (slots: reused when one has ended)
  UnhealthyThreshold,  \* HealthConfig
  CountCap,            \* bound: the consecutive counters stop here
  MaxStarts            \* bound: calls of StartMonitoring

ASSUME CheckerAssumption ==
  /\ IsFiniteSet(Targets) /\ NoTarget \notin Targets
  /\ IsFiniteSet(Loops)
  /\ UnhealthyThreshold \in Nat \ {0}
  /\ CountCap \in Nat \ {0}
  /\ MaxStarts \in Nat

VARIABLES
  targets,    \* hc.targets
  status,     \* hc.status
  told,       \* the verdict in the last event published about each target
  running,    \* hc.running
  stopChan,   \* hc.stopChan
  closed,     \* the stop channels that were closed
  phase,      \* where each loop is
  chan,       \* the stop channel it read last
  cancelled,  \* its context is done
  todo,       \* the targets its sweep has still to check
  current,    \* the target it is checking ...
  previous,   \* ... with its previousStatus
  new,        \* ... and its newStatus
  backendUp   \* environment: does the target answer as expected?

registry == <<targets, status>>
monitor  == <<running, stopChan, closed>>
check    == <<current, previous, new>>
loop     == <<phase, chan, cancelled, todo, check>>
vars     == <<registry, told, monitor, loop, backendUp>>

-----------------------------------------------------------------------------
(* Statuses                                                                *)

\* The absence of a map entry.
NoStatus == [known |-> FALSE, healthy |-> FALSE, failures |-> 0, successes |-> 0]

Status == [known : BOOLEAN, healthy : BOOLEAN,
           failures : 0 .. CountCap, successes : 0 .. CountCap]

Successor(n) == IF n < CountCap THEN n + 1 ELSE n

\* The counters of checkAllTargets.
Counted(old, healthy) ==
  [known     |-> TRUE,
   healthy   |-> healthy,
   failures  |-> IF healthy THEN 0 ELSE IF old.healthy THEN 1 ELSE Successor(old.failures),
   successes |-> IF ~healthy THEN 0 ELSE IF old.healthy THEN Successor(old.successes) ELSE 1]

\* Mutation: only failures are news.
PublishesFailures(old, now) == ~now.healthy /\ (~old.known \/ old.healthy)

\* A first status or a change of verdict is published, and so is the first of
\* the failures that do not yet reach the threshold.
Publishes(old, now) ==
  \/ ~old.known
  \/ old.healthy # now.healthy
  \/ now.failures \in 1 .. UnhealthyThreshold - 1 /\ old.failures = 0

-----------------------------------------------------------------------------

Phases == {"none", "begin", "sweep", "request", "store", "publish", "select"}

TypeOK ==
  /\ targets   \subseteq Targets
  /\ status    \in [Targets -> Status]
  /\ told      \in [Targets -> {"nothing", "healthy", "unhealthy"}]
  /\ running   \in BOOLEAN
  /\ stopChan  \in 0 .. MaxStarts
  /\ closed    \subseteq 1 .. stopChan
  /\ phase     \in [Loops -> Phases]
  /\ chan      \in [Loops -> 0 .. MaxStarts]
  /\ cancelled \in [Loops -> BOOLEAN]
  /\ todo      \in [Loops -> SUBSET Targets]
  /\ current   \in [Loops -> Targets \cup {NoTarget}]
  /\ previous  \in [Loops -> Status]
  /\ new       \in [Loops -> Status]
  /\ backendUp \in [Targets -> BOOLEAN]

Init ==
  /\ targets   = {}
  /\ status    = [t \in Targets |-> NoStatus]
  /\ told      = [t \in Targets |-> "nothing"]
  /\ running   = FALSE
  /\ stopChan  = 0
  /\ closed    = {}
  /\ phase     = [l \in Loops |-> "none"]
  /\ chan      = [l \in Loops |-> 0]
  /\ cancelled = [l \in Loops |-> FALSE]
  /\ todo      = [l \in Loops |-> {}]
  /\ current   = [l \in Loops |-> NoTarget]
  /\ previous  = [l \in Loops |-> NoStatus]
  /\ new       = [l \in Loops |-> NoStatus]
  /\ backendUp = [t \in Targets |-> TRUE]

-----------------------------------------------------------------------------
(* The methods                                                             *)

RegisterTarget(t) ==
  /\ targets' = targets \cup {t}
  /\ UNCHANGED <<status, told, monitor, loop, backendUp>>

UnregisterTarget(t) ==
  /\ targets' = targets \ {t}
  /\ status'  = [status EXCEPT ![t] = NoStatus]
  /\ UNCHANGED <<told, monitor, loop, backendUp>>

\* Mutation: a restart keeps the channel of the monitoring that was stopped.
StartMonitoringOnOldChannel(l) ==
  /\ ~running
  /\ phase[l] = "none"
  /\ running'   = TRUE
  /\ stopChan'  = IF stopChan = 0 THEN 1 ELSE stopChan
  /\ phase'     = [phase EXCEPT ![l] = "begin"]
  /\ chan'      = [chan EXCEPT ![l] = stopChan']
  /\ cancelled' = [cancelled EXCEPT ![l] = FALSE]
  /\ UNCHANGED <<registry, told, closed, todo, check, backendUp>>

\* With monitoring enabled in the configuration; the started event names no target.
StartMonitoring(l) ==
  /\ ~running
  /\ stopChan < MaxStarts
  /\ phase[l] = "none"
  /\ running'   = TRUE
  /\ stopChan'  = stopChan + 1
  /\ phase'     = [phase EXCEPT ![l] = "begin"]
  /\ chan'      = [chan EXCEPT ![l] = stopChan + 1]
  /\ cancelled' = [cancelled EXCEPT ![l] = FALSE]
  /\ UNCHANGED <<registry, told, closed, todo, check, backendUp>>

\* Mutation: a stop without a start closes the constructor's channel, which no
\* loop waits for, and a second one would close it again.
StopMonitoringUnchecked ==
  /\ running' = FALSE
  /\ closed'  = closed \cup {stopChan}
  /\ UNCHANGED <<registry, told, stopChan, loop, backendUp>>

StopMonitoring ==
  /\ running
  /\ running' = FALSE
  /\ closed'  = closed \cup {stopChan}
  /\ UNCHANGED <<registry, told, stopChan, loop, backendUp>>

-----------------------------------------------------------------------------
(* The monitoring loop                                                     *)

Goto(l, p) == phase' = [phase EXCEPT ![l] = p]

\* Mutation: a sweep skips the targets that have a status.
CopyNewTargets(l) ==
  /\ phase[l] = "begin"
  /\ todo' = [todo EXCEPT ![l] = {t \in targets : ~status[t].known}]
  /\ Goto(l, "sweep")
  /\ UNCHANGED <<registry, told, monitor, chan, cancelled, check, backendUp>>

CopyTargets(l) ==
  /\ phase[l] = "begin"
  /\ todo' = [todo EXCEPT ![l] = targets]
  /\ Goto(l, "sweep")
  /\ UNCHANGED <<registry, told, monitor, chan, cancelled, check, backendUp>>

\* The range over the copied map takes its targets in any order.
ReadPrevious(l) ==
  /\ phase[l] = "sweep"
  /\ \E t \in todo[l] :
       /\ todo'     = [todo EXCEPT ![l] = @ \ {t}]
       /\ current'  = [current EXCEPT ![l] = t]
       /\ previous' = [previous EXCEPT ![l] = status[t]]
  /\ Goto(l, "request")
  /\ UNCHANGED <<registry, told, monitor, chan, cancelled, new, backendUp>>

\* The request fails too when its context is done.
Check(l) ==
  /\ phase[l] = "request"
  /\ new' = [new EXCEPT ![l] = Counted(previous[l], backendUp[current[l]] /\ ~cancelled[l])]
  /\ Goto(l, "store")
  /\ UNCHANGED <<registry, told, monitor, chan, cancelled, todo, current, previous, backendUp>>

Store(l) ==
  /\ phase[l] = "store"
  /\ status' = [status EXCEPT ![current[l]] = new[l]]
  /\ Goto(l, "publish")
  /\ UNCHANGED <<targets, told, monitor, chan, cancelled, todo, check, backendUp>>

Publish(l) ==
  /\ phase[l] = "publish"
  /\ told' = IF Publishes(previous[l], new[l])
             THEN [told EXCEPT ![current[l]] = IF new[l].healthy THEN "healthy" ELSE "unhealthy"]
             ELSE told
  /\ current'  = [current EXCEPT ![l] = NoTarget]
  /\ previous' = [previous EXCEPT ![l] = NoStatus]
  /\ new'      = [new EXCEPT ![l] = NoStatus]
  /\ Goto(l, "sweep")
  /\ UNCHANGED <<registry, monitor, chan, cancelled, todo, backendUp>>

\* The select evaluates hc.stopChan, without the lock that StartMonitoring holds
\* when it writes it: a loop that outlived its monitoring reads either value.
EnterSelect(l) ==
  /\ phase[l] = "sweep"
  /\ todo[l] = {}
  /\ \E n \in {chan[l], stopChan} : chan' = [chan EXCEPT ![l] = n]
  /\ Goto(l, "select")
  /\ UNCHANGED <<registry, told, monitor, cancelled, todo, check, backendUp>>

\* The ticker fires.
SelectTick(l) ==
  /\ phase[l] = "select"
  /\ Goto(l, "begin")
  /\ UNCHANGED <<registry, told, monitor, chan, cancelled, todo, check, backendUp>>

\* ctx.Done() or the stop channel: the goroutine ends.
SelectDone(l) ==
  /\ phase[l] = "select"
  /\ cancelled[l] \/ chan[l] \in closed
  /\ Goto(l, "none")
  /\ UNCHANGED <<registry, told, monitor, chan, cancelled, todo, check, backendUp>>

-----------------------------------------------------------------------------
(* Environment                                                             *)

\* The context that StartMonitoring was given ends.
Cancel(l) ==
  /\ phase[l] # "none"
  /\ ~cancelled[l]
  /\ cancelled' = [cancelled EXCEPT ![l] = TRUE]
  /\ UNCHANGED <<registry, told, monitor, phase, chan, todo, check, backendUp>>

Flip(t) ==
  /\ backendUp' = [backendUp EXCEPT ![t] = ~@]
  /\ UNCHANGED <<registry, told, monitor, loop>>

-----------------------------------------------------------------------------

Sweep(l) ==
  \/ CopyTargets(l)
  \/ ReadPrevious(l)
  \/ Check(l)
  \/ Store(l)
  \/ Publish(l)
  \/ EnterSelect(l)
  \/ SelectTick(l)

Next ==
  \/ \E t \in Targets : RegisterTarget(t) \/ UnregisterTarget(t) \/ Flip(t)
  \/ \E l \in Loops : StartMonitoring(l) \/ Sweep(l) \/ SelectDone(l) \/ Cancel(l)
  \/ StopMonitoring

Spec == Init /\ [][Next]_vars

\* Goroutines are scheduled, requests time out and the ticker ticks; and a select
\* with several cases ready takes each of them sooner or later.
FairSpec ==
  /\ Spec
  /\ \A l \in Loops : WF_vars(Sweep(l)) /\ SF_vars(SelectDone(l))

-----------------------------------------------------------------------------
(* The aggregator and the reporter                                         *)

Known == {t \in Targets : status[t].known}

\* OverallHealth.
OverallHealth ==
  LET healthy   == Cardinality({t \in Known : status[t].healthy})
      unhealthy == Cardinality({t \in Known : ~status[t].healthy})
  IN  CASE Known = {}                              -> "unknown"
        [] Known # {} /\ unhealthy = 0             -> "healthy"
        [] unhealthy > 0 /\ healthy > unhealthy    -> "degraded"
        [] unhealthy > 0 /\ healthy <= unhealthy   -> "unhealthy"

GetHealthReport ==
  [status  |-> OverallHealth,
   total   |-> Cardinality(Known),
   healthy |-> Cardinality({t \in Known : status[t].healthy})]

\* A system without a status yet is not ready.
GetReadinessReport ==
  [ready  |-> OverallHealth \in {"healthy", "degraded"},
   passed |-> [t \in Known |-> status[t].healthy]]

-----------------------------------------------------------------------------
(* Properties                                                              *)

\* While monitoring is on a loop is there that will not take an earlier
\* StopMonitoring for its own, unless its context has ended: a restart makes its own
\* stop channel before it spawns the loop (checker.go l.160-161, 176).
MonitoredWhileRunning ==
  running => \E l \in Loops : chan[l] = stopChan /\ (phase[l] # "none" \/ cancelled[l])

\* No loop that outlived its monitoring works beside a newer one.
OneLoop == Cardinality({l \in Loops : phase[l] # "none"}) <= 1

\* The last event published about t carries the verdict of its status.
Told(t) == told[t] = IF status[t].healthy THEN "healthy" ELSE "unhealthy"

\* "The channel will receive HealthEvent notifications when status changes."
\* (interfaces.go l.26): unless two loops are ever at work, the last event that was
\* published about a target agrees with its status.
EventsFollowStatus ==
  []OneLoop =>
    [](\A t \in Known : (\A l \in Loops : phase[l] = "publish" => current[l] # t) => Told(t))

\* "It performs periodic health checks and maintains health state for backends."
\* (interfaces.go l.12): when from some time on every target is registered and
\* answers, and monitoring goes on in a live context, the system becomes healthy and
\* ready, with a check that passed for every target.
HealthFollowsBackends ==
  <>[](/\ running
       /\ \A t \in Targets : t \in targets /\ backendUp[t]
       /\ \E l \in Loops : phase[l] # "none" /\ ~cancelled[l] /\ chan[l] = stopChan)
    => <>[](/\ GetHealthReport.status = "healthy" /\ GetHealthReport.total = Cardinality(Targets)
            /\ GetReadinessReport = [ready |-> TRUE, passed |-> [t \in Targets |-> TRUE]])

\* "Total is the total number of targets being monitored" (interfaces.go l.214): the
\* status of a target that was unregistered goes away.
UnregisteredForgotten ==
  \A t \in Targets : t \notin targets ~> (status[t].known => t \in targets)
=============================================================================
