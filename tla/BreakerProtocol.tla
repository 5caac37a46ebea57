-------------------------- MODULE BreakerProtocol ---------------------------
(***************************************************************************)
(* What the CircuitBreaker interface (internal/health/interfaces.go)       *)
(* promises about the state of each target's circuit, without callers,     *)
(* locks or objects.  One number per target says how close the circuit is  *)
(* to its next move: the consecutive failures while it is closed, the      *)
(* consecutive successes while it is half-open.                            *)
(***************************************************************************)
EXTENDS Naturals

CONSTANTS Targets, FailureThreshold, SuccessThreshold, Timeout

VARIABLES
  mode,    \* mode[t] \in {"closed", "open", "half-open"}
  streak,  \* streak[t]: consecutive results towards the next move
  waited   \* waited[t]: time since the last failure, up to Timeout

vars == <<mode, streak, waited>>

Init ==
  /\ mode   = [t \in Targets |-> "closed"]
  /\ streak = [t \in Targets |-> 0]
  /\ waited = [t \in Targets |-> Timeout]

Move(t, m, n, w) ==
  /\ mode'   = [mode EXCEPT ![t] = m]
  /\ streak' = [streak EXCEPT ![t] = n]
  /\ waited' = [waited EXCEPT ![t] = w]

\* FailureThreshold failures in a row open a closed circuit, one failure
\* re-opens a half-open one; every failure starts the timeout again.
Fail(t) ==
  \/ /\ mode[t] = "closed"
     /\ streak[t] + 1 < FailureThreshold
     /\ Move(t, "closed", streak[t] + 1, 0)
  \/ /\ mode[t] = "closed"
     /\ streak[t] + 1 = FailureThreshold
     /\ Move(t, "open", 0, 0)
  \/ /\ mode[t] # "closed"
     /\ Move(t, "open", 0, 0)

\* SuccessThreshold successes in a row close a half-open circuit; a success
\* never closes an open one.
Succeed(t) ==
  \/ /\ mode[t] = "closed"
     /\ Move(t, "closed", 0, waited[t])
  \/ /\ mode[t] = "half-open"
     /\ streak[t] + 1 < SuccessThreshold
     /\ Move(t, "half-open", streak[t] + 1, waited[t])
  \/ /\ mode[t] = "half-open"
     /\ streak[t] + 1 = SuccessThreshold
     /\ Move(t, "closed", 0, waited[t])

\* The only way out of open, Reset apart: a full timeout without a failure.
Retry(t) ==
  /\ mode[t] = "open"
  /\ waited[t] = Timeout
  /\ Move(t, "half-open", 0, waited[t])

Clear(t) == Move(t, "closed", 0, Timeout)

Elapse ==
  /\ waited' = [t \in Targets |-> IF waited[t] < Timeout THEN waited[t] + 1 ELSE waited[t]]
  /\ UNCHANGED <<mode, streak>>

Next ==
  \/ \E t \in Targets : Fail(t) \/ Succeed(t) \/ Retry(t) \/ Clear(t)
  \/ Elapse

Spec == Init /\ [][Next]_vars
=============================================================================
