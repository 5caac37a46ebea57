------------------------ MODULE CircuitBreakerProps -------------------------
(***************************************************************************)
(* The properties of CircuitBreaker.                                       *)
(***************************************************************************)
EXTENDS CircuitBreaker, FiniteSets

\* The circuit the rest of the program sees for a target.
Published(t) == IF circuits[t] = NoCircuit THEN NewCircuit ELSE heap[t][circuits[t]]

\* Two callers that find no circuit at the same time must not end up with an
\* object each: a result recorded in the loser's object would be lost.  The
\* double check under cb.mu (circuit.go l.60-67, 117-124, 171-178) is there for it.
OneCircuitPerTarget ==
  \A c \in Callers :
    pc[c] \in {"section", "upgrade"} => /\ circuit[c] # NoCircuit
                                        /\ circuit[c] = circuits[target[c]]

Agrees(k) ==
  /\ k.state = "closed" => k.failures < FailureThreshold
  /\ k.state = "half-open" => k.successes < SuccessThreshold

\* A circuit that is closed is short of its failure threshold, and one that is
\* half-open short of its success threshold: no order of results, resets and
\* transitions leaves a circuit in a state its counters say it should have left.
CountersAgreeWithState == \A t \in Targets : Agrees(Published(t))

\* How close a circuit is to its next move.
Streak(k) ==
  CASE k.state = "closed"    -> k.failures
    [] k.state = "half-open" -> k.successes
    [] OTHER                 -> 0

Protocol ==
  INSTANCE BreakerProtocol WITH
    mode   <- [t \in Targets |-> Published(t).state],
    streak <- [t \in Targets |-> Streak(Published(t))],
    waited <- [t \in Targets |-> Published(t).age]

\* Whatever callers interleave, each target's circuit moves as BreakerProtocol
\* says.  This is where a lost failure, a transition made on a stale check or a
\* counter carried over from an earlier state would show.
ImplementsProtocol == Protocol!Spec

\* "allows for gradual recovery" (interfaces.go l.129): if from some time on the
\* backend answers every request and requests keep coming, its circuit closes.
Recovery ==
  \A t \in Targets : <>[]backendUp[t] => []<>(Published(t).state = "closed")

\* "MaxRequests is the maximum number of requests allowed in half-open state."
\* (interfaces.go l.181): no more requests than that are under way that Allow
\* admitted because the circuit was half-open.
HalfOpenLimit ==
  \A t \in Targets :
    Published(t).state = "half-open" =>
      Cardinality({c \in Callers : grant[c] = "half-open" /\ target[c] = t}) <= MaxRequests

\* "Timeout is how long the circuit stays open before allowing test requests."
\* (interfaces.go l.178): no call of Allow ends with a grant while the circuit is
\* open and the timeout has not elapsed.
NoRequestWhileOpen ==
  [][\A c \in Callers :
       grant[c] = "none" /\ grant'[c] # "none" =>
         ~(Published(target[c]).state = "open" /\ Published(target[c]).age < Timeout)]_vars
=============================================================================
