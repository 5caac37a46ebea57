---------------------------- MODULE HostRouting ----------------------------
(***************************************************************************)
(* What the router promises: a table from host names to backends, and a    *)
(* request is resolved, in one step between its arrival and its end, to    *)
(* the backend that the table has for its host at that moment.             *)
(***************************************************************************)
CONSTANTS Slots, Hostnames, Backends, NoBackend

VARIABLES bindings,  \* host name -> backend
          asked,     \* slot -> where its request is
          host,      \* slot -> the host name it asks for
          resolved   \* slot -> the backend it was given

vars == <<bindings, asked, host, resolved>>

Init ==
  /\ bindings \in [Hostnames -> Backends \cup {NoBackend}]
  /\ asked    = [s \in Slots |-> "no"]
  /\ host     \in [Slots -> Hostnames]
  /\ resolved = [s \in Slots |-> NoBackend]

\* "Register associates a host with a backend service.  If the host is already
\* registered, it updates the backend."
Bind(n, b) ==
  /\ bindings' = [bindings EXCEPT ![n] = b]
  /\ UNCHANGED <<asked, host, resolved>>

Ask(s, n) ==
  /\ asked[s] = "no"
  /\ asked' = [asked EXCEPT ![s] = "asked"]
  /\ host'  = [host EXCEPT ![s] = n]
  /\ UNCHANGED <<bindings, resolved>>

Resolve(s) ==
  /\ asked[s] = "asked"
  /\ asked'    = [asked EXCEPT ![s] = "resolved"]
  /\ resolved' = [resolved EXCEPT ![s] = bindings[host[s]]]
  /\ UNCHANGED <<bindings, host>>

End(s) ==
  /\ asked[s] = "resolved"
  /\ asked'    = [asked EXCEPT ![s] = "no"]
  /\ resolved' = [resolved EXCEPT ![s] = NoBackend]
  /\ UNCHANGED <<bindings, host>>

Next ==
  \/ \E n \in Hostnames, b \in Backends \cup {NoBackend} : Bind(n, b)
  \/ \E s \in Slots : Resolve(s) \/ End(s) \/ \E n \in Hostnames : Ask(s, n)

Spec == Init /\ [][Next]_vars
=============================================================================
