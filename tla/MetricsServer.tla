---------------------------- MODULE MetricsServer ----------------------------
(***************************************************************************)
(* internal/observability/metrics.go: StartMetricsServer stores a server   *)
(* under the mutex and starts a goroutine that reads the field again,      *)
(* without the mutex, when it gets to run; StopMetricsServer shuts down    *)
(* the server that the field has then and resets it.  net/http's server is *)
(* external: its ListenAndServe listens first and then registers with      *)
(* Serve, a server that is shut down does neither, and Shutdown closes     *)
(* what is registered and waits for the connections.  The Start and the    *)
(* Stop of the exporter call these.                                        *)
(***************************************************************************)
EXTENDS Naturals, FiniteSets

CONSTANT MaxStarts   \* bound: servers that are started

Nil     == 0
Ids     == 1 .. MaxStarts   \* a server and the goroutine started with it

VARIABLES
  server,    \* p.server
  stopping,  \* StopMetricsServer is in Shutdown, with the mutex
  created,   \* number of servers so far
  shut,      \* servers that are shut down
  phase,     \* of each goroutine
  serves,    \* the server it found in the field
  crashed,   \* a goroutine found nil: the process is gone
  refused,   \* history: the address was not to be had
  hasty,     \* history: a Stop came before a goroutine had read the field
  caught     \* history: a Stop came between its listening and its registration

vars == <<server, stopping, created, shut, phase, serves, crashed, refused, hasty, caught>>

TypeOK ==
  /\ server \in Ids \cup {Nil} /\ created \in 0 .. MaxStarts
  /\ stopping \in BOOLEAN /\ crashed \in BOOLEAN /\ refused \in BOOLEAN
  /\ hasty \in BOOLEAN /\ caught \in BOOLEAN
  /\ shut \subseteq 1 .. created
  /\ phase \in [Ids -> {"none", "spawned", "called", "listening", "serving", "ended"}]
  /\ serves \in [Ids -> Ids \cup {Nil}]

Init ==
  /\ server = Nil /\ created = 0 /\ shut = {}
  /\ stopping = FALSE /\ crashed = FALSE /\ refused = FALSE /\ hasty = FALSE /\ caught = FALSE
  /\ phase = [i \in Ids |-> "none"] /\ serves = [i \in Ids |-> Nil]

-----------------------------------------------------------------------------

\* An error, and no change, if there is a server.
StartMetricsServer ==
  /\ ~crashed /\ ~stopping /\ server = Nil /\ created < MaxStarts
  /\ created' = created + 1
  /\ server'  = created'
  /\ phase'   = [phase EXCEPT ![created'] = "spawned"]
  /\ UNCHANGED <<stopping, shut, serves, crashed, refused, hasty, caught>>

ReadServer(i) ==
  /\ ~crashed /\ phase[i] = "spawned"
  /\ crashed' = (server = Nil)
  /\ serves'  = [serves EXCEPT ![i] = server]
  /\ phase'   = [phase EXCEPT ![i] = IF server = Nil THEN "ended" ELSE "called"]
  /\ UNCHANGED <<server, stopping, created, shut, refused, hasty, caught>>

Serving(s) == \E i \in Ids : phase[i] = "serving" /\ serves[i] = s
Taken      == \E i \in Ids : phase[i] \in {"listening", "serving"}

\* Every error is dropped: that of a server that is shut down, and that of an address
\* which is taken, be it by another program.
Listen(i) ==
  /\ ~crashed /\ phase[i] = "called"
  /\ \/ /\ serves[i] \notin shut /\ ~Taken
        /\ phase' = [phase EXCEPT ![i] = "listening"]
        /\ UNCHANGED refused
     \/ /\ phase' = [phase EXCEPT ![i] = "ended"]
        /\ refused' = (refused \/ ~(serves[i] \in shut \/ Taken))
  /\ UNCHANGED <<server, stopping, created, shut, serves, crashed, hasty, caught>>

\* If the server was shut down since, Serve closes the listener, and its error is dropped.
Serve(i) ==
  /\ ~crashed /\ phase[i] = "listening"
  /\ phase' = [phase EXCEPT ![i] = IF serves[i] \in shut THEN "ended" ELSE "serving"]
  /\ UNCHANGED <<server, stopping, created, shut, serves, crashed, refused, hasty, caught>>

\* Shutdown closes the listeners that are registered, and makes their ListenAndServe return.
Shutdown ==
  /\ stopping' = TRUE
  /\ phase' = [i \in Ids |-> IF phase[i] = "serving" /\ serves[i] = server THEN "ended" ELSE phase[i]]
  /\ hasty' = (hasty \/ \E i \in Ids : phase[i] = "spawned")
  /\ caught' = (caught \/ \E i \in Ids : phase[i] = "listening")

\* Mutation: the listener is closed and the server not marked.
StopClosingListener ==
  /\ ~crashed /\ ~stopping /\ server # Nil
  /\ Shutdown
  /\ UNCHANGED <<server, created, shut, serves, crashed, refused>>

\* StopMetricsServer up to Shutdown, which marks the server for good, ...
StopMetricsServer ==
  /\ ~crashed /\ ~stopping /\ server # Nil
  /\ Shutdown /\ shut' = shut \cup {server}
  /\ UNCHANGED <<server, created, serves, crashed, refused>>


\* ... and its return, when the connections or the context have ended.
StopReturns ==
  /\ ~crashed /\ stopping
  /\ stopping' = FALSE
  /\ server'   = Nil
  /\ UNCHANGED <<created, shut, phase, serves, crashed, refused, hasty, caught>>

-----------------------------------------------------------------------------

Goroutine(i) == ReadServer(i) \/ Listen(i) \/ Serve(i)

Next ==
  \/ StartMetricsServer \/ StopMetricsServer \/ StopReturns
  \/ \E i \in Ids : Goroutine(i)

Spec == Init /\ [][Next]_vars

\* Goroutines are scheduled; Shutdown ends with its context.
FairSpec == Spec /\ WF_vars(StopReturns) /\ \A i \in Ids : WF_vars(Goroutine(i))

-----------------------------------------------------------------------------
(* Properties                                                              *)

\* What serves is the server in the field: after a Stop nothing does, even if the
\* goroutine gets to run, or to register, only then.
NoListenerLeftBehind == \A i \in Ids : phase[i] = "serving" => serves[i] = server /\ ~stopping

\* A goroutine finds no server only if a Stop did not wait for it to look.
PanicNeedsHastyStop == crashed => hasty

=============================================================================
