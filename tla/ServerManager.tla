---------------------------- MODULE ServerManager ----------------------------
(***************************************************************************)
(* internal/server: the ServerManager (manager.go) and the HTTP and HTTPS  *)
(* servers it manages (http.go).                                           *)
(*                                                                         *)
(* StartAll spawns a goroutine per server that runs the blocking Start;    *)
(* StopAll and RemoveServer call Stop while they hold the manager's mutex, *)
(* and StopAll then waits for the goroutines before it lets the mutex go.  *)
(* The mutex lets one method be under way at a time: `method` is the one,  *)
(* and a method can be called only when there is none.  What races with it *)
(* are the Start goroutines and the connections.                           *)
(*                                                                         *)
(* net/http is external: a Server whose Shutdown was called never serves   *)
(* again, Serve returns ErrServerClosed at once or after Shutdown closed    *)
(* its listener (it may still hand over a connection it had accepted), and *)
(* Shutdown waits for Serve, and then for connections until its context    *)
(* ends.                                                                   *)
(***************************************************************************)
EXTENDS Naturals

CONSTANTS
  Servers,   \* the server objects (each added under one name)
  NoServer,  \* nil
  MaxConns   \* bound: connections a server has open at once

ASSUME ServerAssumption == NoServer \notin Servers /\ MaxConns \in Nat

VARIABLES
  servers,   \* sm.servers
  running,   \* sm.running
  method,    \* the blocking method that holds sm.mutex
  todo,      \* servers its loop still has to Stop
  draining,  \* the server whose Stop is under way
  up,        \* s.running of each server, as a Boolean
  starter,   \* where the goroutine that runs its Start is; sm.wg counts the live ones
  result,    \* what its last Start returned
  closed,    \* net/http: Shutdown was called on its http.Server
  conns,     \* its activeConnections
  gaveUp     \* its last Shutdown ended by its timeout

manager == <<servers, running, method, todo, draining>>
vars    == <<manager, up, starter, result, closed, conns, gaveUp>>

TypeOK ==
  /\ servers  \subseteq Servers
  /\ running  \in BOOLEAN
  /\ method   \in {"none", "RemoveServer", "StopAll"}
  /\ todo     \subseteq Servers
  /\ draining \in Servers \cup {NoServer}
  /\ up       \in [Servers -> BOOLEAN]
  /\ starter  \in [Servers -> {"none", "spawned", "listen", "serve", "serving"}]
  /\ result   \in [Servers -> {"none", "nil", "error"}]
  /\ closed   \in [Servers -> BOOLEAN]
  /\ conns    \in [Servers -> 0 .. MaxConns]
  /\ gaveUp   \in [Servers -> BOOLEAN]

Init ==
  /\ servers  = {}
  /\ running  = FALSE
  /\ method   = "none"
  /\ todo     = {}
  /\ draining = NoServer
  /\ up       = [s \in Servers |-> FALSE]
  /\ starter  = [s \in Servers |-> "none"]
  /\ result   = [s \in Servers |-> "none"]
  /\ closed   = [s \in Servers |-> FALSE]
  /\ conns    = [s \in Servers |-> 0]
  /\ gaveUp   = [s \in Servers |-> FALSE]

-----------------------------------------------------------------------------
(* The manager.  Calls that return an error change nothing.                *)

\* A server added while the manager runs is managed, but nothing starts it.
AddServer(s) ==
  /\ method = "none"
  /\ s \notin servers
  /\ servers' = servers \cup {s}
  /\ UNCHANGED <<running, method, todo, draining, up, starter, result, closed, conns, gaveUp>>

StartAll ==
  /\ method = "none"
  /\ ~running
  /\ servers # {}
  /\ running' = TRUE
  /\ starter' = [s \in Servers |-> IF s \in servers THEN "spawned" ELSE starter[s]]
  /\ UNCHANGED <<servers, method, todo, draining, up, result, closed, conns, gaveUp>>

StopAll ==
  /\ method = "none"
  /\ running
  /\ method' = "StopAll"
  /\ todo'   = servers
  /\ UNCHANGED <<servers, running, draining, up, starter, result, closed, conns, gaveUp>>

\* RemoveServer of a manager that runs stops the server first.  (The entry goes
\* after that, but under the same mutex: nobody can see it in between.)
RemoveServer(s) ==
  /\ method = "none"
  /\ s \in servers
  /\ servers' = servers \ {s}
  /\ IF running
     THEN method' = "RemoveServer" /\ todo' = {s}
     ELSE UNCHANGED <<method, todo>>
  /\ UNCHANGED <<running, draining, up, starter, result, closed, conns, gaveUp>>

\* Mutation: Stop shuts down only a server that is seen serving already.
StopServingOnly(s) ==
  /\ method # "none"
  /\ draining = NoServer
  /\ s \in todo
  /\ todo' = todo \ {s}
  /\ up'   = [up EXCEPT ![s] = FALSE]
  /\ draining' = IF up[s] /\ starter[s] = "serving" THEN s ELSE NoServer
  /\ UNCHANGED <<servers, running, method, starter, result, closed, conns, gaveUp>>

\* Server.Stop begins: the compare-and-swap, and nothing more if the server
\* is not running yet or any more.
Stop(s) ==
  /\ method # "none"
  /\ draining = NoServer
  /\ s \in todo
  /\ todo' = todo \ {s}
  /\ IF up[s]
     THEN up' = [up EXCEPT ![s] = FALSE] /\ draining' = s
     ELSE UNCHANGED <<up, draining>>
  /\ UNCHANGED <<servers, running, method, starter, result, closed, conns, gaveUp>>

Draining(s) == draining = s /\ s \in Servers

\* Shutdown closes the listener ...
ShutdownBegins(s) ==
  /\ Draining(s)
  /\ ~closed[s]
  /\ closed' = [closed EXCEPT ![s] = TRUE]
  /\ UNCHANGED <<manager, up, starter, result, conns, gaveUp>>

\* Mutation: Shutdown returns without waiting for connections.
ShutdownReturnsAtOnce(s) ==
  /\ Draining(s)
  /\ closed[s]
  /\ gaveUp'   = [gaveUp EXCEPT ![s] = FALSE]
  /\ draining' = NoServer
  /\ UNCHANGED <<servers, running, method, todo, up, starter, result, closed, conns>>

\* ... waits until Serve has left, and returns when no connection is left, or
\* with an error when the ShutdownTimeout ends first.
ShutdownReturns(s) ==
  /\ Draining(s)
  /\ closed[s]
  /\ starter[s] # "serving"
  /\ gaveUp'   = [gaveUp EXCEPT ![s] = conns[s] > 0]
  /\ draining' = NoServer
  /\ UNCHANGED <<servers, running, method, todo, up, starter, result, closed, conns>>

RemoveServerReturns ==
  /\ method = "RemoveServer"
  /\ todo = {}
  /\ draining = NoServer
  /\ method' = "none"
  /\ UNCHANGED <<servers, running, todo, draining, up, starter, result, closed, conns, gaveUp>>

\* Mutation: StopAll returns without sm.wg.Wait().
StopAllReturnsUnwaited ==
  /\ method = "StopAll"
  /\ todo = {}
  /\ draining = NoServer
  /\ method'  = "none"
  /\ running' = FALSE
  /\ UNCHANGED <<servers, todo, draining, up, starter, result, closed, conns, gaveUp>>

\* sm.wg.Wait(), with sm.mutex held.
StopAllReturns ==
  /\ method = "StopAll"
  /\ todo = {}
  /\ draining = NoServer
  /\ \A s \in Servers : starter[s] = "none"
  /\ method'  = "none"
  /\ running' = FALSE
  /\ UNCHANGED <<servers, todo, draining, up, starter, result, closed, conns, gaveUp>>

-----------------------------------------------------------------------------
(* Server.Start, in the goroutine that StartAll spawned.                   *)

Finish(s, res) ==
  /\ starter' = [starter EXCEPT ![s] = "none"]
  /\ result'  = [result EXCEPT ![s] = res]

\* The compare-and-swap: a server that is running already is left alone.
StartCAS(s) ==
  /\ starter[s] = "spawned"
  /\ IF up[s]
     THEN Finish(s, "error") /\ UNCHANGED up
     ELSE /\ up'      = [up EXCEPT ![s] = TRUE]
          /\ starter' = [starter EXCEPT ![s] = "listen"]
          /\ UNCHANGED result
  /\ UNCHANGED <<manager, closed, conns, gaveUp>>

\* net.Listen: the address may be taken.
Listen(s) ==
  /\ starter[s] = "listen"
  /\ \/ starter' = [starter EXCEPT ![s] = "serve"] /\ UNCHANGED <<up, result>>
     \/ up' = [up EXCEPT ![s] = FALSE] /\ Finish(s, "error")
  /\ UNCHANGED <<manager, closed, conns, gaveUp>>

\* Serve: ErrServerClosed at once after a Shutdown, or it accepts connections.
Serve(s) ==
  /\ starter[s] = "serve"
  /\ IF closed[s]
     THEN Finish(s, "nil")
     ELSE starter' = [starter EXCEPT ![s] = "serving"] /\ UNCHANGED result
  /\ UNCHANGED <<manager, up, closed, conns, gaveUp>>

\* Serve returns ErrServerClosed: Start returns nil and leaves s.running.
ServeReturns(s) ==
  /\ starter[s] = "serving"
  /\ closed[s]
  /\ Finish(s, "nil")
  /\ UNCHANGED <<manager, up, closed, conns, gaveUp>>

\* Serve returns another error (the listener failed).
ServeFails(s) ==
  /\ starter[s] = "serving"
  /\ ~closed[s]
  /\ up' = [up EXCEPT ![s] = FALSE]
  /\ Finish(s, "error")
  /\ UNCHANGED <<manager, closed, conns, gaveUp>>

-----------------------------------------------------------------------------
(* Connections                                                             *)

ConnNew(s) ==
  /\ starter[s] = "serving"
  /\ conns[s] < MaxConns
  /\ conns' = [conns EXCEPT ![s] = @ + 1]
  /\ UNCHANGED <<manager, up, starter, result, closed, gaveUp>>

\* Mutation: a connection is discounted when it goes idle and when it closes.
ConnClosedTwice(s) ==
  /\ conns[s] > 0
  /\ conns' = [conns EXCEPT ![s] = @ - 2]
  /\ UNCHANGED <<manager, up, starter, result, closed, gaveUp>>

ConnClosed(s) ==
  /\ conns[s] > 0
  /\ conns' = [conns EXCEPT ![s] = @ - 1]
  /\ UNCHANGED <<manager, up, starter, result, closed, gaveUp>>

-----------------------------------------------------------------------------

Starter(s) == StartCAS(s) \/ Listen(s) \/ Serve(s) \/ ServeReturns(s)

Holder ==
  \/ \E s \in Servers : Stop(s) \/ ShutdownBegins(s) \/ ShutdownReturns(s)
  \/ RemoveServerReturns
  \/ StopAllReturns

Next ==
  \/ \E s \in Servers :
       \/ AddServer(s)
       \/ RemoveServer(s)
       \/ Starter(s)
       \/ ServeFails(s)
       \/ ConnNew(s)
       \/ ConnClosed(s)
  \/ StartAll
  \/ StopAll
  \/ Holder

Spec == Init /\ [][Next]_vars

\* The Go scheduler runs every goroutine that can run, and a Shutdown ends at
\* the latest with its timeout.  Nobody has to call the manager, and neither
\* connections nor listeners have to end.
FairSpec ==
  /\ Spec
  /\ WF_vars(Holder)
  /\ \A s \in Servers : WF_vars(Starter(s))

-----------------------------------------------------------------------------
(* Properties                                                              *)

\* A manager that is not running has no Start goroutine left: StartAll never
\* spawns a second goroutine for a server whose first one is still there, and a
\* StopAll that has returned leaves nothing serving (manager.go l.164-165).
NoStarterLeftBehind == ~running => \A s \in Servers : starter[s] = "none"

\* "It waits for active connections to finish within the timeout" (interfaces.go
\* l.17): an open connection belongs to a server that serves or is being shut down,
\* unless a Shutdown gave up on it or its listener failed.
NoOrphanConnection ==
  \A s \in Servers :
    conns[s] > 0 => \/ starter[s] = "serving"
                    \/ draining = s
                    \/ gaveUp[s]
                    \/ result[s] = "error"

\* The manager's method passed the server by before its goroutine ran Start.
PassedBy(s) ==
  /\ starter[s] = "spawned"
  /\ ~(s \in servers /\ method # "StopAll") /\ s \notin todo

\* StopAll returns, provided that no server was stopped, or removed, before its
\* goroutine had entered Start: whatever else the goroutines are doing, the shared
\* flag and the http.Server's own state between them make every Start return.
StopAllReturnsOnceStarted ==
  ([]\A s \in Servers : ~PassedBy(s)) => (method = "StopAll" ~> method = "none")

\* "StopAll gracefully stops all managed servers." (interfaces.go l.57): it returns.
StopAllAlwaysReturns == method = "StopAll" ~> method = "none"

\* "This is a blocking call that runs until the server is stopped." (interfaces.go
\* l.13): Start returns nil only after a Stop.
StartBlocksUntilStopped ==
  [][\A s \in Servers :
       starter[s] # "none" /\ starter'[s] = "none" /\ result'[s] = "nil" => ~up[s]]_vars
=============================================================================
