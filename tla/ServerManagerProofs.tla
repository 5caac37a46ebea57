------------------------- MODULE ServerManagerProofs -------------------------
(***************************************************************************)
(* The safety properties of ServerManager, for every set of servers.       *)
(***************************************************************************)
EXTENDS ServerManager, TLAPS

\* A method that blocks is under way only while the manager runs, and Stop is
\* called only from such a method.
MethodImpliesRunning ==
  /\ method # "none" => running
  /\ draining # NoServer => method # "none"

\* An http.Server that is shut down serves only while Shutdown still waits for
\* it, and the connections it has are being waited for or were given up.
ClosedServersDrain ==
  \A s \in Servers :
    closed[s] => /\ starter[s] = "serving" => draining = s
                 /\ conns[s] > 0 => draining = s \/ gaveUp[s]

IInv ==
  /\ TypeOK
  /\ MethodImpliesRunning
  /\ NoStarterLeftBehind
  /\ ClosedServersDrain
  /\ NoOrphanConnection

LEMMA InitIInv == Init => IInv
<1>. SUFFICES ASSUME Init PROVE IInv
  OBVIOUS
<1>1. 0 \in 0 .. MaxConns
  BY ServerAssumption
<1>2. TypeOK
  BY <1>1 DEF Init, TypeOK
<1>3. MethodImpliesRunning /\ NoStarterLeftBehind
  BY DEF Init, MethodImpliesRunning, NoStarterLeftBehind
<1>4. ClosedServersDrain /\ NoOrphanConnection
  BY DEF Init, ClosedServersDrain, NoOrphanConnection
<1>. QED  BY <1>2, <1>3, <1>4 DEF IInv

LEMMA ManagerKeepsIInv ==
  ASSUME IInv,
         \/ \E s \in Servers : AddServer(s) \/ RemoveServer(s) \/ Stop(s)
         \/ StartAll \/ StopAll \/ RemoveServerReturns \/ StopAllReturns
  PROVE  IInv'
<1>. USE ServerAssumption DEF IInv, TypeOK, MethodImpliesRunning, NoStarterLeftBehind,
                              ClosedServersDrain, NoOrphanConnection
<1>1. ASSUME NEW s \in Servers, AddServer(s)
      PROVE  IInv'
  BY <1>1 DEF AddServer
<1>2. ASSUME NEW s \in Servers, RemoveServer(s)
      PROVE  IInv'
  <2>1. CASE running
    BY <1>2, <2>1 DEF RemoveServer
  <2>2. CASE ~running
    BY <1>2, <2>2 DEF RemoveServer
  <2>. QED  BY <2>1, <2>2
<1>3. ASSUME NEW s \in Servers, Stop(s)
      PROVE  IInv'
  <2>1. CASE up[s]
    BY <1>3, <2>1 DEF Stop
  <2>2. CASE ~up[s]
    BY <1>3, <2>2 DEF Stop
  <2>. QED  BY <2>1, <2>2
<1>4. CASE StartAll
  BY <1>4 DEF StartAll
<1>5. CASE StopAll
  BY <1>5 DEF StopAll
<1>6. CASE RemoveServerReturns
  BY <1>6 DEF RemoveServerReturns
<1>7. CASE StopAllReturns
  BY <1>7 DEF StopAllReturns
<1>. QED  BY <1>1, <1>2, <1>3, <1>4, <1>5, <1>6, <1>7

LEMMA ShutdownKeepsIInv ==
  ASSUME IInv, NEW s \in Servers, ShutdownBegins(s) \/ ShutdownReturns(s)
  PROVE  IInv'
<1>. USE ServerAssumption DEF IInv, TypeOK, MethodImpliesRunning, NoStarterLeftBehind,
                              ClosedServersDrain, NoOrphanConnection, Draining
<1>1. CASE ShutdownBegins(s)
  BY <1>1 DEF ShutdownBegins, manager
<1>2. CASE ShutdownReturns(s)
  BY <1>2 DEF ShutdownReturns
<1>. QED  BY <1>1, <1>2

LEMMA StarterKeepsIInv ==
  ASSUME IInv, NEW s \in Servers, Starter(s) \/ ServeFails(s)
  PROVE  IInv'
<1>. USE DEF IInv, TypeOK, MethodImpliesRunning, NoStarterLeftBehind, ClosedServersDrain,
             NoOrphanConnection, Finish, manager
<1>1. CASE StartCAS(s)
  <2>1. CASE up[s]
    BY <1>1, <2>1 DEF StartCAS
  <2>2. CASE ~up[s]
    BY <1>1, <2>2 DEF StartCAS
  <2>. QED  BY <2>1, <2>2
<1>2. CASE Listen(s)
  <2>1. CASE starter' = [starter EXCEPT ![s] = "serve"] /\ UNCHANGED <<up, result>>
    BY <1>2, <2>1 DEF Listen
  <2>2. CASE up' = [up EXCEPT ![s] = FALSE] /\ Finish(s, "error")
    BY <1>2, <2>2 DEF Listen
  <2>. QED  BY <1>2, <2>1, <2>2 DEF Listen
<1>3. CASE Serve(s)
  <2>1. CASE closed[s]
    BY <1>3, <2>1 DEF Serve
  <2>2. CASE ~closed[s]
    BY <1>3, <2>2 DEF Serve
  <2>. QED  BY <2>1, <2>2
<1>4. CASE ServeReturns(s)
  BY <1>4 DEF ServeReturns
<1>5. CASE ServeFails(s)
  BY <1>5 DEF ServeFails
<1>. QED  BY <1>1, <1>2, <1>3, <1>4, <1>5 DEF Starter

LEMMA ConnectionsKeepIInv ==
  ASSUME IInv, NEW s \in Servers, ConnNew(s) \/ ConnClosed(s)
  PROVE  IInv'
<1>. USE ServerAssumption DEF IInv, TypeOK, MethodImpliesRunning, NoStarterLeftBehind,
                              ClosedServersDrain, NoOrphanConnection, manager
<1>1. CASE ConnNew(s)
  BY <1>1 DEF ConnNew
<1>2. CASE ConnClosed(s)
  BY <1>2 DEF ConnClosed
<1>. QED  BY <1>1, <1>2

LEMMA NextIInv == IInv /\ [Next]_vars => IInv'
<1>. SUFFICES ASSUME IInv, [Next]_vars PROVE IInv'
  OBVIOUS
<1>1. CASE UNCHANGED vars
  BY <1>1 DEF vars, manager, IInv, TypeOK, MethodImpliesRunning, NoStarterLeftBehind,
              ClosedServersDrain, NoOrphanConnection
<1>2. CASE Next
  BY <1>2, ManagerKeepsIInv, ShutdownKeepsIInv, StarterKeepsIInv, ConnectionsKeepIInv
  DEF Next, Holder
<1>. QED  BY <1>1, <1>2

\* The variables keep their types.
THEOREM TypeCorrect == Spec => []TypeOK
<1>1. IInv => TypeOK
  BY DEF IInv
<1>. QED  BY <1>1, InitIInv, NextIInv, PTL DEF Spec

\* After StopAll has returned no goroutine is left in Start, so that a StartAll
\* that follows never runs two of them for one server.
THEOREM StopLeavesNoStarter == Spec => []NoStarterLeftBehind
<1>1. IInv => NoStarterLeftBehind
  BY DEF IInv
<1>. QED  BY <1>1, InitIInv, NextIInv, PTL DEF Spec

\* However starts, stops, removals, listener failures and connections interleave,
\* no connection is forgotten but by a timeout or a failed listener.
THEOREM ConnectionsAccountedFor == Spec => []NoOrphanConnection
<1>1. IInv => NoOrphanConnection
  BY DEF IInv
<1>. QED  BY <1>1, InitIInv, NextIInv, PTL DEF Spec
=============================================================================
