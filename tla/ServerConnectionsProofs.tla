----------------------- MODULE ServerConnectionsProofs -----------------------
(***************************************************************************)
(* The retries of serverConnectionLoop, for any set of servers and any     *)
(* number of edits and changes: they stop only when nothing is left to     *)
(* retry.                                                                  *)
(***************************************************************************)
EXTENDS ServerConnections, TLAPS

(***************************************************************************)
(* While the loop visits the servers of a tick, each server it visited is  *)
(* connected or the failure is remembered; an update starts the ticker     *)
(* before it dials.  Without the first part the ticker could be stopped    *)
(* for the sake of the last server alone, without the second while the     *)
(* servers of an update are still being dialled.                           *)
(***************************************************************************)
Types ==
  /\ failed \in BOOLEAN /\ ticking \in BOOLEAN
  /\ connectedServers = [s \in Known |-> connectedServers[s]]
  /\ left \subseteq Known

VisitedOrFailed ==
  loop = "tick" /\ ~failed => \A s \in Known \ left : connectedServers[s]

UpdateTicks == loop = "update" => ticking

IInv == Types /\ VisitedOrFailed /\ UpdateTicks /\ NothingLeftToRetry

LEMMA InitIInv == Init => IInv
BY DEF Init, IInv, Types, VisitedOrFailed, UpdateTicks, NothingLeftToRetry, Known

(***************************************************************************)
(* A server that is dialled stays connected, or the failure is noted.      *)
(***************************************************************************)
LEMMA ConnectKeeps ==
  ASSUME IInv, NEW s \in Server, connectToSocket(s)
  PROVE  IInv'
<1>1. /\ UNCHANGED <<loop, ticking>> /\ left' = left \ {s} /\ s \in left /\ s \in Known
  BY DEF connectToSocket, IInv, Types, tickerVars
<1>2. CASE connectedServers[s] /\ UNCHANGED <<connectedServers, failed>>
  BY <1>1, <1>2 DEF IInv, Types, VisitedOrFailed, UpdateTicks, NothingLeftToRetry, Known
<1>3. CASE connectedServers' = [connectedServers EXCEPT ![s] = TRUE] /\ UNCHANGED failed
  <2>1. Known' = Known /\ connectedServers'[s] /\ \A x \in Known : x # s => connectedServers'[x] = connectedServers[x]
    BY <1>1, <1>3 DEF Known
  <2>2. Types'
    BY <1>1, <1>3 DEF IInv, Types, Known
  <2>3. VisitedOrFailed' /\ NothingLeftToRetry' /\ UpdateTicks'
    BY <1>1, <1>3, <2>1 DEF IInv, Types, VisitedOrFailed, UpdateTicks, NothingLeftToRetry
  <2> QED  BY <2>2, <2>3 DEF IInv
<1>4. CASE failed' = TRUE /\ UNCHANGED connectedServers
  BY <1>1, <1>4 DEF IInv, Types, VisitedOrFailed, UpdateTicks, NothingLeftToRetry, Known
<1> QED  BY <1>2, <1>3, <1>4 DEF connectToSocket

(***************************************************************************)
(* connectToServers returns with every server visited.                     *)
(***************************************************************************)
LEMMA ConnectedKeeps ==
  ASSUME IInv, connected
  PROVE  IInv'
<1>1. /\ UNCHANGED <<connectedServers, left, failed>> /\ loop' = "select" /\ left = {}
  BY DEF connected
<1>2. /\ loop = "first" => ticking' = TRUE
      /\ loop = "tick" => ticking' = failed
      /\ loop = "update" => ticking' = ticking
      /\ loop \in {"first", "tick", "update"}
  BY DEF connected
<1>3. Known' = Known
  BY <1>1 DEF Known
<1>4. Types' /\ VisitedOrFailed' /\ UpdateTicks'
  BY <1>1, <1>2, <1>3 DEF IInv, Types, VisitedOrFailed, UpdateTicks
<1>5. ASSUME ~ticking' PROVE \A s \in Known : connectedServers[s]
  <2>1. loop = "tick" /\ ~failed
    BY <1>2, <1>5 DEF IInv, UpdateTicks
  <2> QED  BY <1>1, <2>1 DEF IInv, VisitedOrFailed
<1> QED  BY <1>1, <1>3, <1>4, <1>5 DEF IInv, NothingLeftToRetry

(***************************************************************************)
(* A tick or an update makes the loop visit all it knows.                  *)
(***************************************************************************)
LEMMA VisitAgainKeeps ==
  ASSUME IInv, NEW servers, NEW why \in {"tick", "update"}, connectToServers(servers, why),
         ticking' \in BOOLEAN, why = "update" => ticking'
  PROVE  IInv'
<1>1. /\ connectedServers' = [s \in Known \cup servers |-> s \in Known /\ connectedServers[s]]
      /\ left' = DOMAIN connectedServers' /\ failed' = FALSE /\ loop' = why
  BY DEF connectToServers, updateServersState
<1>2. Known' = Known \cup servers /\ left' = Known'
  BY <1>1 DEF Known
<1>3. Types'
  BY <1>1, <1>2 DEF Types
<1> QED  BY <1>1, <1>2, <1>3 DEF IInv, VisitedOrFailed, UpdateTicks, NothingLeftToRetry

LEMMA LoopKeeps ==
  ASSUME IInv, serverConnectionLoop
  PROVE  IInv'
<1>1. CASE onTick
  BY <1>1, VisitAgainKeeps DEF onTick, IInv, Types
<1>2. CASE onUpdate
  BY <1>2, VisitAgainKeeps DEF onUpdate
<1>3. CASE onDone
  BY <1>3 DEF onDone, IInv, Types, VisitedOrFailed, UpdateTicks, NothingLeftToRetry, Known
<1> QED  BY <1>1, <1>2, <1>3, ConnectKeeps, ConnectedKeeps DEF serverConnectionLoop

(***************************************************************************)
(* The file, the watcher, the servers and the network change nothing the   *)
(* loop goes by.                                                           *)
(***************************************************************************)
LEMMA OthersKeep ==
  ASSUME IInv, UNCHANGED <<connectVars, ticking>>
  PROVE  IInv'
BY DEF IInv, Types, VisitedOrFailed, UpdateTicks, NothingLeftToRetry, Known, connectVars

LEMMA NextIInv == IInv /\ [Next]_vars => IInv'
<1> SUFFICES ASSUME IInv, [Next]_vars PROVE IInv'
  OBVIOUS
<1>1. CASE serverConnectionLoop
  BY <1>1, LoopKeeps
<1>2. CASE BeginEdit \/ EndEdit \/ Stop \/ watchConfigFile \/ Tick
  BY <1>2, OthersKeep DEF BeginEdit, EndEdit, Stop, watchConfigFile, Tick, tickerVars
<1>3. ASSUME NEW s \in Server, GoDown(s) \/ GoUp(s) \/ LoseConnection(s) \/ PumpsEnd(s)
      PROVE  IInv'
  BY <1>3, OthersKeep DEF GoDown, GoUp, LoseConnection, PumpsEnd, tickerVars
<1>4. CASE UNCHANGED vars
  BY <1>4, OthersKeep DEF vars, tickerVars
<1> QED  BY <1>1, <1>2, <1>3, <1>4 DEF Next

(***************************************************************************)
(* The loop stops retrying only when it is connected to every server it    *)
(* knows, whatever updates, ticks and failures came in which order.        *)
(***************************************************************************)
THEOREM RetriesUntilConnected == Spec => []NothingLeftToRetry
<1>1. Init => IInv
  BY InitIInv
<1>2. IInv /\ [Next]_vars => IInv'
  BY NextIInv
<1>3. IInv => NothingLeftToRetry
  BY DEF IInv
<1> QED  BY <1>1, <1>2, <1>3, PTL DEF Spec
=============================================================================
