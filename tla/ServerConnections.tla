------------------------- MODULE ServerConnections --------------------------
(***************************************************************************)
(* How a Go backend gets connected to the other servers of its             *)
(* configuration file, while the file is edited and servers come and go.   *)
(*                                                                         *)
(* Two goroutines: watchConfigFile loads the file when it was written and  *)
(* hands a changed list of servers over an unbuffered channel to           *)
(* serverConnectionLoop, which dials every server it ever heard of that it *)
(* is not connected to, at once and then at the ticks of a ticker, with a  *)
(* delay that doubles; the ticker is stopped when all are connected.       *)
(*                                                                         *)
(* Abstracted: the order of the list and duplicates in it; the other       *)
(* fields of the file; what is done with a connection once its pumps run   *)
(* (SendGreetServer fails only when a key cannot be encoded).  A tick that *)
(* waits in the channel of the ticker outlives Stop and Reset (Go 1.21).   *)
(* The file is not written before it is watched.                           *)
(***************************************************************************)
EXTENDS Naturals, FiniteSets, Functions

CONSTANTS
  Server,      \* addresses of other servers
  Listed,      \* those the file lists when the process starts
  MaxEdits,    \* bound on the edits of the file
  MaxChanges,  \* bound on how often servers go down or connections are lost
  MayStop      \* the process may be told to stop

ASSUME ConnectionsAssumption ==
  /\ IsFiniteSet(Server)
  /\ Listed \subseteq Server
  /\ MaxEdits \in Nat
  /\ MaxChanges \in Nat
  /\ MayStop \in BOOLEAN

VARIABLES
  file,              \* file.servers: the list; file.valid: it can be parsed
  event,             \* the file was written since watchConfigFile looked
  edits,             \* number of edits
  otherServers,      \* the list watchConfigFile knows
  offered,           \* the lists it waits to hand over: none or one
  serversToConnect,  \* the list serverConnectionLoop knows
  connectedServers,  \* connectedServers[s]: a server it knows is connected
  loop,              \* what it does: "first", "tick", "update", "select", "ended"
  left,              \* the servers the loop of connectToServers has to visit
  failed,            \* a connection failed in that loop
  delay,             \* delay of the ticker, in seconds
  ticking,           \* the ticker is not stopped
  tick,              \* a tick waits in its channel
  up,                \* the servers that accept connections
  link,              \* link[s]: "none", "up", "lost", "closed" connection to s
  changes,           \* number of changes of up and losses of connections
  done               \* the channel done is closed

fileVars == <<file, event, edits>>
watchVars == <<otherServers, offered>>
connectVars == <<serversToConnect, connectedServers, loop, left, failed>>
tickerVars == <<delay, ticking, tick>>
netVars == <<up, changes>>
vars == <<fileVars, watchVars, connectVars, tickerVars, netVars, link, done>>

connectionRetryInitialDelay == 2
connectionRetryMaxDelay == 32
connectionRetryRate == 2

-----------------------------------------------------------------------------
Known == DOMAIN connectedServers

updateServersState(servers) ==
  [s \in Known \cup servers |-> s \in Known /\ connectedServers[s]]

Init ==
  /\ file = [servers |-> Listed, valid |-> TRUE]
  /\ event = FALSE
  /\ edits = 0
  /\ otherServers = Listed
  /\ offered = {}
  /\ serversToConnect = Listed
  /\ connectedServers = [s \in Listed |-> FALSE]
  /\ loop = "first"
  /\ left = Listed
  /\ failed = FALSE
  /\ delay = connectionRetryInitialDelay
  /\ ticking = FALSE
  /\ tick = FALSE
  /\ up \in SUBSET Server
  /\ link = [s \in Server |-> "none"]
  /\ changes = 0
  /\ done = FALSE

-----------------------------------------------------------------------------
(***************************************************************************)
(* The environment: somebody writes the file, which is empty for a moment; *)
(* servers stop and start; connections are lost; the process is stopped.   *)
(***************************************************************************)
BeginEdit ==
  /\ edits < MaxEdits
  /\ file.valid
  /\ edits' = edits + 1
  /\ file' = [file EXCEPT !.valid = FALSE]
  /\ event' = TRUE
  /\ UNCHANGED <<watchVars, connectVars, tickerVars, netVars, link, done>>

EndEdit ==
  /\ ~file.valid
  /\ \E servers \in SUBSET Server :
       file' = [servers |-> servers, valid |-> TRUE]
  /\ event' = TRUE
  /\ UNCHANGED <<edits, watchVars, connectVars, tickerVars, netVars, link, done>>

GoDown(s) ==
  /\ s \in up
  /\ changes < MaxChanges
  /\ up' = up \ {s}
  /\ link' = [link EXCEPT ![s] = IF @ = "up" THEN "lost" ELSE @]
  /\ changes' = changes + 1
  /\ UNCHANGED <<fileVars, watchVars, connectVars, tickerVars, done>>

GoUp(s) ==
  /\ s \notin up
  /\ up' = up \cup {s}
  /\ UNCHANGED <<fileVars, watchVars, connectVars, tickerVars, changes, link, done>>

LoseConnection(s) ==
  /\ link[s] = "up"
  /\ changes < MaxChanges
  /\ link' = [link EXCEPT ![s] = "lost"]
  /\ changes' = changes + 1
  /\ UNCHANGED <<fileVars, watchVars, connectVars, tickerVars, up, done>>

Stop ==
  /\ MayStop
  /\ ~done
  /\ done' = TRUE
  /\ UNCHANGED <<fileVars, watchVars, connectVars, tickerVars, netVars, link>>

-----------------------------------------------------------------------------
(***************************************************************************)
(* watchConfigFile: ignores a file it cannot load, and a list it knows;    *)
(* it hears of nothing while it waits to hand over a list.                 *)
(***************************************************************************)
newServersAdded(servers) ==
  \/ Cardinality(servers) # Cardinality(otherServers)
  \/ ~(servers \subseteq otherServers)

watchConfigFile ==
  /\ event
  /\ offered = {}
  /\ event' = FALSE
  /\ IF file.valid /\ newServersAdded(file.servers)
     THEN /\ otherServers' = file.servers
          /\ offered' = {file.servers}
     ELSE UNCHANGED watchVars
  /\ UNCHANGED <<file, edits, connectVars, tickerVars, netVars, link, done>>

-----------------------------------------------------------------------------
(***************************************************************************)
(* connectToServers visits, in any order, all the servers it knows, listed *)
(* or not, and dials those that are not connected.                         *)
(***************************************************************************)
connectToServers(servers, why) ==
  /\ connectedServers' = updateServersState(servers)
  /\ left' = DOMAIN connectedServers'
  /\ failed' = FALSE
  /\ loop' = why

\* Mistake: the error of the last server is returned.
connectToSocketLast(s) ==
  /\ s \in left
  /\ left' = left \ {s}
  /\ IF connectedServers[s]
     THEN UNCHANGED <<connectedServers, link, failed>>
     ELSE IF s \in up
     THEN /\ connectedServers' = [connectedServers EXCEPT ![s] = TRUE]
          /\ link' = [link EXCEPT ![s] = "up"]
          /\ failed' = FALSE
     ELSE /\ failed' = TRUE
          /\ UNCHANGED <<connectedServers, link>>
  /\ UNCHANGED <<fileVars, watchVars, serversToConnect, loop, tickerVars, netVars, done>>

connectToSocket(s) ==
  /\ s \in left
  /\ left' = left \ {s}
  /\ IF connectedServers[s]
     THEN UNCHANGED <<connectedServers, link, failed>>
     ELSE IF s \in up
     THEN /\ connectedServers' = [connectedServers EXCEPT ![s] = TRUE]
          /\ link' = [link EXCEPT ![s] = "up"]
          /\ UNCHANGED failed
     ELSE /\ failed' = TRUE
          /\ UNCHANGED <<connectedServers, link>>
  /\ UNCHANGED <<fileVars, watchVars, serversToConnect, loop, tickerVars, netVars, done>>

increaseDelay ==
  IF delay >= connectionRetryMaxDelay
  THEN connectionRetryMaxDelay ELSE delay * connectionRetryRate

(***************************************************************************)
(* connectToServers returns: after the first connections the ticker is     *)
(* made; after those of a tick it goes on with a longer delay or stops;    *)
(* after those of an update it goes on.                                    *)
(***************************************************************************)
connected ==
  /\ loop \in {"first", "tick", "update"}
  /\ left = {}
  /\ loop' = "select"
  /\ CASE loop = "first" ->
            /\ ticking' = TRUE
            /\ delay' = connectionRetryInitialDelay
       [] loop = "tick" ->
            /\ ticking' = failed
            /\ delay' = IF failed THEN increaseDelay ELSE delay
       [] loop = "update" -> UNCHANGED <<ticking, delay>>
  /\ UNCHANGED <<fileVars, watchVars, serversToConnect, connectedServers,
                 left, failed, tick, netVars, link, done>>

-----------------------------------------------------------------------------
(***************************************************************************)
(* The select of serverConnectionLoop.                                     *)
(***************************************************************************)
Tick ==
  /\ ticking
  /\ ~tick
  /\ tick' = TRUE
  /\ UNCHANGED <<fileVars, watchVars, connectVars, delay, ticking, netVars, link, done>>

onTick ==
  /\ loop = "select"
  /\ tick
  /\ tick' = FALSE
  /\ connectToServers(serversToConnect, "tick")
  /\ UNCHANGED <<fileVars, watchVars, serversToConnect, delay, ticking,
                 netVars, link, done>>

\* Mistake: a new list does not start the ticker again.
onUpdateWithoutReset ==
  /\ loop = "select"
  /\ \E servers \in offered :
       /\ serversToConnect' = servers
       /\ connectToServers(servers, "update")
  /\ offered' = {}
  /\ UNCHANGED <<fileVars, otherServers, tickerVars, netVars, link, done>>

onUpdate ==
  /\ loop = "select"
  /\ \E servers \in offered :
       /\ serversToConnect' = servers
       /\ connectToServers(servers, "update")
  /\ offered' = {}
  /\ delay' = connectionRetryInitialDelay
  /\ ticking' = TRUE
  /\ UNCHANGED <<fileVars, otherServers, tick, netVars, link, done>>

\* Mistake: the loop ends only when there is nothing to retry.
onDoneWhenConnected ==
  /\ loop = "select"
  /\ done
  /\ ~ticking
  /\ loop' = "ended"
  /\ UNCHANGED <<fileVars, watchVars, serversToConnect, connectedServers,
                 left, failed, delay, ticking, tick, netVars, link, done>>

onDone ==
  /\ loop = "select"
  /\ done
  /\ loop' = "ended"
  /\ ticking' = FALSE
  /\ UNCHANGED <<fileVars, watchVars, serversToConnect, connectedServers,
                 left, failed, delay, tick, netVars, link, done>>

(***************************************************************************)
(* The pumps of a connection end when they are told to.                    *)
(***************************************************************************)
PumpsEnd(s) ==
  /\ done
  /\ link[s] = "up"
  /\ link' = [link EXCEPT ![s] = "closed"]
  /\ UNCHANGED <<fileVars, watchVars, connectVars, tickerVars, netVars, done>>

serverConnectionLoop ==
  \/ \E s \in Server : connectToSocket(s)
  \/ connected
  \/ onTick
  \/ onUpdate
  \/ onDone

Next ==
  \/ BeginEdit
  \/ EndEdit
  \/ \E s \in Server : GoDown(s) \/ GoUp(s) \/ LoseConnection(s) \/ PumpsEnd(s)
  \/ Stop
  \/ watchConfigFile
  \/ serverConnectionLoop
  \/ Tick

Spec == Init /\ [][Next]_vars

(***************************************************************************)
(* Fairness.  The goroutines run, a ticker that is not stopped ticks, and  *)
(* a select that can go on in several ways picks one at random, so that    *)
(* none is passed over forever.  Nobody has to edit the file, or to start  *)
(* or stop anything.                                                       *)
(***************************************************************************)
Fairness ==
  /\ WF_vars(watchConfigFile)
  /\ WF_vars(serverConnectionLoop)
  /\ WF_vars(Tick)
  /\ SF_vars(onUpdate)
  /\ SF_vars(onTick)
  /\ SF_vars(onDone)
  /\ \A s \in Server : WF_vars(PumpsEnd(s))

FairSpec == Spec /\ Fairness

-----------------------------------------------------------------------------
(***************************************************************************)
(* Properties.                                                             *)
(***************************************************************************)

(***************************************************************************)
(* The loop stops retrying only when it connected to every server it knows.*)
(***************************************************************************)
NothingLeftToRetry ==
  loop = "select" /\ ~ticking => \A s \in Known : connectedServers[s]

(***************************************************************************)
(* A server that stays in the file and accepts connections is dialled with *)
(* success sooner or later, whatever the file was when it was read, and    *)
(* whether or not the loop had stopped retrying.                           *)
(***************************************************************************)
Stays(s) == file.valid /\ s \in file.servers /\ s \in up /\ ~done

EventuallyConnected ==
  \A s \in Server : <>[]Stays(s) => <>(s \in Known /\ connectedServers[s])

(***************************************************************************)
(* Once done is closed the loop ends, and with it every connection it made *)
(* or was making.                                                          *)
(***************************************************************************)
LoopEnds == done ~> [](loop = "ended" /\ \A s \in Server : link[s] # "up")

=============================================================================
