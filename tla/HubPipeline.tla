----------------------------- MODULE HubPipeline -----------------------------
(***************************************************************************)
(* The goroutines of one Go backend and the channels between them.         *)
(*                                                                         *)
(* Each connection has a read pump, which hands one message at a time to   *)
(* the hub over an unbuffered channel, and a write pump, which empties the *)
(* bounded send channel of the socket.  The hub handles one message at a   *)
(* time and writes to any number of sockets while it does; the tickers of  *)
(* the heartbeat, of the rumor sender and of the rumor state sender, and   *)
(* the server that accepts connections, write to the sockets of the other  *)
(* servers under the lock of Sockets, which they hold while they write.    *)
(* When a connection ends, each of its pumps reports it to the hub.  To    *)
(* stop, the process shuts down the server for clients, the server for     *)
(* servers and then the hub.                                               *)
(*                                                                         *)
(* Abstracted: what the messages are about (only to whom handling one      *)
(* writes); the channels clients subscribe to are one; the lock of the     *)
(* subscribers, which only the hub takes; the locks of the database, never *)
(* held while a goroutine waits for something else; sockets dialled by     *)
(* this server, which differ only in that nobody shuts them down.          *)
(***************************************************************************)
EXTENDS Naturals, Sequences, FiniteSets, SequencesExt

CONSTANTS
  Client,       \* the sockets of clients
  Peer,         \* the sockets of other servers
  Capacity,     \* size of the send channel of a socket (256 in the code)
  CanLose,      \* the sockets whose connection may be lost
  MaxMessages,  \* bound on the messages read from each socket
  Ticking,      \* the tickers that tick
  MaxTicks,     \* bound on the ticks of all of them
  MayStop       \* the process may be told to stop

Ticker == {"heartbeat", "rumor", "rumorstate"}

ASSUME PipelineAssumption ==
  /\ Client \cap Peer = {}
  /\ Capacity \in Nat \ {0}
  /\ CanLose \subseteq Client \cup Peer
  /\ MaxMessages \in Nat
  /\ Ticking \subseteq Ticker
  /\ MaxTicks \in Nat
  /\ MayStop \in BOOLEAN

Socket == Client \cup Peer

Goroutine == Ticker \cup {"hub"}
Thread == Goroutine \cup {"accept"}

VARIABLES
  conn,      \* conn[s]: "new", "arrived" (its handler waits for `closing'), "up",
             \*   "lost" (by the network), "closed" (here)
  reader,    \* reader[s]: "off", "reading", "offering", "closing", "ended"
  writer,    \* writer[s]: "off", "writing", "closing", "ended"
  queue,     \* queue[s]: number of messages in the send channel of s
  received,  \* received[s]: number of messages read from s
  subs,      \* the sockets that are subscribed
  store,     \* the sockets in Sockets
  holders,   \* the threads that hold the lock of Sockets ...
  exclusive, \* ... and whether it is held for writing
  todo,      \* todo[t]: what is left of what thread t is doing
  ticks,     \* number of ticks so far
  exited,    \* the goroutines of the hub that have ended
  phase      \* how far the process is in stopping: see Shutdown

pumps == <<conn, reader, writer>>
locks == <<store, holders, exclusive>>
vars == <<conn, reader, writer, queue, received, subs, store, holders,
          exclusive, todo, ticks, exited, phase>>

-----------------------------------------------------------------------------
(***************************************************************************)
(* Instructions of the threads.                                            *)
(***************************************************************************)
Send(s) == [op |-> "send", socket |-> s]
Upsert(s) == [op |-> "upsert", socket |-> s]
SendRumor == [op |-> "SendRumor"]
SendToAll == [op |-> "SendToAll"]
SendToRandom == [op |-> "SendToRandom"]
Unlock == [op |-> "unlock"]
NotifyResetRumorSender == [op |-> "notify"]

\* One after the other to the sockets of a sequence.
SendEach(order) == [i \in DOMAIN order |-> Send(order[i])]

Doing(t, op) == todo[t] # << >> /\ Head(todo[t]).op = op

(***************************************************************************)
(* What the hub does for a message: a query is answered; a published       *)
(* message is sent to the subscribers and answered, and may wake up the    *)
(* rumor sender; a rumor is answered and told to another server; the       *)
(* answer to a rumor makes the hub tell it to another one.                 *)
(***************************************************************************)
PublishPrograms(s) ==
  {SendEach(order) \o <<Send(s)>> \o end :
     order \in SetToSeqs(subs), end \in {<< >>, <<NotifyResetRumorSender>>}}

Programs(s) ==
  {<<Send(s)>>}
    \cup (IF s \in Client THEN PublishPrograms(s)
          ELSE {<<Send(s), SendRumor>>, <<SendRumor>>})

(***************************************************************************)
(* The server of s listens, and Shutdown has not taken its lock `closing'. *)
(***************************************************************************)
Open(s) ==
  phase \in (IF s \in Client THEN {"running"}
            ELSE {"running", "closing clients", "clients"})

(***************************************************************************)
(* The pumps of s were told to end: `done' of its server is closed.        *)
(***************************************************************************)
Done(s) ==
  phase \notin (IF s \in Client THEN {"running", "closing clients"}
               ELSE {"running", "closing clients", "clients", "closing servers"})

Init ==
  /\ conn = [s \in Socket |-> "new"]
  /\ reader = [s \in Socket |-> "off"]
  /\ writer = [s \in Socket |-> "off"]
  /\ queue = [s \in Socket |-> 0]
  /\ received = [s \in Socket |-> 0]
  /\ subs = {}
  /\ store = {}
  /\ holders = {}
  /\ exclusive = FALSE
  /\ todo = [t \in Thread |-> << >>]
  /\ ticks = 0
  /\ exited = {}
  /\ phase = "running"

-----------------------------------------------------------------------------
(***************************************************************************)
(* The connections.                                                        *)
(***************************************************************************)

(***************************************************************************)
(* A request to a server that listens: its handler is active from now on,  *)
(* and waits for the lock `closing' of the server.                         *)
(***************************************************************************)
Arrive(s) ==
  /\ conn[s] = "new"
  /\ Open(s)
  /\ conn' = [conn EXCEPT ![s] = "arrived"]
  /\ UNCHANGED <<reader, writer, queue, received, subs, locks, todo, ticks, exited, phase>>

(***************************************************************************)
(* ServeHTTP takes the lock and starts the pumps.  For another server it   *)
(* keeps it while it puts the socket in Sockets and sends a rumor state;   *)
(* what it does for a client does not wait for anything.  That it finds    *)
(* isClosed set does not happen: Shutdown keeps the lock until no handler  *)
(* is left.                                                                *)
(***************************************************************************)
ServeHTTP(s) ==
  /\ conn[s] = "arrived"
  /\ Open(s)
  /\ s \in Peer => todo["accept"] = << >>
  /\ conn' = [conn EXCEPT ![s] = "up"]
  /\ reader' = [reader EXCEPT ![s] = "reading"]
  /\ writer' = [writer EXCEPT ![s] = "writing"]
  /\ todo' = IF s \in Peer
             THEN [todo EXCEPT !["accept"] = <<Upsert(s), Send(s)>>]
             ELSE todo
  /\ UNCHANGED <<queue, received, subs, locks, ticks, exited, phase>>

(***************************************************************************)
(* The other end leaves, or stops reading until the write deadline.        *)
(***************************************************************************)
Lose(s) ==
  /\ s \in CanLose
  /\ conn[s] = "up"
  /\ conn' = [conn EXCEPT ![s] = "lost"]
  /\ UNCHANGED <<reader, writer, queue, received, subs, locks, todo, ticks, exited, phase>>

(***************************************************************************)
(* The read pump.  It ends when reading fails, or when it is told to end   *)
(* while it waits for the hub; it closes the connection and is no longer   *)
(* waited for.  What was sent before a connection was lost may be read.    *)
(***************************************************************************)
Read(s) ==
  /\ reader[s] = "reading"
  /\ conn[s] \in {"up", "lost"}
  /\ received[s] < MaxMessages
  /\ reader' = [reader EXCEPT ![s] = "offering"]
  /\ received' = [received EXCEPT ![s] = @ + 1]
  /\ UNCHANGED <<conn, writer, queue, subs, locks, todo, ticks, exited, phase>>

ReaderEnds(s) ==
  /\ \/ reader[s] = "reading" /\ conn[s] # "up"
     \/ reader[s] = "offering" /\ Done(s)
  /\ reader' = [reader EXCEPT ![s] = "closing"]
  /\ conn' = [conn EXCEPT ![s] = "closed"]
  /\ UNCHANGED <<writer, queue, received, subs, locks, todo, ticks, exited, phase>>

(***************************************************************************)
(* The write pump.  It ends when writing fails, a ping if nothing else, or *)
(* when it is told to.                                                     *)
(***************************************************************************)
Write(s) ==
  /\ writer[s] = "writing"
  /\ queue[s] > 0
  /\ conn[s] \in {"up", "lost"}
  /\ queue' = [queue EXCEPT ![s] = @ - 1]
  /\ UNCHANGED <<pumps, received, subs, locks, todo, ticks, exited, phase>>

\* Mistake: the write pump does not listen to done.
WriterEndsOnError(s) ==
  /\ writer[s] = "writing"
  /\ conn[s] # "up"
  /\ writer' = [writer EXCEPT ![s] = "closing"]
  /\ conn' = [conn EXCEPT ![s] = "closed"]
  /\ UNCHANGED <<reader, queue, received, subs, locks, todo, ticks, exited, phase>>

WriterEnds(s) ==
  /\ writer[s] = "writing"
  /\ conn[s] # "up" \/ Done(s)
  /\ writer' = [writer EXCEPT ![s] = "closing"]
  /\ conn' = [conn EXCEPT ![s] = "closed"]
  /\ UNCHANGED <<reader, queue, received, subs, locks, todo, ticks, exited, phase>>

-----------------------------------------------------------------------------
(***************************************************************************)
(* The hub, between two messages: it takes the message of a read pump, or  *)
(* the report of a pump that ended.                                        *)
(***************************************************************************)
HubWaits == todo["hub"] = << >> /\ "hub" \notin exited

Receive(s) ==
  /\ HubWaits
  /\ reader[s] = "offering"
  /\ reader' = [reader EXCEPT ![s] = "reading"]
  /\ \E program \in Programs(s) : todo' = [todo EXCEPT !["hub"] = program]
  /\ \/ subs' = subs
     \/ /\ s \in Client
        /\ todo'["hub"] = <<Send(s)>>
        /\ subs' = subs \cup {s}
  /\ UNCHANGED <<conn, writer, queue, received, locks, ticks, exited, phase>>

\* Mistake: only the write pump reports the end of the connection.
UnsubscribeForWriter(s) ==
  /\ HubWaits
  /\ \/ /\ reader[s] = "closing"
        /\ reader' = [reader EXCEPT ![s] = "ended"]
        /\ UNCHANGED <<writer, subs>>
     \/ /\ writer[s] = "closing"
        /\ writer' = [writer EXCEPT ![s] = "ended"]
        /\ subs' = subs \ {s}
        /\ UNCHANGED reader
  /\ UNCHANGED <<conn, queue, received, locks, todo, ticks, exited, phase>>

UnsubscribeFromAll(s) ==
  /\ HubWaits
  /\ \/ /\ reader[s] = "closing"
        /\ reader' = [reader EXCEPT ![s] = "ended"]
        /\ UNCHANGED writer
     \/ /\ writer[s] = "closing"
        /\ writer' = [writer EXCEPT ![s] = "ended"]
        /\ UNCHANGED reader
  /\ subs' = subs \ {s}
  /\ UNCHANGED <<conn, queue, received, locks, todo, ticks, exited, phase>>

(***************************************************************************)
(* The tickers.  The rumor sender may have nothing to send.                *)
(***************************************************************************)
TickerProgram(t) ==
  CASE t = "heartbeat" -> SendToAll
    [] t = "rumor" -> SendRumor
    [] t = "rumorstate" -> SendToRandom

Tick(t) ==
  /\ t \in Ticking \ exited
  /\ todo[t] = << >>
  /\ ticks < MaxTicks
  /\ ticks' = ticks + 1
  /\ todo' = [todo EXCEPT ![t] = <<TickerProgram(t)>>]
  /\ UNCHANGED <<pumps, queue, received, subs, locks, exited, phase>>

-----------------------------------------------------------------------------
(***************************************************************************)
(* The instructions.  Writing to a socket waits for room in its channel.   *)
(***************************************************************************)
DoSend(t) ==
  /\ Doing(t, "send")
  /\ LET s == Head(todo[t]).socket IN
       /\ queue[s] < Capacity
       /\ queue' = [queue EXCEPT ![s] = @ + 1]
  /\ todo' = [todo EXCEPT ![t] = Tail(@)]
  /\ UNCHANGED <<pumps, received, subs, locks, ticks, exited, phase>>

DoUpsert(t) ==
  /\ Doing(t, "upsert")
  /\ holders = {}
  /\ store' = store \cup {Head(todo[t]).socket}
  /\ todo' = [todo EXCEPT ![t] = Tail(@)]
  /\ UNCHANGED <<pumps, queue, received, subs, holders, exclusive, ticks, exited, phase>>

(***************************************************************************)
(* SendRumor writes to one socket, or to none when every one was told.     *)
(***************************************************************************)
\* Mistake: the lock is kept when there is nobody to send to.
DoSendRumorKeepsLock(t) ==
  /\ Doing(t, "SendRumor")
  /\ holders = {}
  /\ holders' = {t}
  /\ exclusive' = TRUE
  /\ \E sends \in {<< >>} \cup {<<Send(s), Unlock>> : s \in store} :
       todo' = [todo EXCEPT ![t] = sends \o Tail(@)]
  /\ UNCHANGED <<pumps, queue, received, subs, store, ticks, exited, phase>>

DoSendRumor(t) ==
  /\ Doing(t, "SendRumor")
  /\ holders = {}
  /\ holders' = {t}
  /\ exclusive' = TRUE
  /\ \E sends \in {<< >>} \cup {<<Send(s)>> : s \in store} :
       todo' = [todo EXCEPT ![t] = sends \o <<Unlock>> \o Tail(@)]
  /\ UNCHANGED <<pumps, queue, received, subs, store, ticks, exited, phase>>

(***************************************************************************)
(* SendToAll and SendToRandom share the lock.                              *)
(***************************************************************************)
ReadLock(t) ==
  /\ ~exclusive
  /\ holders' = holders \cup {t}
  /\ UNCHANGED <<pumps, queue, received, subs, store, exclusive, ticks, exited, phase>>

DoSendToAll(t) ==
  /\ Doing(t, "SendToAll")
  /\ ReadLock(t)
  /\ \E order \in SetToSeqs(store) :
       todo' = [todo EXCEPT ![t] = SendEach(order) \o <<Unlock>>]

DoSendToRandom(t) ==
  /\ Doing(t, "SendToRandom")
  /\ ReadLock(t)
  /\ \/ /\ store = {}
        /\ todo' = [todo EXCEPT ![t] = <<Unlock>>]
     \/ \E s \in store : todo' = [todo EXCEPT ![t] = <<Send(s), Unlock>>]

DoUnlock(t) ==
  /\ Doing(t, "unlock")
  /\ holders' = holders \ {t}
  /\ exclusive' = FALSE
  /\ todo' = [todo EXCEPT ![t] = Tail(@)]
  /\ UNCHANGED <<pumps, queue, received, subs, store, ticks, exited, phase>>

(***************************************************************************)
(* The hub waits for the rumor sender to be between two ticks, or to stop. *)
(***************************************************************************)
DoNotify(t) ==
  /\ Doing(t, "notify")
  /\ \/ /\ todo["rumor"] = << >>
        /\ "rumor" \notin exited
        /\ \E program \in {<< >>, <<SendRumor>>} :
             todo' = [todo EXCEPT ![t] = Tail(@), !["rumor"] = program]
     \/ /\ phase = "hub"
        /\ todo' = [todo EXCEPT ![t] = Tail(@)]
  /\ UNCHANGED <<pumps, queue, received, subs, locks, ticks, exited, phase>>

Step(t) ==
  \/ DoSend(t)
  \/ DoUpsert(t)
  \/ DoSendRumor(t)
  \/ DoSendToAll(t)
  \/ DoSendToRandom(t)
  \/ DoUnlock(t)
  \/ DoNotify(t)

-----------------------------------------------------------------------------
(***************************************************************************)
(* Shutdown.  For the server of the clients, then for that of the servers: *)
(* take its lock `closing' and stop listening ("closing ..."); wait until  *)
(* no handler is active, still under the lock, and close `done'; wait for  *)
(* the pumps ("clients", "servers").  Then the hub is stopped ("hub"): it  *)
(* and the tickers end when they are between two messages or ticks, and    *)
(* Stop waits for them.                                                    *)
(***************************************************************************)
\* Mistake: the wait group counts one pump of each socket.
QuietReaders(S) == \A s \in S : reader[s] \in {"off", "closing", "ended"}

Quiet(S) ==
  \A s \in S : reader[s] \in {"off", "closing", "ended"}
                 /\ writer[s] \in {"off", "closing", "ended"}

NoHandler(S) == \A s \in S : conn[s] # "arrived"

Shutdown ==
  /\ \/ /\ phase = "running"
        /\ MayStop
        /\ phase' = "closing clients"
     \/ /\ phase = "closing clients"
        /\ NoHandler(Client)
        /\ phase' = "clients"
     \/ /\ phase = "clients"
        /\ Quiet(Client)
        /\ todo["accept"] = << >>
        /\ phase' = "closing servers"
     \/ /\ phase = "closing servers"
        /\ NoHandler(Peer)
        /\ phase' = "servers"
     \/ /\ phase = "servers"
        /\ Quiet(Peer)
        /\ phase' = "hub"
     \/ /\ phase = "hub"
        /\ exited = Goroutine
        /\ phase' = "stopped"
  /\ UNCHANGED <<pumps, queue, received, subs, locks, todo, ticks, exited>>

Exit(t) ==
  /\ phase = "hub"
  /\ t \in Goroutine \ exited
  /\ todo[t] = << >>
  /\ exited' = exited \cup {t}
  /\ UNCHANGED <<pumps, queue, received, subs, locks, todo, ticks, phase>>

-----------------------------------------------------------------------------
Next ==
  \/ \E s \in Socket :
       \/ Arrive(s)
       \/ ServeHTTP(s)
       \/ Lose(s)
       \/ Read(s)
       \/ ReaderEnds(s)
       \/ Write(s)
       \/ WriterEnds(s)
       \/ Receive(s)
       \/ UnsubscribeFromAll(s)
  \/ \E t \in Ticker : Tick(t)
  \/ \E t \in Thread : Step(t)
  \/ \E t \in Goroutine : Exit(t)
  \/ Shutdown

Spec == Init /\ [][Next]_vars

(***************************************************************************)
(* Fairness.  Go runs every goroutine that can run, and serves those that  *)
(* wait for a channel or a lock in the order they came; a select that can  *)
(* go on in several ways picks one at random: that would be strong         *)
(* fairness, but with the counters bounded every behaviour comes to rest,  *)
(* and weak fairness says the same.  A shutdown that was begun goes on.    *)
(***************************************************************************)
Fairness ==
  /\ \A s \in Socket :
       /\ WF_vars(ServeHTTP(s))
       /\ WF_vars(ReaderEnds(s))
       /\ WF_vars(Write(s))
       /\ WF_vars(WriterEnds(s))
       /\ WF_vars(Receive(s))
       /\ WF_vars(UnsubscribeFromAll(s))
  /\ \A t \in Thread : WF_vars(Step(t))
  /\ \A t \in Goroutine : WF_vars(Exit(t))
  /\ WF_vars(phase # "running" /\ Shutdown)

FairSpec == Spec /\ Fairness

-----------------------------------------------------------------------------
(***************************************************************************)
(* Properties.                                                             *)
(***************************************************************************)

(***************************************************************************)
(* Once the servers are shut down no pump talks to a connection any more,  *)
(* and none will: Shutdown waits for every pump it told to end.            *)
(***************************************************************************)
NoPumpAfterShutdown ==
  phase \in {"hub", "stopped"} =>
    \A s \in Socket :
      reader[s] \notin {"reading", "offering"} /\ writer[s] # "writing"

(***************************************************************************)
(* What waits for ever in this code.  A thread that writes to a socket     *)
(* whose channel is full and whose write pump ended, for which nobody      *)
(* empties it; and a handler that waits for the lock `closing' while       *)
(* Shutdown, which holds it, waits for the handler.                        *)
(***************************************************************************)
SendWaits ==
  \E t \in Thread :
    /\ Doing(t, "send")
    /\ LET s == Head(todo[t]).socket IN
         queue[s] = Capacity /\ writer[s] # "writing"

HandlerWaits == \E s \in Socket : conn[s] = "arrived" /\ ~Open(s)

(***************************************************************************)
(* What a goroutine has begun it finishes: it waits neither for the lock   *)
(* of Sockets nor for a send channel or another goroutine for ever, unless *)
(* some thread writes to a full socket that has no write pump any more.    *)
(***************************************************************************)
NobodyBlocked ==
  \A t \in Thread : (todo[t] # << >>) ~> (todo[t] = << >> \/ SendWaits)

(***************************************************************************)
(* A client whose connection is over does not stay subscribed, whatever    *)
(* the order of its last messages and of the reports of its two pumps, as  *)
(* long as the hub handles reports.                                        *)
(***************************************************************************)
LostIsUnsubscribed ==
  \A s \in Client :
    <>[](conn[s] \in {"lost", "closed"} =>
           s \notin subs \/ phase \in {"hub", "stopped"} \/ SendWaits)

(***************************************************************************)
(* A shutdown that was begun ends, unless one of the two waits for ever:   *)
(* there is no third thing that keeps it from ending.                      *)
(***************************************************************************)
ShutdownEnds ==
  (phase # "running") ~> (phase = "stopped" \/ SendWaits \/ HandlerWaits)

=============================================================================
