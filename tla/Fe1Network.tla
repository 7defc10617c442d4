----------------------------- MODULE Fe1Network -----------------------------
(***************************************************************************)
(* The network layer of the web frontend (fe1-web/src/core/network): the   *)
(* web sockets of one client, the connections that keep them open          *)
(* (NetworkConnection), the manager that owns the connections              *)
(* (NetworkManager), and the remote calls that are sent to all of them.    *)
(*                                                                         *)
(* JavaScript runs one callback at a time, so a step here is one callback: *)
(* an event of a socket, a timer that fires, an event of the phone, a call *)
(* of the application.  Time is not modelled: a timer may fire at any      *)
(* moment after it was armed, in any order, except where the code arms two *)
(* timers of the same length one after the other (Retry).                  *)
(***************************************************************************)
EXTENDS Naturals, Sequences, FiniteSets, FiniteSetsExt, SequencesExt

CONSTANTS
    Addresses,      \* addresses of servers
    LaoAddresses,   \* those the opened LAO lists
    Publications,   \* calls of publish that the application makes
    MaxAttempts,    \* WEBSOCKET_CONNECTION_MAX_ATTEMPTS
    MaxChecks,      \* WEBSOCKET_READYSTATE_MAX_ATTEMPTS
    IdWrap,         \* JSON_RPC_ID_WRAP_AROUND
    Limits,         \* bounds: what a behaviour may have of connections and of events
                    \* (sockets lost, servers left, phone down or back, publications)
    MaxRounds       \* bound: reconnections of all sockets the phone asks for

Rounds == 1 .. MaxRounds

(* Every call is <<kind, which>>; a round of reconnection that ends well    *)
(* subscribes again to the channels of the LAO and catches up on them.      *)
Calls == ({"publish"} \X Publications) \cup ({"subscribe", "catchup"} \X Rounds)

(* AddressesAssumption: the LAO is served by some of the servers.           *)
ASSUME AddressesAssumption == LaoAddresses \subseteq Addresses

(* BoundsAssumption: the bounds are numbers, and ids are not used again     *)
(* while as many calls as there are can be pending.                         *)
ASSUME BoundsAssumption ==
    /\ {MaxAttempts, MaxChecks, IdWrap, MaxRounds} \subseteq Nat
    /\ Limits \subseteq [connections : Nat, events : Nat]
    /\ IsFiniteSet(Publications)
    /\ IdWrap > 1 /\ IdWrap > Cardinality(Calls)

VARIABLES
    conns,      \* every NetworkConnection ever made, in order
    managed,    \* NetworkManager.connections, as positions in conns
    flags,      \* NetworkManager.isOnline and isFocused
    rounds,     \* reconnections of all sockets, each with the promises it awaits
    calls,      \* for each call the connections it was sent to
    accepted,   \* what the servers did: <<address, call>>
    events,     \* how many of those happened
    limits      \* the member of Limits this behaviour keeps to

vars == <<conns, managed, flags, rounds, calls, accepted, events, limits>>

-----------------------------------------------------------------------------
(* One connection.                                                          *)

(* Nobody waits for the socket to open.                                     *)
Nobody == <<"none", 0>>

NotSent == [st |-> "none", id |-> 0, checks |-> 0]

(* constructor: the first socket is being opened, the timer that gives up   *)
(* is armed, and create() waits for either.  A request is "waiting" for an  *)
(* open socket, "sent" while it is in pendingRequests with its timer armed, *)
(* and then "resolved" or "rejected".                                       *)
NewConnection(a) ==
    [address |-> a, ws |-> "connecting", old |-> 0, alive |-> TRUE, closeIntent |-> FALSE,
     attempts |-> 0, initTimer |-> TRUE, callback |-> <<"create", 0>>, retries |-> 0,
     nextRpcId |-> 1, req |-> [k \in Calls |-> NotSent], wire |-> {}, subscribed |-> FALSE]

(* establishConnection: a new socket; the old one may still have its close  *)
(* event to come, and what was on its wire is lost.                         *)
EstablishConnection(r) ==
    [r EXCEPT !.ws = "connecting", !.old = @ + (IF r.ws = "closing" THEN 1 ELSE 0),
              !.wire = {}, !.subscribed = FALSE]

(* disconnect: close() on a socket that is closed has no effect, so that no *)
(* close event follows.                                                     *)
CloseSocket(r) == [r EXCEPT !.ws = IF @ = "closed" THEN "closed" ELSE "closing"]

Disconnect(r) == [CloseSocket(r) EXCEPT !.closeIntent = TRUE]

IsDown(r) == r.ws \in {"closing", "closed"}

(* reconnectIfNecessary: cb is who waits for the socket to open.            *)
ReconnectIfNecessary(r, cb) ==
    IF IsDown(r)
    THEN [EstablishConnection(r) EXCEPT !.alive = TRUE, !.closeIntent = FALSE, !.callback = cb]
    ELSE r

\* Mistake: ids that do not wrap.
SendNowUnwrapped(r, k) ==
    [r EXCEPT !.req[k] = [st |-> "sent", id |-> r.nextRpcId, checks |-> 0],
              !.wire = @ \cup {[type |-> "request", id |-> r.nextRpcId, call |-> k]},
              !.nextRpcId = @ + 1]

\* Mistake: the same id again.
SendNowSameId(r, k) ==
    [r EXCEPT !.req[k] = [st |-> "sent", id |-> r.nextRpcId, checks |-> 0],
              !.wire = @ \cup {[type |-> "request", id |-> r.nextRpcId, call |-> k]}]

(* The second half of sendPayload: the request gets the next id, becomes    *)
(* pending with its timer armed, and goes on the wire.                      *)
SendNow(r, k) ==
    [r EXCEPT !.req[k] = [st |-> "sent", id |-> r.nextRpcId, checks |-> 0],
              !.wire = @ \cup {[type |-> "request", id |-> r.nextRpcId, call |-> k]},
              !.nextRpcId = (@ + 1) % IdWrap]

\* Mistake: what cannot be sent now is forgotten.
SendPayloadForgetting(r, k) == IF r.ws = "open" THEN SendNow(r, k) ELSE r

(* sendPayload: wait for the socket when it is not open.                    *)
SendPayload(r, k) ==
    IF r.ws = "open" THEN SendNow(r, k) ELSE [r EXCEPT !.req[k].st = "waiting"]

(* resendRequest for every pending request.  It is called where the socket  *)
(* has just opened, so that its wait for an open socket is never taken; the *)
(* timer is armed anew.                                                     *)
ResendPending(r) ==
    [r EXCEPT !.wire = @ \cup {[type |-> "request", id |-> r.req[k].id, call |-> k] :
                               k \in {c \in Calls : r.req[c].st = "sent"}}]

(* onOpen *)
OnOpen(r) ==
    IF ~r.alive THEN r
    ELSE ResendPending([r EXCEPT !.initTimer = FALSE, !.attempts = 0, !.callback = Nobody])

GivesUp(r) == r.alive /\ ~r.closeIntent /\ r.attempts + 1 > MaxAttempts

\* Mistake: the last attempt neither gives up nor tries again.
OnCloseSilent(r) ==
    IF ~r.alive THEN r
    ELSE IF r.closeIntent THEN [r EXCEPT !.alive = FALSE]
    ELSE IF r.attempts + 1 > MaxAttempts THEN r
    ELSE [r EXCEPT !.attempts = @ + 1, !.retries = @ + 1]

(* onClose: retry in a while, a certain number of times.                    *)
OnClose(r) ==
    IF ~r.alive THEN r
    ELSE IF r.closeIntent \/ GivesUp(r)
    THEN [r EXCEPT !.alive = FALSE, !.attempts = @ + (IF r.closeIntent THEN 0 ELSE 1)]
    ELSE [r EXCEPT !.attempts = @ + 1, !.retries = @ + 1]

(* processResponse: a response whose id is not pending is thrown away.      *)
ProcessResponse(r, answer) ==
    [r EXCEPT !.wire = @ \ {answer},
              !.req = [k \in Calls |->
                 IF r.req[k].st = "sent" /\ r.req[k].id = answer.id
                 THEN [r.req[k] EXCEPT !.st = IF answer.type = "result" THEN "resolved"
                                              ELSE "rejected"]
                 ELSE r.req[k]]]

-----------------------------------------------------------------------------
(* The manager.                                                             *)

(* getConnectionByAddress: the index in ms of the first connection to a, as  *)
(* a set, which is empty when there is none; the connection itself.         *)
FirstTo(cs, ms, a) ==
    {i \in DOMAIN ms : /\ cs[ms[i]].address = a
                       /\ \A j \in 1 .. i - 1 : cs[ms[j]].address # a}

ByAddress(cs, ms, a) == {ms[i] : i \in FirstTo(cs, ms, a)}

(* disconnect splices the array. *)
Splice(ms, index) == IF index = {} THEN ms ELSE RemoveAt(ms, CHOOSE i \in index : TRUE)

(* onConnectionDeath: the connection found by the address is closed, and    *)
(* the death handler of the LAO feature then drops it when the opened LAO   *)
(* lists the address.                                                       *)
CloseTo(cs, a) ==
    [c \in DOMAIN cs |-> IF c \in ByAddress(cs, managed, a) THEN Disconnect(cs[c]) ELSE cs[c]]

Kept(cs, a) == IF a \in LaoAddresses THEN Splice(managed, FirstTo(cs, managed, a)) ELSE managed

OnConnectionDeath(cs, a) == conns' = CloseTo(cs, a) /\ managed' = Kept(cs, a)

(* sendToAllServersStrategy: the call fails at once when there is no        *)
(* connection; otherwise it is sent to every managed connection.            *)
StartCall(cs, k) ==
    /\ calls[k].st = "none"
    /\ calls' = [calls EXCEPT ![k] = [st |-> IF managed = <<>> THEN "refused" ELSE "started",
                                      over |-> ToSet(managed)]]
    /\ conns' = [c \in DOMAIN cs |-> IF c \in ToSet(managed) THEN SendPayload(cs[c], k)
                                     ELSE cs[c]]

(* Promise.all over the connections *)
Rejected(k) == \/ calls[k].st = "refused"
               \/ \E c \in calls[k].over : conns[c].req[k].st = "rejected"

Resolved(k) == /\ calls[k].st = "started"
               /\ \A c \in calls[k].over : conns[c].req[k].st = "resolved"

Settled(k) == Rejected(k) \/ Resolved(k)

(* Bound *)
CountEvent == events < limits.events /\ events' = events + 1

-----------------------------------------------------------------------------
Init ==
    /\ conns = <<>>
    /\ managed = <<>>
    /\ flags = [f \in {"isOnline", "isFocused"} |-> TRUE]
    /\ rounds = <<>>
    /\ calls = [k \in Calls |-> [st |-> "none", over |-> {}]]
    /\ accepted = {}
    /\ events = 0
    /\ limits \in Limits

(* connect: nothing to do when there is a managed connection; otherwise one *)
(* is made and awaited.                                                     *)
Connect(a) ==
    /\ Len(conns) < limits.connections
    /\ ByAddress(conns, managed, a) = {}
    /\ conns' = Append(conns, NewConnection(a))
    /\ UNCHANGED <<managed, flags, rounds, calls, accepted, events, limits>>

(* The timer of the constructor: the connection is dead, its socket is      *)
(* closed, the death of its address is announced, and connect() then keeps  *)
(* the connection all the same and throws.                                  *)
InitialOpenTimeout(c) ==
    /\ conns[c].initTimer
    /\ LET dead == [conns EXCEPT ![c] = [CloseSocket(conns[c]) EXCEPT
                                           !.alive = FALSE, !.initTimer = FALSE,
                                           !.callback = Nobody]]
           a == conns[c].address
       IN  /\ conns' = CloseTo(dead, a)
           /\ managed' = Append(Kept(dead, a), c)
    /\ UNCHANGED <<flags, rounds, calls, accepted, events, limits>>

(* The reconnection handlers run when a round has seen all its sockets      *)
(* open: the handler of the LAO feature subscribes again.                   *)
EndRound(cs, n) == StartCall(cs, <<"subscribe", n>>)

(* A socket opens.  Who waited for it goes on: connect() adds the           *)
(* connection to the manager, a round of reconnection has one less to wait  *)
(* for.                                                                     *)
SocketOpens(c) ==
    /\ conns[c].ws = "connecting"
    /\ LET waiting == conns[c].callback
           open == [conns EXCEPT ![c] = OnOpen([conns[c] EXCEPT !.ws = "open"])]
       IN  IF waiting[1] = "round"
           THEN LET left == rounds[waiting[2]].waiting \ {c}
                IN  /\ rounds' = [rounds EXCEPT ![waiting[2]].waiting = left]
                    /\ IF left = {} /\ ~rounds[waiting[2]].failed THEN EndRound(open, waiting[2])
                       ELSE conns' = open /\ UNCHANGED calls
                    /\ UNCHANGED managed
           ELSE /\ conns' = open
                /\ managed' = IF waiting[1] = "create" THEN Append(managed, c) ELSE managed
                /\ UNCHANGED <<rounds, calls>>
    /\ UNCHANGED <<flags, accepted, events, limits>>

(* A socket is closed: because close() was called, or because the server    *)
(* refused or lost it.                                                      *)
SocketCloses(c) ==
    /\ conns[c].ws # "closed"
    /\ IF conns[c].ws = "closing" THEN UNCHANGED events ELSE CountEvent
    /\ LET closed == [conns EXCEPT ![c] = OnClose([conns[c] EXCEPT !.ws = "closed", !.wire = {},
                                                                   !.subscribed = FALSE])]
       IN  IF GivesUp(conns[c])
           THEN OnConnectionDeath(closed, conns[c].address)
           ELSE conns' = closed /\ UNCHANGED managed
    /\ UNCHANGED <<flags, rounds, calls, accepted, limits>>

(* The close event of a socket that was replaced while it was closing.      *)
OldSocketCloses(c) ==
    /\ conns[c].old > 0
    /\ LET closed == [conns EXCEPT ![c] = OnClose([conns[c] EXCEPT !.old = @ - 1])]
       IN  IF GivesUp(conns[c])
           THEN OnConnectionDeath(closed, conns[c].address)
           ELSE conns' = closed /\ UNCHANGED managed
    /\ UNCHANGED <<flags, rounds, calls, accepted, events, limits>>

(* The timer that onClose armed.  It is as long as the timer of the         *)
(* constructor and was armed later, so it fires later.                      *)
Retry(c) ==
    /\ conns[c].retries > 0
    /\ ~conns[c].initTimer
    /\ LET fired == [conns[c] EXCEPT !.retries = @ - 1]
       IN  conns' = [conns EXCEPT ![c] = ReconnectIfNecessary(fired, <<"retry", 0>>)]
    /\ UNCHANGED <<managed, flags, rounds, calls, accepted, events, limits>>

(* NetworkManager.disconnectFrom, as the user leaves a server.              *)
DisconnectFrom(a) ==
    /\ FirstTo(conns, managed, a) # {}
    /\ CountEvent
    /\ conns' = CloseTo(conns, a)
    /\ managed' = Splice(managed, FirstTo(conns, managed, a))
    /\ UNCHANGED <<flags, rounds, calls, accepted, limits>>

-----------------------------------------------------------------------------
(* onNetworkChange and onAppStateChange: f tells which flag.                *)

GoesDown(f) ==
    /\ CountEvent
    /\ flags' = [flags EXCEPT ![f] = FALSE]
    /\ UNCHANGED <<conns, managed, rounds, calls, accepted, limits>>

(* Coming back reconnects all sockets that are down, and returns before the *)
(* flag is set, so that every later event of the kind reconnects again.     *)
ComesBack(f) ==
    /\ ~flags[f]
    /\ managed # <<>>
    /\ Len(rounds) < MaxRounds
    /\ CountEvent
    /\ LET n == Len(rounds) + 1
           down == {c \in ToSet(managed) : IsDown(conns[c])}
           again == [c \in DOMAIN conns |-> IF c \in down THEN ReconnectIfNecessary(conns[c], <<"round", n>>)
                                            ELSE conns[c]]
       IN  /\ rounds' = Append(rounds, [waiting |-> down, failed |-> FALSE])
           /\ IF down = {} THEN EndRound(again, n) ELSE conns' = again /\ UNCHANGED calls
    /\ UNCHANGED <<managed, flags, accepted, limits>>

(* The timer of one of the promises of a round: the round fails, and its    *)
(* handlers never run.                                                      *)
RoundTimeout(n) ==
    /\ rounds[n].waiting # {}
    /\ ~rounds[n].failed
    /\ rounds' = [rounds EXCEPT ![n].failed = TRUE]
    /\ UNCHANGED <<conns, managed, flags, calls, accepted, events, limits>>

-----------------------------------------------------------------------------
(* Calls. *)

(* publish: signs the message and sends it to all servers.                  *)
Publish(p) ==
    /\ CountEvent
    /\ StartCall(conns, <<"publish", p>>)
    /\ UNCHANGED <<managed, flags, rounds, accepted, limits>>

(* subscribeToChannel: catches up once the subscription is answered.        *)
Catchup(n) ==
    /\ Resolved(<<"subscribe", n>>)
    /\ StartCall(conns, <<"catchup", n>>)
    /\ UNCHANGED <<managed, flags, rounds, accepted, events, limits>>

(* One tick of waitWebsocketReady. *)
ReadyCheck(c, k) ==
    LET r == conns[c]
    IN  /\ r.req[k].st = "waiting"
        /\ conns' = [conns EXCEPT ![c] =
              IF r.ws = "open" /\ r.alive THEN SendNow(r, k)
              ELSE IF r.ws # "open" /\ r.alive /\ r.req[k].checks < MaxChecks
              THEN [r EXCEPT !.req[k].checks = @ + 1]
              ELSE [r EXCEPT !.req[k].st = "rejected"]]
        /\ UNCHANGED <<managed, flags, rounds, calls, accepted, events, limits>>

(* The timer of a pending request. *)
RequestTimeout(c, k) ==
    /\ conns[c].req[k].st = "sent"
    /\ conns' = [conns EXCEPT ![c] = [conns[c] EXCEPT !.req[k].st = "rejected"]]
    /\ UNCHANGED <<managed, flags, rounds, calls, accepted, events, limits>>

(* The server handles a request: it refuses a message it has, and a second  *)
(* subscription on the same socket.                                         *)
ServerHandles(c) ==
    /\ conns[c].ws = "open"
    /\ \E q \in {w \in conns[c].wire : w.type = "request"} :
         LET a == conns[c].address
             known == \/ q.call[1] = "publish" /\ <<a, q.call>> \in accepted
                      \/ q.call[1] = "subscribe" /\ conns[c].subscribed
         IN  /\ conns' = [conns EXCEPT
                   ![c].wire = (@ \ {q}) \cup
                      {[type |-> IF known THEN "error" ELSE "result", id |-> q.id]},
                   ![c].subscribed = @ \/ q.call[1] = "subscribe"]
             /\ accepted' = accepted \cup {<<a, q.call>>}
    /\ UNCHANGED <<managed, flags, rounds, calls, events, limits>>

(* onMessage with a response *)
OnMessage(c) ==
    /\ conns[c].ws \in {"open", "closing"}
    /\ \E answer \in {w \in conns[c].wire : w.type # "request"} :
         conns' = [conns EXCEPT ![c] = ProcessResponse(@, answer)]
    /\ UNCHANGED <<managed, flags, rounds, calls, accepted, events, limits>>

-----------------------------------------------------------------------------
SocketEvents ==
    \E c \in DOMAIN conns :
        \/ SocketOpens(c) \/ SocketCloses(c) \/ OldSocketCloses(c)
        \/ ServerHandles(c) \/ OnMessage(c)

Timers ==
    \/ \E c \in DOMAIN conns :
        \/ InitialOpenTimeout(c)
        \/ Retry(c)
        \/ \E k \in Calls : ReadyCheck(c, k) \/ RequestTimeout(c, k)
    \/ \E n \in DOMAIN rounds : RoundTimeout(n)

Application ==
    \/ \E a \in Addresses : Connect(a) \/ DisconnectFrom(a)
    \/ \E p \in Publications : Publish(p)
    \/ \E n \in Rounds : Catchup(n)
    \/ \E f \in DOMAIN flags : GoesDown(f) \/ ComesBack(f)

Next == SocketEvents \/ Timers \/ Application

Spec == Init /\ [][Next]_vars

(* The event loop runs every timer that fires.                              *)
Fairness ==
    \A c \in 1 .. Max({l.connections : l \in Limits}) : \A k \in Calls :
        /\ WF_vars(c \in DOMAIN conns /\ ReadyCheck(c, k))
        /\ WF_vars(c \in DOMAIN conns /\ RequestTimeout(c, k))

FairSpec == Spec /\ Fairness

-----------------------------------------------------------------------------
(* Types of the state; the id of a request is one that the server accepts,  *)
(* and nobody checks for an open socket more often than he may.             *)
TypeOK ==
    /\ \A c \in DOMAIN conns :
         /\ conns[c].address \in Addresses
         /\ conns[c].ws \in {"connecting", "open", "closing", "closed"}
         /\ conns[c].callback \in {Nobody, <<"create", 0>>, <<"retry", 0>>} \cup ({"round"} \X Rounds)
         /\ conns[c].attempts \in Nat
         /\ conns[c].nextRpcId \in 0 .. IdWrap - 1
         /\ conns[c].req \in [Calls ->
                [st : {"none", "waiting", "sent", "resolved", "rejected"},
                 id : 0 .. IdWrap - 1, checks : 0 .. MaxChecks]]
    /\ managed \in Seq(DOMAIN conns)
    /\ flags \in [{"isOnline", "isFocused"} -> BOOLEAN]
    /\ \A n \in DOMAIN rounds : n \in Rounds /\ rounds[n].waiting \subseteq DOMAIN conns
    /\ \A k \in Calls : calls[k].over \subseteq DOMAIN conns
    /\ accepted \subseteq (Addresses \X Calls)
    /\ events \in 0 .. limits.events

(* A connection that is alive "is open or there is still hope in            *)
(* re-establishing" it: when its socket is closed, some timer is armed that *)
(* opens another one or declares the connection dead.                       *)
HopeOrDead ==
    \A c \in DOMAIN conns :
        conns[c].alive /\ conns[c].ws = "closed" =>
            conns[c].retries > 0 \/ conns[c].initTimer

(* A promise of sendPayload that is resolved was answered by every server   *)
(* it was sent to: no answer is taken for that of another request, however  *)
(* often the socket was lost and the requests sent again.                   *)
ResolvedMeansAccepted ==
    \A k \in Calls :
        Resolved(k) => \A c \in calls[k].over : <<conns[c].address, k>> \in accepted

(* Every call of publish, subscribe or catchup is answered, refused or      *)
(* given up in the end: no caller waits for ever.                           *)
CallsSettle == \A k \in Calls : calls[k].st # "none" ~> Settled(k)
=============================================================================
