----------------------------- MODULE RumorGossip -----------------------------
(***************************************************************************)
(* The gossip protocol of the Go backend: how the rumors of each server    *)
(* (batches of published messages) reach every other server.               *)
(*                                                                         *)
(* A server runs three goroutines that matter here.  The hub handles one   *)
(* incoming message at a time; the rumor sender closes the open rumor and  *)
(* starts to spread it; the rumor state sender asks a neighbour for what   *)
(* is missing.  Each call to the database is one transaction under a       *)
(* global lock, and is one step here; between two of them the other        *)
(* goroutines of the server may run and the server may crash.              *)
(*                                                                         *)
(* A rumor is told to one neighbour at a time: the next neighbour is told  *)
(* when the answer of the previous one arrives (rumor mongering).  A rumor *)
(* that arrives before the rumors it depends on waits in a buffer, whose   *)
(* entries expire.                                                         *)
(*                                                                         *)
(* Abstracted: the messages in a rumor (module RumorMessages models what   *)
(* a server does with them), query ids (an answer carries the rumor), and  *)
(* the ring of sockets, of which only the set of neighbours already told   *)
(* is kept (module RumorSockets models the ring).                          *)
(***************************************************************************)
EXTENDS RumorTimestamp, FiniteSets, Sequences

CONSTANTS
  Dials,        \* [Server -> SUBSET Server], the servers each one dials
  MaxRumors,    \* [Server -> Nat], bound on the rumors each server sends
  Asking,       \* the servers whose rumor state sender runs
  Crashable,    \* the servers that may crash
  MaxCrashes    \* bound on the number of crashes

(***************************************************************************)
(* Two servers do not dial each other, and none dials itself: there is at  *)
(* most one connection between two servers.                                *)
(***************************************************************************)
ASSUME DialsAssumption ==
  /\ Dials \in [Server -> SUBSET Server]
  /\ \A n, m \in Server : m \in Dials[n] => n \notin Dials[m]

ASSUME BoundsAssumption ==
  /\ MaxRumors \in [Server -> Nat]
  /\ Asking \subseteq Server
  /\ Crashable \subseteq Server
  /\ MaxCrashes \in Nat

VARIABLES
  table,      \* table[n]: the rows of n's table rumor, the open rumor included
  pending,    \* pending[n]: n's open rumor holds at least one message
  buffer,     \* buffer[n]: the queue of rumors that came too early
  told,       \* told[n]: <<sender, id, m>> when m was told that rumor by n
  up,         \* the pairs {n, m} of servers that are connected
  link,       \* link[n][m]: messages from n that m has not read, in order
  hub,        \* hub[n]: where the hub goroutine of n stands
  storing,    \* storing[n]: the rumor between CheckRumor and StoreRumor, if any
  work,       \* work[n]: what is left of the answer to a rumor state query
  sending,    \* sending[n]: the rumor closed by n's rumor sender, not yet sent
  dead,       \* dead[n]: n keeps the socket of a connection that was lost
  crashes     \* number of crashes so far

serverVars == <<table, pending, buffer, told, hub, storing, work, sending>>
vars == <<table, pending, buffer, told, up, link, hub, storing, work, sending,
          dead, crashes>>

-----------------------------------------------------------------------------
(***************************************************************************)
(* Data.                                                                   *)
(***************************************************************************)
Rumor == [sender : Server, id : Nat, timestamp : Timestamp]

NewRumor(s, i, t) == [sender |-> s, id |-> i, timestamp |-> t]

SameID(r, q) == r.sender = q.sender /\ r.id = q.id

FiniteSubsets(R) == {S \in SUBSET R : IsFiniteSet(S)}

(***************************************************************************)
(* The messages about the rumors R.                                        *)
(***************************************************************************)
Message(R) ==
       [type : {"rumor"}, rumor : R]
  \cup [type : {"rumor_answer"}, rumor : R, duplicate : BOOLEAN]
  \cup [type : {"rumor_state"}, state : Timestamp]
  \cup [type : {"rumor_state_answer"}, rumors : FiniteSubsets(R)]

Neighbors(n) == {m \in Server : {n, m} \in up}

Elements(q) == {q[i] : i \in 1 .. Len(q)}

(***************************************************************************)
(* What sort.Slice makes of the rumors S when it compares them by IsBefore.*)
(* IsBefore is not a weak order, so Go promises little: no rumor is placed *)
(* directly after one that it is before.  (Insertion sort, which sort.Slice*)
(* uses for up to twelve elements, reaches exactly these orders.)          *)
(***************************************************************************)
Sortings(S) ==
  {q \in [1 .. Cardinality(S) -> S] :
     /\ \A r \in S : \E i \in DOMAIN q : q[i] = r
     /\ \A i, j \in DOMAIN q :
          j = i + 1 => ~IsBefore(q[j].timestamp, q[i].timestamp)}

RemoveAt(q, i) == [j \in 1 .. Len(q) - 1 |-> IF j < i THEN q[j] ELSE q[j + 1]]

-----------------------------------------------------------------------------
(***************************************************************************)
(* The rumor table.  The row of server n with the largest id is its open   *)
(* rumor: it has not been sent, and its timestamp is a placeholder.        *)
(***************************************************************************)
IDs(rows, s) == {r.id : r \in {q \in rows : q.sender = s}}

LastID(rows, s) == CHOOSE i \in IDs(rows, s) : \A j \in IDs(rows, s) : j <= i

Closed(n, rows) == {r \in rows : r.sender = n => r.id # LastID(rows, n)}

\* Mistake: the open rumor counts as sent.
GetRumorTimestampOpen(n, rows) ==
  [s \in Server |-> IF IDs(rows, s) = {} THEN Absent ELSE LastID(rows, s)]

(***************************************************************************)
(* The last id per sender, less the open rumor; n has no entry for itself  *)
(* as long as it has sent nothing.                                         *)
(***************************************************************************)
GetRumorTimestamp(n, rows) ==
  [s \in Server |-> IF s = n THEN LastID(rows, n) - 1
                    ELSE IF IDs(rows, s) = {} THEN Absent
                    ELSE LastID(rows, s)]

OpenID(n) == LastID(table[n], n)
Received(n) == Closed(n, table[n])
State(n) == GetRumorTimestamp(n, table[n])

(***************************************************************************)
(* The two results of CheckRumor.                                          *)
(***************************************************************************)
HasRumor(n, r) == AlreadyExists(State(n), r.sender, r.id)
CheckRumor(n, r) == CheckTimestamp(State(n), r.sender, r.id, r.timestamp)

InBuffer(n, r) == \E q \in Elements(buffer[n]) : SameID(q, r)

-----------------------------------------------------------------------------
(***************************************************************************)
(* Sending.  A message written to a connection that is gone is lost.       *)
(***************************************************************************)
Send(l, n, m, msg) ==
  IF {n, m} \in up THEN [l EXCEPT ![n][m] = Append(@, msg)] ELSE l

(***************************************************************************)
(* SendRumor of the rumor handler: tell rumor r to one more neighbour, or  *)
(* to none when all of them were told.  The neighbour the rumor came from  *)
(* when it was first sent is skipped; from = n stands for no such socket.  *)
(* No socket is ever taken out of the ring: when it is the turn of one     *)
(* whose connection was lost, nobody is told.                              *)
(***************************************************************************)
Told(n, r) == {m \in Server : <<r.sender, r.id, m>> \in told[n]}

SendRumor(l, n, from, r) ==
  LET skip == IF Told(n, r) = {} THEN {from} ELSE Told(n, r)
      note(S) == told' = [told EXCEPT ![n] =
                            @ \cup {<<r.sender, r.id, m>> : m \in S}]
  IN \/ /\ Neighbors(n) \subseteq skip
        /\ note(skip)
        /\ link' = l
     \/ \E m \in Neighbors(n) \ skip :
          /\ note(skip \cup {m})
          /\ link' = Send(l, n, m, [type |-> "rumor", rumor |-> r])
     \/ /\ dead[n]
        /\ note(skip)
        /\ link' = l

(***************************************************************************)
(* Insertion into the buffer: an error when the rumor is already there.    *)
(***************************************************************************)
BufferInsert(n, r) ==
  IF InBuffer(n, r)
  THEN UNCHANGED buffer
  ELSE \E q \in Sortings(Elements(buffer[n]) \cup {r}) :
         buffer' = [buffer EXCEPT ![n] = q]

-----------------------------------------------------------------------------
(***************************************************************************)
(* Initially each server has its first rumor open, and every connection is *)
(* up with its first, empty exchange of rumor states over.                 *)
(***************************************************************************)
FirstRumor(n) == NewRumor(n, 0, [EmptyTimestamp EXCEPT ![n] = 0])

Links == {p \in SUBSET Server :
            \E n, m \in Server : p = {n, m} /\ m \in Dials[n]}

(***************************************************************************)
(* StoreFirstRumor, at every start: INSERT OR IGNORE.                      *)
(***************************************************************************)
\* Mistake: INSERT OR REPLACE.
ReplaceFirstRumor(n, rows) ==
  {r \in rows : ~SameID(r, FirstRumor(n))} \cup {FirstRumor(n)}

StoreFirstRumor(n, rows) ==
  IF \E r \in rows : SameID(r, FirstRumor(n))
  THEN rows
  ELSE rows \cup {FirstRumor(n)}

\* Mistake: asks again for the last rumor of each sender.
StateQueryBehind(t) ==
  [type |-> "rumor_state", state |-> [s \in Server |-> t[s] - 1]]

StateQuery(t) == [type |-> "rumor_state", state |-> t]

Init ==
  /\ table = [n \in Server |-> StoreFirstRumor(n, {})]
  /\ pending = [n \in Server |-> FALSE]
  /\ buffer = [n \in Server |-> << >>]
  /\ told = [n \in Server |-> {}]
  /\ up = Links
  /\ link = [n \in Server |-> [m \in Server |-> << >>]]
  /\ hub = [n \in Server |-> "idle"]
  /\ storing = [n \in Server |-> {}]
  /\ work = [n \in Server |-> << >>]
  /\ sending = [n \in Server |-> {}]
  /\ dead = [n \in Server |-> FALSE]
  /\ crashes = 0

-----------------------------------------------------------------------------
(***************************************************************************)
(* The rumor sender and publishing clients.                                *)
(***************************************************************************)

(***************************************************************************)
(* The hub is between two messages.                                        *)
(***************************************************************************)
Idle(n) == hub[n] = "idle" /\ work[n] = << >>

(***************************************************************************)
(* A client publishes a message on n: the hub adds it to the open rumor.   *)
(***************************************************************************)
AddMessageToMyRumor(n) ==
  /\ Idle(n)
  /\ OpenID(n) < MaxRumors[n]
  /\ pending' = [pending EXCEPT ![n] = TRUE]
  /\ UNCHANGED <<table, buffer, told, up, link, hub, storing, work, sending,
                 dead, crashes>>

(***************************************************************************)
(* The rumor sender of n closes the open rumor: the rumor gets the current *)
(* state as its timestamp, and the next rumor is opened.                   *)
(***************************************************************************)
GetAndIncrementMyRumor(n) ==
  LET id == OpenID(n)
      mine == NewRumor(n, id, State(n))
  IN /\ sending[n] = {}
     /\ pending[n]
     /\ table' = [table EXCEPT ![n] =
                    Closed(n, @) \cup
                      {mine, NewRumor(n, id + 1, EmptyTimestamp)}]
     /\ pending' = [pending EXCEPT ![n] = FALSE]
     /\ sending' = [sending EXCEPT ![n] = {mine}]
     /\ UNCHANGED <<buffer, told, up, link, hub, storing, work, dead, crashes>>

SendMyRumor(n) ==
  \E r \in sending[n] :
    /\ SendRumor(link, n, n, r)
    /\ sending' = [sending EXCEPT ![n] = {}]
    /\ UNCHANGED <<table, pending, buffer, up, hub, storing, work, dead, crashes>>

-----------------------------------------------------------------------------
(***************************************************************************)
(* The hub: one action per kind of message at the head of a connection.    *)
(* Incoming(n, m, type) holds when the message n reads next from m is of   *)
(* this type; Consumed is the links without it.                            *)
(***************************************************************************)
Incoming(n, m, type) ==
  /\ Idle(n)
  /\ link[m][n] # << >>
  /\ Head(link[m][n]).type = type

Consumed(n, m) == [link EXCEPT ![m][n] = Tail(@)]

(***************************************************************************)
(* Answer to a rumor query: a result, or a duplicate resource error.       *)
(***************************************************************************)
Answered(n, m, r, dup) ==
  Send(Consumed(n, m), n, m,
       [type |-> "rumor_answer", rumor |-> r, duplicate |-> dup])

(***************************************************************************)
(* Handler.Handle of the rumor handler, up to the storing of the rumor.    *)
(***************************************************************************)
HandleRumor(n, m) ==
  /\ Incoming(n, m, "rumor")
  /\ LET r == Head(link[m][n]).rumor IN
       \/ /\ HasRumor(n, r)
          /\ link' = Answered(n, m, r, TRUE)
          /\ UNCHANGED <<buffer, told, hub, storing>>
       \/ /\ ~HasRumor(n, r)
          /\ ~CheckRumor(n, r)
          /\ BufferInsert(n, r)
          /\ link' = Answered(n, m, r, InBuffer(n, r))
          /\ UNCHANGED <<told, hub, storing>>
       \/ /\ CheckRumor(n, r)
          /\ SendRumor(Answered(n, m, r, FALSE), n, m, r)
          /\ storing' = [storing EXCEPT ![n] = {r}]
          /\ hub' = [hub EXCEPT ![n] = "store"]
          /\ UNCHANGED buffer
  /\ UNCHANGED <<table, pending, up, work, sending, dead, crashes>>

(***************************************************************************)
(* StoreRumor.  Its transaction fails when the row exists.                 *)
(***************************************************************************)
StoreRumor(n) ==
  /\ hub[n] = "store"
  /\ \E r \in storing[n] :
       \/ /\ \E q \in table[n] : SameID(q, r)
          /\ hub' = [hub EXCEPT ![n] = "idle"]
          /\ UNCHANGED table
       \/ /\ ~\E q \in table[n] : SameID(q, r)
          /\ table' = [table EXCEPT ![n] = @ \cup {r}]
          /\ hub' = [hub EXCEPT ![n] = "next"]
  /\ storing' = [storing EXCEPT ![n] = {}]
  /\ UNCHANGED <<pending, buffer, told, up, link, work, sending, dead, crashes>>

(***************************************************************************)
(* After a rumor is stored: take the first rumor of the buffer the state   *)
(* makes valid, and handle it when CheckRumor agrees.  When it does not,   *)
(* the rumor is gone from the buffer all the same.                         *)
(***************************************************************************)
Ready(n) == {i \in DOMAIN buffer[n] : IsValid(State(n), buffer[n][i].timestamp)}

HandleNextRumor(n) ==
  /\ hub[n] = "next"
  /\ \/ /\ Ready(n) = {}
        /\ hub' = [hub EXCEPT ![n] = "idle"]
        /\ UNCHANGED <<buffer, told, link, storing>>
     \/ \E i \in Ready(n) :
          LET r == buffer[n][i] IN
          /\ \A j \in Ready(n) : i <= j
          /\ buffer' = [buffer EXCEPT ![n] = RemoveAt(@, i)]
          /\ \/ /\ ~CheckRumor(n, r)
                /\ hub' = [hub EXCEPT ![n] = "idle"]
                /\ UNCHANGED <<told, link, storing>>
             \/ /\ CheckRumor(n, r)
                /\ SendRumor(link, n, n, r)
                /\ storing' = [storing EXCEPT ![n] = {r}]
                /\ hub' = [hub EXCEPT ![n] = "store"]
  /\ UNCHANGED <<table, pending, up, work, sending, dead, crashes>>

(***************************************************************************)
(* A buffered rumor expires (deleteWithDelay).                             *)
(***************************************************************************)
ExpireBuffered(n) ==
  /\ \E i \in DOMAIN buffer[n] :
       buffer' = [buffer EXCEPT ![n] = RemoveAt(@, i)]
  /\ UNCHANGED <<table, pending, told, up, link, hub, storing, work, sending,
                 dead, crashes>>

(***************************************************************************)
(* The answer to a rumor: tell the next neighbour; after a duplicate, stop *)
(* half of the time.                                                       *)
(***************************************************************************)
HandleRumorAnswer(n, m) ==
  /\ Incoming(n, m, "rumor_answer")
  /\ LET answer == Head(link[m][n]) IN
       \/ SendRumor(Consumed(n, m), n, n, answer.rumor)
       \/ /\ answer.duplicate
          /\ link' = Consumed(n, m)
          /\ UNCHANGED told
  /\ UNCHANGED <<table, pending, buffer, up, hub, storing, work, sending,
                 dead, crashes>>

-----------------------------------------------------------------------------
(***************************************************************************)
(* Rumor states.  A server asks for one at a time, which bounds the links. *)
(***************************************************************************)
StateQueryPending(n, m) ==
  \/ \E i \in DOMAIN link[n][m] : link[n][m][i].type = "rumor_state"
  \/ \E i \in DOMAIN link[m][n] : link[m][n][i].type = "rumor_state_answer"

SendRumorState(n, m) ==
  /\ n \in Asking
  /\ m \in Neighbors(n)
  /\ \A k \in Server : ~StateQueryPending(n, k)
  /\ work[n] = << >>
  /\ link' = Send(link, n, m, StateQuery(State(n)))
  /\ UNCHANGED <<serverVars, up, dead, crashes>>

(***************************************************************************)
(* The rumors n has, its own open one excepted, that the state lacks.      *)
(***************************************************************************)
\* Mistake: the open rumor is part of the answer.
MissingFromWithOpen(n, state) ==
  {r \in table[n] : r.sender \in Entries(state) => state[r.sender] < r.id}

\* Mistake: only rumors of senders the other server knows are sent.
MissingFromKnown(n, state) ==
  {r \in Received(n) : r.sender \in Entries(state) /\ state[r.sender] < r.id}

MissingFrom(n, state) ==
  {r \in Received(n) : r.sender \in Entries(state) => state[r.sender] < r.id}

(***************************************************************************)
(* The answer is sorted here and sorted again by who receives it: only the *)
(* second order is kept, so the answer carries a set.                      *)
(***************************************************************************)
HandleRumorState(n, m) ==
  /\ Incoming(n, m, "rumor_state")
  /\ link' = Send(Consumed(n, m), n, m,
                  [type |-> "rumor_state_answer",
                   rumors |-> MissingFrom(n, Head(link[m][n]).state)])
  /\ UNCHANGED <<serverVars, up, dead, crashes>>

(***************************************************************************)
(* The hub of n starts to go through the rumors of an answer.  The work    *)
(* remembers which neighbour sent them.                                    *)
(***************************************************************************)
HandleRumorStateAnswer(n, m) ==
  /\ Incoming(n, m, "rumor_state_answer")
  /\ link' = Consumed(n, m)
  /\ \E q \in Sortings(Head(link[m][n]).rumors) :
       work' = [work EXCEPT ![n] =
                  [i \in DOMAIN q |-> [rumor |-> q[i], from |-> m]]]
  /\ UNCHANGED <<table, pending, buffer, told, up, hub, storing, sending,
                 dead, crashes>>

(***************************************************************************)
(* HandleRumorStateAnswer of the rumor handler, for the next of them.      *)
(***************************************************************************)
HandleWork(n) ==
  /\ hub[n] = "idle"
  /\ work[n] # << >>
  /\ work' = [work EXCEPT ![n] = Tail(@)]
  /\ LET r == Head(work[n]).rumor IN
       \/ /\ HasRumor(n, r)
          /\ UNCHANGED <<buffer, told, link, hub, storing>>
       \/ /\ ~HasRumor(n, r)
          /\ ~CheckRumor(n, r)
          /\ BufferInsert(n, r)
          /\ UNCHANGED <<told, link, hub, storing>>
       \/ /\ CheckRumor(n, r)
          /\ SendRumor(link, n, Head(work[n]).from, r)
          /\ storing' = [storing EXCEPT ![n] = {r}]
          /\ hub' = [hub EXCEPT ![n] = "store"]
          /\ UNCHANGED buffer
  /\ UNCHANGED <<table, pending, up, sending, dead, crashes>>

-----------------------------------------------------------------------------
(***************************************************************************)
(* n crashes and starts again: what was in memory and on its connections   *)
(* is lost.  It dials again; those who had dialled it do not.  Both ends   *)
(* of a new connection send their rumor state.  A new connection is a new  *)
(* socket, that has not been told anything.                                *)
(***************************************************************************)
Restart(n) ==
  /\ n \in Crashable
  /\ crashes < MaxCrashes
  /\ crashes' = crashes + 1
  /\ table' = [table EXCEPT ![n] = StoreFirstRumor(n, @)]
  /\ up' = {p \in up : n \notin p} \cup {{n, m} : m \in Dials[n]}
  /\ link' = [k \in Server |-> [m \in Server |->
                IF \E j \in Dials[n] : {k, m} = {n, j}
                THEN << StateQuery(State(k)) >>
                ELSE IF n \in {k, m} THEN << >> ELSE link[k][m]]]
  /\ told' = [k \in Server |->
                IF k = n THEN {}
                ELSE {t \in told[k] : t[3] = n => k \notin Dials[n]}]
  /\ buffer' = [buffer EXCEPT ![n] = << >>]
  /\ hub' = [hub EXCEPT ![n] = "idle"]
  /\ storing' = [storing EXCEPT ![n] = {}]
  /\ work' = [work EXCEPT ![n] = << >>]
  /\ sending' = [sending EXCEPT ![n] = {}]
  /\ dead' = [k \in Server |-> k # n /\ (dead[k] \/ {n, k} \in up)]
  /\ UNCHANGED pending

-----------------------------------------------------------------------------
Next ==
  \/ \E n \in Server :
       \/ AddMessageToMyRumor(n)
       \/ GetAndIncrementMyRumor(n)
       \/ SendMyRumor(n)
       \/ StoreRumor(n)
       \/ HandleNextRumor(n)
       \/ ExpireBuffered(n)
       \/ HandleWork(n)
       \/ Restart(n)
  \/ \E n, m \in Server :
       \/ HandleRumor(n, m)
       \/ HandleRumorAnswer(n, m)
       \/ SendRumorState(n, m)
       \/ HandleRumorState(n, m)
       \/ HandleRumorStateAnswer(n, m)

Spec == Init /\ [][Next]_vars

(***************************************************************************)
(* Fairness.  The goroutines of a server keep running, and it reads every  *)
(* connection: a read pump that has a message blocks on the channel of the *)
(* hub, which serves blocked senders in order, so that a message cannot be *)
(* passed over forever although the hub is not idle all the time.  The     *)
(* rumor state sender picks a neighbour at random every ten seconds.       *)
(***************************************************************************)
Handle(n, m) ==
  \/ HandleRumor(n, m)
  \/ HandleRumorAnswer(n, m)
  \/ HandleRumorState(n, m)
  \/ HandleRumorStateAnswer(n, m)

Fairness ==
  /\ \A n \in Server :
       /\ WF_vars(GetAndIncrementMyRumor(n))
       /\ WF_vars(SendMyRumor(n))
       /\ WF_vars(StoreRumor(n))
       /\ WF_vars(HandleNextRumor(n))
       /\ WF_vars(HandleWork(n))
  /\ \A n, m \in Server :
       /\ SF_vars(Handle(n, m))
       /\ SF_vars(SendRumorState(n, m))

FairSpec == Spec /\ Fairness

-----------------------------------------------------------------------------
(***************************************************************************)
(* Properties.                                                             *)
(***************************************************************************)

(***************************************************************************)
(* The types of the variables.                                             *)
(***************************************************************************)
TypeOK ==
  /\ table \in [Server -> FiniteSubsets(Rumor)]
  /\ pending \in [Server -> BOOLEAN]
  /\ buffer \in [Server -> Seq(Rumor)]
  /\ told \in [Server -> SUBSET (Server \X Nat \X Server)]
  /\ up \subseteq Links
  /\ link \in [Server -> [Server -> Seq(Message(Rumor))]]
  /\ hub \in [Server -> {"idle", "store", "next"}]
  /\ storing \in [Server -> SUBSET Rumor]
  /\ work \in [Server -> Seq([rumor : Rumor, from : Server])]
  /\ sending \in [Server -> SUBSET Rumor]
  /\ dead \in [Server -> BOOLEAN]
  /\ crashes \in 0 .. MaxCrashes

(***************************************************************************)
(* Every server holds, of each sender, an unbroken prefix of its rumors:   *)
(* the state exchanged as one id per sender stands for all of them.        *)
(***************************************************************************)
ContiguousRumors ==
  \A n, s \in Server : LET ids == IDs(table[n], s) IN
    ids # {} => \E k \in ids : ids = 0 .. k

(***************************************************************************)
(* The rumors that are anywhere but in the open row of a server.           *)
(***************************************************************************)
InFlight(n, m) ==
  UNION {LET msg == link[n][m][i] IN
           CASE msg.type \in {"rumor", "rumor_answer"} -> {msg.rumor}
             [] msg.type = "rumor_state_answer" -> msg.rumors
             [] OTHER -> {} : i \in DOMAIN link[n][m]}

Held(n) ==
  Received(n) \cup Elements(buffer[n]) \cup storing[n] \cup sending[n]
    \cup {w.rumor : w \in Elements(work[n])}
    \cup UNION {InFlight(n, m) : m \in Server}

(***************************************************************************)
(* A sender and an id name one rumor, whoever holds a copy of it, and the  *)
(* sender itself has it: no crash makes a server reuse an id, and the open *)
(* rumor never leaves its server.                                          *)
(***************************************************************************)
RumorAgreement ==
  \A n \in Server : \A r \in Held(n) : r \in Received(r.sender)

(***************************************************************************)
(* A server that has stored a rumor has stored every rumor its sender had  *)
(* when it sent it: messages are handled in causal order.                  *)
(***************************************************************************)
CausalClosure ==
  \A n \in Server : \A r \in Received(n) : \A s \in Entries(r.timestamp) :
    s \in Entries(State(n)) /\ r.timestamp[s] <= State(n)[s]

(***************************************************************************)
(* The state of a server never goes back, across a restart either.         *)
(***************************************************************************)
ReceivedGrows == [][\A n \in Server : Received(n) \subseteq Received(n)']_vars

(***************************************************************************)
(* The gossip implements causal broadcast: what a server has received are  *)
(* its rumors but the open one, and the timestamp of a rumor stands for    *)
(* exactly what its sender had received when it sent it.                   *)
(***************************************************************************)
Past(r) == UNION {{s} \X (0 .. r.timestamp[s]) : s \in Server}

RumorID == UNION {0 .. MaxRumors[n] : n \in Server}

Causal == INSTANCE CausalBroadcast WITH
  ID <- RumorID,
  received <- [n \in Server |->
                 {[sender |-> r.sender, id |-> r.id, past |-> Past(r)] :
                    r \in Received(n)}]

ImplementsCausalBroadcast == Causal!Spec

(***************************************************************************)
(* Every rumor a server sends is stored by every server in the end.        *)
(***************************************************************************)
EventuallyEverywhere ==
  \A n \in Server : \A m \in Server \ {n} : \A i \in 0 .. MaxRumors[n] - 1 :
    (i < OpenID(n)) ~> (\E r \in Received(m) : r.sender = n /\ r.id = i)

=============================================================================
