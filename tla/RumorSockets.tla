---------------------------- MODULE RumorSockets ----------------------------
(***************************************************************************)
(* Sockets: the sockets of the other servers, in the ring along which a    *)
(* rumor is told to one of them after the other.                           *)
(*                                                                         *)
(* store and socketIDs are filled by Upsert and never emptied (Delete has  *)
(* no caller).  A rumor starts at a random place of the ring, skips the    *)
(* socket it came from and stops after as many steps as there are sockets. *)
(* One step is one call of a method of Sockets, which its lock makes       *)
(* atomic; HubPipeline models the lock and the waiting.  RumorGossip uses  *)
(* the ring in the form CycleTellsThoseThere and ToldOnce show of it.      *)
(***************************************************************************)
EXTENDS Naturals, Sequences, FiniteSets, Functions

CONSTANTS
  Socket,      \* the sockets of servers
  NoSocket,    \* stands for nil: the rumor is one of this server
  Rumor,       \* the rumors
  Federating,  \* the sockets over which a federation challenge may come
  MaxUpserts   \* bound on the calls of Upsert, and with it on the counters

ASSUME SocketsAssumption ==
  /\ NoSocket \notin Socket
  /\ IsFiniteSet(Socket)
  /\ Federating \subseteq Socket
  /\ MaxUpserts \in Nat

VARIABLES
  socketIDs,  \* the ring
  store,      \* the sockets that were put in it
  rState,     \* rState[r]: where rumor r, if it was sent, is in the ring
  told,       \* told[r]: the sockets r was sent to, in that order
  there       \* there[r]: the sockets in store when r was first sent

vars == <<socketIDs, store, rState, told, there>>

-----------------------------------------------------------------------------
Size == Cardinality(store)

(***************************************************************************)
(* Indices count from 0, as in the code; they run below the size of the    *)
(* store, not below the length of the ring.                                *)
(***************************************************************************)
At(index) == socketIDs[index + 1]

Advance(state) ==
  [state EXCEPT !.index = (@ + 1) % Size, !.counter = @ + 1]

\* Mistake: a rumor that was not sent yet skips nobody.
SkipLater(state) ==
  IF state.counter > 0 /\ At(state.index) = state.banned
  THEN Advance(state) ELSE state

\* Mistake: the socket after the one the rumor came from is skipped as well.
SkipTwo(state) ==
  IF At(state.index) = state.banned THEN Advance(Advance(state)) ELSE state

Skip(state) ==
  IF At(state.index) = state.banned THEN Advance(state) ELSE state

Completed(state) == state.counter >= Size

Sent == DOMAIN rState

Init ==
  /\ socketIDs = << >>
  /\ store = {}
  /\ rState = << >>
  /\ told = [r \in Rumor |-> << >>]
  /\ there = [r \in Rumor |-> {}]

(***************************************************************************)
(* A server connects or is dialled: NotifyNewServer of the hub, connectTo  *)
(* of the federation.                                                      *)
(***************************************************************************)
Upsert(s) ==
  /\ Len(socketIDs) < MaxUpserts
  /\ socketIDs' = Append(socketIDs, s)
  /\ store' = store \cup {s}
  /\ UNCHANGED <<rState, told, there>>

Connect(s) == s \notin store /\ Upsert(s)

(***************************************************************************)
(* The challenge of another organizer comes over socket s, which is added  *)
(* to the sockets of servers: it may be one of them already, or belong to  *)
(* a client.                                                               *)
(***************************************************************************)
HandleChallenge(s) == s \in Federating /\ Upsert(s)

Put(r, state) == [x \in Sent \cup {r} |-> IF x = r THEN state ELSE rState[x]]

(***************************************************************************)
(* The rumor handler sends r for the first time, which came from a server  *)
(* or is one of this server; or it sends it once more.                     *)
(***************************************************************************)
Send(r, from) ==
  LET state == Skip(from) IN
  IF Completed(state)
  THEN /\ rState' = Put(r, state)
       /\ UNCHANGED told
  ELSE /\ rState' = Put(r, Advance(state))
       /\ told' = [told EXCEPT ![r] = Append(@, At(state.index))]

SendFirst(r) ==
  /\ store # {}
  /\ r \notin Sent
  /\ \E index \in 0 .. Size - 1, banned \in store \cup {NoSocket} :
       Send(r, [counter |-> 0, index |-> index, banned |-> banned])
  /\ there' = [there EXCEPT ![r] = store]
  /\ UNCHANGED <<socketIDs, store>>

\* Mistake: a rumor does not go on from where it was in the ring.
SendAnywhere(r) ==
  /\ r \in Sent
  /\ rState[r].counter <= MaxUpserts
  /\ \E index \in 0 .. Size - 1 :
       Send(r, [rState[r] EXCEPT !.index = index])
  /\ UNCHANGED <<socketIDs, store, there>>

SendAgain(r) ==
  /\ r \in Sent
  /\ rState[r].counter <= MaxUpserts
  /\ Send(r, [rState[r] EXCEPT !.index = @ % Size])
  /\ UNCHANGED <<socketIDs, store, there>>

Next ==
  \/ \E s \in Socket : Connect(s) \/ HandleChallenge(s)
  \/ \E r \in Rumor : SendFirst(r) \/ SendAgain(r)

Spec == Init /\ [][Next]_vars

-----------------------------------------------------------------------------
(***************************************************************************)
(* Properties.                                                             *)
(***************************************************************************)

(***************************************************************************)
(* No socket is in the ring twice.                                         *)
(***************************************************************************)
NoRepetition == IsInjective(socketIDs)

(***************************************************************************)
(* A rumor is not sent back over the socket it came from.                  *)
(***************************************************************************)
NeverBack ==
  NoRepetition => \A r \in Sent : rState[r].banned \notin Range(told[r])

(***************************************************************************)
(* When SendRumor says a cycle is completed, the rumor was sent to every   *)
(* server that was there when it started, whoever connected meanwhile.     *)
(***************************************************************************)
CycleTellsThoseThere ==
  \A r \in Sent :
    NoRepetition /\ Completed(rState[r]) =>
      there[r] \ {rState[r].banned} \subseteq Range(told[r])

(***************************************************************************)
(* As long as nobody connects, a rumor is sent to nobody twice.            *)
(***************************************************************************)
ToldOnce ==
  \A r \in Sent : NoRepetition /\ there[r] = store => IsInjective(told[r])

=============================================================================
