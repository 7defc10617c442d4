------------------------------ MODULE Election ------------------------------
(***************************************************************************)
(* One election of a LAO, on several Go backends.                          *)
(*                                                                         *)
(* The organizer and the voters publish messages on the servers they are   *)
(* connected to; what a server stored reaches the others in a rumor, in    *)
(* any order and again as long as it is refused (RumorGossip and           *)
(* RumorMessages model how).  The hub of a server handles one message at a *)
(* time: it checks it against what it stored, and then broadcasts it to    *)
(* its clients and stores it (votes, open), or stores it and then          *)
(* broadcasts it (end).  A server may crash between the two.               *)
(*                                                                         *)
(* Abstracted: one question; signatures, hashes and the checks of the      *)
(* fields of one message; the list of attendees, which does not change     *)
(* (every voter is one); the hash of the registered votes, which says as   *)
(* much as how often each vote id is in the list.  In an open ballot the   *)
(* id of a vote says what was voted; in a secret one it is the id of the   *)
(* encrypted vote, which only the server with that key decrypts.           *)
(***************************************************************************)
EXTENDS Naturals, Sequences, FiniteSets, Functions, SequencesExt, FiniteSetsExt

CONSTANTS
  Server,      \* the servers
  Voter,       \* the attendees who vote
  Option,      \* the ballot options
  Ballot,      \* the votes that may be cast, each at most once
  MaxEvents,   \* bound on the votes, open messages and crashes together
  MaxEnds      \* bound on the end messages

ASSUME ElectionAssumption ==
  /\ IsFiniteSet(Server) /\ IsFiniteSet(Voter) /\ IsFiniteSet(Option)
  /\ IsFiniteSet(Ballot)
  /\ Ballot \subseteq [id : Nat, voter : Voter, option : Option, time : Nat]
  /\ \A b, c \in Ballot : b.id = c.id => b = c
  /\ {MaxEvents, MaxEnds} \subseteq Nat

VARIABLES
  version,    \* of the election: what the setup message says, once and for all
  stored,     \* stored[n]: the messages n stored on the election channel
  result,     \* result[n]: the results n computed, none or one per end
  broadcast,  \* broadcast[n]: the messages n broadcast to its clients
  inbox,      \* inbox[n]: the messages clients published on n
  hub,        \* hub[n]: the message n is handling, if any
  cast,       \* the votes that were cast
  opens,      \* number of open messages published
  ends,       \* number of end messages published
  crashes     \* number of crashes

clientVars == <<version, cast, opens, ends>>
vars == <<stored, result, broadcast, inbox, hub, clientVars, crashes>>

-----------------------------------------------------------------------------
(***************************************************************************)
(* Messages.  id stands for the message id, a hash: the order of ids says  *)
(* nothing of the order in which votes were cast.  key is the server whose *)
(* election key the vote was encrypted with.                               *)
(***************************************************************************)
Setup == [type |-> "setup"]
Open(i) == [type |-> "open", id |-> i]
End(i, registered) == [type |-> "end", id |-> i, registered |-> registered]

Vote(b, n) ==
  [type |-> "vote", id |-> b.id, voter |-> b.voter, option |-> b.option,
   time |-> b.time, key |-> n]

(***************************************************************************)
(* What is voted, as far as the id of the vote tells.                      *)
(***************************************************************************)
Secret == version = "SECRET_BALLOT"

VoteID(v) == IF Secret THEN <<v.option, v.key, v.id>> ELSE <<v.option>>

Has(n, m) == m \in Range(stored[n])
StoredOf(n, type) == {m \in Range(stored[n]) : m.type = type}

(***************************************************************************)
(* The type of the message stored last of those that are not votes.        *)
(***************************************************************************)
Phases(n) == {i \in DOMAIN stored[n] : stored[n][i].type # "vote"}

getElectionState(n) ==
  IF Phases(n) = {} THEN "none" ELSE stored[n][Max(Phases(n))].type

IsElectionStarted(n) == getElectionState(n) = "open"
IsElectionEnded(n) == getElectionState(n) = "end"
IsElectionStartedOrEnded(n) == getElectionState(n) \in {"open", "end"}

-----------------------------------------------------------------------------
(***************************************************************************)
(* Counting.  The votes are read in the order of their message ids, and a  *)
(* vote takes the place of an earlier one of the same sender only when it  *)
(* was created later.                                                      *)
(***************************************************************************)
\* Mistake: the creation times are not compared.
updateVoteLastRead(valid, v) ==
  [x \in DOMAIN valid \cup {v.voter} |-> IF x = v.voter THEN v ELSE valid[x]]

updateVote(valid, v) ==
  IF v.voter \in DOMAIN valid /\ valid[v.voter].time >= v.time
  THEN valid
  ELSE [x \in DOMAIN valid \cup {v.voter} |-> IF x = v.voter THEN v ELSE valid[x]]

\* Mistake: every vote counts.
ValidVotesEach(votes) == [i \in {v.id : v \in votes} |-> CHOOSE v \in votes : v.id = i]

ReadLast(votes) == CHOOSE v \in votes : \A w \in votes : w.id <= v.id

ValidVotes(votes) ==
  MapThenFoldSet(LAMBDA v, valid : updateVote(valid, v), << >>, LAMBDA v : v, ReadLast, votes)

\* The votes an end registers: [vote id -> how often].
Registered(votes) ==
  LET valid == ValidVotes(votes)
  IN [x \in {VoteID(v) : v \in Range(valid)} |->
        Cardinality({y \in DOMAIN valid : VoteID(valid[y]) = x})]

(***************************************************************************)
(* getVoteIndex: nothing can be said of a vote encrypted for another       *)
(* server; what decrypting it gives is hardly ever the index of an option. *)
(***************************************************************************)
\* Mistake: a vote that cannot be decrypted counts.
ReadableAny(n, v) == TRUE

Readable(n, v) == ~Secret \/ v.key = n

Result(n, votes) ==
  LET valid == ValidVotes(votes)
  IN [o \in Option |->
        Cardinality({y \in DOMAIN valid : valid[y].option = o /\ Readable(n, valid[y])})]

Init ==
  /\ version \in {"OPEN_BALLOT", "SECRET_BALLOT"}
  /\ stored = [n \in Server |-> << >>]
  /\ result = [n \in Server |-> {}]
  /\ broadcast = [n \in Server |-> {}]
  /\ inbox = [n \in Server |-> {Setup}]
  /\ hub = [n \in Server |-> {}]
  /\ cast = {}
  /\ opens = 0
  /\ ends = 0
  /\ crashes = 0

-----------------------------------------------------------------------------
(***************************************************************************)
(* Clients.  A client follows one server and publishes on that one and any *)
(* others it is connected to.                                              *)
(***************************************************************************)
Publish(n, m) ==
  \E S \in SUBSET Server :
    /\ n \in S
    /\ inbox' = [k \in Server |-> IF k \in S THEN inbox[k] \cup {m} ELSE inbox[k]]

Events == Cardinality(cast) + opens + crashes

Saw(n, type) == \E m \in broadcast[n] : m.type = type

CastVote(n, b) ==
  /\ Events < MaxEvents
  /\ Saw(n, "open") /\ ~Saw(n, "end")
  /\ \A w \in cast : w.id # b.id /\ (w.voter = b.voter => w.time <= b.time)
  /\ Publish(n, Vote(b, n))
  /\ cast' = cast \cup {Vote(b, n)}
  /\ UNCHANGED <<version, stored, result, broadcast, hub, opens, ends, crashes>>

OpenElection(n) ==
  /\ Events < MaxEvents
  /\ Has(n, Setup)
  /\ Publish(n, Open(opens + 1))
  /\ opens' = opens + 1
  /\ UNCHANGED <<version, stored, result, broadcast, hub, cast, ends, crashes>>

(***************************************************************************)
(* The organizer ends the election.  The end always has the hash of the    *)
(* votes she saw, also when she saw none.                                  *)
(***************************************************************************)
EndElection(n) ==
  /\ ends < MaxEnds
  /\ Saw(n, "open")
  /\ LET registered == Registered({m \in broadcast[n] : m.type = "vote"})
     IN Publish(n, End(ends + 1, registered))
  /\ ends' = ends + 1
  /\ UNCHANGED <<version, stored, result, broadcast, hub, cast, opens, crashes>>

-----------------------------------------------------------------------------
(***************************************************************************)
(* The hub of server n: a message that a client published on it, or that   *)
(* another server stored.                                                  *)
(***************************************************************************)
Deliverable(n, m) ==
  /\ hub[n] = {}
  /\ ~Has(n, m)
  /\ m \in inbox[n] \/ \E k \in Server : Has(k, m)

Arrived(n) == inbox[n] \cup UNION {Range(stored[k]) : k \in Server}

\* Mistake: only the number of registered votes is compared.
verifyRegisteredVotesCount(n, m) ==
  MapThenSumSet(LAMBDA x : m.registered[x], DOMAIN m.registered)
    = Cardinality(DOMAIN ValidVotes(StoredOf(n, "vote")))

\* Mistake: votes that were replaced by a later one are compared as well.
verifyRegisteredVotesReplaced(n, m) ==
  LET votes == StoredOf(n, "vote")
  IN m.registered = [x \in {VoteID(v) : v \in votes} |->
                       Cardinality({v \in votes : VoteID(v) = x})]

(***************************************************************************)
(* The server skips the comparison when an end has no hash at all, which   *)
(* is an end that no client makes.                                         *)
(***************************************************************************)
verifyRegisteredVotes(n, m) == m.registered = Registered(StoredOf(n, "vote"))

\* Mistake: an election that has ended may be opened.
AcceptableReopen(n, m) ==
  CASE m.type = "setup" -> TRUE
    [] m.type = "open"  -> Has(n, Setup) /\ ~IsElectionStarted(n)
    [] m.type = "vote"  -> IsElectionStartedOrEnded(n)
    [] m.type = "end"   -> IsElectionStarted(n) /\ verifyRegisteredVotes(n, m)

Acceptable(n, m) ==
  CASE m.type = "setup" -> TRUE
    [] m.type = "open"  -> Has(n, Setup) /\ ~IsElectionStartedOrEnded(n)
    [] m.type = "vote"  -> IsElectionStartedOrEnded(n)
    [] m.type = "end"   -> IsElectionStarted(n) /\ verifyRegisteredVotes(n, m)

Store(n, m) == stored' = [stored EXCEPT ![n] = Append(@, m)]
Broadcast(n, m) == broadcast' = [broadcast EXCEPT ![n] = @ \cup {m}]

(***************************************************************************)
(* The setup is stored, and then broadcast on the channel of the LAO.      *)
(***************************************************************************)
HandleSetup(n, m) ==
  /\ m.type = "setup"
  /\ Deliverable(n, m) /\ Acceptable(n, m)
  /\ Store(n, m)
  /\ inbox' = [inbox EXCEPT ![n] = @ \ {m}]
  /\ UNCHANGED <<result, broadcast, hub, clientVars, crashes>>

(***************************************************************************)
(* An open message, and a vote, is broadcast first; a vote that comes      *)
(* after the end is only stored.                                           *)
(***************************************************************************)
HandleOpenOrVote(n, m) ==
  /\ m.type \in {"open", "vote"}
  /\ Deliverable(n, m) /\ Acceptable(n, m)
  /\ IF m.type = "vote" /\ IsElectionEnded(n) THEN UNCHANGED broadcast ELSE Broadcast(n, m)
  /\ hub' = [hub EXCEPT ![n] = {m}]
  /\ UNCHANGED <<stored, result, inbox, clientVars, crashes>>

(***************************************************************************)
(* The end is stored with the result.                                      *)
(***************************************************************************)
HandleEnd(n, m) ==
  /\ m.type = "end"
  /\ Deliverable(n, m) /\ Acceptable(n, m)
  /\ Store(n, m)
  /\ result' = [result EXCEPT ![n] = @ \cup {Result(n, StoredOf(n, "vote"))}]
  /\ hub' = [hub EXCEPT ![n] = {m}]
  /\ UNCHANGED <<broadcast, inbox, clientVars, crashes>>

Finish(n) ==
  \E m \in hub[n] :
    /\ IF Has(n, m)
       THEN Broadcast(n, m) /\ UNCHANGED stored
       ELSE Store(n, m) /\ UNCHANGED broadcast
    /\ hub' = [hub EXCEPT ![n] = {}]
    /\ inbox' = [inbox EXCEPT ![n] = @ \ {m}]
    /\ UNCHANGED <<result, clientVars, crashes>>

(***************************************************************************)
(* A client is told that its message is refused, or already there.         *)
(***************************************************************************)
Refuse(n) ==
  /\ hub[n] = {}
  /\ \E m \in inbox[n] :
       /\ Has(n, m) \/ ~Acceptable(n, m)
       /\ inbox' = [inbox EXCEPT ![n] = @ \ {m}]
  /\ UNCHANGED <<stored, result, broadcast, hub, clientVars, crashes>>

(***************************************************************************)
(* Server n is stopped and started again: its clients have to connect      *)
(* again, and what they had published on it but it had not handled is lost.*)
(***************************************************************************)
Crash(n) ==
  /\ Events < MaxEvents
  /\ hub[n] # {}
  /\ crashes' = crashes + 1
  /\ hub' = [hub EXCEPT ![n] = {}]
  /\ inbox' = [inbox EXCEPT ![n] = {}]
  /\ UNCHANGED <<stored, result, broadcast, clientVars>>

Handle(n) ==
  \E m \in Arrived(n) :
    HandleSetup(n, m) \/ HandleOpenOrVote(n, m) \/ HandleEnd(n, m)

Next ==
  \E n \in Server :
    \/ \E b \in Ballot : CastVote(n, b)
    \/ OpenElection(n)
    \/ EndElection(n)
    \/ Handle(n)
    \/ Finish(n)
    \/ Refuse(n)
    \/ Crash(n)

Spec == Init /\ [][Next]_vars

(***************************************************************************)
(* Fairness: a hub goes on, and handles what reaches it if it can.  Every  *)
(* message it handles is one more it stored, so weak fairness suffices.    *)
(***************************************************************************)
FairSpec ==
  Spec /\ \A n \in Server : WF_vars(Handle(n) \/ Finish(n))

-----------------------------------------------------------------------------
(***************************************************************************)
(* Properties.                                                             *)
(***************************************************************************)

(***************************************************************************)
(* The types of the variables; a server counts once for every end, and     *)
(* counts no more votes than there are voters.                             *)
(***************************************************************************)
Message == {Setup} \cup {Open(i) : i \in 1 .. opens} \cup cast
             \cup UNION {{m \in Arrived(n) \cup broadcast[n] \cup hub[n] : m.type = "end"} : n \in Server}

TypeOK ==
  /\ version \in {"OPEN_BALLOT", "SECRET_BALLOT"}
  /\ stored \in [Server -> Seq(Message)]
  /\ result \in [Server -> SUBSET [Option -> 0 .. Cardinality(Voter)]]
  /\ broadcast \in [Server -> SUBSET Message]
  /\ inbox \in [Server -> SUBSET Message]
  /\ \A n \in Server : hub[n] \subseteq Message /\ Cardinality(hub[n]) <= 1
  /\ cast \subseteq {Vote(b, n) : b \in Ballot, n \in Server}
  /\ \A n \in Server :
       /\ Cardinality(result[n]) = Cardinality(StoredOf(n, "end"))
       /\ \A r \in result[n] :
            MapThenSumSet(LAMBDA o : r[o], Option) <= Cardinality(Voter)

(***************************************************************************)
(* A server opens and ends an election once, in that order, however often  *)
(* the organizer publishes and in whatever order messages come.            *)
(***************************************************************************)
TypesBefore(n, i) == {stored[n][j].type : j \in Phases(n) \cap 1 .. (i - 1)}

PhasesInOrder ==
  \A n \in Server : \A i \in Phases(n) :
    TypesBefore(n, i) = CASE stored[n][i].type = "setup" -> {}
                          [] stored[n][i].type = "open"  -> {"setup"}
                          [] stored[n][i].type = "end"   -> {"setup", "open"}

(***************************************************************************)
(* The result of an open ballot is the same on all servers that accepted   *)
(* the same end message, though each of them counted the votes that it had *)
(* by then.                                                                *)
(***************************************************************************)
SameEndSameResult ==
  ~Secret => \A n, k \in Server : \A e \in StoredOf(n, "end") \cap StoredOf(k, "end") :
    result[n] = result[k]

(***************************************************************************)
(* docs/messageData.md: "Each member may cast multiple votes, only the     *)
(* last one will be counted."  The result counts, for each voter with a    *)
(* vote stored before the end, one vote than which that voter created none *)
(* later; in a secret ballot, only those encrypted for this server.        *)
(***************************************************************************)
VotesBefore(n, e) ==
  {stored[n][i] : i \in {j \in DOMAIN stored[n] :
     stored[n][j].type = "vote" /\ \E k \in DOMAIN stored[n] : k > j /\ stored[n][k] = e}}

LastVotes(votes) ==
  {v \in votes : \A w \in votes : w.voter = v.voter => w.time <= v.time}

OnlyLastVotesCount ==
  \A n \in Server : \A e \in StoredOf(n, "end") :
    LET votes == VotesBefore(n, e) IN
    \E counted \in SUBSET LastVotes(votes) :
      /\ \A x \in {v.voter : v \in votes} :
           Cardinality({v \in counted : v.voter = x}) = 1
      /\ \A r \in result[n] : \A o \in Option :
           r[o] = Cardinality({v \in counted : v.option = o /\ (Secret => v.key = n)})

(***************************************************************************)
(* An end that was accepted somewhere is accepted by every server in the   *)
(* end, when the votes that any of them stores are the registered ones.    *)
(***************************************************************************)
AllVotes == UNION {StoredOf(n, "vote") : n \in Server}
Ends == UNION {StoredOf(n, "end") : n \in Server}
Ended(n) == StoredOf(n, "end") # {}

EndSpreads ==
  []<>((\E e \in Ends : e.registered = Registered(AllVotes))
          => \A n \in Server : Ended(n))

=============================================================================
