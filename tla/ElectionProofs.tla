--------------------------- MODULE ElectionProofs ---------------------------
(***************************************************************************)
(* The phases of an election and its result, for any servers, voters,      *)
(* options and ballots, and any number of messages and crashes: first      *)
(* PhasesInOrder and SameEndSameResult of Election; then which votes are   *)
(* valid and how they are counted, hence TypeOK and OnlyLastVotesCount.    *)
(***************************************************************************)
EXTENDS Election, FiniteSetTheorems, SequenceTheorems, WellFoundedInduction, TLAPS

VoteMessage == {Vote(b, n) : b \in Ballot, n \in Server}

Registers == {Registered(votes) : votes \in SUBSET VoteMessage}

Messages ==
       {Setup} \cup {Open(i) : i \in Nat} \cup VoteMessage
  \cup {End(i, registered) : i \in Nat, registered \in Registers}

Types ==
  /\ stored \in [Server -> Seq(Messages)]
  /\ DOMAIN result = Server /\ result = [n \in Server |-> result[n]]
  /\ broadcast \in [Server -> SUBSET Messages]
  /\ inbox \in [Server -> SUBSET Messages]
  /\ hub \in [Server -> SUBSET Messages]
  /\ opens \in Nat /\ ends \in Nat

(***************************************************************************)
(* The types of the messages that an election goes through before one of   *)
(* the given type; what server n went through; whether a message of this   *)
(* type is the next one.                                                   *)
(***************************************************************************)
Earlier(type) == {t \in {"setup", "open"} : t # type /\ (t = "setup" \/ type = "end")}

Passed(n, type) == \E i \in Phases(n) : stored[n][i].type = type

Follows(n, type) == \A t : Passed(n, t) <=> t \in Earlier(type)

InOrder(n) ==
  \A i \in Phases(n) :
    /\ \A j \in Phases(n) : j < i => stored[n][j].type \in Earlier(stored[n][i].type)
    /\ \A t \in Earlier(stored[n][i].type) : \E j \in Phases(n) : j < i /\ stored[n][j].type = t

(***************************************************************************)
(* The message that the hub of n has broadcast and not stored: it is still *)
(* acceptable then, as the hub handles nothing else in between.            *)
(***************************************************************************)
Pending(n) ==
  \A m \in hub[n] :
    /\ \A k \in hub[n] : k = m
    /\ \/ Has(n, m)
       \/ m.type = "vote"
       \/ m.type = "open" /\ Follows(n, "open")

(***************************************************************************)
(* What the registered votes of an open ballot say of the result.          *)
(***************************************************************************)
Tally(registered) ==
  [o \in Option |-> IF <<o>> \in DOMAIN registered THEN registered[<<o>>] ELSE 0]

(***************************************************************************)
(* Server n has a result when it stored an end, and that of an open ballot *)
(* is what the end registers.                                              *)
(***************************************************************************)
Counted(n) ==
  /\ StoredOf(n, "end") = {} => result[n] = {}
  /\ ~Secret => \A e \in StoredOf(n, "end") :
       result[n] = {Tally(e.registered)}

IInv == Types /\ \A n \in Server : InOrder(n) /\ Pending(n) /\ Counted(n)

-----------------------------------------------------------------------------
LEMMA MessageTypes ==
  ASSUME NEW m \in Messages
  PROVE  /\ m.type \in {"setup", "open", "vote", "end"}
         /\ m.type = "setup" => m = Setup
         /\ m.type = "vote" => m \in VoteMessage
BY DEF Messages, Setup, Open, VoteMessage, Vote, End

LEMMA MessagesStay == version' = version => Messages' = Messages
BY DEF Messages, Registers, Registered, VoteID, Secret

LEMMA EarlierIs ==
  /\ Earlier("setup") = {} /\ Earlier("open") = {"setup"} /\ Earlier("end") = {"setup", "open"}
BY DEF Earlier

LEMMA PhasesAre ==
  ASSUME Types, NEW n \in Server
  PROVE  /\ stored[n] \in Seq(Messages) /\ DOMAIN stored[n] = 1 .. Len(stored[n])
         /\ Len(stored[n]) \in Nat /\ Phases(n) \subseteq 1 .. Len(stored[n])
         /\ \A i \in Phases(n) : /\ i \in Nat /\ stored[n][i] \in Messages
                                 /\ stored[n][i].type \in {"setup", "open", "end"}
<1>1. stored[n] \in Seq(Messages) /\ DOMAIN stored[n] = 1 .. Len(stored[n]) /\ Len(stored[n]) \in Nat
  BY DEF Types
<1>2. Phases(n) \subseteq 1 .. Len(stored[n])
  BY <1>1 DEF Phases
<1>3. \A i \in Phases(n) : stored[n][i] \in Messages /\ stored[n][i].type # "vote"
  BY <1>1 DEF Phases
<1> QED  BY <1>1, <1>2, <1>3, MessageTypes

LEMMA InOrderIsPhasesInOrder ==
  ASSUME Types, \A n \in Server : InOrder(n)
  PROVE  PhasesInOrder
<1> SUFFICES ASSUME NEW n \in Server, NEW i \in Phases(n)
             PROVE  TypesBefore(n, i) = CASE stored[n][i].type = "setup" -> {}
                                          [] stored[n][i].type = "open"  -> {"setup"}
                                          [] stored[n][i].type = "end"   -> {"setup", "open"}
  BY DEF PhasesInOrder
<1>1. \A j \in Phases(n) : j \in Phases(n) \cap 1 .. (i - 1) <=> j < i
  BY PhasesAre
<1>2. \A t : t \in TypesBefore(n, i) <=> \E j \in Phases(n) : j < i /\ stored[n][j].type = t
  BY <1>1 DEF TypesBefore
<1>3. TypesBefore(n, i) = Earlier(stored[n][i].type)
  BY <1>2 DEF InOrder
<1>4. stored[n][i].type \in {"setup", "open", "end"}
  BY PhasesAre
<1> QED  BY <1>3, <1>4, EarlierIs

(***************************************************************************)
(* The last phase exists, as none but "end" follows "open".                *)
(***************************************************************************)
LEMMA LastPhase ==
  ASSUME Types, NEW n \in Server, InOrder(n), Phases(n) # {}
  PROVE  /\ Max(Phases(n)) \in Phases(n)
         /\ \A i \in Phases(n) : i <= Max(Phases(n))
<1>1. \E x \in Phases(n) : \A y \in Phases(n) : x >= y
  <2>1. ASSUME NEW x \in Phases(n), NEW y \in Phases(n), ~(x >= y)
        PROVE  stored[n][x].type \in Earlier(stored[n][y].type)
    <3>1. x < y
      BY <2>1, PhasesAre
    <3> QED  BY <3>1 DEF InOrder
  <2>2. CASE \E x \in Phases(n) : stored[n][x].type = "end"
    BY <2>1, <2>2 DEF Earlier
  <2>3. CASE /\ \A x \in Phases(n) : stored[n][x].type # "end"
             /\ \E x \in Phases(n) : stored[n][x].type = "open"
    BY <2>1, <2>3 DEF Earlier
  <2>4. CASE \A x \in Phases(n) : stored[n][x].type = "setup"
    BY <2>1, <2>4 DEF Earlier
  <2> QED  BY <2>2, <2>3, <2>4, PhasesAre
<1>2. /\ Max(Phases(n)) \in Phases(n)
      /\ \A y \in Phases(n) : Max(Phases(n)) >= y
  BY <1>1 DEF Max
<1> QED  BY <1>2, PhasesAre

LEMMA StateIs ==
  ASSUME Types, NEW n \in Server, InOrder(n)
  PROVE  /\ getElectionState(n) = "none" => Phases(n) = {}
         /\ getElectionState(n) # "none" =>
              \A t : Passed(n, t) <=> t \in Earlier(getElectionState(n)) \cup {getElectionState(n)}
         /\ getElectionState(n) \in {"none", "setup", "open", "end"}
<1>1. CASE Phases(n) = {}
  BY <1>1 DEF getElectionState
<1>2. CASE Phases(n) # {}
  <2> DEFINE x == Max(Phases(n))
  <2>1. /\ x \in Phases(n) /\ \A i \in Phases(n) : i <= x
        /\ getElectionState(n) = stored[n][x].type
    BY <1>2, LastPhase DEF getElectionState
  <2> HIDE DEF x
  <2>2. stored[n][x].type \in {"setup", "open", "end"} /\ \A i \in Phases(n) : i < x \/ i = x
    BY <2>1, PhasesAre
  <2>3. \A t : Passed(n, t) <=> t \in Earlier(stored[n][x].type) \cup {stored[n][x].type}
    BY <2>1, <2>2 DEF InOrder, Passed
  <2> QED  BY <2>1, <2>2, <2>3
<1> QED  BY <1>1, <1>2

(***************************************************************************)
(* What a server accepts is the next phase.                                *)
(***************************************************************************)
LEMMA AcceptedFollows ==
  ASSUME Types, NEW n \in Server, InOrder(n), NEW m \in Messages, ~Has(n, m),
         Acceptable(n, m), m.type # "vote"
  PROVE  Follows(n, m.type)
<1>1. CASE m.type = "setup"
  <2>1. \A i \in Phases(n) : stored[n][i].type # "setup"
    <3> SUFFICES ASSUME NEW i \in Phases(n), stored[n][i].type = "setup" PROVE FALSE
      OBVIOUS
    <3>1. stored[n][i] = Setup /\ i \in DOMAIN stored[n] /\ m = Setup
      BY <1>1, PhasesAre, MessageTypes
    <3> QED  BY <3>1 DEF Has, Range
  <2>2. Phases(n) = {}
    <3> SUFFICES ASSUME NEW i \in Phases(n) PROVE FALSE
      OBVIOUS
    <3>1. "setup" \in Earlier(stored[n][i].type)
      BY <2>1, EarlierIs, PhasesAre
    <3> QED  BY <2>1, <3>1 DEF InOrder
  <2> QED  BY <1>1, <2>2, EarlierIs DEF Follows, Passed
<1>2. CASE m.type = "open"
  <2>1. Has(n, Setup) /\ ~IsElectionStartedOrEnded(n)
    BY <1>2 DEF Acceptable
  <2>2. PICK i \in DOMAIN stored[n] : stored[n][i] = Setup
    BY <2>1 DEF Has, Range
  <2>3. Phases(n) # {}
    BY <2>2 DEF Phases, Setup
  <2>4. getElectionState(n) = "setup"
    BY <2>1, <2>3, StateIs DEF IsElectionStartedOrEnded
  <2> QED  BY <1>2, <2>4, StateIs, EarlierIs DEF Follows
<1>3. CASE m.type = "end"
  <2>1. getElectionState(n) = "open"
    BY <1>3 DEF Acceptable, IsElectionStarted
  <2> QED  BY <1>3, <2>1, StateIs, EarlierIs DEF Follows
<1> QED  BY <1>1, <1>2, <1>3, MessageTypes

-----------------------------------------------------------------------------
(***************************************************************************)
(* A message is stored on server n, which is the next phase or a vote.     *)
(***************************************************************************)
LEMMA StoreKeeps ==
  ASSUME Types, NEW n \in Server, NEW m \in Messages, Store(n, m), InOrder(n),
         UNCHANGED version, m.type = "vote" \/ Follows(n, m.type)
  PROVE  /\ stored' \in [Server -> Seq(Messages)] /\ InOrder(n)'
         /\ \A k \in Server : k # n => stored'[k] = stored[k]
         /\ Has(n, m)'
         /\ \A type : StoredOf(n, type)' =
                        StoredOf(n, type) \cup {x \in {m} : x.type = type}
<1> DEFINE s == stored[n]
           top == Len(s) + 1
<1>1. s \in Seq(Messages) /\ DOMAIN s = 1 .. Len(s) /\ Len(s) \in Nat
  BY DEF Types
<1>2. stored' = [stored EXCEPT ![n] = Append(s, m)]
  BY DEF Store
<1>3. /\ stored' \in [Server -> Seq(Messages)] /\ stored'[n] = Append(s, m)
      /\ \A k \in Server : k # n => stored'[k] = stored[k]
  BY <1>1, <1>2 DEF Types
<1>4. /\ DOMAIN stored'[n] = DOMAIN s \cup {top} /\ top \notin DOMAIN s /\ top \in Nat
      /\ stored'[n][top] = m
      /\ \A i \in DOMAIN s : stored'[n][i] = s[i] /\ i \in Nat /\ i < top
  BY <1>1, <1>3
<1> HIDE DEF top
<1>5. Range(stored'[n]) = Range(s) \cup {m}
  <2>1. \A x : x \in Range(stored'[n]) <=> x \in Range(s) \/ x = m
    BY <1>4 DEF Range
  <2> QED  BY <2>1
<1>6. \A i : i \in Phases(n)' <=> i \in Phases(n) \/ (i = top /\ m.type # "vote")
  BY <1>4 DEF Phases
<1>7. \A i \in Phases(n) : i \in DOMAIN s
  BY DEF Phases
<1>8. InOrder(n)'
  <2>1. ASSUME NEW i \in Phases(n)
        PROVE  /\ \A j \in Phases(n)' : j < i =>
                    stored'[n][j].type \in Earlier(stored'[n][i].type)
               /\ \A t \in Earlier(stored'[n][i].type) :
                    \E j \in Phases(n)' : j < i /\ stored'[n][j].type = t
    <3>1. \A j \in Phases(n)' : j < i => j \in Phases(n)
      BY <1>4, <1>6, <1>7
    <3> QED  BY <1>4, <1>6, <1>7, <3>1 DEF InOrder
  <2>2. ASSUME m.type # "vote"
        PROVE  /\ \A j \in Phases(n)' : j < top => stored'[n][j].type \in Earlier(m.type)
               /\ \A t \in Earlier(m.type) :
                    \E j \in Phases(n)' : j < top /\ stored'[n][j].type = t
    <3>1. \A j \in Phases(n)' : j < top => j \in Phases(n)
      BY <1>4, <1>6
    <3>2. Follows(n, m.type)
      BY <2>2
    <3>3. \A j \in Phases(n) : stored'[n][j].type = s[j].type /\ j < top /\ j \in Phases(n)'
      BY <1>4, <1>6, <1>7
    <3> QED  BY <3>1, <3>2, <3>3 DEF Follows, Passed
  <2> QED  BY <1>4, <1>6, <2>1, <2>2 DEF InOrder
<1>9. \A type : StoredOf(n, type)' = StoredOf(n, type) \cup {x \in {m} : x.type = type}
  BY <1>5 DEF StoredOf
<1> QED  BY <1>3, <1>5, <1>8, <1>9, MessagesStay DEF Has

(***************************************************************************)
(* A step of server n alone.                                               *)
(***************************************************************************)
LEMMA OneServer ==
  ASSUME IInv, Types', NEW n \in Server, UNCHANGED version,
         InOrder(n)', Pending(n)', Counted(n)',
         \A k \in Server : k # n =>
           stored'[k] = stored[k] /\ result'[k] = result[k] /\ hub'[k] = hub[k]
  PROVE  IInv'
<1> SUFFICES ASSUME NEW k \in Server, k # n PROVE InOrder(k)' /\ Pending(k)' /\ Counted(k)'
  BY DEF IInv
<1>1. InOrder(k) /\ Pending(k) /\ Counted(k)
  BY DEF IInv
<1>2. Phases(k)' = Phases(k)
  BY DEF Phases
<1>3. InOrder(k)'
  BY <1>1, <1>2 DEF InOrder
<1>4. Pending(k)'
  BY <1>1, <1>2 DEF Pending, Has, Follows, Passed
<1>5. Counted(k)'
  BY <1>1 DEF Counted, StoredOf, Secret
<1> QED  BY <1>3, <1>4, <1>5

(***************************************************************************)
(* A step that stores nothing and after which no hub handles a message     *)
(* that it did not handle before.                                          *)
(***************************************************************************)
LEMMA NothingStored ==
  ASSUME IInv, Types', UNCHANGED <<stored, result, version>>,
         \A n \in Server : hub'[n] \subseteq hub[n]
  PROVE  IInv'
<1> SUFFICES ASSUME NEW n \in Server PROVE InOrder(n)' /\ Pending(n)' /\ Counted(n)'
  BY DEF IInv
<1>1. InOrder(n) /\ Pending(n) /\ Counted(n)
  BY DEF IInv
<1>2. InOrder(n)' /\ Counted(n)'
  BY <1>1 DEF InOrder, Phases, Counted, StoredOf, Secret
<1>3. Pending(n)'
  BY <1>1 DEF Pending, Has, Follows, Passed, Phases
<1> QED  BY <1>2, <1>3

-----------------------------------------------------------------------------
(***************************************************************************)
(* Clients.                                                                *)
(***************************************************************************)
LEMMA PublishKeeps ==
  ASSUME Types, NEW n \in Server, NEW m \in Messages, Publish(n, m)
  PROVE  inbox' \in [Server -> SUBSET Messages]
BY DEF Types, Publish

LEMMA BroadcastVotes ==
  ASSUME Types, NEW n \in Server
  PROVE  {m \in broadcast[n] : m.type = "vote"} \in SUBSET VoteMessage
BY MessageTypes DEF Types

LEMMA ClientKeeps ==
  ASSUME IInv, NEW n \in Server,
         (\E b \in Ballot : CastVote(n, b)) \/ OpenElection(n) \/ EndElection(n)
  PROVE  IInv'
<1>1. /\ Types /\ UNCHANGED <<stored, result, broadcast, hub, version>>
      /\ opens' \in Nat /\ ends' \in Nat
  BY DEF IInv, Types, CastVote, OpenElection, EndElection
<1>2. inbox' \in [Server -> SUBSET Messages]
  <2>1. ASSUME NEW b \in Ballot, CastVote(n, b) PROVE inbox' \in [Server -> SUBSET Messages]
    <3>1. Vote(b, n) \in Messages
      BY DEF Messages, VoteMessage
    <3> QED  BY <1>1, <2>1, <3>1, PublishKeeps DEF CastVote
  <2>2. CASE OpenElection(n)
    <3>1. Open(opens + 1) \in Messages
      BY <1>1 DEF Messages, Types
    <3> QED  BY <1>1, <2>2, <3>1, PublishKeeps DEF OpenElection
  <2>3. CASE EndElection(n)
    <3> DEFINE registered == Registered({m \in broadcast[n] : m.type = "vote"})
    <3>1. Publish(n, End(ends + 1, registered))
      BY <2>3 DEF EndElection
    <3>2. registered \in Registers
      BY <1>1, BroadcastVotes DEF Registers
    <3> HIDE DEF registered
    <3>3. ends + 1 \in Nat
      BY <1>1 DEF Types
    <3>4. End(ends + 1, registered) \in Messages
      BY <3>2, <3>3 DEF Messages
    <3> QED  BY <1>1, <3>1, <3>4, PublishKeeps
  <2> QED  BY <2>1, <2>2, <2>3
<1>3. Types'
  BY <1>1, <1>2, MessagesStay DEF Types
<1> QED  BY <1>1, <1>3, NothingStored

-----------------------------------------------------------------------------
(***************************************************************************)
(* The hub.                                                                *)
(***************************************************************************)
LEMMA ArrivedAre ==
  ASSUME Types, NEW n \in Server
  PROVE  Arrived(n) \subseteq Messages
<1>1. \A k \in Server : Range(stored[k]) \subseteq Messages
  BY DEF Types, Range
<1> QED  BY <1>1 DEF Arrived, Types

LEMMA BroadcastKeeps ==
  ASSUME Types, NEW n \in Server, NEW m \in Messages, Broadcast(n, m)
  PROVE  broadcast' \in [Server -> SUBSET Messages]
<1>1. broadcast \in [Server -> SUBSET Messages]
  BY DEF Types
<1> QED  BY <1>1 DEF Broadcast

LEMMA HandleSetupKeeps ==
  ASSUME IInv, NEW n \in Server, NEW m \in Arrived(n), HandleSetup(n, m)
  PROVE  IInv'
<1>1. /\ Types /\ InOrder(n) /\ Pending(n) /\ Counted(n) /\ m \in Messages
      /\ m.type = "setup" /\ ~Has(n, m) /\ Acceptable(n, m) /\ hub[n] = {} /\ Store(n, m)
      /\ UNCHANGED <<result, broadcast, hub, opens, ends, version>>
      /\ inbox' = [inbox EXCEPT ![n] = @ \ {m}]
  BY ArrivedAre DEF IInv, HandleSetup, Deliverable, clientVars
<1>2. Follows(n, m.type)
  BY <1>1, AcceptedFollows
<1>3. /\ stored' \in [Server -> Seq(Messages)] /\ InOrder(n)'
      /\ \A k \in Server : k # n => stored'[k] = stored[k]
      /\ \A type : StoredOf(n, type)' = StoredOf(n, type) \cup {x \in {m} : x.type = type}
  BY <1>1, <1>2, StoreKeeps
<1>4. Types'
  BY <1>1, <1>3, MessagesStay DEF Types
<1>5. Pending(n)'
  BY <1>1 DEF Pending
<1>6. Counted(n)'
  <2>1. {x \in {m} : x.type = "end"} = {}
    BY <1>1
  <2>2. StoredOf(n, "end")' = StoredOf(n, "end")
    BY <1>3, <2>1
  <2> QED  BY <1>1, <2>2 DEF Counted, Secret
<1> QED  BY <1>1, <1>3, <1>4, <1>5, <1>6, OneServer

LEMMA HandleOpenOrVoteKeeps ==
  ASSUME IInv, NEW n \in Server, NEW m \in Arrived(n), HandleOpenOrVote(n, m)
  PROVE  IInv'
<1>1. /\ Types /\ InOrder(n) /\ Counted(n) /\ m \in Messages
      /\ m.type \in {"open", "vote"} /\ ~Has(n, m) /\ Acceptable(n, m)
      /\ broadcast' = broadcast \/ Broadcast(n, m)
      /\ hub' = [hub EXCEPT ![n] = {m}]
      /\ UNCHANGED <<stored, result, inbox, opens, ends, version>>
  BY ArrivedAre DEF IInv, HandleOpenOrVote, Deliverable, clientVars
<1>2. hub'[n] = {m} /\ hub' \in [Server -> SUBSET Messages] /\ \A k \in Server : k # n => hub'[k] = hub[k]
  BY <1>1 DEF Types
<1>3. broadcast' \in [Server -> SUBSET Messages]
  <2>1. broadcast \in [Server -> SUBSET Messages]
    BY <1>1 DEF Types
  <2> QED  BY <1>1, <2>1, BroadcastKeeps
<1>4. Types'
  BY <1>1, <1>2, <1>3, MessagesStay DEF Types
<1>5. InOrder(n)' /\ Counted(n)'
  BY <1>1 DEF InOrder, Phases, Counted, StoredOf, Secret
<1>6. Pending(n)'
  <2>1. m.type = "vote" \/ (m.type = "open" /\ Follows(n, "open"))
    BY <1>1, AcceptedFollows
  <2>2. Follows(n, "open") => Follows(n, "open")'
    BY <1>1 DEF Follows, Passed, Phases
  <2> QED  BY <1>2, <2>1, <2>2 DEF Pending
<1> QED  BY <1>1, <1>2, <1>4, <1>5, <1>6, OneServer

(***************************************************************************)
(* The ids of the votes of an open ballot are the options, so that the     *)
(* registered votes say how often each option was voted.                   *)
(***************************************************************************)
LEMMA ResultIsTally ==
  ASSUME ~Secret, NEW n, NEW votes
  PROVE  Result(n, votes) = Tally(Registered(votes))
<1> DEFINE valid == ValidVotes(votes)
           counted(o) == {y \in DOMAIN valid : valid[y].option = o}
<1>1. Result(n, votes) = [o \in Option |-> Cardinality(counted(o))]
  BY DEF Result, Readable
<1>2. Registered(votes) =
        [x \in {<<v.option>> : v \in Range(valid)} |->
           Cardinality({y \in DOMAIN valid : <<valid[y].option>> = x})]
  BY DEF Registered, VoteID
<1> HIDE DEF valid
<1>3. ASSUME NEW o \in Option
      PROVE  Cardinality(counted(o)) = Tally(Registered(votes))[o]
  <2>1. {y \in DOMAIN valid : <<valid[y].option>> = <<o>>} = counted(o)
    OBVIOUS
  <2>2. CASE \E v \in Range(valid) : v.option = o
    <3>1. <<o>> \in {<<v.option>> : v \in Range(valid)}
      BY <2>2
    <3> QED  BY <1>2, <2>1, <3>1 DEF Tally
  <2>3. CASE ~\E v \in Range(valid) : v.option = o
    <3>1. <<o>> \notin {<<v.option>> : v \in Range(valid)}
      BY <2>3
    <3>2. counted(o) = {}
      BY <2>3 DEF Range
    <3>3. Cardinality({}) = 0
      BY FS_EmptySet
    <3> QED  BY <1>2, <3>1, <3>2, <3>3 DEF Tally
  <2> QED  BY <2>2, <2>3
<1> QED  BY <1>1, <1>3 DEF Tally

(***************************************************************************)
(* The first end that is accepted is the only one, and what it registers,  *)
(* if anything, is what the server counts.                                 *)
(***************************************************************************)
LEMMA HandleEndKeeps ==
  ASSUME IInv, NEW n \in Server, NEW m \in Arrived(n), HandleEnd(n, m)
  PROVE  IInv'
<1> DEFINE votes == StoredOf(n, "vote")
<1>1. /\ Types /\ InOrder(n) /\ Counted(n) /\ m \in Messages
      /\ m.type = "end" /\ ~Has(n, m) /\ Acceptable(n, m) /\ Store(n, m)
      /\ result' = [result EXCEPT ![n] = result[n] \cup {Result(n, votes)}]
      /\ hub' = [hub EXCEPT ![n] = {m}]
      /\ UNCHANGED <<broadcast, inbox, opens, ends, version>>
  BY ArrivedAre DEF IInv, HandleEnd, Deliverable, clientVars
<1> HIDE DEF votes
<1>2. /\ getElectionState(n) = "open"
      /\ m.registered = Registered(votes)
  BY <1>1 DEF Acceptable, IsElectionStarted, verifyRegisteredVotes, votes
<1>3. Follows(n, m.type)
  BY <1>1, AcceptedFollows
<1>4. /\ stored' \in [Server -> Seq(Messages)] /\ InOrder(n)' /\ Has(n, m)'
      /\ \A k \in Server : k # n => stored'[k] = stored[k]
      /\ \A type : StoredOf(n, type)' = StoredOf(n, type) \cup {x \in {m} : x.type = type}
  BY <1>1, <1>3, StoreKeeps
<1>5. /\ hub'[n] = {m} /\ hub' \in [Server -> SUBSET Messages]
      /\ result'[n] = result[n] \cup {Result(n, votes)}
      /\ DOMAIN result' = Server /\ result' = [k \in Server |-> result'[k]]
      /\ \A k \in Server : k # n => hub'[k] = hub[k] /\ result'[k] = result[k]
  BY <1>1 DEF Types
<1>6. Types'
  BY <1>1, <1>4, <1>5, MessagesStay DEF Types
<1>7. Pending(n)'
  BY <1>4, <1>5 DEF Pending
<1>8. StoredOf(n, "end") = {}
  <2> SUFFICES ASSUME NEW e \in StoredOf(n, "end") PROVE FALSE
    OBVIOUS
  <2>1. PICK i \in DOMAIN stored[n] : stored[n][i] = e /\ e.type = "end"
    BY DEF StoredOf, Range
  <2>2. Passed(n, "end")
    BY <2>1 DEF Passed, Phases
  <2> QED  BY <1>1, <1>3, <2>2, EarlierIs DEF Follows
<1>9. Counted(n)'
  <2>1. result'[n] = {Result(n, votes)} /\ StoredOf(n, "end")' = {m}
    BY <1>1, <1>4, <1>5, <1>8 DEF Counted
  <2>2. ASSUME ~Secret
        PROVE  result'[n] = {Tally(m.registered)}
    BY <1>2, <2>1, <2>2, ResultIsTally
  <2> QED  BY <1>1, <2>1, <2>2 DEF Counted, Secret, Tally
<1> QED  BY <1>1, <1>4, <1>5, <1>6, <1>7, <1>9, OneServer

LEMMA FinishKeeps ==
  ASSUME IInv, NEW n \in Server, Finish(n)
  PROVE  IInv'
<1>1. PICK m \in hub[n] :
        /\ IF Has(n, m) THEN Broadcast(n, m) /\ UNCHANGED stored
                        ELSE Store(n, m) /\ UNCHANGED broadcast
        /\ hub' = [hub EXCEPT ![n] = {}]
        /\ inbox' = [inbox EXCEPT ![n] = @ \ {m}]
        /\ UNCHANGED <<result, opens, ends, version>>
  BY DEF Finish, clientVars
<1>2. /\ Types /\ InOrder(n) /\ Pending(n) /\ Counted(n) /\ m \in Messages
  BY DEF IInv, Types
<1>3. /\ hub'[n] = {} /\ hub' \in [Server -> SUBSET Messages]
      /\ inbox' \in [Server -> SUBSET Messages]
      /\ \A k \in Server : k # n => hub'[k] = hub[k]
  BY <1>1, <1>2 DEF Types
<1>4. CASE Has(n, m)
  <2>1. broadcast' \in [Server -> SUBSET Messages]
    BY <1>1, <1>2, <1>4, BroadcastKeeps
  <2>2. Types'
    BY <1>1, <1>2, <1>3, <1>4, <2>1, MessagesStay DEF Types
  <2> QED  BY <1>1, <1>3, <1>4, <2>2, NothingStored
<1>5. CASE ~Has(n, m)
  <2>1. m.type = "vote" \/ (m.type = "open" /\ Follows(n, m.type))
    BY <1>2, <1>5 DEF Pending
  <2>2. /\ stored' \in [Server -> Seq(Messages)] /\ InOrder(n)'
        /\ \A k \in Server : k # n => stored'[k] = stored[k]
        /\ \A type : StoredOf(n, type)' = StoredOf(n, type) \cup {x \in {m} : x.type = type}
    BY <1>1, <1>2, <1>5, <2>1, StoreKeeps
  <2>3. Types'
    BY <1>1, <1>2, <1>3, <1>5, <2>2, MessagesStay DEF Types
  <2>4. StoredOf(n, "end")' = StoredOf(n, "end")
    <3>1. {x \in {m} : x.type = "end"} = {}
      BY <2>1
    <3> QED  BY <2>2, <3>1
  <2>5. Pending(n)' /\ Counted(n)'
    BY <1>1, <1>2, <1>3, <2>4 DEF Pending, Counted, Secret
  <2> QED  BY <1>1, <1>3, <2>2, <2>3, <2>5, OneServer
<1> QED  BY <1>4, <1>5

LEMMA RefuseKeeps ==
  ASSUME IInv, NEW n \in Server, Refuse(n)
  PROVE  IInv'
<1>1. Types /\ UNCHANGED <<stored, result, broadcast, hub, opens, ends, version>>
  BY DEF IInv, Refuse, clientVars
<1>2. inbox' \in [Server -> SUBSET Messages]
  BY <1>1 DEF Refuse, Types
<1>3. Types'
  BY <1>1, <1>2, MessagesStay DEF Types
<1> QED  BY <1>1, <1>3, NothingStored

LEMMA CrashKeeps ==
  ASSUME IInv, NEW n \in Server, Crash(n)
  PROVE  IInv'
<1>1. /\ Types /\ UNCHANGED <<stored, result, broadcast, opens, ends, version>>
      /\ hub' = [hub EXCEPT ![n] = {}] /\ inbox' = [inbox EXCEPT ![n] = {}]
  BY DEF IInv, Crash, clientVars
<1>2. Types' /\ \A k \in Server : hub'[k] \subseteq hub[k]
  BY <1>1, MessagesStay DEF Types
<1> QED  BY <1>1, <1>2, NothingStored

-----------------------------------------------------------------------------
LEMMA InitIInv == Init => IInv
<1> SUFFICES ASSUME Init PROVE IInv
  OBVIOUS
<1>1. Types
  <2>1. << >> \in Seq(Messages) /\ Setup \in Messages
    BY DEF Messages
  <2> QED  BY <2>1 DEF Init, Types
<1>2. ASSUME NEW n \in Server PROVE InOrder(n) /\ Pending(n) /\ Counted(n)
  <2>1. stored[n] = << >> /\ hub[n] = {} /\ result[n] = {}
    BY DEF Init
  <2>2. Phases(n) = {} /\ Range(stored[n]) = {}
    BY <2>1 DEF Phases, Range
  <2> QED  BY <2>1, <2>2 DEF InOrder, Pending, Counted, StoredOf
<1> QED  BY <1>1, <1>2 DEF IInv

LEMMA NextIInv == IInv /\ [Next]_vars => IInv'
<1> SUFFICES ASSUME IInv, [Next]_vars PROVE IInv'
  OBVIOUS
<1>1. CASE UNCHANGED vars
  <2>1. Types' /\ UNCHANGED <<stored, result, version, hub>>
    BY <1>1, MessagesStay DEF vars, clientVars, IInv, Types
  <2> QED  BY <2>1, NothingStored
<1>2. ASSUME NEW n \in Server,
             \/ \E b \in Ballot : CastVote(n, b)
             \/ OpenElection(n)
             \/ EndElection(n)
             \/ Handle(n)
             \/ Finish(n)
             \/ Refuse(n)
             \/ Crash(n)
      PROVE  IInv'
  BY <1>2, ClientKeeps, HandleSetupKeeps, HandleOpenOrVoteKeeps, HandleEndKeeps, FinishKeeps,
     RefuseKeeps, CrashKeeps DEF Handle
<1> QED  BY <1>1, <1>2 DEF Next

(***************************************************************************)
(* The inductive invariant.                                                *)
(***************************************************************************)
THEOREM Invariance == Spec => []IInv
BY InitIInv, NextIInv, PTL DEF Spec

(***************************************************************************)
(* A server is set up, opens the election and ends it once, in that order, *)
(* whatever is published, passed on, refused and offered again, and        *)
(* whenever servers stop between the steps of handling a message.          *)
(***************************************************************************)
THEOREM OnceInOrder == Spec => []PhasesInOrder
<1>1. IInv => PhasesInOrder
  BY InOrderIsPhasesInOrder DEF IInv
<1> QED  BY <1>1, Invariance, PTL

(***************************************************************************)
(* Two servers that accepted the same end with registered votes have the   *)
(* same result of an open ballot, whatever votes each of them stored.      *)
(***************************************************************************)
THEOREM SameResult == Spec => []SameEndSameResult
<1>1. IInv => SameEndSameResult
  BY DEF IInv, Counted, SameEndSameResult
<1> QED  BY <1>1, Invariance, PTL

-----------------------------------------------------------------------------
(***************************************************************************)
(* Of any subsets of a finite set, one contains no other one.  The folds   *)
(* below are functions on subsets, and by this are what a function that    *)
(* is written down, and satisfies the same equation, says they are.        *)
(***************************************************************************)
LEMMA SmallestSubset ==
  ASSUME NEW V, IsFiniteSet(V), NEW F \in SUBSET SUBSET V, F # {}
  PROVE  \E s \in F : \A t \in F : t \subseteq s => t = s
<1> DEFINE R == StrictSubsetOrdering(V)
<1>1. IsWellFoundedOn(R, SUBSET V)
  BY FS_StrictSubsetOrderingWellFounded, FS_FiniteSubsetsOfFinite
<1>2. \A t, s \in SUBSET V : t \subseteq s /\ t # s => <<t, s>> \in R
  BY DEF StrictSubsetOrdering
<1> HIDE DEF R
<1>3. PICK s \in F : \A t \in F : ~(<<t, s>> \in R)
  BY <1>1, WFMin
<1> QED  BY <1>2, <1>3

(***************************************************************************)
(* A finite set has an element that no other one exceeds.                  *)
(***************************************************************************)
LEMMA Greatest ==
  ASSUME NEW V, IsFiniteSet(V), V # {}, NEW R,
         \A v \in V : <<v, v>> \notin R,
         \A u, v, w \in V : <<u, v>> \in R /\ <<v, w>> \in R => <<u, w>> \in R
  PROVE  \E v \in V : \A w \in V : <<v, w>> \notin R
<1> DEFINE Above(v) == {w \in V : <<v, w>> \in R}
           F == {Above(v) : v \in V}
<1>1. F \in SUBSET SUBSET V /\ F # {}
  <2>1. \A s \in F : s \in SUBSET V
    OBVIOUS
  <2>2. PICK v \in V : Above(v) \in F
    OBVIOUS
  <2> HIDE DEF F
  <2> QED  BY <2>1, <2>2
<1>2. PICK s \in F : \A t \in F : t \subseteq s => t = s
  <2> HIDE DEF F
  <2> QED  BY <1>1, SmallestSubset
<1>3. PICK v \in V : s = Above(v)
  BY <1>2
<1>4. ASSUME NEW w \in V, <<v, w>> \in R PROVE FALSE
  <2>1. Above(w) \subseteq Above(v)
    BY <1>4
  <2>2. w \in Above(v) /\ w \notin Above(w)
    BY <1>4
  <2>3. Above(w) \in F
    BY <1>4
  <2> QED  BY <1>2, <1>3, <2>1, <2>2, <2>3
<1> QED  BY <1>4

-----------------------------------------------------------------------------
(***************************************************************************)
(* Votes that are different messages, and what is valid of them: of each   *)
(* voter one of those created last, which of several that with the least   *)
(* message id.                                                             *)
(***************************************************************************)
Distinct(votes) ==
  /\ votes \subseteq VoteMessage /\ IsFiniteSet(votes)
  /\ \A v, w \in votes : v.id = w.id => v = w

Prevails(votes, v) ==
  \A w \in votes : w.voter = v.voter =>
    w.time < v.time \/ (w.time = v.time /\ v.id <= w.id)

Valid(votes) ==
  [x \in {v.voter : v \in votes} |-> CHOOSE v \in votes : v.voter = x /\ Prevails(votes, v)]

LEMMA VoteTypes ==
  ASSUME NEW v \in VoteMessage
  PROVE  /\ v.id \in Nat /\ v.time \in Nat /\ v.voter \in Voter /\ v.option \in Option
         /\ v.key \in Server /\ v.type = "vote"
BY ElectionAssumption DEF VoteMessage, Vote

LEMMA OnePrevails ==
  ASSUME NEW votes, Distinct(votes), NEW x \in {v.voter : v \in votes}
  PROVE  \E v \in votes : v.voter = x /\ Prevails(votes, v)
<1> DEFINE V == {v \in votes : v.voter = x}
           R == {p \in V \X V : \/ p[1].time < p[2].time
                                \/ p[1].time = p[2].time /\ p[2].id < p[1].id}
<1>1. \A v \in V : v \in votes /\ v.id \in Nat /\ v.time \in Nat
  BY VoteTypes DEF Distinct
<1>2. IsFiniteSet(V) /\ V # {}
  <2>1. V \in SUBSET votes /\ V # {}
    OBVIOUS
  <2> QED  BY <2>1, FS_Subset DEF Distinct
<1>3. \A v, w \in V : <<v, w>> \in R <=> v.time < w.time \/ (v.time = w.time /\ w.id < v.id)
  OBVIOUS
<1>4. V \subseteq votes /\ \A w \in votes : w.voter = x => w \in V
  OBVIOUS
<1>5. \A v \in V : v.voter = x
  OBVIOUS
<1> HIDE DEF R, V
<1>6. /\ \A v \in V : <<v, v>> \notin R
      /\ \A u, v, w \in V : <<u, v>> \in R /\ <<v, w>> \in R => <<u, w>> \in R
  BY <1>1, <1>3
<1>7. PICK v \in V : \A w \in V : <<v, w>> \notin R
  BY <1>2, <1>6, Greatest
<1>8. ASSUME NEW w \in votes, w.voter = v.voter
      PROVE  w.time < v.time \/ (w.time = v.time /\ v.id <= w.id)
  <2>1. w \in V
    BY <1>4, <1>5, <1>8
  <2>2. v.id \in Nat /\ v.time \in Nat /\ w.id \in Nat /\ w.time \in Nat
    BY <2>1, <1>1
  <2>3. ~(v.time < w.time) /\ ~(v.time = w.time /\ w.id < v.id)
    BY <2>1, <1>3, <1>7
  <2> QED  BY <2>2, <2>3
<1> QED  BY <1>4, <1>5, <1>8 DEF Prevails

LEMMA OnlyOnePrevails ==
  ASSUME NEW votes, Distinct(votes), NEW v \in votes, NEW w \in votes,
         v.voter = w.voter, Prevails(votes, v), Prevails(votes, w)
  PROVE  v = w
<1>1. v.id \in Nat /\ v.time \in Nat /\ w.id \in Nat /\ w.time \in Nat
  BY VoteTypes DEF Distinct
<1>2. v.id = w.id
  BY <1>1 DEF Prevails
<1> QED  BY <1>2 DEF Distinct

LEMMA ValidIs ==
  ASSUME NEW votes, Distinct(votes)
  PROVE  /\ DOMAIN Valid(votes) = {v.voter : v \in votes}
         /\ Valid(votes) = [x \in DOMAIN Valid(votes) |-> Valid(votes)[x]]
         /\ \A x \in DOMAIN Valid(votes) :
              Valid(votes)[x] \in votes /\ Valid(votes)[x].voter = x
                /\ Prevails(votes, Valid(votes)[x])
         /\ \A v \in votes : Prevails(votes, v) => Valid(votes)[v.voter] = v
<1>1. DOMAIN Valid(votes) = {v.voter : v \in votes}
  BY DEF Valid
<1>2. Valid(votes) = [x \in DOMAIN Valid(votes) |-> Valid(votes)[x]]
  BY DEF Valid
<1>3. ASSUME NEW x \in DOMAIN Valid(votes)
      PROVE  Valid(votes)[x] \in votes /\ Valid(votes)[x].voter = x
               /\ Prevails(votes, Valid(votes)[x])
  <2>1. \E v \in votes : v.voter = x /\ Prevails(votes, v)
    BY <1>1, OnePrevails
  <2>2. Valid(votes)[x] = CHOOSE v \in votes : v.voter = x /\ Prevails(votes, v)
    BY <1>1 DEF Valid
  <2> QED  BY <2>1, <2>2
<1>4. ASSUME NEW v \in votes, Prevails(votes, v) PROVE Valid(votes)[v.voter] = v
  BY <1>1, <1>3, <1>4, OnlyOnePrevails
<1> QED  BY <1>1, <1>2, <1>3, <1>4

(***************************************************************************)
(* Reading the votes in the order of their ids leaves the valid ones.      *)
(***************************************************************************)
LEMMA ReadLastIs ==
  ASSUME NEW votes, Distinct(votes), votes # {}
  PROVE  ReadLast(votes) \in votes /\ \A w \in votes : w.id <= ReadLast(votes).id
<1> DEFINE R == {p \in votes \X votes : p[1].id < p[2].id}
<1>1. \A v \in votes : v.id \in Nat
  BY VoteTypes DEF Distinct
<1>2. \A v, w \in votes : <<v, w>> \in R <=> v.id < w.id
  OBVIOUS
<1> HIDE DEF R
<1>3. /\ \A v \in votes : <<v, v>> \notin R
      /\ \A u, v, w \in votes : <<u, v>> \in R /\ <<v, w>> \in R => <<u, w>> \in R
  BY <1>1, <1>2
<1>4. \E v \in votes : \A w \in votes : <<v, w>> \notin R
  BY <1>3, Greatest DEF Distinct
<1>5. \E v \in votes : \A w \in votes : w.id <= v.id
  <2>1. PICK v \in votes : \A w \in votes : <<v, w>> \notin R
    BY <1>4
  <2>2. ASSUME NEW w \in votes PROVE w.id <= v.id
    <3>1. v.id \in Nat /\ w.id \in Nat /\ ~(v.id < w.id)
      BY <1>1, <1>2, <2>1
    <3> QED  BY <3>1
  <2> QED  BY <2>2
<1> QED  BY <1>5 DEF ReadLast

LEMMA UpdateIsValid ==
  ASSUME NEW votes, Distinct(votes), votes # {}
  PROVE  /\ Distinct(votes \ {ReadLast(votes)})
         /\ Valid(votes) = updateVote(Valid(votes \ {ReadLast(votes)}), ReadLast(votes))
<1> DEFINE v == ReadLast(votes)
           before == votes \ {v}
           old == Valid(before)
           new == Valid(votes)
<1>1. v \in votes /\ \A w \in votes : w.id <= v.id
  BY ReadLastIs
<1>2. Distinct(before)
  <2>1. before \in SUBSET votes
    OBVIOUS
  <2> QED  BY <2>1, FS_Subset DEF Distinct
<1>3. votes = before \cup {v} /\ before \subseteq votes /\ v \notin before
  BY <1>1
<1>4. \A w \in votes : w.id \in Nat /\ w.time \in Nat
  BY VoteTypes DEF Distinct
<1>5. DOMAIN old = {w.voter : w \in before} /\ DOMAIN new = DOMAIN old \cup {v.voter}
  <2>1. DOMAIN old = {w.voter : w \in before} /\ DOMAIN new = {w.voter : w \in votes}
    BY <1>2, ValidIs
  <2>2. {w.voter : w \in votes} = {w.voter : w \in before} \cup {v.voter}
    BY <1>1, <1>3
  <2> QED  BY <2>1, <2>2
<1>6. new = [x \in DOMAIN new |-> new[x]] /\ old = [x \in DOMAIN old |-> old[x]]
  BY <1>2, ValidIs
<1>7. \A x \in DOMAIN old : old[x] \in before /\ old[x].voter = x /\ Prevails(before, old[x])
  BY <1>2, ValidIs
<1>8. \A w \in votes : Prevails(votes, w) => new[w.voter] = w
  BY ValidIs
<1>9. \A x \in DOMAIN old : x # v.voter => new[x] = old[x]
  <2> SUFFICES ASSUME NEW x \in DOMAIN old, x # v.voter PROVE new[x] = old[x]
    OBVIOUS
  <2>1. old[x] \in votes /\ old[x].voter = x
    BY <1>3, <1>7
  <2>2. Prevails(votes, old[x])
    BY <1>3, <1>7, <2>1 DEF Prevails
  <2> QED  BY <1>8, <2>1, <2>2
<1> HIDE DEF v, before, old, new
<1>10. CASE v.voter \in DOMAIN old /\ old[v.voter].time >= v.time
  <2> DEFINE u == old[v.voter]
  <2>1. u \in before /\ u \in votes /\ u.voter = v.voter /\ Prevails(before, u)
    BY <1>3, <1>7, <1>10
  <2> HIDE DEF u
  <2>2. v.time < u.time \/ (v.time = u.time /\ u.id <= v.id)
    <3>1. v.time <= u.time
      BY <1>1, <1>4, <1>10, <2>1 DEF u
    <3> QED  BY <3>1, <1>1, <1>4, <2>1
  <2>3. Prevails(votes, u)
    BY <1>3, <2>1, <2>2 DEF Prevails
  <2>4. new[v.voter] = old[v.voter]
    BY <1>8, <2>1, <2>3 DEF u
  <2>5. DOMAIN new = DOMAIN old
    BY <1>5, <1>10
  <2>6. new = old
    BY <1>6, <1>9, <2>4, <2>5
  <2>7. updateVote(old, v) = old
    BY <1>10 DEF updateVote
  <2> QED  BY <1>2, <2>6, <2>7 DEF v, before, old, new
<1>11. CASE ~(v.voter \in DOMAIN old /\ old[v.voter].time >= v.time)
  <2>1. ASSUME NEW w \in before, w.voter = v.voter PROVE w.time < v.time
    <3> DEFINE u == old[v.voter]
    <3>1. v.voter \in DOMAIN old
      BY <1>5, <2>1
    <3>2. u \in before /\ u.voter = v.voter /\ Prevails(before, u) /\ u \in votes /\ w \in votes
      BY <1>3, <1>7, <3>1
    <3>3. u.time < v.time
      <4> HIDE DEF u
      <4>1. ~(u.time >= v.time)
        BY <1>11, <3>1 DEF u
      <4> QED  BY <4>1, <1>1, <1>4, <3>2
    <3> HIDE DEF u
    <3>4. w.time <= u.time
      BY <3>2, <2>1, <1>4 DEF Prevails
    <3> QED  BY <3>2, <3>3, <3>4, <1>1, <1>4
  <2>2. Prevails(votes, v)
    BY <1>1, <1>3, <1>4, <2>1 DEF Prevails
  <2>3. new[v.voter] = v
    BY <1>1, <1>8, <2>2
  <2>4. updateVote(old, v) = [x \in DOMAIN new |-> new[x]]
    BY <1>5, <1>9, <1>11, <2>3 DEF updateVote
  <2> QED  BY <1>2, <1>6, <2>4 DEF v, before, old, new
<1> QED  BY <1>10, <1>11

(***************************************************************************)
(* The fold of ValidVotes.                                                 *)
(***************************************************************************)
Fold(votes) ==
  CHOOSE iter : iter =
    [s \in SUBSET votes |->
       IF s = {} THEN << >> ELSE updateVote(iter[s \ {ReadLast(s)}], ReadLast(s))]

LEMMA ValidVotesAre ==
  ASSUME NEW votes, Distinct(votes)
  PROVE  ValidVotes(votes) = Valid(votes)
<1> DEFINE Read(iter, s) ==
             IF s = {} THEN << >> ELSE updateVote(iter[s \ {ReadLast(s)}], ReadLast(s))
           V == [s \in SUBSET votes |-> Valid(s)]
<1>1. \A s \in SUBSET votes : Distinct(s)
  BY FS_Subset DEF Distinct
<1>2. Valid({}) = << >>
  <2>1. Distinct({}) /\ {v.voter : v \in {}} = {}
    BY FS_EmptySet DEF Distinct
  <2>2. DOMAIN Valid({}) = {}
    BY DEF Valid
  <2> QED  BY <2>2 DEF Valid
<1>3. ASSUME NEW s \in SUBSET votes PROVE Valid(s) = Read(V, s)
  <2>1. CASE s = {}
    BY <1>2, <2>1
  <2>2. CASE s # {}
    <3>1. Valid(s) = updateVote(Valid(s \ {ReadLast(s)}), ReadLast(s))
      BY <1>1, <2>2, UpdateIsValid
    <3>2. V[s \ {ReadLast(s)}] = Valid(s \ {ReadLast(s)})
      OBVIOUS
    <3> QED  BY <2>2, <3>1, <3>2
  <2> QED  BY <2>1, <2>2
<1>4. V = [s \in SUBSET votes |-> Read(V, s)]
  BY <1>3
<1>5. Fold(votes) = [s \in SUBSET votes |-> Read(Fold(votes), s)]
  BY <1>4 DEF Fold
<1> DEFINE f == Fold(votes)
           Wrong == {s \in SUBSET votes : f[s] # Valid(s)}
<1>6. \A s \in SUBSET votes : f[s] = Read(f, s)
  BY <1>5
<1> HIDE DEF f
<1>7. Wrong = {}
  <2> SUFFICES ASSUME Wrong # {} PROVE FALSE
    OBVIOUS
  <2>1. PICK s \in Wrong : \A t \in Wrong : t \subseteq s => t = s
    <3>1. IsFiniteSet(votes) /\ Wrong \in SUBSET SUBSET votes
      BY DEF Distinct
    <3> HIDE DEF Wrong
    <3> QED  BY <3>1, SmallestSubset
  <2>2. s # {}
    BY <1>2, <1>6, <2>1
  <2>3. ReadLast(s) \in s /\ Valid(s) = updateVote(Valid(s \ {ReadLast(s)}), ReadLast(s))
    BY <1>1, <2>2, ReadLastIs, UpdateIsValid
  <2>4. f[s \ {ReadLast(s)}] = Valid(s \ {ReadLast(s)})
    BY <2>1, <2>3
  <2> QED  BY <1>6, <2>1, <2>2, <2>3, <2>4
<1>8. ValidVotes(votes) = Fold(votes)[votes]
  BY DEF ValidVotes, MapThenFoldSet, Fold
<1> QED  BY <1>7, <1>8 DEF f

-----------------------------------------------------------------------------
(***************************************************************************)
(* A sum of counts: how many elements of a finite set there are for which  *)
(* g is o, summed over the values o in S.                                  *)
(***************************************************************************)
Counts(Y, g, S) == Cardinality({y \in Y : g[y] \in S})

Sum(r, S) ==
  CHOOSE iter : iter =
    [s \in SUBSET S |->
       IF s = {} THEN 0 ELSE r[CHOOSE x \in s : TRUE] + iter[s \ {CHOOSE x \in s : TRUE}]]

LEMMA SumIs ==
  ASSUME NEW r, NEW S
  PROVE  MapThenSumSet(LAMBDA o : r[o], S) = Sum(r, S)[S]
BY DEF MapThenSumSet, MapThenFoldSet, Sum

LEMMA SumOfCounts ==
  ASSUME NEW Y, IsFiniteSet(Y), NEW g, NEW S, IsFiniteSet(S), NEW r,
         \A o \in S : r[o] = Cardinality({y \in Y : g[y] = o})
  PROVE  Sum(r, S)[S] = Counts(Y, g, S)
<1> DEFINE Pick(s) == CHOOSE x \in s : TRUE
           Add(iter, s) == IF s = {} THEN 0 ELSE r[Pick(s)] + iter[s \ {Pick(s)}]
           C == [s \in SUBSET S |-> Counts(Y, g, s)]
<1>1. Counts(Y, g, {}) = 0
  BY FS_EmptySet DEF Counts
<1>2. ASSUME NEW s \in SUBSET S, s # {}
      PROVE  /\ Pick(s) \in s
             /\ Counts(Y, g, s) = r[Pick(s)] + Counts(Y, g, s \ {Pick(s)})
  <2> DEFINE x == Pick(s)
             A == {y \in Y : g[y] = x}
             B == {y \in Y : g[y] \in s \ {x}}
  <2>1. x \in s
    BY <1>2
  <2> HIDE DEF x
  <2>2. IsFiniteSet(A) /\ IsFiniteSet(B) /\ Cardinality(A) \in Nat /\ Cardinality(B) \in Nat
    <3>1. A \in SUBSET Y /\ B \in SUBSET Y
      OBVIOUS
    <3> QED  BY <3>1, FS_Subset, FS_CardinalityType
  <2>3. A \cap B = {} /\ A \cup B = {y \in Y : g[y] \in s}
    BY <2>1
  <2>4. Cardinality(A \cup B) = Cardinality(A) + Cardinality(B)
    <3>1. Cardinality(A \cup B) = Cardinality(A) + Cardinality(B) - Cardinality(A \cap B)
      BY <2>2, FS_Union
    <3>2. Cardinality(A \cap B) = 0
      BY <2>3, FS_EmptySet
    <3> HIDE DEF A, B
    <3> QED  BY <2>2, <3>1, <3>2
  <2>5. r[x] = Cardinality(A)
    BY <2>1
  <2>6. Counts(Y, g, s) = Cardinality(A \cup B) /\ Counts(Y, g, s \ {x}) = Cardinality(B)
    BY <2>3 DEF Counts
  <2> QED  BY <2>1, <2>4, <2>5, <2>6 DEF x
<1> HIDE DEF Pick
<1>3. ASSUME NEW s \in SUBSET S PROVE Counts(Y, g, s) = Add(C, s)
  <2>1. s # {} => C[s \ {Pick(s)}] = Counts(Y, g, s \ {Pick(s)})
    OBVIOUS
  <2> QED  BY <1>1, <1>2, <2>1
<1>4. C = [s \in SUBSET S |-> Add(C, s)]
  BY <1>3
<1> DEFINE f == Sum(r, S)
<1>5. f = [s \in SUBSET S |-> Add(f, s)]
  BY <1>4 DEF Sum, Pick
<1> DEFINE Wrong == {s \in SUBSET S : f[s] # Counts(Y, g, s)}
<1> HIDE DEF f
<1>6. \A s \in SUBSET S : f[s] = Add(f, s)
  BY <1>5
<1>7. Wrong = {}
  <2> SUFFICES ASSUME Wrong # {} PROVE FALSE
    OBVIOUS
  <2>1. PICK s \in Wrong : \A t \in Wrong : t \subseteq s => t = s
    <3>1. Wrong \in SUBSET SUBSET S
      OBVIOUS
    <3> HIDE DEF Wrong
    <3> QED  BY <3>1, SmallestSubset
  <2>2. s # {}
    BY <1>1, <1>6, <2>1
  <2>3. Pick(s) \in s /\ Counts(Y, g, s) = r[Pick(s)] + Counts(Y, g, s \ {Pick(s)})
    BY <1>2, <2>1, <2>2
  <2>4. f[s \ {Pick(s)}] = Counts(Y, g, s \ {Pick(s)})
    BY <2>1, <2>3
  <2> QED  BY <1>6, <2>1, <2>2, <2>3, <2>4
<1> QED  BY <1>7 DEF f

-----------------------------------------------------------------------------
(***************************************************************************)
(* What a server counts: of any votes that are different messages.         *)
(***************************************************************************)
LEMMA VotesAreFinite == IsFiniteSet(VoteMessage)
<1> DEFINE f == [p \in Ballot \X Server |-> Vote(p[1], p[2])]
<1>1. f \in Surjection(Ballot \X Server, VoteMessage)
  <2>1. \A p \in Ballot \X Server : f[p] \in VoteMessage
    BY DEF VoteMessage
  <2>2. ASSUME NEW v \in VoteMessage PROVE \E p \in Ballot \X Server : f[p] = v
    <3>1. PICK b \in Ballot, n \in Server : v = Vote(b, n)
      BY DEF VoteMessage
    <3>2. <<b, n>> \in Ballot \X Server /\ f[<<b, n>>] = v
      BY <3>1
    <3> QED  BY <3>2
  <2> QED  BY <2>1, <2>2 DEF Surjection
<1>2. IsFiniteSet(Ballot \X Server)
  BY ElectionAssumption, FS_Product
<1> HIDE DEF f
<1> QED  BY <1>1, <1>2, FS_Surjection

CountsLast(n, votes, r) ==
  \E counted \in SUBSET LastVotes(votes) :
    /\ \A x \in {v.voter : v \in votes} :
         Cardinality({v \in counted : v.voter = x}) = 1
    /\ \A o \in Option :
         r[o] = Cardinality({v \in counted : v.option = o /\ (Secret => v.key = n)})

LEMMA ResultCounts ==
  ASSUME NEW n \in Server, NEW votes, Distinct(votes)
  PROVE  /\ Result(n, votes) \in [Option -> 0 .. Cardinality(Voter)]
         /\ Sum(Result(n, votes), Option)[Option] <= Cardinality(Voter)
         /\ CountsLast(n, votes, Result(n, votes))
<1> DEFINE valid == Valid(votes)
           X == DOMAIN valid
           Y == {y \in X : Readable(n, valid[y])}
           g == [y \in X |-> valid[y].option]
           r == Result(n, votes)
           counted == {valid[x] : x \in X}
<1>1. r = [o \in Option |-> Cardinality({y \in X : valid[y].option = o /\ Readable(n, valid[y])})]
  BY ValidVotesAre DEF Result
<1>2. /\ X = {v.voter : v \in votes}
      /\ \A x \in X : valid[x] \in votes /\ valid[x].voter = x /\ Prevails(votes, valid[x])
  BY ValidIs
<1> HIDE DEF valid, r
<1>3. X \in SUBSET Voter
  BY <1>2, VoteTypes DEF Distinct
<1>4. IsFiniteSet(X) /\ Cardinality(X) \in Nat /\ Cardinality(X) <= Cardinality(Voter)
      /\ Cardinality(Voter) \in Nat
  BY <1>3, ElectionAssumption, FS_Subset, FS_CardinalityType
<1>5. ASSUME NEW S \in SUBSET X
      PROVE  IsFiniteSet(S) /\ Cardinality(S) \in 0 .. Cardinality(Voter)
  <2>1. IsFiniteSet(S) /\ Cardinality(S) \in Nat /\ Cardinality(S) <= Cardinality(X)
    BY <1>4, FS_Subset, FS_CardinalityType
  <2> QED  BY <1>4, <2>1
<1>6. r \in [Option -> 0 .. Cardinality(Voter)]
  <2>1. \A o \in Option : {y \in X : valid[y].option = o /\ Readable(n, valid[y])} \in SUBSET X
    OBVIOUS
  <2> QED  BY <1>1, <1>5, <2>1
<1>7. Sum(r, Option)[Option] <= Cardinality(Voter)
  <2>1. Y \in SUBSET X /\ IsFiniteSet(Y) /\ IsFiniteSet(Option)
    <3>1. Y \in SUBSET X
      OBVIOUS
    <3> HIDE DEF Y
    <3> QED  BY <1>5, <3>1, ElectionAssumption
  <2>2. \A o \in Option : r[o] = Cardinality({y \in Y : g[y] = o})
    <3> TAKE o \in Option
    <3>1. {y \in Y : g[y] = o} = {y \in X : valid[y].option = o /\ Readable(n, valid[y])}
      OBVIOUS
    <3> QED  BY <1>1, <3>1
  <2> HIDE DEF Y, g
  <2>3. Sum(r, Option)[Option] = Counts(Y, g, Option)
    BY <2>1, <2>2, SumOfCounts
  <2>4. {y \in Y : g[y] \in Option} \in SUBSET X
    BY <2>1
  <2>5. Counts(Y, g, Option) \in 0 .. Cardinality(Voter)
    BY <1>5, <2>4 DEF Counts
  <2> QED  BY <1>4, <2>3, <2>5
<1>8. counted \in SUBSET LastVotes(votes)
  <2> SUFFICES ASSUME NEW x \in X PROVE valid[x] \in LastVotes(votes)
    OBVIOUS
  <2>1. \A w \in votes : w.time \in Nat
    BY VoteTypes DEF Distinct
  <2> QED  BY <1>2, <2>1 DEF LastVotes, Prevails
<1>9. ASSUME NEW x \in X PROVE Cardinality({v \in counted : v.voter = x}) = 1
  <2>1. {v \in counted : v.voter = x} = {valid[x]}
    BY <1>2
  <2> QED  BY <2>1, FS_Singleton
<1>10. ASSUME NEW o \in Option
       PROVE  r[o] = Cardinality({v \in counted : v.option = o /\ (Secret => v.key = n)})
  <2> DEFINE A == {y \in X : valid[y].option = o /\ Readable(n, valid[y])}
             B == {v \in counted : v.option = o /\ (Secret => v.key = n)}
             h == [y \in A |-> valid[y]]
  <2>1. \A y \in X : Readable(n, valid[y]) <=> (Secret => valid[y].key = n)
    BY DEF Readable
  <2>2. h \in Bijection(A, B)
    <3>1. \A y \in A : h[y] \in B /\ h[y].voter = y
      BY <1>2, <2>1
    <3>2. \A v \in B : \E y \in A : h[y] = v
      BY <2>1
    <3>3. h \in [A -> B]
      BY <3>1
    <3> HIDE DEF h, A, B
    <3>4. h \in Injection(A, B) /\ h \in Surjection(A, B)
      BY <3>1, <3>2, <3>3 DEF Injection, Surjection, IsInjective
    <3> QED  BY <3>4 DEF Bijection
  <2>3. A \in SUBSET X /\ r[o] = Cardinality(A)
    BY <1>1
  <2> HIDE DEF A, B, h
  <2>4. IsFiniteSet(A)
    BY <1>5, <2>3
  <2>5. Cardinality(B) = Cardinality(A)
    BY <2>2, <2>4, FS_Bijection DEF ExistsBijection
  <2> QED  BY <2>3, <2>5 DEF B
<1> HIDE DEF X, counted
<1>11. \A x \in {v.voter : v \in votes} : Cardinality({v \in counted : v.voter = x}) = 1
  BY <1>2, <1>9
<1>12. CountsLast(n, votes, r)
  BY <1>8, <1>10, <1>11 DEF CountsLast
<1> QED  BY <1>6, <1>7, <1>12 DEF r

-----------------------------------------------------------------------------
(***************************************************************************)
(* The messages there may be: the votes that were cast, each of which has  *)
(* a message id of its own, the open messages that were published, and     *)
(* ends.  The result of a server is what it counted of the votes stored    *)
(* before the end.                                                         *)
(***************************************************************************)
Known ==
  cast \cup {Setup} \cup {Open(i) : i \in 1 .. opens} \cup {m \in Messages : m.type = "end"}

Casts ==
  /\ version \in {"OPEN_BALLOT", "SECRET_BALLOT"}
  /\ cast \subseteq VoteMessage /\ \A v, w \in cast : v.id = w.id => v = w
  /\ \A n \in Server :
       Range(stored[n]) \cup broadcast[n] \cup inbox[n] \cup hub[n] \subseteq Known

Results ==
  \A n \in Server : \A e \in StoredOf(n, "end") : result[n] = {Result(n, VotesBefore(n, e))}

LEMMA Appended ==
  ASSUME Types, NEW n \in Server, NEW m, Store(n, m)
  PROVE  /\ \A k \in Server : k # n => stored'[k] = stored[k]
         /\ \E top \in Nat :
              /\ DOMAIN stored'[n] = DOMAIN stored[n] \cup {top}
              /\ stored'[n][top] = m
              /\ \A i \in DOMAIN stored[n] : stored'[n][i] = stored[n][i] /\ i \in Nat /\ i < top
<1> DEFINE s == stored[n]
           top == Len(s) + 1
<1>1. s \in Seq(Messages) /\ DOMAIN s = 1 .. Len(s) /\ Len(s) \in Nat
  BY DEF Types
<1>2. stored'[n] = Append(s, m) /\ \A k \in Server : k # n => stored'[k] = stored[k]
  BY DEF Store, Types
<1>3. /\ DOMAIN Append(s, m) = 1 .. top /\ Append(s, m)[top] = m
      /\ \A i \in 1 .. Len(s) : Append(s, m)[i] = s[i]
  BY <1>1
<1>4. /\ top \in Nat /\ 1 .. top = 1 .. Len(s) \cup {top}
      /\ \A i \in 1 .. Len(s) : i \in Nat /\ i < top
  BY <1>1
<1> HIDE DEF top
<1> QED  BY <1>1, <1>2, <1>3, <1>4

LEMMA StoredRange ==
  ASSUME Types, NEW n \in Server, NEW m, Store(n, m)
  PROVE  /\ Range(stored'[n]) = Range(stored[n]) \cup {m}
         /\ \A k \in Server : k # n => Range(stored'[k]) = Range(stored[k])
<1>1. PICK top \in Nat :
        /\ DOMAIN stored'[n] = DOMAIN stored[n] \cup {top}
        /\ stored'[n][top] = m
        /\ \A i \in DOMAIN stored[n] : stored'[n][i] = stored[n][i] /\ i \in Nat /\ i < top
  BY Appended
<1>2. \A x : x \in Range(stored'[n]) <=> x \in Range(stored[n]) \/ x = m
  BY <1>1 DEF Range
<1> QED  BY <1>2, Appended

LEMMA VotesBeforeStay ==
  ASSUME Types, NEW n \in Server, NEW m, Store(n, m), NEW e, m # e
  PROVE  VotesBefore(n, e)' = VotesBefore(n, e)
<1>1. PICK top \in Nat :
        /\ DOMAIN stored'[n] = DOMAIN stored[n] \cup {top}
        /\ stored'[n][top] = m
        /\ \A i \in DOMAIN stored[n] : stored'[n][i] = stored[n][i] /\ i \in Nat /\ i < top
  BY Appended
<1>2. \A x : x \in VotesBefore(n, e)' <=>
        \E j, k \in DOMAIN stored'[n] :
          stored'[n][j] = x /\ x.type = "vote" /\ k > j /\ stored'[n][k] = e
  BY DEF VotesBefore
<1>3. \A x : x \in VotesBefore(n, e) <=>
        \E j, k \in DOMAIN stored[n] :
          stored[n][j] = x /\ x.type = "vote" /\ k > j /\ stored[n][k] = e
  BY DEF VotesBefore
<1>4. \A j, k \in DOMAIN stored'[n] : k > j /\ stored'[n][k] = e =>
        j \in DOMAIN stored[n] /\ k \in DOMAIN stored[n]
  BY <1>1
<1>5. \A x : x \in VotesBefore(n, e)' <=> x \in VotesBefore(n, e)
  BY <1>1, <1>2, <1>3, <1>4
<1> QED  BY <1>5

LEMMA VotesBeforeNew ==
  ASSUME Types, NEW n \in Server, NEW m, Store(n, m), m.type = "end", ~Has(n, m)
  PROVE  VotesBefore(n, m)' = StoredOf(n, "vote")
<1>1. PICK top \in Nat :
        /\ DOMAIN stored'[n] = DOMAIN stored[n] \cup {top}
        /\ stored'[n][top] = m
        /\ \A i \in DOMAIN stored[n] : stored'[n][i] = stored[n][i] /\ i \in Nat /\ i < top
  BY Appended
<1>2. \A x : x \in VotesBefore(n, m)' <=>
        \E j, k \in DOMAIN stored'[n] :
          stored'[n][j] = x /\ x.type = "vote" /\ k > j /\ stored'[n][k] = m
  BY DEF VotesBefore
<1>3. \A x : x \in StoredOf(n, "vote") <=>
        x.type = "vote" /\ \E j \in DOMAIN stored[n] : stored[n][j] = x
  BY DEF StoredOf, Range
<1>4. \A k \in DOMAIN stored[n] : stored[n][k] # m
  BY DEF Has, Range
<1>5. \A j, k \in DOMAIN stored'[n] : k > j /\ stored'[n][k] = m =>
        j \in DOMAIN stored[n] /\ k = top
  BY <1>1, <1>4
<1>6. \A x : x \in VotesBefore(n, m)' <=> x \in StoredOf(n, "vote")
  BY <1>1, <1>2, <1>3, <1>5
<1> QED  BY <1>6

-----------------------------------------------------------------------------
(***************************************************************************)
(* Nothing that is not Known.                                              *)
(***************************************************************************)
LEMMA KnownGrows ==
  ASSUME Types, Types', version' = version, cast \subseteq cast', opens <= opens'
  PROVE  Known \subseteq Known'
<1>1. \A i \in 1 .. opens : i \in 1 .. opens'
  BY DEF Types
<1>2. {Open(i) : i \in 1 .. opens} \subseteq {Open(i) : i \in 1 .. opens'}
  BY <1>1
<1> QED  BY <1>2, MessagesStay DEF Known, Open

LEMMA EndsAreKnown ==
  ASSUME NEW m \in Messages, m.type = "end" PROVE m \in Known
BY DEF Known

LEMMA ServerCasts ==
  ASSUME Types, Types', Casts, UNCHANGED <<version, cast, opens>>,
         \A n \in Server :
           Range(stored'[n]) \cup broadcast'[n] \cup inbox'[n] \cup hub'[n] \subseteq Known
  PROVE  Casts'
<1>1. Known \subseteq Known'
  <2>1. opens <= opens' /\ cast \subseteq cast'
    BY DEF Types
  <2> QED  BY <2>1, KnownGrows
<1> QED  BY <1>1 DEF Casts

LEMMA ClientCasts ==
  ASSUME IInv, IInv', Casts, NEW n \in Server,
         (\E b \in Ballot : CastVote(n, b)) \/ OpenElection(n) \/ EndElection(n)
  PROVE  Casts'
<1>1. /\ Types /\ Types' /\ UNCHANGED <<stored, broadcast, hub, version>>
  BY DEF IInv, CastVote, OpenElection, EndElection
<1>2. ASSUME NEW m, Publish(n, m), Known \subseteq Known', m \in Known',
             cast' \subseteq VoteMessage, \A v, w \in cast' : v.id = w.id => v = w
      PROVE  Casts'
  <2>1. \A k \in Server : inbox'[k] \subseteq inbox[k] \cup {m}
    BY <1>2 DEF Publish
  <2> QED  BY <1>1, <1>2, <2>1 DEF Casts
<1>3. ASSUME NEW b \in Ballot, CastVote(n, b) PROVE Casts'
  <2>1. /\ Publish(n, Vote(b, n)) /\ cast' = cast \cup {Vote(b, n)} /\ opens' = opens
        /\ \A w \in cast : w.id # b.id
    BY <1>3 DEF CastVote
  <2>2. Known \subseteq Known' /\ Vote(b, n) \in Known'
    <3>1. opens <= opens' /\ cast \subseteq cast'
      BY <1>1, <2>1 DEF Types
    <3> QED  BY <1>1, <2>1, <3>1, KnownGrows DEF Known
  <2>3. Vote(b, n) \in VoteMessage /\ Vote(b, n).id = b.id
    BY DEF VoteMessage, Vote
  <2>4. cast' \subseteq VoteMessage /\ \A v, w \in cast' : v.id = w.id => v = w
    BY <2>1, <2>3 DEF Casts
  <2> QED  BY <1>2, <2>1, <2>2, <2>4
<1>4. CASE OpenElection(n)
  <2>1. /\ Publish(n, Open(opens + 1)) /\ opens' = opens + 1 /\ cast' = cast
    BY <1>4 DEF OpenElection
  <2>2. opens \in Nat /\ opens <= opens' /\ opens' \in 1 .. opens'
    BY <1>1, <2>1 DEF Types
  <2>3. Known \subseteq Known' /\ Open(opens + 1) \in Known'
    BY <1>1, <2>1, <2>2, KnownGrows DEF Known, Open
  <2> QED  BY <1>2, <2>1, <2>3 DEF Casts
<1>5. CASE EndElection(n)
  <2> DEFINE registered == Registered({m \in broadcast[n] : m.type = "vote"})
  <2>1. Publish(n, End(ends + 1, registered))
    BY <1>5 DEF EndElection
  <2>2. cast' = cast /\ opens' = opens
    BY <1>5 DEF EndElection
  <2>3. Known \subseteq Known'
    <3>1. opens <= opens' /\ cast \subseteq cast'
      BY <1>1, <2>2 DEF Types
    <3> QED  BY <1>1, <3>1, KnownGrows
  <2>4. End(ends + 1, registered) \in Known'
    <3>1. registered \in Registers
      BY <1>1, BroadcastVotes DEF Registers
    <3> HIDE DEF registered
    <3>2. ends + 1 \in Nat
      BY <1>1 DEF Types
    <3>3. End(ends + 1, registered) \in Messages /\ End(ends + 1, registered).type = "end"
      BY <3>1, <3>2 DEF Messages, End
    <3> QED  BY <2>3, <3>3, EndsAreKnown
  <2> QED  BY <1>2, <2>1, <2>2, <2>3, <2>4 DEF Casts
<1> QED  BY <1>3, <1>4, <1>5

LEMMA ArrivedIsKnown ==
  ASSUME Casts, NEW n \in Server
  PROVE  Arrived(n) \subseteq Known
BY DEF Casts, Arrived

(***************************************************************************)
(* What n stores and broadcasts, and what its hub holds, comes from what   *)
(* there was.                                                              *)
(***************************************************************************)
LEMMA HubCasts ==
  ASSUME IInv, IInv', Casts, NEW n \in Server,
         Handle(n) \/ Finish(n) \/ Refuse(n) \/ Crash(n)
  PROVE  Casts'
<1>1. Types /\ Types' /\ UNCHANGED <<version, cast, opens>>
  BY DEF IInv, Handle, HandleSetup, HandleOpenOrVote, HandleEnd, Finish, Refuse, Crash, clientVars
<1>2. ASSUME NEW m \in Known,
             stored' = stored \/ Store(n, m), broadcast' = broadcast \/ Broadcast(n, m),
             inbox' = inbox \/ (\A k \in Server : inbox'[k] \subseteq inbox[k]),
             hub' = hub \/ hub' = [hub EXCEPT ![n] = {m}] \/ hub' = [hub EXCEPT ![n] = {}]
      PROVE  Casts'
  <2>1. ASSUME NEW k \in Server PROVE Range(stored'[k]) \subseteq Known
    <3>1. Range(stored[k]) \subseteq Known
      BY DEF Casts
    <3>2. CASE stored' = stored
      BY <3>1, <3>2
    <3>3. CASE Store(n, m)
      <4>1. Range(stored'[k]) \subseteq Range(stored[k]) \cup {m}
        BY <1>1, <3>3, StoredRange
      <4> QED  BY <1>2, <3>1, <4>1
    <3> QED  BY <1>2, <3>2, <3>3
  <2>2. \A k \in Server : broadcast'[k] \subseteq Known
    <3>1. broadcast \in [Server -> SUBSET Messages]
      BY <1>1 DEF Types
    <3> QED  BY <1>2, <3>1 DEF Casts, Broadcast
  <2>3. \A k \in Server : inbox'[k] \subseteq Known
    BY <1>2 DEF Casts
  <2>4. ASSUME NEW k \in Server PROVE hub'[k] \subseteq Known
    <3>1. hub[k] \subseteq Known
      BY DEF Casts
    <3>2. hub'[k] \in {hub[k], {m}, {}}
      BY <1>1, <1>2 DEF Types
    <3> QED  BY <1>2, <3>1, <3>2
  <2> QED  BY <1>1, <2>1, <2>2, <2>3, <2>4, ServerCasts
<1>3. \A x : inbox' = [inbox EXCEPT ![n] = @ \ {x}] \/ inbox' = [inbox EXCEPT ![n] = {}]
         => \A k \in Server : inbox'[k] \subseteq inbox[k]
  BY <1>1 DEF Types
<1>4. CASE Handle(n)
  <2>1. PICK m \in Arrived(n) :
          HandleSetup(n, m) \/ HandleOpenOrVote(n, m) \/ HandleEnd(n, m)
    BY <1>4 DEF Handle
  <2>2. m \in Known
    BY ArrivedIsKnown
  <2>3. CASE HandleSetup(n, m)
    BY <1>2, <1>3, <2>2, <2>3 DEF HandleSetup
  <2>4. CASE HandleOpenOrVote(n, m)
    BY <1>2, <2>2, <2>4 DEF HandleOpenOrVote
  <2>5. CASE HandleEnd(n, m)
    BY <1>2, <2>2, <2>5 DEF HandleEnd
  <2> QED  BY <2>1, <2>3, <2>4, <2>5
<1>5. CASE Finish(n)
  <2>1. PICK m \in hub[n] :
          /\ stored' = stored \/ Store(n, m)
          /\ broadcast' = broadcast \/ Broadcast(n, m)
          /\ hub' = [hub EXCEPT ![n] = {}]
          /\ inbox' = [inbox EXCEPT ![n] = @ \ {m}]
    BY <1>5 DEF Finish
  <2>2. m \in Known
    BY DEF Casts
  <2> QED  BY <1>2, <1>3, <2>1, <2>2
<1>6. Setup \in Known
  BY DEF Known
<1>7. CASE Refuse(n)
  <2>1. PICK m \in inbox[n] : inbox' = [inbox EXCEPT ![n] = @ \ {m}]
    BY <1>7 DEF Refuse
  <2>2. UNCHANGED <<stored, broadcast, hub>>
    BY <1>7 DEF Refuse
  <2> QED  BY <1>2, <1>3, <1>6, <2>1, <2>2
<1>8. CASE Crash(n)
  <2>1. /\ inbox' = [inbox EXCEPT ![n] = {}] /\ hub' = [hub EXCEPT ![n] = {}]
        /\ UNCHANGED <<stored, broadcast>>
    BY <1>8 DEF Crash
  <2> QED  BY <1>2, <1>3, <1>6, <2>1
<1> QED  BY <1>4, <1>5, <1>7, <1>8

-----------------------------------------------------------------------------
(***************************************************************************)
(* The result stays that of the votes before the end.                      *)
(***************************************************************************)
LEMMA ResultsStay ==
  ASSUME Results, UNCHANGED <<stored, result, version>>
  PROVE  Results'
<1> SUFFICES ASSUME NEW n \in Server, NEW e \in StoredOf(n, "end")'
             PROVE  result'[n] = {Result(n, VotesBefore(n, e)')}
  BY DEF Results, Result, Readable, Secret
<1>1. e \in StoredOf(n, "end") /\ VotesBefore(n, e)' = VotesBefore(n, e)
  BY DEF StoredOf, VotesBefore
<1> QED  BY <1>1 DEF Results

LEMMA StoreOther ==
  ASSUME Types, Results, NEW n \in Server, NEW m, Store(n, m), m.type # "end",
         UNCHANGED <<result, version>>
  PROVE  Results'
<1> SUFFICES ASSUME NEW k \in Server, NEW e \in StoredOf(k, "end")'
             PROVE  result'[k] = {Result(k, VotesBefore(k, e)')}
  BY DEF Results, Result, Readable, Secret
<1>1. e \in StoredOf(k, "end")
  <2>1. e \in Range(stored'[k]) /\ e.type = "end"
    BY DEF StoredOf
  <2>2. e \in Range(stored[k])
    BY <2>1, StoredRange
  <2> QED  BY <2>1, <2>2 DEF StoredOf
<1>2. VotesBefore(k, e)' = VotesBefore(k, e)
  <2>1. m # e
    BY <1>1 DEF StoredOf
  <2>2. CASE k = n
    BY <2>1, <2>2, VotesBeforeStay
  <2>3. CASE k # n
    BY <2>3, Appended DEF VotesBefore
  <2> QED  BY <2>2, <2>3
<1>3. result'[k] = result[k] /\ result[k] = {Result(k, VotesBefore(k, e))}
  BY <1>1 DEF Results
<1> QED  BY <1>2, <1>3

LEMMA EndResults ==
  ASSUME IInv, IInv', Results, NEW n \in Server, NEW m, HandleEnd(n, m)
  PROVE  Results'
<1>1. /\ Types /\ Counted(n) /\ InOrder(n) /\ InOrder(n)' /\ Types'
      /\ m.type = "end" /\ ~Has(n, m) /\ Store(n, m) /\ version' = version
      /\ result' = [result EXCEPT ![n] = result[n] \cup {Result(n, StoredOf(n, "vote"))}]
  BY DEF IInv, HandleEnd, Deliverable, clientVars
<1>2. StoredOf(n, "end") = {}
  <2> SUFFICES ASSUME NEW e \in StoredOf(n, "end") PROVE FALSE
    OBVIOUS
  <2>1. PICK i \in DOMAIN stored[n] : stored[n][i] = e /\ e.type = "end"
    BY DEF StoredOf, Range
  <2>2. PICK top \in Nat :
          /\ DOMAIN stored'[n] = DOMAIN stored[n] \cup {top}
          /\ stored'[n][top] = m
          /\ \A j \in DOMAIN stored[n] : stored'[n][j] = stored[n][j] /\ j \in Nat /\ j < top
    BY <1>1, Appended
  <2>3. i \in Phases(n)' /\ top \in Phases(n)' /\ i < top
        /\ stored'[n][i].type = "end" /\ stored'[n][top].type = "end"
    BY <1>1, <2>1, <2>2 DEF Phases
  <2>4. "end" \in Earlier("end")
    BY <1>1, <2>3 DEF InOrder
  <2> QED  BY <2>4, EarlierIs
<1>3. result'[n] = {Result(n, StoredOf(n, "vote"))}
  BY <1>1, <1>2 DEF Counted, Types
<1>4. ASSUME NEW k \in Server, NEW e \in StoredOf(k, "end")'
      PROVE  result'[k] = {Result(k, VotesBefore(k, e))}'
  <2>1. CASE k = n
    <3>1. e = m
      <4>1. e \in Range(stored'[n]) /\ e.type = "end"
        BY <2>1 DEF StoredOf
      <4>2. e \in Range(stored[n]) => e \in StoredOf(n, "end")
        BY <4>1 DEF StoredOf
      <4> QED  BY <1>1, <1>2, <4>1, <4>2, StoredRange
    <3>2. VotesBefore(n, m)' = StoredOf(n, "vote")
      BY <1>1, VotesBeforeNew
    <3> QED  BY <1>1, <1>3, <2>1, <3>1, <3>2 DEF Result, Readable, Secret
  <2>2. CASE k # n
    <3>1. stored'[k] = stored[k] /\ result'[k] = result[k]
      BY <1>1, <2>2, Appended DEF Types
    <3>2. e \in StoredOf(k, "end") /\ VotesBefore(k, e)' = VotesBefore(k, e)
      BY <3>1 DEF StoredOf, VotesBefore
    <3> QED  BY <1>1, <3>1, <3>2 DEF Results, Result, Readable, Secret
  <2> QED  BY <2>1, <2>2
<1> QED  BY <1>4 DEF Results

LEMMA InitCasts == Init => Casts /\ Results
<1> SUFFICES ASSUME Init PROVE Casts /\ Results
  OBVIOUS
<1>1. \A n \in Server : Range(stored[n]) = {} /\ broadcast[n] = {} /\ inbox[n] = {Setup} /\ hub[n] = {}
  BY DEF Init, Range
<1> QED  BY <1>1 DEF Init, Casts, Results, StoredOf, Known

LEMMA NextCasts == IInv /\ IInv' /\ Casts /\ Results /\ [Next]_vars => Casts' /\ Results'
<1> SUFFICES ASSUME IInv, IInv', Casts, Results, [Next]_vars PROVE Casts' /\ Results'
  OBVIOUS
<1>1. CASE UNCHANGED vars
  <2>1. UNCHANGED <<stored, result, broadcast, inbox, hub, version, cast, opens>>
    BY <1>1 DEF vars, clientVars
  <2>2. Types /\ Types'
    BY DEF IInv
  <2> QED  BY <2>1, <2>2, ServerCasts, ResultsStay DEF Casts
<1>2. ASSUME NEW n \in Server,
             (\E b \in Ballot : CastVote(n, b)) \/ OpenElection(n) \/ EndElection(n)
      PROVE  Casts' /\ Results'
  <2>1. UNCHANGED <<stored, result, version>>
    BY <1>2 DEF CastVote, OpenElection, EndElection
  <2> QED  BY <1>2, <2>1, ClientCasts, ResultsStay
<1>3. ASSUME NEW n \in Server, Handle(n) PROVE Results'
  <2>1. PICK m \in Arrived(n) :
          HandleSetup(n, m) \/ HandleOpenOrVote(n, m) \/ HandleEnd(n, m)
    BY <1>3 DEF Handle
  <2>2. CASE HandleSetup(n, m)
    BY <2>2, StoreOther DEF HandleSetup, IInv, clientVars
  <2>3. CASE HandleOpenOrVote(n, m)
    BY <2>3, ResultsStay DEF HandleOpenOrVote, clientVars
  <2>4. CASE HandleEnd(n, m)
    BY <2>4, EndResults
  <2> QED  BY <2>1, <2>2, <2>3, <2>4
<1>4. ASSUME NEW n \in Server, Finish(n) PROVE Results'
  <2>1. PICK m \in hub[n] : stored' = stored \/ (Store(n, m) /\ ~Has(n, m))
    BY <1>4 DEF Finish
  <2>2. UNCHANGED <<result, version>>
    BY <1>4 DEF Finish, clientVars
  <2>3. CASE stored' = stored
    BY <2>2, <2>3, ResultsStay
  <2>4. CASE Store(n, m) /\ ~Has(n, m)
    <3>1. m.type # "end"
      BY <2>4 DEF IInv, Pending
    <3> QED  BY <2>2, <2>4, <3>1, StoreOther DEF IInv
  <2> QED  BY <2>1, <2>3, <2>4
<1>5. ASSUME NEW n \in Server, Refuse(n) \/ Crash(n) PROVE Results'
  BY <1>5, ResultsStay DEF Refuse, Crash, clientVars
<1> QED  BY <1>1, <1>2, <1>3, <1>4, <1>5, HubCasts DEF Next

-----------------------------------------------------------------------------
LEMMA VotesAreDistinct ==
  ASSUME Casts, NEW n \in Server, NEW votes, votes \subseteq StoredOf(n, "vote")
  PROVE  Distinct(votes)
<1>1. \A v \in votes : v \in cast
  <2>1. \A v \in votes : v \in Known /\ v.type = "vote"
    BY DEF Casts, StoredOf
  <2>2. \A i : Open(i).type = "open"
    BY DEF Open
  <2>3. Setup.type = "setup"
    BY DEF Setup
  <2> QED  BY <2>1, <2>2, <2>3 DEF Known
<1>2. votes \in SUBSET VoteMessage
  BY <1>1 DEF Casts
<1> QED  BY <1>1, <1>2, VotesAreFinite, FS_Subset DEF Casts, Distinct

LEMMA VotesBeforeAre == ASSUME NEW n \in Server, NEW e
                        PROVE  VotesBefore(n, e) \subseteq StoredOf(n, "vote")
BY DEF VotesBefore, StoredOf, Range

LEMMA ResultsCount == Casts /\ Results => OnlyLastVotesCount
<1> SUFFICES ASSUME Casts, Results, NEW n \in Server, NEW e \in StoredOf(n, "end")
    PROVE  \E counted \in SUBSET LastVotes(VotesBefore(n, e)) :
             /\ \A x \in {v.voter : v \in VotesBefore(n, e)} :
                  Cardinality({v \in counted : v.voter = x}) = 1
             /\ \A r \in result[n] : \A o \in Option :
                  r[o] = Cardinality({v \in counted : v.option = o /\ (Secret => v.key = n)})
  BY DEF OnlyLastVotesCount
<1> DEFINE votes == VotesBefore(n, e)
<1>1. Distinct(votes)
  BY VotesAreDistinct, VotesBeforeAre
<1>2. result[n] = {Result(n, votes)}
  BY DEF Results
<1> HIDE DEF votes
<1>3. CountsLast(n, votes, Result(n, votes))
  BY <1>1, ResultCounts
<1> QED  BY <1>2, <1>3 DEF votes, CountsLast

-----------------------------------------------------------------------------
(***************************************************************************)
(* Types.                                                                  *)
(***************************************************************************)
LEMMA KnownIsMessage ==
  ASSUME Types, NEW n \in Server,
         NEW m \in Range(stored[n]) \cup broadcast[n] \cup inbox[n] \cup hub[n], m \in Known
  PROVE  m \in Message
<1>1. CASE m.type = "end"
  BY <1>1 DEF Message, Arrived
<1>2. CASE m.type # "end"
  BY <1>2 DEF Known, Message
<1> QED  BY <1>1, <1>2

LEMMA OneEnd ==
  ASSUME Types, NEW n \in Server, InOrder(n), NEW e \in StoredOf(n, "end")
  PROVE  StoredOf(n, "end") = {e}
<1> SUFFICES ASSUME NEW d \in StoredOf(n, "end") PROVE d = e
  OBVIOUS
<1>1. PICK i \in DOMAIN stored[n] : stored[n][i] = e /\ e.type = "end"
  BY DEF StoredOf, Range
<1>2. PICK j \in DOMAIN stored[n] : stored[n][j] = d /\ d.type = "end"
  BY DEF StoredOf, Range
<1>3. i \in Phases(n) /\ j \in Phases(n)
  BY <1>1, <1>2 DEF Phases
<1>4. i \in Nat /\ j \in Nat
  BY <1>3, PhasesAre
<1>5. ~(i < j) /\ ~(j < i)
  <2>1. "end" \notin Earlier("end")
    BY EarlierIs
  <2> QED  BY <1>1, <1>2, <1>3, <2>1 DEF InOrder
<1>6. i = j
  BY <1>4, <1>5
<1> QED  BY <1>1, <1>2, <1>6

LEMMA TypesAreOK == IInv /\ Casts /\ Results => TypeOK
<1> SUFFICES ASSUME IInv, Casts, Results PROVE TypeOK
  OBVIOUS
<1>1. Types /\ version \in {"OPEN_BALLOT", "SECRET_BALLOT"}
  BY DEF IInv, Casts
<1>2. ASSUME NEW n \in Server
      PROVE  Range(stored[n]) \cup broadcast[n] \cup inbox[n] \cup hub[n] \subseteq Message
  <2>1. Range(stored[n]) \cup broadcast[n] \cup inbox[n] \cup hub[n] \subseteq Known
    BY DEF Casts
  <2> QED  BY <1>1, <2>1, KnownIsMessage
<1>3. stored \in [Server -> Seq(Message)]
  <2>1. ASSUME NEW n \in Server PROVE stored[n] \in Seq(Message)
    <3>1. stored[n] \in Seq(Messages) /\ DOMAIN stored[n] = 1 .. Len(stored[n])
          /\ Len(stored[n]) \in Nat /\ stored[n] = [i \in 1 .. Len(stored[n]) |-> stored[n][i]]
      BY <1>1 DEF Types
    <3>2. \A i \in 1 .. Len(stored[n]) : stored[n][i] \in Message
      BY <1>2, <3>1 DEF Range
    <3> QED  BY <3>1, <3>2, SeqDef
  <2> QED  BY <1>1, <2>1 DEF Types
<1>4. broadcast \in [Server -> SUBSET Message] /\ inbox \in [Server -> SUBSET Message]
  BY <1>1, <1>2 DEF Types
<1>5. ASSUME NEW n \in Server PROVE hub[n] \subseteq Message /\ Cardinality(hub[n]) <= 1
  <2>1. \A m, k \in hub[n] : k = m
    BY DEF IInv, Pending
  <2>2. CASE hub[n] = {}
    BY <1>2, <2>2, FS_EmptySet
  <2>3. CASE hub[n] # {}
    <3>1. PICK m \in hub[n] : hub[n] = {m}
      BY <2>1, <2>3
    <3>2. Cardinality(hub[n]) = 1
      BY <3>1, FS_Singleton
    <3> QED  BY <1>2, <3>2
  <2> QED  BY <2>2, <2>3
<1>6. cast \subseteq {Vote(b, n) : b \in Ballot, n \in Server}
  BY DEF Casts, VoteMessage
<1>7. ASSUME NEW n \in Server
      PROVE  /\ result[n] \in SUBSET [Option -> 0 .. Cardinality(Voter)]
             /\ Cardinality(result[n]) = Cardinality(StoredOf(n, "end"))
             /\ \A r \in result[n] : Sum(r, Option)[Option] <= Cardinality(Voter)
  <2>1. CASE StoredOf(n, "end") = {}
    BY <2>1 DEF IInv, Counted
  <2>2. ASSUME NEW e \in StoredOf(n, "end")
        PROVE  /\ result[n] \in SUBSET [Option -> 0 .. Cardinality(Voter)]
               /\ Cardinality(result[n]) = Cardinality(StoredOf(n, "end"))
               /\ \A r \in result[n] : Sum(r, Option)[Option] <= Cardinality(Voter)
    <3> DEFINE votes == VotesBefore(n, e)
    <3>1. Distinct(votes)
      BY VotesAreDistinct, VotesBeforeAre
    <3>2. result[n] = {Result(n, votes)}
      BY DEF Results
    <3>3. StoredOf(n, "end") = {e}
      BY <1>1, OneEnd DEF IInv
    <3> HIDE DEF votes
    <3>4. /\ Result(n, votes) \in [Option -> 0 .. Cardinality(Voter)]
          /\ Sum(Result(n, votes), Option)[Option] <= Cardinality(Voter)
      BY <3>1, ResultCounts
    <3> QED  BY <3>2, <3>3, <3>4, FS_Singleton
  <2> QED  BY <2>1, <2>2
<1>8. result \in [Server -> SUBSET [Option -> 0 .. Cardinality(Voter)]]
  BY <1>1, <1>7 DEF Types
<1>9. TypeOK <=>
        /\ version \in {"OPEN_BALLOT", "SECRET_BALLOT"}
        /\ stored \in [Server -> Seq(Message)]
        /\ result \in [Server -> SUBSET [Option -> 0 .. Cardinality(Voter)]]
        /\ broadcast \in [Server -> SUBSET Message]
        /\ inbox \in [Server -> SUBSET Message]
        /\ \A n \in Server : hub[n] \subseteq Message /\ Cardinality(hub[n]) <= 1
        /\ cast \subseteq {Vote(b, n) : b \in Ballot, n \in Server}
        /\ \A n \in Server :
             /\ Cardinality(result[n]) = Cardinality(StoredOf(n, "end"))
             /\ \A r \in result[n] : Sum(r, Option)[Option] <= Cardinality(Voter)
  BY DEF TypeOK, MapThenSumSet, MapThenFoldSet, Sum
<1> QED  BY <1>1, <1>3, <1>4, <1>5, <1>6, <1>7, <1>8, <1>9

(***************************************************************************)
(* Every vote was cast and has a message id of its own, and the result of  *)
(* a server is what it counted of the votes stored before the end.         *)
(***************************************************************************)
THEOREM CastsInvariance == Spec => [](Casts /\ Results)
BY InitCasts, NextCasts, Invariance, PTL DEF Spec

(***************************************************************************)
(* The types of the variables; a server counts once for every end that it  *)
(* stores, and counts no more votes than there are voters.                 *)
(***************************************************************************)
THEOREM TypeCorrect == Spec => []TypeOK
BY TypesAreOK, Invariance, CastsInvariance, PTL

(***************************************************************************)
(* Of each voter with a vote stored before the end one vote is counted,    *)
(* one that was created last, whatever the order of their message ids; and *)
(* in a secret ballot only those that the server can decrypt.              *)
(***************************************************************************)
THEOREM LastVotesCount == Spec => []OnlyLastVotesCount
BY ResultsCount, CastsInvariance, PTL
=============================================================================
