------------------------- MODULE RumorMessagesProofs -------------------------
(***************************************************************************)
(* The message tables, for any network, any messages and any number of     *)
(* crashes: they agree, and what is in them is complete unless a rumor was *)
(* sent a second time, with less.                                          *)
(***************************************************************************)
EXTENDS RumorMessages, TLAPS

Retold == [rumor : Rumor, messages : SUBSET Message, from : Server]

HubState ==
       {Idle}
  \cup [pc : {"answer", "add"}, message : Message]
  \cup [pc : {"rumor"}, rumor : Retold, left : SUBSET Message, at : Nat]
  \cup [pc : {"retry"}, left : SUBSET Message, at : Nat]

Types ==
  /\ message \in [Server -> SUBSET Message]
  /\ messageRumor \in [Server -> SUBSET (Message \X Rumor)]
  /\ unprocessed \in [Server -> SUBSET Message]
  /\ unprocessedRumor \in [Server -> SUBSET (Message \X Rumor)]
  /\ rumor \in [Server -> SUBSET Rumor]
  /\ open \in [Server -> Nat]
  /\ query \in [Server -> SUBSET Retold]
  /\ copies \subseteq [from : Server, to : Server, rumor : Rumor,
                       messages : SUBSET Message]
  /\ hub \in [Server -> HubState]

(***************************************************************************)
(* TablesAgree, of one server and element by element.                      *)
(***************************************************************************)
Agree(n) ==
  /\ \A m \in unprocessed[n] :
       m \notin message[n] /\ \E x \in unprocessedRumor[n] : x[1] = m
  /\ \A x \in unprocessedRumor[n] : x[1] \in unprocessed[n]
  /\ \A x \in messageRumor[n] : x[1] \in message[n]
  /\ \A x \in messageRumor[n] \cup unprocessedRumor[n] :
       x[2] \in rumor[n] \/ x[2] = OpenRumor(n)

(***************************************************************************)
(* What the hub is handling: a message it published is stored; of a rumor, *)
(* what is not left was stored, and what it has passed, because the path   *)
(* is shorter, is not stored.  Without the last part a message could be    *)
(* unprocessed and stored at once.                                         *)
(***************************************************************************)
Handling(n) ==
  LET h == hub[n] IN
  /\ h.pc \in {"answer", "add"} => h.message \in message[n]
  /\ h.pc = "rumor" =>
       /\ h.rumor.messages \ h.left \subseteq message[n]
       /\ \A m \in h.left : PathLength[m] < h.at => m \notin message[n]

IInv == Types /\ \A n \in Server : Agree(n) /\ Handling(n)

-----------------------------------------------------------------------------
LEMMA AgreeIsTablesAgree ==
  ASSUME \A n \in Server : Agree(n)
  PROVE  TablesAgree
<1> SUFFICES ASSUME NEW n \in Server
             PROVE  /\ unprocessed[n] \cap message[n] = {}
                    /\ unprocessed[n] = {x[1] : x \in unprocessedRumor[n]}
                    /\ {x[1] : x \in messageRumor[n]} \subseteq message[n]
                    /\ {x[2] : x \in messageRumor[n] \cup unprocessedRumor[n]}
                         \subseteq rumor[n] \cup {OpenRumor(n)}
  BY DEF TablesAgree
<1>1. unprocessed[n] = {x[1] : x \in unprocessedRumor[n]}
  BY DEF Agree
<1>2. {x[1] : x \in messageRumor[n]} \subseteq message[n]
  BY DEF Agree
<1>3. {x[2] : x \in messageRumor[n] \cup unprocessedRumor[n]} \subseteq rumor[n] \cup {OpenRumor(n)}
  BY DEF Agree
<1>4. unprocessed[n] \cap message[n] = {}
  BY DEF Agree
<1> QED  BY <1>1, <1>2, <1>3, <1>4

LEMMA HubTypes ==
  ASSUME Types, NEW n \in Server
  PROVE  /\ hub[n].pc \in {"idle", "answer", "add", "rumor", "retry"}
         /\ hub[n].pc \in {"answer", "add"} => hub[n] \in [pc : {"answer", "add"}, message : Message]
         /\ hub[n].pc = "rumor" =>
              hub[n] \in [pc : {"rumor"}, rumor : Retold, left : SUBSET Message, at : Nat]
         /\ hub[n].pc = "retry" => hub[n] \in [pc : {"retry"}, left : SUBSET Message, at : Nat]
BY DEF Types, HubState, Idle

(***************************************************************************)
(* What a hub is set to, when the others are left alone.                   *)
(***************************************************************************)
LEMMA HubSet ==
  ASSUME hub \in [Server -> HubState], NEW n \in Server
  PROVE  \A h \in HubState : hub' = [hub EXCEPT ![n] = h] =>
           /\ hub'[n] = h /\ hub' \in [Server -> HubState]
           /\ \A k \in Server : k # n => hub'[k] = hub[k]
OBVIOUS

LEMMA HubStates ==
  /\ Idle \in HubState
  /\ [pc : {"answer", "add"}, message : Message] \subseteq HubState
  /\ [pc : {"rumor"}, rumor : Retold, left : SUBSET Message, at : Nat] \subseteq HubState
  /\ [pc : {"retry"}, left : SUBSET Message, at : Nat] \subseteq HubState
BY DEF HubState

(***************************************************************************)
(* A step of one server leaves the tables and the hubs of the others alone.*)
(***************************************************************************)
LEMMA OneServer ==
  ASSUME IInv, Types', NEW n \in Server, Agree(n)', Handling(n)',
         \A k \in Server : k # n =>
           /\ message'[k] = message[k] /\ messageRumor'[k] = messageRumor[k]
           /\ unprocessed'[k] = unprocessed[k] /\ unprocessedRumor'[k] = unprocessedRumor[k]
           /\ rumor[k] \subseteq rumor'[k] /\ open'[k] = open[k] /\ hub'[k] = hub[k]
  PROVE  IInv'
<1> SUFFICES ASSUME NEW k \in Server, k # n PROVE Agree(k)' /\ Handling(k)'
  BY DEF IInv
<1>1. Agree(k)'
  BY DEF IInv, Agree, OpenRumor
<1>2. Handling(k)'
  BY DEF IInv, Handling
<1> QED  BY <1>1, <1>2

(***************************************************************************)
(* A message is stored: what relates it to rumors is moved with it.        *)
(***************************************************************************)
LEMMA InsertKeeps ==
  ASSUME Types, NEW n \in Server, NEW m \in Message, Agree(n), InsertMessage(n, m),
         UNCHANGED <<rumor, open>>
  PROVE  /\ message' \in [Server -> SUBSET Message]
         /\ messageRumor' \in [Server -> SUBSET (Message \X Rumor)]
         /\ unprocessed' \in [Server -> SUBSET Message]
         /\ unprocessedRumor' \in [Server -> SUBSET (Message \X Rumor)]
         /\ Agree(n)'
         /\ message'[n] = message[n] \cup {m}
         /\ \A k \in Server : k # n =>
              /\ message'[k] = message[k] /\ messageRumor'[k] = messageRumor[k]
              /\ unprocessed'[k] = unprocessed[k]
              /\ unprocessedRumor'[k] = unprocessedRumor[k]
<1> DEFINE moved == {x \in unprocessedRumor[n] : x[1] = m}
           kept == {x \in unprocessedRumor[n] : x[1] # m}
<1>1. /\ message' = [message EXCEPT ![n] = message[n] \cup {m}]
      /\ messageRumor' = [messageRumor EXCEPT ![n] = messageRumor[n] \cup moved]
      /\ unprocessedRumor' = [unprocessedRumor EXCEPT ![n] = kept]
      /\ unprocessed' = [unprocessed EXCEPT ![n] = unprocessed[n] \ {m}]
  BY DEF InsertMessage
<1>2. /\ moved \in SUBSET (Message \X Rumor) /\ kept \in SUBSET (Message \X Rumor)
      /\ \A x : x \in moved <=> x \in unprocessedRumor[n] /\ x[1] = m
      /\ \A x : x \in kept <=> x \in unprocessedRumor[n] /\ x[1] # m
  BY DEF Types
<1> HIDE DEF moved, kept
<1>3. /\ message'[n] = message[n] \cup {m} /\ messageRumor'[n] = messageRumor[n] \cup moved
      /\ unprocessedRumor'[n] = kept /\ unprocessed'[n] = unprocessed[n] \ {m}
  BY <1>1 DEF Types
<1>4. Agree(n)'
  <2>1. \A x \in unprocessed'[n] : x \notin message'[n] /\ \E y \in unprocessedRumor'[n] : y[1] = x
    BY <1>2, <1>3 DEF Agree
  <2>2. \A x \in unprocessedRumor'[n] : x[1] \in unprocessed'[n]
    BY <1>2, <1>3 DEF Agree
  <2>3. \A x \in messageRumor'[n] : x[1] \in message'[n]
    BY <1>2, <1>3 DEF Agree
  <2>4. \A x \in messageRumor'[n] \cup unprocessedRumor'[n] : x[2] \in rumor[n] \/ x[2] = OpenRumor(n)
    BY <1>2, <1>3 DEF Agree
  <2> QED  BY <2>1, <2>2, <2>3, <2>4 DEF Agree, OpenRumor
<1> QED  BY <1>1, <1>2, <1>3, <1>4 DEF Types

-----------------------------------------------------------------------------
(***************************************************************************)
(* Publishing.                                                             *)
(***************************************************************************)
LEMMA PublishKeeps ==
  ASSUME IInv, NEW n \in Server, NEW m \in Message, Publish(n, m)
  PROVE  IInv'
<1>1. /\ Types /\ Agree(n) /\ InsertMessage(n, m)
      /\ hub' = [hub EXCEPT ![n] = [pc |-> "answer", message |-> m]]
      /\ UNCHANGED <<rumor, open, query, copies>>
  BY DEF IInv, Publish
<1> DEFINE h == [pc |-> "answer", message |-> m]
<1>2. Types' /\ hub'[n] = h /\ \A k \in Server : k # n => hub'[k] = hub[k]
  <2>1. h \in HubState
    BY HubStates
  <2> HIDE DEF h
  <2>2. hub \in [Server -> HubState] /\ hub' = [hub EXCEPT ![n] = h]
    BY <1>1 DEF Types, h
  <2>3. hub'[n] = h /\ hub' \in [Server -> HubState]
        /\ \A k \in Server : k # n => hub'[k] = hub[k]
    BY <2>1, <2>2, HubSet
  <2> QED  BY <1>1, <2>3, InsertKeeps DEF Types
<1>3. Agree(n)' /\ Handling(n)'
  BY <1>1, <1>2, InsertKeeps DEF Handling
<1> QED  BY <1>1, <1>2, <1>3, InsertKeeps, OneServer

LEMMA SendResultKeeps ==
  ASSUME IInv, NEW n \in Server, SendResult(n)
  PROVE  IInv'
<1>1. /\ Types /\ Agree(n) /\ Handling(n) /\ hub[n].pc = "answer"
      /\ hub' = [hub EXCEPT ![n].pc = "add"]
      /\ UNCHANGED <<tables, rumor, open, query, copies>>
  BY DEF IInv, SendResult
<1> DEFINE h == [hub[n] EXCEPT !.pc = "add"]
<1>2. h \in [pc : {"answer", "add"}, message : Message] /\ h.message = hub[n].message /\ h.pc = "add"
  BY <1>1, HubTypes
<1>3. hub' = [hub EXCEPT ![n] = h]
  BY <1>1
<1> HIDE DEF h
<1>4. hub'[n] = h /\ hub' \in [Server -> HubState] /\ \A k \in Server : k # n => hub'[k] = hub[k]
  <2>1. h \in HubState /\ hub \in [Server -> HubState]
    BY <1>1, <1>2, HubStates DEF Types
  <2> QED  BY <1>3, <2>1, HubSet
<1>5. Types'
  BY <1>1, <1>4 DEF Types, tables
<1>6. Agree(n)'
  BY <1>1 DEF Agree, OpenRumor, tables
<1>7. Handling(n)'
  BY <1>1, <1>2, <1>4 DEF Handling, tables
<1> QED  BY <1>1, <1>4, <1>5, <1>6, <1>7, OneServer DEF tables

LEMMA AddMessageKeeps ==
  ASSUME IInv, NEW n \in Server, AddMessageToMyRumor(n)
  PROVE  IInv'
<1> DEFINE pair == <<hub[n].message, OpenRumor(n)>>
<1>1. /\ Types /\ Agree(n) /\ Handling(n) /\ hub[n].pc = "add"
      /\ messageRumor' = [messageRumor EXCEPT ![n] = messageRumor[n] \cup {pair}]
      /\ hub' = [hub EXCEPT ![n] = Idle]
      /\ UNCHANGED <<message, unprocessed, unprocessedRumor, rumor, open, query, copies>>
  BY DEF IInv, AddMessageToMyRumor
<1>2. /\ pair \in Message \X Rumor /\ pair[1] = hub[n].message /\ pair[2] = OpenRumor(n)
      /\ hub[n].message \in message[n]
  BY <1>1, HubTypes DEF Types, Handling, OpenRumor, Rumor
<1> HIDE DEF pair
<1>3. Types' /\ hub'[n] = Idle /\ messageRumor'[n] = messageRumor[n] \cup {pair}
      /\ \A k \in Server : k # n => hub'[k] = hub[k] /\ messageRumor'[k] = messageRumor[k]
  <2>1. hub'[n] = Idle /\ hub' \in [Server -> HubState]
        /\ \A k \in Server : k # n => hub'[k] = hub[k]
    BY <1>1, HubStates, HubSet DEF Types
  <2> QED  BY <1>1, <1>2, <2>1 DEF Types
<1>4. Agree(n)'
  BY <1>1, <1>2, <1>3 DEF Agree, OpenRumor
<1>5. Handling(n)'
  BY <1>3 DEF Handling, Idle
<1> QED  BY <1>1, <1>3, <1>4, <1>5, OneServer

LEMMA GetAndIncrementKeeps ==
  ASSUME IInv, NEW n \in Server, GetAndIncrementMyRumor(n)
  PROVE  IInv'
<1> DEFINE r == OpenRumor(n)
           q == [rumor |-> r, messages |-> MessagesOf(messageRumor[n], r), from |-> n]
<1>1. /\ Types /\ Agree(n) /\ Handling(n)
      /\ rumor' = [rumor EXCEPT ![n] = rumor[n] \cup {r}]
      /\ open' = [open EXCEPT ![n] = open[n] + 1]
      /\ query' = [query EXCEPT ![n] = query[n] \cup {q}]
      /\ UNCHANGED <<tables, hub, copies>>
  BY DEF IInv, GetAndIncrementMyRumor
<1>2. r \in Rumor /\ q \in Retold /\ r = OpenRumor(n)
  BY <1>1 DEF Types, OpenRumor, Rumor, Retold, MessagesOf
<1> HIDE DEF r, q
<1>3. /\ Types' /\ rumor'[n] = rumor[n] \cup {r}
      /\ \A k \in Server : k # n => rumor'[k] = rumor[k] /\ open'[k] = open[k]
  BY <1>1, <1>2 DEF Types, tables
<1>4. Agree(n)'
  BY <1>1, <1>2, <1>3 DEF Agree, tables
<1>5. Handling(n)'
  BY <1>1 DEF Handling, tables
<1> QED  BY <1>1, <1>3, <1>4, <1>5, OneServer DEF tables

-----------------------------------------------------------------------------
(***************************************************************************)
(* Telling rumors and asking for them: the tables are only read.           *)
(***************************************************************************)
LEMMA CopyType ==
  ASSUME NEW n \in Server, NEW m \in Server, NEW q \in Retold
  PROVE  Copy(n, m, q) \in [from : Server, to : Server, rumor : Rumor, messages : SUBSET Message]
BY DEF Copy, Retold

LEMMA SendType ==
  ASSUME Types, NEW n \in Server, NEW q \in Retold, SendRumor(n, q)
  PROVE  copies' \subseteq [from : Server, to : Server, rumor : Rumor, messages : SUBSET Message]
<1>1. CASE UNCHANGED copies
  BY <1>1 DEF Types
<1>2. ASSUME NEW m \in NextTold(n, q), copies' = copies \cup {Copy(n, m, q)}
      PROVE  copies' \subseteq [from : Server, to : Server, rumor : Rumor, messages : SUBSET Message]
  <2>1. m \in Server
    BY MessagesAssumption DEF NextTold
  <2> QED  BY <1>2, <2>1, CopyType DEF Types
<1> QED  BY <1>1, <1>2 DEF SendRumor

LEMMA TellKeeps ==
  ASSUME IInv, NEW n \in Server, Tell(n)
  PROVE  IInv'
<1>1. PICK q \in query[n] :
        /\ SendRumor(n, q)
        /\ \E left \in {query[n], query[n] \ {q}} : query' = [query EXCEPT ![n] = left]
  BY DEF Tell
<1>2. Types /\ UNCHANGED <<tables, rumor, open, hub>> /\ q \in Retold
  BY DEF IInv, Tell, Types
<1>3. query' \in [Server -> SUBSET Retold]
  BY <1>1, <1>2 DEF Types
<1>4. Types'
  BY <1>1, <1>2, <1>3, SendType DEF Types, tables
<1> QED  BY <1>2, <1>4 DEF IInv, Agree, Handling, OpenRumor, tables

LEMMA HandleRumorStateKeeps ==
  ASSUME IInv, NEW n \in Server, NEW m \in Server, HandleRumorState(n, m)
  PROVE  IInv'
<1>1. PICK r \in rumor[m] :
        copies' = copies \cup {Copy(m, n, [rumor |-> r, messages |-> Served(m, r)])}
  BY DEF HandleRumorState
<1>2. Types /\ UNCHANGED <<tables, rumor, open, query, hub>>
  BY DEF IInv, HandleRumorState
<1>3. Copy(m, n, [rumor |-> r, messages |-> Served(m, r)])
        \in [from : Server, to : Server, rumor : Rumor, messages : SUBSET Message]
  BY <1>1, <1>2 DEF Copy, Types, Served, MessagesOf
<1>4. Types'
  BY <1>1, <1>2, <1>3 DEF Types, tables
<1> QED  BY <1>2, <1>4 DEF IInv, Agree, Handling, OpenRumor, tables

-----------------------------------------------------------------------------
(***************************************************************************)
(* The messages of a rumor.                                                *)
(***************************************************************************)
LEMMA HandleRumorKeeps ==
  ASSUME IInv, NEW n \in Server, HandleRumor(n)
  PROVE  IInv'
<1>1. PICK c \in copies :
        LET q == [rumor |-> c.rumor, messages |-> c.messages, from |-> c.from] IN
        /\ SendRumor(n, q)
        /\ hub' = [hub EXCEPT ![n] =
                     [pc |-> "rumor", rumor |-> q, left |-> c.messages, at |-> 0]]
  BY DEF HandleRumor
<1>2. Types /\ Agree(n) /\ UNCHANGED <<tables, rumor, open, query>>
  BY DEF IInv, HandleRumor
<1> DEFINE q == [rumor |-> c.rumor, messages |-> c.messages, from |-> c.from]
           h == [pc |-> "rumor", rumor |-> q, left |-> c.messages, at |-> 0]
<1>3. q \in Retold /\ q.messages = c.messages /\ c.messages \in SUBSET Message
  BY <1>2 DEF Types, Retold
<1>4. SendRumor(n, q) /\ hub' = [hub EXCEPT ![n] = h]
  BY <1>1
<1> HIDE DEF q
<1>5. /\ h \in [pc : {"rumor"}, rumor : Retold, left : SUBSET Message, at : Nat]
      /\ h.pc = "rumor" /\ h.rumor.messages = h.left /\ h.at = 0 /\ h.left \subseteq Message
  BY <1>3
<1> HIDE DEF h
<1>6. hub'[n] = h /\ hub' \in [Server -> HubState] /\ \A k \in Server : k # n => hub'[k] = hub[k]
  <2>1. h \in HubState /\ hub \in [Server -> HubState]
    BY <1>2, <1>5, HubStates DEF Types
  <2> QED  BY <1>4, <2>1, HubSet
<1>7. Types'
  BY <1>2, <1>3, <1>4, <1>6, SendType DEF Types, tables
<1>8. Agree(n)'
  BY <1>2 DEF Agree, OpenRumor, tables
<1>9. Handling(n)'
  BY <1>5, <1>6, MessagesAssumption DEF Handling
<1> QED  BY <1>2, <1>6, <1>7, <1>8, <1>9, OneServer DEF tables

(***************************************************************************)
(* A message that the loop passes, on its way to a longer path, cannot be  *)
(* handled then, and is not stored.                                        *)
(***************************************************************************)
LEMMA HandleMessageKeeps ==
  ASSUME IInv, NEW n \in Server, HandleMessage(n)
  PROVE  IInv'
<1>1. PICK m \in NextTried(n, hub[n]) :
        /\ IF m \in message[n] THEN UNCHANGED tables ELSE InsertMessage(n, m)
        /\ hub' = [hub EXCEPT ![n].left = @ \ {m}, ![n].at = PathLength[m]]
  BY DEF HandleMessage
<1>2. /\ Types /\ Agree(n) /\ Handling(n) /\ hub[n].pc \in {"rumor", "retry"}
      /\ UNCHANGED <<rumor, open, query, copies>>
  BY DEF IInv, HandleMessage
<1>3. /\ m \in hub[n].left /\ hub[n].left \in SUBSET Message /\ m \in Message
      /\ PathLength[m] \in Nat
  BY <1>2, HubTypes, MessagesAssumption DEF NextTried, CanTry
<1> DEFINE left == hub[n].left \ {m}
           at == PathLength[m]
           h == [hub[n] EXCEPT !.left = left, !.at = at]
<1>4. hub' = [hub EXCEPT ![n] = h]
  BY <1>1, <1>2 DEF Types
<1>5. left \in SUBSET Message /\ at \in Nat
  BY <1>3
<1> HIDE DEF left, at
<1>6. /\ h.pc = hub[n].pc /\ h.left = left /\ h.at = at
      /\ h.pc = "rumor" => h.rumor = hub[n].rumor
      /\ h \in HubState
  BY <1>2, <1>5, HubTypes DEF HubState
<1> HIDE DEF h
<1>7. hub'[n] = h /\ hub' \in [Server -> HubState] /\ \A k \in Server : k # n => hub'[k] = hub[k]
  BY <1>2, <1>4, <1>6, HubSet DEF Types
<1>8. /\ Types' /\ Agree(n)' /\ message'[n] = message[n] \cup {m}
      /\ \A k \in Server : k # n =>
              /\ message'[k] = message[k] /\ messageRumor'[k] = messageRumor[k]
              /\ unprocessed'[k] = unprocessed[k]
              /\ unprocessedRumor'[k] = unprocessedRumor[k]
  <2>1. CASE m \in message[n]
    <3>1. UNCHANGED tables
      BY <1>1, <2>1
    <3> QED  BY <1>2, <1>7, <2>1, <3>1 DEF Types, Agree, OpenRumor, tables
  <2>2. CASE m \notin message[n]
    <3>1. InsertMessage(n, m)
      BY <1>1, <2>2
    <3> QED  BY <1>2, <1>3, <1>7, <3>1, InsertKeeps DEF Types
  <2> QED  BY <2>1, <2>2
<1>9. Handling(n)'
  <2> SUFFICES ASSUME hub[n].pc = "rumor"
               PROVE  /\ hub[n].rumor.messages \ left \subseteq message[n] \cup {m}
                      /\ \A x \in left : PathLength[x] < at => x \notin message[n] \cup {m}
    BY <1>2, <1>6, <1>7, <1>8 DEF Handling
  <2>1. hub[n].rumor.messages \ left \subseteq message[n] \cup {m}
    BY <1>2 DEF Handling, left
  <2>2. ASSUME NEW x \in left, PathLength[x] < at
        PROVE  x \notin message[n] \cup {m}
    <3>1. x \in hub[n].left /\ x # m /\ PathLength[x] \in Nat /\ hub[n].at \in Nat
      BY <1>3, HubTypes, <1>2, MessagesAssumption DEF left
    <3>2. x \notin CanTry(n, hub[n])
      BY <1>3, <2>2, <3>1 DEF NextTried, at
    <3>3. CASE PathLength[x] >= hub[n].at
      BY <3>1, <3>2, <3>3 DEF CanTry
    <3>4. CASE PathLength[x] < hub[n].at
      BY <1>2, <3>1, <3>4 DEF Handling
    <3> QED  BY <3>1, <3>3, <3>4
  <2> QED  BY <2>1, <2>2
<1> QED  BY <1>2, <1>7, <1>8, <1>9, OneServer

LEMMA RelationIs ==
  ASSUME NEW msgs \in SUBSET Message, NEW r \in Rumor
  PROVE  /\ Relation(msgs, r) \in SUBSET (Message \X Rumor)
         /\ \A x \in Relation(msgs, r) : x[1] \in msgs /\ x[2] = r
         /\ \A m \in msgs : \E x \in Relation(msgs, r) : x[1] = m
<1>1. \A m \in msgs : <<m, r>> \in Message \X Rumor /\ <<m, r>>[1] = m /\ <<m, r>>[2] = r
  OBVIOUS
<1>2. \A x : x \in Relation(msgs, r) <=> \E m \in msgs : x = <<m, r>>
  BY DEF Relation
<1> DEFINE rel == Relation(msgs, r)
<1> HIDE DEF rel
<1>3. \A x \in rel : x \in Message \X Rumor /\ x[1] \in msgs /\ x[2] = r
  BY <1>1, <1>2 DEF rel
<1>4. \A m \in msgs : <<m, r>> \in rel
  BY <1>2 DEF rel
<1>5. \A m \in msgs : \E x \in rel : x[1] = m
  BY <1>1, <1>4
<1>6. rel \in SUBSET (Message \X Rumor)
  BY <1>3
<1> QED  BY <1>3, <1>5, <1>6 DEF rel

(***************************************************************************)
(* StoreRumor: what is left of the rumor is not stored, whatever the path  *)
(* of its channel, and all the rest is.                                    *)
(***************************************************************************)
LEMMA StoreRumorKeeps ==
  ASSUME IInv, NEW n \in Server, StoreRumor(n)
  PROVE  IInv'
<1> DEFINE h == hub[n]
           r == h.rumor.rumor
           new == Relation(h.left, r)
           handled == Relation(h.rumor.messages \ h.left, r)
           retry == [pc |-> "retry", at |-> 0, left |-> unprocessed[n] \cup h.left]
           retold == {q \in {[h.rumor EXCEPT !.messages = h.left]} :
                        \E m \in Server : <<r, m>> \in told[n]}
<1>1. /\ Types /\ Agree(n) /\ Handling(n) /\ h.pc = "rumor" /\ CanTry(n, h) = {}
      /\ rumor' = [rumor EXCEPT ![n] = rumor[n] \cup {r}]
      /\ unprocessed' = [unprocessed EXCEPT ![n] = unprocessed[n] \cup h.left]
      /\ unprocessedRumor' = [unprocessedRumor EXCEPT ![n] = unprocessedRumor[n] \cup new]
      /\ messageRumor' = [messageRumor EXCEPT ![n] = messageRumor[n] \cup handled]
      /\ query' = [query EXCEPT ![n] = query[n] \cup retold]
      /\ hub' = [hub EXCEPT ![n] = retry]
      /\ UNCHANGED <<message, open, copies>>
  BY DEF IInv, StoreRumor
<1>2. /\ h.rumor \in Retold /\ h.left \in SUBSET Message /\ h.at \in Nat /\ r \in Rumor
      /\ h.rumor.messages \in SUBSET Message
  BY <1>1, HubTypes DEF Retold
<1>3. \A m \in h.left : m \notin message[n]
  <2> SUFFICES ASSUME NEW m \in h.left PROVE m \notin message[n]
    OBVIOUS
  <2>1. PathLength[m] \in Nat /\ m \notin CanTry(n, h)
    BY <1>1, <1>2, MessagesAssumption
  <2>2. CASE PathLength[m] >= h.at
    BY <2>1, <2>2 DEF CanTry
  <2>3. CASE PathLength[m] < h.at
    BY <1>1, <2>3 DEF Handling
  <2> QED  BY <1>2, <2>1, <2>2, <2>3
<1>4. \A m \in h.rumor.messages \ h.left : m \in message[n]
  BY <1>1 DEF Handling
<1>5. /\ new \in SUBSET (Message \X Rumor) /\ handled \in SUBSET (Message \X Rumor)
      /\ \A x \in new : x[1] \in h.left /\ x[2] = r
      /\ \A m \in h.left : \E x \in new : x[1] = m
      /\ \A x \in handled : x[1] \in message[n] /\ x[2] = r
  BY <1>2, <1>4, RelationIs
<1>6. retold \in SUBSET Retold
  BY <1>2 DEF Retold
<1>7. retry \in HubState /\ retry.pc = "retry"
  <2>1. unprocessed[n] \cup h.left \in SUBSET Message
    BY <1>1, <1>2 DEF Types
  <2> QED  BY <2>1, HubStates
<1> HIDE DEF new, handled, retry, retold, r
<1>8. /\ rumor'[n] = rumor[n] \cup {r} /\ hub'[n] = retry
      /\ unprocessed'[n] = unprocessed[n] \cup h.left
      /\ unprocessedRumor'[n] = unprocessedRumor[n] \cup new
      /\ messageRumor'[n] = messageRumor[n] \cup handled
      /\ \A k \in Server : k # n =>
           /\ messageRumor'[k] = messageRumor[k] /\ hub'[k] = hub[k]
           /\ unprocessed'[k] = unprocessed[k] /\ unprocessedRumor'[k] = unprocessedRumor[k]
           /\ rumor'[k] = rumor[k]
  BY <1>1 DEF Types
<1> HIDE DEF h
<1>9. Types'
  <2>1. hub' \in [Server -> HubState]
    BY <1>1, <1>7, HubSet DEF Types
  <2>2. /\ unprocessed' \in [Server -> SUBSET Message]
        /\ unprocessedRumor' \in [Server -> SUBSET (Message \X Rumor)]
        /\ messageRumor' \in [Server -> SUBSET (Message \X Rumor)]
    BY <1>1, <1>2, <1>5 DEF Types
  <2>3. rumor' \in [Server -> SUBSET Rumor] /\ query' \in [Server -> SUBSET Retold]
    BY <1>1, <1>2, <1>6 DEF Types
  <2> QED  BY <1>1, <2>1, <2>2, <2>3 DEF Types
<1>10. Agree(n)'
  <2>1. \A m \in unprocessed'[n] :
          m \notin message[n] /\ \E x \in unprocessedRumor'[n] : x[1] = m
    BY <1>1, <1>3, <1>5, <1>8 DEF Agree
  <2>2. \A x \in unprocessedRumor'[n] : x[1] \in unprocessed'[n]
    BY <1>1, <1>5, <1>8 DEF Agree
  <2>3. \A x \in messageRumor'[n] : x[1] \in message[n]
    BY <1>1, <1>5, <1>8 DEF Agree
  <2>4. \A x \in messageRumor'[n] \cup unprocessedRumor'[n] :
          x[2] \in rumor'[n] \/ x[2] = OpenRumor(n)
    BY <1>1, <1>5, <1>8 DEF Agree
  <2> QED  BY <1>1, <2>1, <2>2, <2>3, <2>4 DEF Agree, OpenRumor
<1>11. Handling(n)'
  BY <1>7, <1>8 DEF Handling
<1> QED  BY <1>1, <1>8, <1>9, <1>10, <1>11, OneServer

LEMMA BecomesIdle ==
  ASSUME IInv, NEW n \in Server, hub' = [hub EXCEPT ![n] = Idle],
         query' \in [Server -> SUBSET Retold],
         UNCHANGED <<tables, rumor, open, copies>>
  PROVE  IInv'
<1>1. hub'[n] = Idle /\ hub' \in [Server -> HubState]
      /\ \A k \in Server : k # n => hub'[k] = hub[k]
  BY HubStates, HubSet DEF IInv, Types
<1>2. Types'
  BY <1>1 DEF IInv, Types, tables
<1>3. Agree(n)'
  BY DEF IInv, Agree, OpenRumor, tables
<1>4. Handling(n)'
  BY <1>1 DEF Handling, Idle
<1> QED  BY <1>1, <1>2, <1>3, <1>4, OneServer DEF tables

LEMMA RetriedKeeps ==
  ASSUME IInv, NEW n \in Server, Retried(n)
  PROVE  IInv'
BY BecomesIdle DEF Retried, IInv, Types

LEMMA RestartKeeps ==
  ASSUME IInv, NEW n \in Server, Restart(n)
  PROVE  IInv'
<1>1. query' \in [Server -> SUBSET Retold]
  BY DEF Restart, IInv, Types
<1> QED  BY <1>1, BecomesIdle DEF Restart

-----------------------------------------------------------------------------
LEMMA InitIInv == Init => IInv
<1> SUFFICES ASSUME Init PROVE IInv
  OBVIOUS
<1>1. Types
  BY DEF Init, Types, HubState
<1>2. \A n \in Server : Agree(n) /\ Handling(n)
  BY DEF Init, Agree, Handling, Idle
<1> QED  BY <1>1, <1>2 DEF IInv

LEMMA NextIInv == IInv /\ [Next]_vars => IInv'
<1> SUFFICES ASSUME IInv, [Next]_vars PROVE IInv'
  OBVIOUS
<1>1. CASE UNCHANGED vars
  BY <1>1 DEF vars, IInv, Types, Agree, Handling, OpenRumor
<1>2. ASSUME NEW n \in Server,
             \/ \E m \in Message : Publish(n, m)
             \/ SendResult(n)
             \/ AddMessageToMyRumor(n)
             \/ GetAndIncrementMyRumor(n)
             \/ Tell(n)
             \/ \E m \in Server : HandleRumorState(n, m)
             \/ HandleRumor(n)
             \/ HandleMessage(n)
             \/ StoreRumor(n)
             \/ Retried(n)
             \/ Restart(n)
      PROVE  IInv'
  BY <1>2, PublishKeeps, SendResultKeeps, AddMessageKeeps, GetAndIncrementKeeps, TellKeeps,
     HandleRumorStateKeeps, HandleRumorKeeps, HandleMessageKeeps, StoreRumorKeeps,
     RetriedKeeps, RestartKeeps
<1> QED  BY <1>1, <1>2 DEF Next

(***************************************************************************)
(* The inductive invariant.                                                *)
(***************************************************************************)
THEOREM Invariance == Spec => []IInv
BY InitIInv, NextIInv, PTL DEF Spec

(***************************************************************************)
(* The tables of messages and their relations with rumors agree after any  *)
(* sequence of publications, rumors, retries and crashes, also in the      *)
(* middle of a rumor.                                                      *)
(***************************************************************************)
THEOREM TablesKept == Spec => []TablesAgree
<1>1. IInv => TablesAgree
  BY AgreeIsTablesAgree DEF IInv
<1> QED  BY <1>1, Invariance, PTL

-----------------------------------------------------------------------------
(***************************************************************************)
(* Rumors that come complete.  A copy of a rumor has all of its messages,  *)
(* unless the rumor was sent with less; so has what a server is handling,  *)
(* and so have its tables.  What a server tells again may lack messages:   *)
(* then it has sent the rumor before, and sending it now is sending it     *)
(* with less.  Nothing is assumed of the network.                          *)
(***************************************************************************)
Closed == [rumor : Rumor, messages : SUBSET Message, past : SUBSET Rumor]

Sound(x) ==
  \E s \in sent :
    s.rumor = x.rumor /\ (s.messages = x.messages \/ SentWithLess(x.rumor))

ToldBefore(n, r) == \E c \in copies : c.from = n /\ c.rumor = r

SentOnce ==
  /\ told \in [Server -> SUBSET (Rumor \X Server)]
  /\ sent \subseteq Closed
  /\ \A s \in sent : s.rumor[2] < open[s.rumor[1]]
  /\ \A s, t \in sent : s.rumor = t.rumor => s = t
  /\ \A n \in Server : \A r \in rumor[n] : \E s \in sent : s.rumor = r
  /\ \A c \in copies : Sound(c)

Retelling(n) ==
  \A q \in query[n] :
    /\ q.rumor \in rumor[n]
    /\ Sound(q) \/ ToldBefore(n, q.rumor)

ToldOf(n) == \A x \in told[n] : ToldBefore(n, x[1])

Receiving(n) ==
  hub[n].pc = "rumor" =>
    /\ Sound(hub[n].rumor)
    /\ hub[n].left \subseteq hub[n].rumor.messages
    /\ hub[n].rumor.rumor \notin rumor[n]

Serving(n) ==
  /\ \A x \in unprocessedRumor[n] : x[2] \in rumor[n]
  /\ \A s \in sent : s.rumor \in rumor[n] =>
       \/ SentWithLess(s.rumor)
       \/ \A m \in Message : m \in s.messages <=>
            <<m, s.rumor>> \in messageRumor[n] \cup unprocessedRumor[n]

Carried == SentOnce /\ \A n \in Server : Retelling(n) /\ ToldOf(n) /\ Receiving(n) /\ Serving(n)

-----------------------------------------------------------------------------
(***************************************************************************)
(* What has been sent stays sent.                                          *)
(***************************************************************************)
LEMMA LessStays ==
  ASSUME sent \subseteq sent', copies \subseteq copies'
  PROVE  /\ \A r : SentWithLess(r) => SentWithLess(r)'
         /\ \A x : Sound(x) => Sound(x)'
         /\ \A n, r : ToldBefore(n, r) => ToldBefore(n, r)'
<1>1. \A r : SentWithLess(r) => SentWithLess(r)'
  BY DEF SentWithLess
<1>2. \A x : Sound(x) => Sound(x)'
  BY <1>1 DEF Sound
<1>3. \A n, r : ToldBefore(n, r) => ToldBefore(n, r)'
  BY DEF ToldBefore
<1> QED  BY <1>1, <1>2, <1>3

(***************************************************************************)
(* What n tells again is sound when it is sent, as the rumor has been sent *)
(* before with all of its messages, or is already sent with less.          *)
(***************************************************************************)
LEMMA SentSound ==
  ASSUME SentOnce, NEW n \in Server, NEW m \in Server, NEW q,
         Sound(q) \/ (ToldBefore(n, q.rumor) /\ \E s \in sent : s.rumor = q.rumor),
         copies' = copies \cup {Copy(n, m, q)}, UNCHANGED sent
  PROVE  /\ \A c \in copies' : Sound(c)'
         /\ ToldBefore(n, q.rumor)'
<1> DEFINE c0 == Copy(n, m, q)
<1>1. /\ c0.from = n /\ c0.rumor = q.rumor /\ c0.messages = q.messages
      /\ c0 \in copies' /\ copies \subseteq copies' /\ copies' = copies \cup {c0}
  BY DEF Copy
<1> HIDE DEF c0
<1>2. ToldBefore(n, q.rumor)'
  BY <1>1 DEF ToldBefore
<1>3. Sound(c0)'
  <2>1. CASE Sound(q)
    BY <1>1, <2>1, LessStays DEF Sound
  <2>2. CASE ToldBefore(n, q.rumor) /\ \E s \in sent : s.rumor = q.rumor
    <3>1. PICK d \in copies : d.from = n /\ d.rumor = q.rumor
      BY <2>2 DEF ToldBefore
    <3>2. PICK s \in sent : s.rumor = q.rumor /\ (s.messages = d.messages \/ SentWithLess(q.rumor))
      BY <3>1 DEF SentOnce, Sound
    <3>3. CASE SentWithLess(q.rumor) \/ q.messages = s.messages
      BY <1>1, <3>2, <3>3, LessStays DEF Sound
    <3>4. CASE s.messages = d.messages /\ q.messages # s.messages
      <4>1. SentWithLess(q.rumor)'
        BY <1>1, <3>1, <3>2, <3>4 DEF SentWithLess
      <4> QED  BY <1>1, <3>2, <4>1 DEF Sound
    <3> QED  BY <3>2, <3>3, <3>4
  <2> QED  BY <2>1, <2>2
<1> QED  BY <1>1, <1>2, <1>3, LessStays DEF SentOnce

LEMMA ServedIs ==
  ASSUME NEW n \in Server, NEW r \in Rumor, Types
  PROVE  /\ Served(n, r) \in SUBSET Message
         /\ \A m \in Message :
              m \in Served(n, r) <=> <<m, r>> \in messageRumor[n] \cup unprocessedRumor[n]
BY DEF Served, MessagesOf

LEMMA CarriedIsComplete ==
  ASSUME Types, Carried
  PROVE  CompleteUnlessSentAgain
<1> SUFFICES ASSUME NEW n \in Server, NEW s \in sent, s.rumor \in rumor[n],
                    ~SentWithLess(s.rumor)
             PROVE  Served(n, s.rumor) = s.messages
  BY DEF CompleteUnlessSentAgain
<1>1. s.rumor \in Rumor /\ s.messages \in SUBSET Message
  BY DEF Carried, SentOnce, Closed
<1>2. \A m \in Message : m \in s.messages <=> m \in Served(n, s.rumor)
  BY <1>1, ServedIs DEF Carried, Serving
<1> QED  BY <1>1, <1>2, ServedIs

(***************************************************************************)
(* A rumor that was sent is not the open one of any server.                *)
(***************************************************************************)
LEMMA SentIsClosed ==
  ASSUME Types, SentOnce, NEW s \in sent, NEW n \in Server
  PROVE  s.rumor # OpenRumor(n)
<1>1. s.rumor \in Server \X Nat /\ s.rumor[2] < open[s.rumor[1]] /\ open[n] \in Nat
  BY DEF Types, SentOnce, Closed, Rumor
<1> SUFFICES ASSUME s.rumor = OpenRumor(n) PROVE FALSE
  OBVIOUS
<1>2. s.rumor[1] = n /\ s.rumor[2] = open[n]
  BY DEF OpenRumor
<1> QED  BY <1>1, <1>2

(***************************************************************************)
(* Server k, when it does nothing.                                         *)
(***************************************************************************)
LEMMA Untouched ==
  ASSUME Carried, UNCHANGED sent, copies \subseteq copies', NEW k \in Server,
         rumor'[k] = rumor[k], query'[k] \subseteq query[k], told'[k] \subseteq told[k],
         hub'[k] = hub[k], messageRumor'[k] = messageRumor[k],
         unprocessedRumor'[k] = unprocessedRumor[k]
  PROVE  Retelling(k)' /\ ToldOf(k)' /\ Receiving(k)' /\ Serving(k)'
<1>1. Retelling(k)'
  BY LessStays DEF Carried, Retelling
<1>2. ToldOf(k)'
  BY LessStays DEF Carried, ToldOf
<1>3. Receiving(k)'
  BY LessStays DEF Carried, Receiving
<1>4. Serving(k)'
  BY LessStays DEF Carried, Serving
<1> QED  BY <1>1, <1>2, <1>3, <1>4

(***************************************************************************)
(* A step of the hub of n that sends nothing and stores no rumor.          *)
(***************************************************************************)
LEMMA HubCarries ==
  ASSUME Carried, NEW n \in Server,
         UNCHANGED <<rumor, open, told, query, copies, sent>>,
         Serving(n)',
         \A k \in Server : k # n =>
           /\ messageRumor'[k] = messageRumor[k] /\ unprocessedRumor'[k] = unprocessedRumor[k]
           /\ hub'[k] = hub[k],
         hub'[n].pc = "rumor" <=> hub[n].pc = "rumor",
         hub[n].pc = "rumor" => hub'[n].rumor = hub[n].rumor /\ hub'[n].left \subseteq hub[n].left
  PROVE  Carried'
<1>1. SentOnce'
  BY LessStays DEF Carried, SentOnce
<1>2. ASSUME NEW k \in Server PROVE Retelling(k)'
  BY LessStays DEF Carried, Retelling
<1>3. ASSUME NEW k \in Server PROVE ToldOf(k)'
  BY LessStays DEF Carried, ToldOf
<1>4. ASSUME NEW k \in Server PROVE Receiving(k)'
  BY LessStays DEF Carried, Receiving
<1>5. ASSUME NEW k \in Server PROVE Serving(k)'
  BY LessStays DEF Carried, Serving
<1> QED  BY <1>1, <1>2, <1>3, <1>4, <1>5 DEF Carried

(***************************************************************************)
(* Storing a message moves its relations; none is lost, none is new.       *)
(***************************************************************************)
LEMMA InsertServes ==
  ASSUME Types, NEW n \in Server, NEW m \in Message, Serving(n), InsertMessage(n, m),
         UNCHANGED <<rumor, sent, copies>>
  PROVE  Serving(n)'
<1>1. /\ messageRumor'[n] = messageRumor[n] \cup {x \in unprocessedRumor[n] : x[1] = m}
      /\ unprocessedRumor'[n] = {x \in unprocessedRumor[n] : x[1] # m}
  BY DEF Types, InsertMessage
<1>2. messageRumor'[n] \cup unprocessedRumor'[n] = messageRumor[n] \cup unprocessedRumor[n]
  BY <1>1
<1> QED  BY <1>1, <1>2, LessStays DEF Serving

LEMMA PublishCarries ==
  ASSUME IInv, Carried, NEW n \in Server, NEW m \in Message, Publish(n, m)
  PROVE  Carried'
<1>1. /\ Types /\ InsertMessage(n, m) /\ hub[n] = Idle
      /\ hub' = [hub EXCEPT ![n] = [pc |-> "answer", message |-> m]]
      /\ UNCHANGED <<rumor, open, told, query, copies, sent>>
  BY DEF IInv, Publish
<1>2. Serving(n)'
  BY <1>1, InsertServes DEF Carried
<1>3. /\ hub'[n] = [pc |-> "answer", message |-> m]
      /\ \A k \in Server : k # n =>
           /\ messageRumor'[k] = messageRumor[k] /\ unprocessedRumor'[k] = unprocessedRumor[k]
           /\ hub'[k] = hub[k]
  BY <1>1 DEF Types, InsertMessage
<1>4. hub'[n].pc # "rumor" /\ hub[n].pc # "rumor"
  BY <1>1, <1>3 DEF Idle
<1> QED  BY <1>1, <1>2, <1>3, <1>4, HubCarries

LEMMA SendResultCarries ==
  ASSUME IInv, Carried, NEW n \in Server, SendResult(n) \/ Retried(n)
  PROVE  Carried'
<1>1. /\ Types /\ hub[n].pc \in {"answer", "retry"}
      /\ UNCHANGED <<tables, rumor, open, told, query, copies, sent>>
      /\ hub' = [hub EXCEPT ![n].pc = "add"] \/ hub' = [hub EXCEPT ![n] = Idle]
  BY DEF IInv, SendResult, Retried
<1>2. hub'[n].pc # "rumor" /\ \A k \in Server : k # n => hub'[k] = hub[k]
  <2>1. CASE hub' = [hub EXCEPT ![n].pc = "add"]
    <3>1. hub[n] \in [pc : {"answer", "add"}, message : Message]
          \/ hub[n] \in [pc : {"retry"}, left : SUBSET Message, at : Nat]
      BY <1>1, HubTypes
    <3> QED  BY <1>1, <2>1, <3>1 DEF Types
  <2>2. CASE hub' = [hub EXCEPT ![n] = Idle]
    BY <1>1, <2>2 DEF Types, Idle
  <2> QED  BY <1>1, <2>1, <2>2
<1>3. Serving(n)'
  BY <1>1, LessStays DEF Carried, Serving, tables
<1> QED  BY <1>1, <1>2, <1>3, HubCarries DEF tables

LEMMA AddMessageCarries ==
  ASSUME IInv, Carried, NEW n \in Server, AddMessageToMyRumor(n)
  PROVE  Carried'
<1> DEFINE pair == <<hub[n].message, OpenRumor(n)>>
<1>1. /\ Types /\ hub[n].pc = "add"
      /\ messageRumor' = [messageRumor EXCEPT ![n] = messageRumor[n] \cup {pair}]
      /\ hub' = [hub EXCEPT ![n] = Idle]
      /\ UNCHANGED <<message, unprocessed, unprocessedRumor, rumor, open, told, query, copies, sent>>
  BY DEF IInv, AddMessageToMyRumor
<1>2. \A s \in sent : s.rumor # OpenRumor(n)
  BY <1>1, SentIsClosed DEF Carried
<1>3. \A s \in sent, m \in Message : <<m, s.rumor>> # pair
  BY <1>2
<1> HIDE DEF pair
<1>4. /\ messageRumor'[n] = messageRumor[n] \cup {pair} /\ hub'[n] = Idle
      /\ \A k \in Server : k # n => messageRumor'[k] = messageRumor[k] /\ hub'[k] = hub[k]
  BY <1>1 DEF Types
<1>5. Serving(n)'
  <2>1. Serving(n)
    BY DEF Carried
  <2> QED  BY <1>1, <1>3, <1>4, <2>1, LessStays DEF Serving
<1>6. hub'[n].pc # "rumor"
  BY <1>4 DEF Idle
<1> QED  BY <1>1, <1>4, <1>5, <1>6, HubCarries

LEMMA HandleMessageCarries ==
  ASSUME IInv, Carried, NEW n \in Server, HandleMessage(n)
  PROVE  Carried'
<1>1. PICK m \in NextTried(n, hub[n]) :
        /\ IF m \in message[n] THEN UNCHANGED tables ELSE InsertMessage(n, m)
        /\ hub' = [hub EXCEPT ![n].left = @ \ {m}, ![n].at = PathLength[m]]
  BY DEF HandleMessage
<1>2. /\ Types /\ hub[n].pc \in {"rumor", "retry"}
      /\ UNCHANGED <<rumor, open, told, query, copies, sent>>
  BY DEF IInv, HandleMessage
<1>3. m \in Message
  BY <1>1, <1>2, HubTypes DEF NextTried, CanTry
<1> DEFINE left == hub[n].left \ {m}
           h == [hub[n] EXCEPT !.left = left, !.at = PathLength[m]]
<1>4. hub' = [hub EXCEPT ![n] = h]
  BY <1>1, <1>2 DEF Types
<1> HIDE DEF left
<1>5. h.pc = hub[n].pc /\ h.left = left /\ (h.pc = "rumor" => h.rumor = hub[n].rumor)
  BY <1>2, HubTypes
<1> HIDE DEF h
<1>6. hub'[n] = h /\ \A k \in Server : k # n => hub'[k] = hub[k]
  BY <1>2, <1>4 DEF Types
<1>7. /\ Serving(n)'
      /\ \A k \in Server : k # n =>
           /\ messageRumor'[k] = messageRumor[k] /\ unprocessedRumor'[k] = unprocessedRumor[k]
  <2>1. CASE UNCHANGED tables
    BY <1>2, <2>1, LessStays DEF Carried, Serving, tables
  <2>2. CASE InsertMessage(n, m)
    BY <1>2, <1>3, <2>2, InsertServes DEF Carried, InsertMessage, Types
  <2> QED  BY <1>1, <2>1, <2>2
<1> QED  BY <1>2, <1>5, <1>6, <1>7, HubCarries DEF left

-----------------------------------------------------------------------------
LEMMA GetAndIncrementCarries ==
  ASSUME IInv, Carried, NEW n \in Server, GetAndIncrementMyRumor(n)
  PROVE  Carried'
<1> DEFINE r == OpenRumor(n)
           msgs == MessagesOf(messageRumor[n], r)
           s0 == [rumor |-> r, messages |-> msgs, past |-> rumor[n]]
           q == [rumor |-> r, messages |-> msgs, from |-> n]
<1>1. /\ Types /\ SentOnce
      /\ sent' = sent \cup {s0}
      /\ rumor' = [rumor EXCEPT ![n] = rumor[n] \cup {r}]
      /\ open' = [open EXCEPT ![n] = open[n] + 1]
      /\ query' = [query EXCEPT ![n] = query[n] \cup {q}]
      /\ UNCHANGED <<messageRumor, unprocessedRumor, told, copies, hub>>
  BY DEF IInv, Carried, GetAndIncrementMyRumor, tables
<1>2. /\ r \in Rumor /\ r = OpenRumor(n) /\ r[1] = n /\ r[2] = open[n]
      /\ \A m \in Message : m \in msgs <=> <<m, r>> \in messageRumor[n]
      /\ msgs \in SUBSET Message
  BY <1>1 DEF Types, OpenRumor, Rumor, MessagesOf
<1>3. \A s \in sent : s.rumor # r
  BY <1>1, <1>2, SentIsClosed
<1>4. \A k \in Server : r \notin rumor[k]
  BY <1>1, <1>3 DEF SentOnce
<1> HIDE DEF r, msgs
<1>5. /\ s0 \in Closed /\ s0.rumor = r /\ s0.messages = msgs
      /\ q.rumor = r /\ q.messages = msgs
  BY <1>1, <1>2 DEF Closed, Types
<1> HIDE DEF s0, q
<1>6. /\ rumor'[n] = rumor[n] \cup {r} /\ open'[n] = open[n] + 1
      /\ query'[n] = query[n] \cup {q}
      /\ \A k \in Server : k # n =>
           rumor'[k] = rumor[k] /\ open'[k] = open[k] /\ query'[k] = query[k]
      /\ \A k \in Server : open[k] \in Nat
  BY <1>1 DEF Types
<1>7. SentOnce'
  <2>1. ASSUME NEW s \in sent' PROVE s.rumor[2] < open'[s.rumor[1]]
    <3>1. CASE s \in sent
      <4>1. s.rumor[1] \in Server /\ s.rumor[2] \in Nat /\ s.rumor[2] < open[s.rumor[1]]
        BY <1>1, <3>1 DEF SentOnce, Closed, Rumor
      <4> DEFINE k == s.rumor[1]
                 i == s.rumor[2]
      <4> HIDE DEF k, i
      <4>2. i < open[k] /\ i \in Nat /\ open[k] \in Nat /\ (open'[k] = open[k] \/ open'[k] = open[k] + 1)
        BY <1>6, <4>1 DEF k, i
      <4>3. i < open'[k]
        BY <4>2
      <4> QED  BY <4>3 DEF k, i
    <3>2. CASE s = s0
      BY <1>2, <1>5, <1>6, <3>2
    <3> QED  BY <1>1, <3>1, <3>2
  <2>2. \A s, t \in sent' : s.rumor = t.rumor => s = t
    BY <1>1, <1>3, <1>5 DEF SentOnce
  <2>3. \A k \in Server : \A x \in rumor'[k] : \E s \in sent' : s.rumor = x
    BY <1>1, <1>5, <1>6 DEF SentOnce
  <2>4. \A c \in copies' : Sound(c)'
    BY <1>1, LessStays DEF SentOnce
  <2>5. sent' \subseteq Closed
    BY <1>1, <1>5 DEF SentOnce
  <2> QED  BY <1>1, <2>1, <2>2, <2>3, <2>4, <2>5 DEF SentOnce
<1>8. ASSUME NEW k \in Server PROVE Retelling(k)' /\ ToldOf(k)' /\ Receiving(k)' /\ Serving(k)'
  <2>1. Retelling(k) /\ ToldOf(k) /\ Receiving(k) /\ Serving(k)
    BY DEF Carried
  <2>2. rumor[k] \subseteq rumor'[k] /\ rumor'[k] \subseteq rumor[k] \cup {r}
    BY <1>6
  <2>3. ASSUME NEW p \in query'[k]
        PROVE  /\ p.rumor \in rumor'[k]
               /\ Sound(p)' \/ ToldBefore(k, p.rumor)'
    <3>1. CASE p \in query[k]
      BY <1>1, <2>1, <2>2, <3>1, LessStays DEF Retelling
    <3>2. CASE k = n /\ p = q
      BY <1>1, <1>5, <1>6, <3>2 DEF Sound
    <3> QED  BY <1>6, <3>1, <3>2
  <2>4. ToldOf(k)'
    BY <1>1, <2>1, LessStays DEF ToldOf
  <2>5. Receiving(k)'
    <3> SUFFICES ASSUME hub[k].pc = "rumor"
                 PROVE  Sound(hub[k].rumor)' /\ hub[k].rumor.rumor \notin rumor'[k]
      BY <1>1, <2>1 DEF Receiving
    <3>1. Sound(hub[k].rumor) /\ hub[k].rumor.rumor \notin rumor[k]
      BY <2>1 DEF Receiving
    <3>2. hub[k].rumor.rumor # r
      BY <1>3, <3>1 DEF Sound
    <3> QED  BY <1>1, <2>2, <3>1, <3>2, LessStays
  <2>6. ASSUME NEW s \in sent', s.rumor \in rumor'[k], ~SentWithLess(s.rumor)',
               NEW m \in Message
        PROVE  m \in s.messages <=> <<m, s.rumor>> \in messageRumor[k] \cup unprocessedRumor[k]
    <3>1. CASE s \in sent
      <4>1. s.rumor \in rumor[k]
        BY <1>3, <2>2, <2>6, <3>1
      <4>2. ~SentWithLess(s.rumor)
        BY <1>1, <2>6, LessStays
      <4> QED  BY <2>1, <3>1, <4>1, <4>2 DEF Serving
    <3>2. CASE s = s0
      <4>1. k = n
        BY <1>4, <1>5, <1>6, <2>6, <3>2
      <4>2. <<m, r>> \notin unprocessedRumor[n]
        BY <1>4, <2>1, <4>1 DEF Serving
      <4> QED  BY <1>2, <1>5, <3>2, <4>1, <4>2
    <3> QED  BY <1>1, <2>6, <3>1, <3>2
  <2>7. Serving(k)'
    BY <1>1, <2>1, <2>2, <2>6 DEF Serving
  <2> QED  BY <2>3, <2>4, <2>5, <2>7 DEF Retelling
<1> QED  BY <1>7, <1>8 DEF Carried

(***************************************************************************)
(* Telling a rumor that is closed keeps the copies sound, and adds one for *)
(* every neighbour that is told.                                           *)
(***************************************************************************)
LEMMA TellsSound ==
  ASSUME SentOnce, NEW n \in Server, NEW q, NextTold(n, q) \subseteq Server,
         Sound(q) \/ (ToldBefore(n, q.rumor) /\ \E s \in sent : s.rumor = q.rumor),
         SendRumor(n, q), UNCHANGED <<rumor, open, sent>>,
         \A k \in Server : ToldOf(k)
  PROVE  SentOnce' /\ copies \subseteq copies' /\ \A k \in Server : ToldOf(k)'
<1>1. CASE UNCHANGED <<copies, told>>
  BY <1>1, LessStays DEF SentOnce, ToldOf
<1>2. CASE \E m \in NextTold(n, q) :
             /\ copies' = copies \cup {Copy(n, m, q)}
             /\ told' = [told EXCEPT ![n] = told[n] \cup {<<q.rumor, m>>}]
  <2>1. PICK m \in NextTold(n, q) :
             /\ copies' = copies \cup {Copy(n, m, q)}
             /\ told' = [told EXCEPT ![n] = told[n] \cup {<<q.rumor, m>>}]
    BY <1>2
  <2>2. m \in Server /\ copies \subseteq copies'
    BY <2>1
  <2>3. q.rumor \in Rumor
    BY DEF SentOnce, Closed, Sound
  <2>4. (\A c \in copies' : Sound(c)') /\ ToldBefore(n, q.rumor)'
    BY <2>1, <2>2, SentSound
  <2>5. /\ told' \in [Server -> SUBSET (Rumor \X Server)]
        /\ told'[n] = told[n] \cup {<<q.rumor, m>>}
        /\ \A k \in Server : k # n => told'[k] = told[k]
    BY <2>1, <2>2, <2>3 DEF SentOnce
  <2>6. SentOnce'
    BY <2>4, <2>5 DEF SentOnce
  <2>7. \A k \in Server : ToldOf(k)'
    BY <2>2, <2>4, <2>5, LessStays DEF ToldOf
  <2> QED  BY <2>2, <2>6, <2>7
<1> QED  BY <1>1, <1>2 DEF SendRumor

LEMMA TellCarries ==
  ASSUME IInv, Carried, NEW n \in Server, Tell(n)
  PROVE  Carried'
<1>1. PICK q \in query[n] :
        /\ SendRumor(n, q)
        /\ query' = [query EXCEPT ![n] = IF NextTold(n, q) = {} THEN @ \ {q} ELSE @]
  BY DEF Tell
<1>2. /\ Types /\ SentOnce /\ Retelling(n) /\ \A k \in Server : ToldOf(k)
      /\ UNCHANGED <<messageRumor, unprocessedRumor, rumor, open, sent, hub>>
  BY DEF IInv, Carried, Tell, tables
<1>3. \A k \in Server : query'[k] \subseteq query[k]
  BY <1>1, <1>2 DEF Types
<1>4. /\ NextTold(n, q) \subseteq Server
      /\ \E s \in sent : s.rumor = q.rumor
      /\ Sound(q) \/ ToldBefore(n, q.rumor)
  BY <1>2, MessagesAssumption DEF Retelling, NextTold, SentOnce
<1>5. SentOnce' /\ copies \subseteq copies' /\ \A k \in Server : ToldOf(k)'
  BY <1>1, <1>2, <1>4, TellsSound
<1>6. ASSUME NEW k \in Server PROVE Retelling(k)' /\ Receiving(k)' /\ Serving(k)'
  BY <1>2, <1>3, <1>5, LessStays DEF Carried, Retelling, Receiving, Serving
<1> QED  BY <1>5, <1>6 DEF Carried

LEMMA HandleRumorStateCarries ==
  ASSUME IInv, Carried, NEW n \in Server, NEW m \in Server, HandleRumorState(n, m)
  PROVE  Carried'
<1>1. PICK r \in rumor[m] \ rumor[n] :
        copies' = copies \cup {Copy(m, n, [rumor |-> r, messages |-> Served(m, r)])}
  BY DEF HandleRumorState
<1>2. /\ Types /\ SentOnce
      /\ UNCHANGED <<tables, rumor, open, told, query, sent, hub>>
  BY DEF IInv, Carried, HandleRumorState
<1>3. PICK s \in sent : s.rumor = r
  BY <1>1, <1>2 DEF SentOnce
<1>4. Served(m, r) = s.messages \/ SentWithLess(r)
  BY <1>1, <1>2, <1>3, CarriedIsComplete DEF CompleteUnlessSentAgain
<1> DEFINE q == [rumor |-> r, messages |-> Served(m, r)]
<1>5. Sound(q)
  BY <1>3, <1>4 DEF Sound
<1> HIDE DEF q
<1>6. copies' = copies \cup {Copy(m, n, q)} /\ copies \subseteq copies'
  BY <1>1 DEF q
<1>7. SentOnce'
  BY <1>2, <1>5, <1>6, SentSound DEF SentOnce
<1>8. ASSUME NEW k \in Server PROVE Retelling(k)' /\ ToldOf(k)' /\ Receiving(k)' /\ Serving(k)'
  BY <1>2, <1>6, Untouched DEF tables
<1> QED  BY <1>7, <1>8 DEF Carried

LEMMA HandleRumorCarries ==
  ASSUME IInv, Carried, NEW n \in Server, HandleRumor(n)
  PROVE  Carried'
<1>1. PICK c \in copies :
        LET q == [rumor |-> c.rumor, messages |-> c.messages, from |-> c.from] IN
        /\ c.to = n
        /\ CheckRumor(n, c.rumor)
        /\ SendRumor(n, q)
        /\ hub' = [hub EXCEPT ![n] =
                     [pc |-> "rumor", rumor |-> q, left |-> c.messages, at |-> 0]]
  BY DEF HandleRumor
<1>2. /\ Types /\ SentOnce /\ c.rumor \notin rumor[n] /\ \A k \in Server : ToldOf(k)
      /\ UNCHANGED <<tables, rumor, open, query, sent>>
  BY <1>1 DEF IInv, Carried, HandleRumor, CheckRumor
<1> DEFINE q == [rumor |-> c.rumor, messages |-> c.messages, from |-> c.from]
           h == [pc |-> "rumor", rumor |-> q, left |-> c.messages, at |-> 0]
<1>3. SendRumor(n, q) /\ hub' = [hub EXCEPT ![n] = h] /\ h.pc = "rumor" /\ h.rumor = q
      /\ h.left = q.messages
  BY <1>1
<1>4. q.rumor \notin rumor[n] /\ Sound(q)
  BY <1>1, <1>2 DEF SentOnce, Sound
<1> HIDE DEF q, h
<1>5. NextTold(n, q) \subseteq Server
  BY MessagesAssumption DEF NextTold
<1>6. SentOnce' /\ copies \subseteq copies' /\ \A k \in Server : ToldOf(k)'
  BY <1>2, <1>3, <1>4, <1>5, TellsSound
<1>7. hub'[n] = h /\ \A k \in Server : k # n => hub'[k] = hub[k]
  BY <1>2, <1>3 DEF Types
<1>8. ASSUME NEW k \in Server PROVE Retelling(k)' /\ Receiving(k)' /\ Serving(k)'
  <2>1. Retelling(k)'
    BY <1>2, <1>6, LessStays DEF Carried, Retelling
  <2>2. Receiving(k)'
    <3>1. CASE k # n
      BY <1>2, <1>6, <1>7, <3>1, LessStays DEF Carried, Receiving
    <3>2. CASE k = n
      BY <1>2, <1>3, <1>4, <1>6, <1>7, <3>2, LessStays DEF Receiving
    <3> QED  BY <3>1, <3>2
  <2>3. Serving(k)'
    BY <1>2, <1>6, LessStays DEF Carried, Serving, tables
  <2> QED  BY <2>1, <2>2, <2>3
<1> QED  BY <1>6, <1>8 DEF Carried

(***************************************************************************)
(* A rumor is stored: what n remembers in order to tell it again lacks the *)
(* messages that were handled, but n has told it before.                   *)
(***************************************************************************)
LEMMA StoreRumorCarries ==
  ASSUME IInv, Carried, NEW n \in Server, StoreRumor(n)
  PROVE  Carried'
<1> DEFINE h == hub[n]
           r == h.rumor.rumor
           new == Relation(h.left, r)
           handled == Relation(h.rumor.messages \ h.left, r)
           again == [h.rumor EXCEPT !.messages = h.left]
           retold == {q \in {again} : \E m \in Server : <<r, m>> \in told[n]}
           retry == [pc |-> "retry", at |-> 0, left |-> unprocessed[n] \cup h.left]
<1>1. /\ Types /\ Agree(n) /\ h.pc = "rumor"
      /\ SentOnce /\ Retelling(n) /\ ToldOf(n) /\ Receiving(n) /\ Serving(n)
      /\ rumor' = [rumor EXCEPT ![n] = rumor[n] \cup {r}]
      /\ unprocessedRumor' = [unprocessedRumor EXCEPT ![n] = unprocessedRumor[n] \cup new]
      /\ messageRumor' = [messageRumor EXCEPT ![n] = messageRumor[n] \cup handled]
      /\ query' = [query EXCEPT ![n] = query[n] \cup retold]
      /\ hub' = [hub EXCEPT ![n] = retry]
      /\ UNCHANGED <<open, told, copies, sent>>
  BY DEF IInv, Carried, StoreRumor
<1>2. /\ h.rumor \in Retold /\ h.left \in SUBSET Message /\ r \in Rumor
      /\ h.rumor.messages \in SUBSET Message
  BY <1>1, HubTypes DEF Retold
<1>3. /\ \A m \in Message : <<m, r>> \in new <=> m \in h.left
      /\ \A m \in Message : <<m, r>> \in handled <=> m \in h.rumor.messages /\ m \notin h.left
      /\ \A x \in new \cup handled : x[2] = r
  <2>1. ASSUME NEW msgs \in SUBSET Message, NEW m \in Message
        PROVE  <<m, r>> \in Relation(msgs, r) <=> m \in msgs
    BY DEF Relation
  <2>2. h.rumor.messages \ h.left \in SUBSET Message
    BY <1>2
  <2>3. \A m \in Message : <<m, r>> \in new <=> m \in h.left
    BY <1>2, <2>1
  <2>4. \A m \in Message : <<m, r>> \in handled <=> m \in h.rumor.messages \ h.left
    BY <2>1, <2>2
  <2>5. \A x \in new \cup handled : x[2] = r
    BY <1>2, <2>2, RelationIs
  <2> QED  BY <2>3, <2>4, <2>5
<1> HIDE DEF new, handled
<1>4. PICK s0 \in sent :
        s0.rumor = r /\ (s0.messages = h.rumor.messages \/ SentWithLess(r))
  BY <1>1 DEF Receiving, Sound
<1>5. /\ r \notin rumor[n] /\ \A x \in messageRumor[n] \cup unprocessedRumor[n] : x[2] # r
      /\ h.left \subseteq h.rumor.messages
  BY <1>1, <1>4, SentIsClosed DEF Receiving, Agree
<1>6. \A q \in retold : q.rumor = r /\ \E m \in Server : <<r, m>> \in told[n]
  BY <1>2 DEF Retold
<1>7. retry.pc = "retry"
  OBVIOUS
<1> HIDE DEF retold, retry
<1>8. /\ rumor'[n] = rumor[n] \cup {r} /\ query'[n] = query[n] \cup retold
      /\ hub'[n] = retry
      /\ messageRumor'[n] = messageRumor[n] \cup handled
      /\ unprocessedRumor'[n] = unprocessedRumor[n] \cup new
      /\ \A k \in Server : k # n =>
           /\ rumor'[k] = rumor[k] /\ query'[k] = query[k] /\ hub'[k] = hub[k]
           /\ messageRumor'[k] = messageRumor[k] /\ unprocessedRumor'[k] = unprocessedRumor[k]
  BY <1>1 DEF Types
<1> HIDE DEF h
<1>9. SentOnce'
  <2>1. \A k \in Server : \A x \in rumor'[k] : \E s \in sent : s.rumor = x
    BY <1>1, <1>4, <1>8 DEF SentOnce
  <2> QED  BY <1>1, <2>1, LessStays DEF SentOnce
<1>10. Retelling(n)'
  <2>1. ASSUME NEW q \in retold PROVE q.rumor \in rumor'[n] /\ ToldBefore(n, q.rumor)
    BY <1>1, <1>6, <1>8 DEF ToldOf
  <2> QED  BY <1>1, <1>8, <2>1, LessStays DEF Retelling
<1>11. ToldOf(n)'
  BY <1>1, LessStays DEF ToldOf
<1>12. Receiving(n)'
  BY <1>7, <1>8 DEF Receiving
<1>13. Serving(n)'
  <2>1. \A x \in unprocessedRumor'[n] : x[2] \in rumor'[n]
    BY <1>1, <1>3, <1>8 DEF Serving
  <2>2. ASSUME NEW s \in sent, s.rumor \in rumor'[n], ~SentWithLess(s.rumor),
               NEW m \in Message
        PROVE  m \in s.messages <=> <<m, s.rumor>> \in messageRumor'[n] \cup unprocessedRumor'[n]
    <3>1. CASE s.rumor = r
      <4>1. s = s0 /\ s0.messages = h.rumor.messages
        BY <1>1, <1>4, <2>2, <3>1 DEF SentOnce
      <4>2. \A x \in messageRumor[n] \cup unprocessedRumor[n] : x # <<m, r>>
        BY <1>5
      <4> QED  BY <1>3, <1>4, <1>5, <1>8, <3>1, <4>1, <4>2
    <3>2. CASE s.rumor # r
      <4>1. s.rumor \in rumor[n] /\ <<m, s.rumor>> \notin new \cup handled
        BY <1>3, <1>8, <2>2, <3>2
      <4> QED  BY <1>1, <1>8, <2>2, <4>1 DEF Serving
    <3> QED  BY <3>1, <3>2
  <2> QED  BY <1>1, <2>1, <2>2, LessStays DEF Serving
<1>14. ASSUME NEW k \in Server, k # n
       PROVE  Retelling(k)' /\ ToldOf(k)' /\ Receiving(k)' /\ Serving(k)'
  BY <1>1, <1>8, <1>14, Untouched
<1> QED  BY <1>9, <1>10, <1>11, <1>12, <1>13, <1>14 DEF Carried

LEMMA RestartCarries ==
  ASSUME IInv, Carried, NEW n \in Server, Restart(n)
  PROVE  Carried'
<1>1. /\ Types /\ SentOnce
      /\ hub' = [hub EXCEPT ![n] = Idle]
      /\ query' = [query EXCEPT ![n] = {}]
      /\ told' = [k \in Server |-> IF k = n THEN {} ELSE {t \in told[k] : t[2] # n}]
      /\ UNCHANGED <<tables, rumor, open, copies, sent>>
  BY DEF IInv, Carried, Restart
<1>2. /\ hub'[n] = Idle /\ query'[n] = {} /\ told'[n] = {}
      /\ \A k \in Server : k # n => hub'[k] = hub[k] /\ query'[k] = query[k]
      /\ \A k \in Server : told'[k] \subseteq told[k]
  BY <1>1 DEF Types
<1>3. SentOnce'
  <2>1. told' \in [Server -> SUBSET (Rumor \X Server)]
    BY <1>1, <1>2 DEF SentOnce
  <2> QED  BY <1>1, <2>1, LessStays DEF SentOnce
<1>4. Retelling(n)' /\ ToldOf(n)' /\ Receiving(n)'
  BY <1>2 DEF Retelling, ToldOf, Receiving, Idle
<1>5. Serving(n)'
  BY <1>1, LessStays DEF Carried, Serving, tables
<1>6. ASSUME NEW k \in Server, k # n
      PROVE  Retelling(k)' /\ ToldOf(k)' /\ Receiving(k)' /\ Serving(k)'
  BY <1>1, <1>2, <1>6, Untouched DEF tables
<1> QED  BY <1>3, <1>4, <1>5, <1>6 DEF Carried

-----------------------------------------------------------------------------
LEMMA InitCarried == Init => Carried
<1> SUFFICES ASSUME Init PROVE Carried
  OBVIOUS
<1>1. SentOnce
  BY DEF Init, SentOnce
<1>2. \A n \in Server : Retelling(n) /\ ToldOf(n) /\ Receiving(n) /\ Serving(n)
  BY DEF Init, Retelling, ToldOf, Receiving, Serving, Idle
<1> QED  BY <1>1, <1>2 DEF Carried

LEMMA NextCarried ==
  ASSUME IInv, Carried, [Next]_vars
  PROVE  Carried'
<1>1. CASE UNCHANGED vars
  BY <1>1, LessStays DEF vars, Carried, SentOnce, Retelling, ToldOf, Receiving, Serving
<1>2. ASSUME NEW n \in Server,
             \/ \E m \in Message : Publish(n, m)
             \/ SendResult(n)
             \/ AddMessageToMyRumor(n)
             \/ GetAndIncrementMyRumor(n)
             \/ Tell(n)
             \/ \E m \in Server : HandleRumorState(n, m)
             \/ HandleRumor(n)
             \/ HandleMessage(n)
             \/ StoreRumor(n)
             \/ Retried(n)
             \/ Restart(n)
      PROVE  Carried'
  BY <1>2, PublishCarries, SendResultCarries, AddMessageCarries, GetAndIncrementCarries,
     TellCarries, HandleRumorStateCarries, HandleRumorCarries, HandleMessageCarries,
     StoreRumorCarries, RestartCarries
<1> QED  BY <1>1, <1>2 DEF Next

THEOREM CarriedInvariance == Spec => []Carried
<1>1. IInv /\ Carried /\ [Next]_vars => Carried'
  BY NextCarried
<1> QED  BY <1>1, InitCarried, Invariance, PTL DEF Spec

(***************************************************************************)
(* Whoever has stored a rumor has all of its messages and serves them,     *)
(* whatever was lost, repeated or cut short by a crash and whatever the    *)
(* network, unless some server has sent the rumor again with less.         *)
(***************************************************************************)
THEOREM RumorsServedComplete == Spec => []CompleteUnlessSentAgain
<1>1. IInv /\ Carried => CompleteUnlessSentAgain
  BY CarriedIsComplete DEF IInv
<1> QED  BY <1>1, Invariance, CarriedInvariance, PTL

-----------------------------------------------------------------------------
(***************************************************************************)
(* Rumors that can be handled at once.  What a message needs has a path    *)
(* that is not longer, and no message needs itself through others: an      *)
(* election needs its LAO, a vote needs its election.                      *)
(***************************************************************************)
Grounded ==
  /\ \A S \in SUBSET Message : S # {} => \E m \in S : Depends[m] \cap S = {}
  /\ \A m \in Message : \A d \in Depends[m] : PathLength[d] <= PathLength[m]

Related(n, m) == \E x \in messageRumor[n] : x[1] = m

(***************************************************************************)
(* What server n has is closed under what it needs, and so is what its     *)
(* rumors, the open one among them, relate; only what the hub is handling  *)
(* is stored before it is related.  A message that the loop has passed     *)
(* cannot be handled.                                                      *)
(***************************************************************************)
Settled(n) ==
  /\ unprocessedRumor[n] = {}
  /\ \A m \in message[n] : Depends[m] \subseteq message[n]
  /\ \A x \in messageRumor[n] : \A d \in Depends[x[1]] : Related(n, d)
  /\ \A m \in message[n] :
       \/ Related(n, m)
       \/ hub[n].pc \in {"answer", "add"} /\ m = hub[n].message
       \/ hub[n].pc = "rumor" /\ m \in hub[n].rumor.messages
  /\ hub[n].pc = "rumor" =>
       /\ \A s \in sent : s.rumor = hub[n].rumor.rumor => s.past \subseteq rumor[n]
       /\ \A m \in hub[n].left : PathLength[m] < hub[n].at => ~CanHandle(n, m)
  /\ hub[n].pc = "retry" => hub[n].left = {}

(***************************************************************************)
(* A rumor needs nothing that is neither in it nor in its past.            *)
(***************************************************************************)
Covered ==
  \A s \in sent : \A m \in s.messages : \A d \in Depends[m] :
    d \in s.messages \/ \E t \in sent : t.rumor \in s.past /\ d \in t.messages

Prompt == Covered /\ \A n \in Server : Settled(n)

Uncrashed == crashes \in Nat /\ (crashes = 0 /\ NoneSentWithLess => Prompt)

-----------------------------------------------------------------------------
LEMMA OneServerPrompt ==
  ASSUME Prompt, NEW n \in Server, UNCHANGED sent, Settled(n)',
         \A k \in Server : k # n =>
           /\ message'[k] = message[k] /\ messageRumor'[k] = messageRumor[k]
           /\ unprocessedRumor'[k] = unprocessedRumor[k]
           /\ rumor'[k] = rumor[k] /\ hub'[k] = hub[k]
  PROVE  Prompt'
<1>1. Covered'
  BY DEF Prompt, Covered
<1>2. ASSUME NEW k \in Server, k # n PROVE Settled(k)'
  BY <1>2 DEF Prompt, Settled, Related, CanHandle
<1> QED  BY <1>1, <1>2 DEF Prompt

(***************************************************************************)
(* Storing a message relates nothing when nothing was unprocessed.         *)
(***************************************************************************)
LEMMA InsertSettles ==
  ASSUME Types, NEW n \in Server, NEW m \in Message, Settled(n), InsertMessage(n, m)
  PROVE  /\ message'[n] = message[n] \cup {m}
         /\ messageRumor'[n] = messageRumor[n] /\ unprocessedRumor'[n] = {}
         /\ \A k \in Server : k # n =>
              /\ message'[k] = message[k] /\ messageRumor'[k] = messageRumor[k]
              /\ unprocessedRumor'[k] = unprocessedRumor[k]
<1>1. unprocessedRumor[n] = {}
  BY DEF Settled
<1>2. /\ message' = [message EXCEPT ![n] = message[n] \cup {m}]
      /\ messageRumor' = [messageRumor EXCEPT ![n] =
                            messageRumor[n] \cup {x \in unprocessedRumor[n] : x[1] = m}]
      /\ unprocessedRumor' = [unprocessedRumor EXCEPT ![n] =
                                {x \in unprocessedRumor[n] : x[1] # m}]
  BY DEF InsertMessage
<1> QED  BY <1>1, <1>2 DEF Types

LEMMA PublishPrompt ==
  ASSUME IInv, Prompt, NEW n \in Server, NEW m \in Message, Publish(n, m)
  PROVE  Prompt'
<1>1. /\ Types /\ Settled(n) /\ InsertMessage(n, m) /\ CanHandle(n, m) /\ hub[n] = Idle
      /\ hub' = [hub EXCEPT ![n] = [pc |-> "answer", message |-> m]]
      /\ UNCHANGED <<rumor, sent>>
  BY DEF IInv, Prompt, Publish
<1>2. /\ hub'[n].pc = "answer" /\ hub'[n].message = m
      /\ \A k \in Server : k # n => hub'[k] = hub[k]
  BY <1>1 DEF Types
<1>3. Settled(n)'
  BY <1>1, <1>2, InsertSettles DEF Settled, Related, CanHandle, Idle
<1> QED  BY <1>1, <1>2, <1>3, InsertSettles, OneServerPrompt

LEMMA SendResultPrompt ==
  ASSUME IInv, Prompt, NEW n \in Server, SendResult(n)
  PROVE  Prompt'
<1>1. /\ Types /\ Settled(n) /\ hub[n] \in [pc : {"answer", "add"}, message : Message]
      /\ hub[n].pc = "answer"
      /\ hub' = [hub EXCEPT ![n].pc = "add"] /\ UNCHANGED <<tables, rumor, sent>>
  BY HubTypes DEF IInv, Prompt, SendResult
<1>2. /\ hub'[n].pc = "add" /\ hub'[n].message = hub[n].message
      /\ \A k \in Server : k # n => hub'[k] = hub[k]
  BY <1>1 DEF Types
<1>3. Settled(n)'
  BY <1>1, <1>2 DEF Settled, Related, tables
<1> QED  BY <1>1, <1>2, <1>3, OneServerPrompt DEF tables

LEMMA AddMessagePrompt ==
  ASSUME IInv, Prompt, NEW n \in Server, AddMessageToMyRumor(n)
  PROVE  Prompt'
<1> DEFINE m == hub[n].message
           pair == <<m, OpenRumor(n)>>
<1>1. /\ Types /\ Settled(n) /\ hub[n].pc = "add" /\ m \in message[n]
      /\ messageRumor' = [messageRumor EXCEPT ![n] = messageRumor[n] \cup {pair}]
      /\ hub' = [hub EXCEPT ![n] = Idle]
      /\ UNCHANGED <<message, unprocessed, unprocessedRumor, rumor, sent>>
  BY DEF IInv, Handling, Prompt, AddMessageToMyRumor
<1>2. pair[1] = m
  OBVIOUS
<1> HIDE DEF pair
<1>3. /\ messageRumor'[n] = messageRumor[n] \cup {pair} /\ hub'[n].pc = "idle"
      /\ \A k \in Server : k # n => messageRumor'[k] = messageRumor[k] /\ hub'[k] = hub[k]
  BY <1>1 DEF Types, Idle
<1>4. \A d \in message[n] : Related(n, d)'
  BY <1>1, <1>2, <1>3 DEF Settled, Related
<1>5. \A x \in messageRumor'[n] : \A d \in Depends[x[1]] : d \in message[n]
  <2>1. \A d \in Depends[m] : d \in message[n]
    BY <1>1 DEF Settled
  <2>2. \A x \in messageRumor[n] : \A d \in Depends[x[1]] : d \in message[n]
    BY DEF IInv, Agree, Prompt, Settled, Related
  <2> QED  BY <1>2, <1>3, <2>1, <2>2
<1>6. Settled(n)'
  BY <1>1, <1>3, <1>4, <1>5 DEF Settled
<1> QED  BY <1>1, <1>3, <1>6, OneServerPrompt

(***************************************************************************)
(* What a message of the open rumor needs is in the open rumor or in one   *)
(* that n has stored, which is in the past of the open one.                *)
(***************************************************************************)
LEMMA GetAndIncrementPrompt ==
  ASSUME IInv, Carried, Prompt, NoneSentWithLess, NEW n \in Server,
         GetAndIncrementMyRumor(n)
  PROVE  Prompt'
<1> DEFINE r == OpenRumor(n)
           msgs == MessagesOf(messageRumor[n], r)
           s0 == [rumor |-> r, messages |-> msgs, past |-> rumor[n]]
<1>1. /\ Types /\ SentOnce /\ Agree(n) /\ Serving(n) /\ Settled(n)
      /\ sent' = sent \cup {s0}
      /\ rumor' = [rumor EXCEPT ![n] = rumor[n] \cup {r}]
      /\ UNCHANGED <<message, messageRumor, unprocessedRumor, hub>>
  BY DEF IInv, Carried, Prompt, GetAndIncrementMyRumor, tables
<1>2. \A k \in Server : rumor[k] \subseteq rumor'[k]
  BY <1>1 DEF Types
<1>3. \A s \in sent : s.rumor # r
  BY <1>1, SentIsClosed
<1>4. /\ s0.rumor = r /\ s0.messages = msgs /\ s0.past = rumor[n]
      /\ \A m \in msgs : m \in Message /\ <<m, r>> \in messageRumor[n]
      /\ \A m \in Message : <<m, r>> \in messageRumor[n] => m \in msgs
  BY DEF MessagesOf
<1> HIDE DEF msgs, s0
<1>5. ASSUME NEW m \in msgs, NEW d \in Depends[m]
      PROVE  d \in msgs \/ \E t \in sent : t.rumor \in rumor[n] /\ d \in t.messages
  <2>1. <<m, r>> \in messageRumor[n] /\ <<m, r>>[1] = m /\ d \in Message
    BY <1>4, MessagesAssumption
  <2>2. PICK x \in messageRumor[n] : x[1] = d
    BY <1>1, <2>1 DEF Settled, Related
  <2>3. x = <<d, x[2]>>
    BY <1>1, <2>2 DEF Types
  <2>4. CASE x[2] = r
    BY <1>4, <2>1, <2>2, <2>3, <2>4
  <2>5. CASE x[2] \in rumor[n]
    <3>1. PICK t \in sent : t.rumor = x[2]
      BY <1>1, <2>5 DEF SentOnce
    <3>2. d \in t.messages
      BY <1>1, <2>1, <2>2, <2>3, <2>5, <3>1 DEF Serving, NoneSentWithLess
    <3> QED  BY <2>5, <3>1, <3>2
  <2> QED  BY <1>1, <2>2, <2>4, <2>5 DEF Agree
<1>6. Covered'
  BY <1>1, <1>4, <1>5 DEF Prompt, Covered
<1>7. ASSUME NEW k \in Server PROVE Settled(k)'
  <2>1. Settled(k) /\ Receiving(k)
    BY DEF Carried, Prompt
  <2>2. ASSUME hub[k].pc = "rumor", NEW s \in sent', s.rumor = hub[k].rumor.rumor
        PROVE  s.past \subseteq rumor'[k]
    <3>1. hub[k].rumor.rumor # r
      BY <1>3, <2>1, <2>2 DEF Receiving, Sound
    <3>2. s \in sent
      BY <1>1, <1>4, <2>2, <3>1
    <3> QED  BY <1>2, <2>1, <2>2, <3>2 DEF Settled
  <2> QED  BY <1>1, <2>1, <2>2 DEF Settled, Related, CanHandle
<1> QED  BY <1>6, <1>7 DEF Prompt

LEMMA SendsPrompt ==
  ASSUME Prompt, UNCHANGED <<message, messageRumor, unprocessedRumor, rumor, sent, hub>>
  PROVE  Prompt'
BY DEF Prompt, Covered, Settled, Related, CanHandle

LEMMA HandleRumorPrompt ==
  ASSUME IInv, Prompt, NEW n \in Server, HandleRumor(n)
  PROVE  Prompt'
<1>1. PICK c \in copies :
        /\ CheckRumor(n, c.rumor)
        /\ hub' = [hub EXCEPT ![n] =
             [pc |-> "rumor", left |-> c.messages, at |-> 0,
              rumor |-> [rumor |-> c.rumor, messages |-> c.messages, from |-> c.from]]]
  BY DEF HandleRumor
<1>2. /\ Types /\ Settled(n) /\ hub[n] = Idle /\ UNCHANGED <<tables, rumor, sent>>
  BY DEF IInv, Prompt, HandleRumor
<1>3. /\ hub'[n].pc = "rumor" /\ hub'[n].rumor.rumor = c.rumor
      /\ hub'[n].left = c.messages /\ hub'[n].at = 0
      /\ \A k \in Server : k # n => hub'[k] = hub[k]
  BY <1>1, <1>2 DEF Types
<1>4. \A m \in c.messages : PathLength[m] \in Nat
  BY <1>2, MessagesAssumption DEF Types
<1>5. \A m \in hub'[n].left : ~(PathLength[m] < hub'[n].at)
  BY <1>3, <1>4
<1>6. \A s \in sent : s.rumor = hub'[n].rumor.rumor => s.past \subseteq rumor[n]
  BY <1>1, <1>3 DEF CheckRumor
<1>7. Settled(n)'
  BY <1>2, <1>3, <1>5, <1>6 DEF Settled, Related, Idle, tables
<1> QED  BY <1>2, <1>3, <1>7, OneServerPrompt DEF tables

(***************************************************************************)
(* A message that is handled enables none that the loop has passed, whose  *)
(* path is shorter.                                                        *)
(***************************************************************************)
LEMMA HandleMessagePrompt ==
  ASSUME Grounded, IInv, Carried, Prompt, NEW n \in Server, HandleMessage(n)
  PROVE  Prompt'
<1>1. PICK m \in NextTried(n, hub[n]) :
        /\ IF m \in message[n] THEN UNCHANGED tables ELSE InsertMessage(n, m)
        /\ hub' = [hub EXCEPT ![n].left = @ \ {m}, ![n].at = PathLength[m]]
  BY DEF HandleMessage
<1>2. /\ Types /\ Settled(n) /\ Receiving(n) /\ UNCHANGED <<rumor, sent>>
      /\ hub[n].pc = "rumor"
  BY DEF IInv, Carried, Prompt, Settled, HandleMessage, NextTried, CanTry
<1>3. /\ hub[n] \in [pc : {"rumor"}, rumor : Retold, left : SUBSET Message, at : Nat]
      /\ m \in hub[n].left /\ m \in Message /\ m \in CanTry(n, hub[n])
      /\ hub[n].left \in SUBSET Message /\ hub[n].at \in Nat
      /\ \A x \in Message : PathLength[x] \in Nat
  BY <1>2, HubTypes, MessagesAssumption DEF NextTried, CanTry
<1> DEFINE left == hub[n].left \ {m}
           h == [hub[n] EXCEPT !.left = left, !.at = PathLength[m]]
<1>4. hub' = [hub EXCEPT ![n] = h]
  BY <1>1, <1>2 DEF Types
<1> HIDE DEF left
<1>5. h.pc = "rumor" /\ h.left = left /\ h.at = PathLength[m] /\ h.rumor = hub[n].rumor
  BY <1>3
<1> HIDE DEF h
<1>6. hub'[n] = h /\ \A k \in Server : k # n => hub'[k] = hub[k]
  BY <1>2, <1>4 DEF Types
<1>7. /\ messageRumor'[n] = messageRumor[n] /\ unprocessedRumor'[n] = {}
      /\ message'[n] = message[n] \cup {m}
      /\ m \in message[n] \/ CanHandle(n, m)
      /\ \A k \in Server : k # n =>
           /\ message'[k] = message[k] /\ messageRumor'[k] = messageRumor[k]
           /\ unprocessedRumor'[k] = unprocessedRumor[k]
  <2>1. CASE m \in message[n]
    BY <1>1, <1>2, <2>1 DEF Settled, tables
  <2>2. CASE m \notin message[n]
    BY <1>1, <1>2, <1>3, <2>2, InsertSettles DEF CanTry
  <2> QED  BY <2>1, <2>2
<1>8. Settled(n)'
  <2>1. \A k \in message'[n] : Depends[k] \subseteq message'[n]
    BY <1>2, <1>7 DEF Settled, CanHandle
  <2>2. \A x \in messageRumor'[n] : \A d \in Depends[x[1]] : Related(n, d)'
    BY <1>2, <1>7 DEF Settled, Related
  <2>3. \A k \in message'[n] : Related(n, k)' \/ k \in h.rumor.messages
    <3>1. m \in hub[n].rumor.messages
      BY <1>2, <1>3 DEF Receiving
    <3> QED  BY <1>2, <1>5, <1>7, <3>1 DEF Settled, Related
  <2>4. \A s \in sent' : s.rumor = h.rumor.rumor => s.past \subseteq rumor'[n]
    BY <1>2, <1>5 DEF Settled
  <2>5. ASSUME NEW x \in left, PathLength[x] < PathLength[m], CanHandle(n, x)'
        PROVE  FALSE
    <3>1. x \in hub[n].left /\ x \in Message /\ PathLength[x] \in Nat /\ PathLength[m] \in Nat
      BY <1>3 DEF left
    <3>2. m \notin Depends[x]
      BY <2>5, <3>1 DEF Grounded
    <3>3. CanHandle(n, x)
      BY <1>7, <2>5, <3>2 DEF CanHandle
    <3>4. PathLength[x] >= hub[n].at
      BY <1>2, <1>3, <3>1, <3>3 DEF Settled
    <3>5. x \in CanTry(n, hub[n])
      BY <3>1, <3>3, <3>4 DEF CanTry
    <3> QED  BY <2>5, <3>1, <3>5 DEF NextTried
  <2> QED  BY <1>5, <1>6, <1>7, <2>1, <2>2, <2>3, <2>4, <2>5 DEF Settled
<1> QED  BY <1>2, <1>6, <1>7, <1>8, OneServerPrompt

(***************************************************************************)
(* A message that needs no other one of those that are left could have     *)
(* been handled: what it needs was stored before the rumor, or with it.    *)
(***************************************************************************)
LEMMA NothingLeft ==
  ASSUME Grounded, IInv, Carried, Prompt, NoneSentWithLess, NEW n \in Server,
         hub[n].pc = "rumor",
         CanTry(n, hub[n]) = {}
  PROVE  /\ hub[n].left = {}
         /\ \A m \in hub[n].rumor.messages : \A d \in Depends[m] :
              d \in hub[n].rumor.messages \/ Related(n, d)
<1>1. /\ Types /\ SentOnce /\ Agree(n) /\ Handling(n) /\ Receiving(n) /\ Serving(n)
      /\ Covered /\ Settled(n)
  BY DEF IInv, Carried, Prompt
<1>2. /\ hub[n].left \in SUBSET Message /\ hub[n].at \in Nat
      /\ hub[n].left \subseteq hub[n].rumor.messages
      /\ hub[n].rumor.messages \in SUBSET Message
  BY <1>1, HubTypes DEF Receiving, Retold
<1>3. PICK s \in sent : s.rumor = hub[n].rumor.rumor /\ s.messages = hub[n].rumor.messages
  BY <1>1 DEF Receiving, Sound, NoneSentWithLess
<1>4. s.past \subseteq rumor[n]
  BY <1>1, <1>3 DEF Settled
<1>5. ASSUME NEW m \in s.messages, NEW d \in Depends[m]
      PROVE  d \in s.messages \/ Related(n, d)
  <2> SUFFICES ASSUME d \notin s.messages PROVE Related(n, d)
    OBVIOUS
  <2>1. PICK t \in sent : t.rumor \in rumor[n] /\ d \in t.messages
    BY <1>1, <1>4 DEF Covered
  <2>2. d \in Message
    BY <1>2, <1>3, MessagesAssumption
  <2>3. <<d, t.rumor>> \in messageRumor[n]
    BY <1>1, <2>1, <2>2 DEF Serving, Settled, NoneSentWithLess
  <2> QED  BY <2>3 DEF Related
<1>6. \A d : Related(n, d) => d \in message[n]
  BY <1>1 DEF Agree, Related
<1>7. hub[n].left = {}
  <2> SUFFICES ASSUME hub[n].left # {} PROVE FALSE
    OBVIOUS
  <2>1. PICK m \in hub[n].left : Depends[m] \cap hub[n].left = {}
    BY <1>2 DEF Grounded
  <2>2. \A d \in Depends[m] : d \in message[n]
    BY <1>1, <1>2, <1>3, <1>5, <1>6, <2>1 DEF Handling
  <2>3. CanHandle(n, m) /\ PathLength[m] \in Nat
    BY <1>2, <2>2, MessagesAssumption DEF CanHandle
  <2>4. PathLength[m] >= hub[n].at
    BY <1>1, <1>2, <2>1, <2>3 DEF Settled
  <2> QED  BY <2>1, <2>3, <2>4 DEF CanTry
<1> QED  BY <1>3, <1>5, <1>7

LEMMA StoreRumorPrompt ==
  ASSUME Grounded, IInv, Carried, Prompt, NoneSentWithLess, NEW n \in Server,
         StoreRumor(n)
  PROVE  Prompt'
<1> DEFINE h == hub[n]
           r == h.rumor.rumor
           new == Relation(h.left, r)
           handled == Relation(h.rumor.messages \ h.left, r)
           retry == [pc |-> "retry", at |-> 0, left |-> unprocessed[n] \cup h.left]
<1>1. /\ Types /\ Agree(n) /\ Settled(n) /\ h.pc = "rumor" /\ CanTry(n, h) = {}
      /\ rumor' = [rumor EXCEPT ![n] = rumor[n] \cup {r}]
      /\ unprocessedRumor' = [unprocessedRumor EXCEPT ![n] = unprocessedRumor[n] \cup new]
      /\ messageRumor' = [messageRumor EXCEPT ![n] = messageRumor[n] \cup handled]
      /\ hub' = [hub EXCEPT ![n] = retry]
      /\ UNCHANGED <<message, sent>>
  BY DEF IInv, Prompt, StoreRumor
<1>2. /\ h.left = {}
      /\ \A m \in h.rumor.messages : \A d \in Depends[m] :
           d \in h.rumor.messages \/ Related(n, d)
  BY <1>1, NothingLeft
<1>3. unprocessed[n] = {} /\ unprocessedRumor[n] = {}
  BY <1>1 DEF Agree, Settled
<1>4. retry.pc = "retry" /\ retry.left = {}
  BY <1>2, <1>3
<1>5. new = {}
  BY <1>2 DEF Relation
<1>6. /\ \A m \in h.rumor.messages : \E x \in handled : x[1] = m
      /\ \A x \in handled : x[1] \in h.rumor.messages
  <2>1. h.rumor.messages \ h.left = h.rumor.messages
    BY <1>2
  <2>2. h.rumor.messages \in SUBSET Message /\ r \in Rumor
    BY <1>1, HubTypes DEF Retold
  <2> QED  BY <2>1, <2>2, RelationIs
<1> HIDE DEF new, handled, retry
<1>7. /\ messageRumor'[n] = messageRumor[n] \cup handled /\ unprocessedRumor'[n] = {}
      /\ hub'[n] = retry
      /\ \A k \in Server : k # n =>
           /\ messageRumor'[k] = messageRumor[k] /\ unprocessedRumor'[k] = unprocessedRumor[k]
           /\ rumor'[k] = rumor[k] /\ hub'[k] = hub[k]
  BY <1>1, <1>3, <1>5 DEF Types
<1> HIDE DEF h
<1>8. \A d : Related(n, d) \/ d \in h.rumor.messages => Related(n, d)'
  BY <1>6, <1>7 DEF Related
<1>9. \A x \in messageRumor'[n] : \A d \in Depends[x[1]] : Related(n, d)'
  BY <1>1, <1>2, <1>6, <1>7, <1>8 DEF Settled
<1>10. \A m \in message[n] : Related(n, m)'
  BY <1>1, <1>8 DEF Settled, h
<1>11. Settled(n)'
  BY <1>1, <1>4, <1>7, <1>9, <1>10 DEF Settled
<1> QED  BY <1>1, <1>7, <1>11, OneServerPrompt

LEMMA RetriedPrompt ==
  ASSUME IInv, Prompt, NEW n \in Server, Retried(n)
  PROVE  Prompt'
<1>1. /\ Types /\ Settled(n) /\ hub[n].pc = "retry"
      /\ hub' = [hub EXCEPT ![n] = Idle] /\ UNCHANGED <<tables, rumor, sent>>
  BY DEF IInv, Prompt, Retried
<1>2. hub'[n].pc = "idle" /\ \A k \in Server : k # n => hub'[k] = hub[k]
  BY <1>1 DEF Types, Idle
<1>3. Settled(n)'
  BY <1>1, <1>2 DEF Settled, Related, tables
<1> QED  BY <1>1, <1>2, <1>3, OneServerPrompt DEF tables

-----------------------------------------------------------------------------
LEMMA InitUncrashed == Init => Uncrashed
<1> SUFFICES ASSUME Init PROVE Prompt /\ crashes = 0
  BY DEF Uncrashed
<1>1. Covered /\ crashes = 0
  BY DEF Init, Covered
<1>2. \A n \in Server : Settled(n)
  BY DEF Init, Settled, Idle
<1> QED  BY <1>1, <1>2 DEF Prompt

(***************************************************************************)
(* No step takes back what was sent.                                       *)
(***************************************************************************)
LEMMA SentGrows ==
  ASSUME [Next]_vars, NoneSentWithLess'
  PROVE  NoneSentWithLess
<1>1. sent \subseteq sent' /\ copies \subseteq copies'
  <2>1. CASE UNCHANGED vars
    BY <2>1 DEF vars
  <2>2. ASSUME NEW n \in Server,
               \/ \E m \in Message : Publish(n, m)
               \/ SendResult(n) \/ AddMessageToMyRumor(n) \/ HandleMessage(n)
               \/ StoreRumor(n) \/ Retried(n) \/ Restart(n)
        PROVE  UNCHANGED <<sent, copies>>
    BY <2>2 DEF Publish, SendResult, AddMessageToMyRumor, HandleMessage, StoreRumor, Retried,
                Restart
  <2>3. ASSUME NEW n \in Server, GetAndIncrementMyRumor(n)
        PROVE  sent \subseteq sent' /\ UNCHANGED copies
    BY <2>3 DEF GetAndIncrementMyRumor
  <2>4. ASSUME NEW n \in Server,
               \/ Tell(n) \/ HandleRumor(n)
               \/ \E m \in Server : HandleRumorState(n, m)
        PROVE  copies \subseteq copies' /\ UNCHANGED sent
    BY <2>4 DEF Tell, HandleRumor, HandleRumorState, SendRumor
  <2> QED  BY <2>1, <2>2, <2>3, <2>4 DEF Next
<1> QED  BY <1>1, LessStays DEF NoneSentWithLess

LEMMA NextUncrashed ==
  ASSUME Grounded, IInv, Carried, Uncrashed, [Next]_vars
  PROVE  Uncrashed'
<1>1. CASE UNCHANGED vars
  <2>1. Prompt => Prompt'
    BY <1>1 DEF vars, Prompt, Covered, Settled, Related, CanHandle
  <2> QED  BY <1>1, <2>1, SentGrows DEF vars, Uncrashed
<1>2. ASSUME NEW n \in Server, Restart(n) PROVE Uncrashed'
  <2>1. crashes \in Nat /\ crashes' = crashes + 1
    BY <1>2 DEF Restart, Uncrashed
  <2>2. crashes' \in Nat /\ crashes' # 0
    BY <2>1
  <2> QED  BY <2>2 DEF Uncrashed
<1>3. ASSUME NEW n \in Server,
             \/ \E m \in Message : Publish(n, m)
             \/ SendResult(n)
             \/ AddMessageToMyRumor(n)
             \/ GetAndIncrementMyRumor(n)
             \/ Tell(n)
             \/ \E m \in Server : HandleRumorState(n, m)
             \/ HandleRumor(n)
             \/ HandleMessage(n)
             \/ StoreRumor(n)
             \/ Retried(n)
      PROVE  Uncrashed'
  <2>1. UNCHANGED crashes
    BY <1>3 DEF Publish, SendResult, AddMessageToMyRumor, GetAndIncrementMyRumor, Tell,
                HandleRumorState, HandleRumor, HandleMessage, StoreRumor, Retried
  <2>2. ASSUME Prompt, Tell(n) \/ \E m \in Server : HandleRumorState(n, m)
        PROVE  Prompt'
    BY <2>2, SendsPrompt DEF Tell, HandleRumorState, tables
  <2>3. Prompt /\ NoneSentWithLess => Prompt'
    BY <1>3, <2>2, PublishPrompt, SendResultPrompt, AddMessagePrompt, GetAndIncrementPrompt,
       HandleRumorPrompt, HandleMessagePrompt, StoreRumorPrompt, RetriedPrompt
  <2> QED  BY <2>1, <2>3, SentGrows DEF Uncrashed
<1> QED  BY <1>1, <1>2, <1>3 DEF Next

(***************************************************************************)
(* As long as no server crashes and no rumor is sent with less, in any     *)
(* network, every message of a rumor is processed when the rumor has been  *)
(* stored.                                                                 *)
(***************************************************************************)
THEOREM ProcessedAtOnce ==
  ASSUME Grounded
  PROVE  Spec => []NothingLeftUnprocessed
<1>1. IInv /\ Carried /\ Uncrashed /\ [Next]_vars => Uncrashed'
  BY NextUncrashed
<1>2. IInv /\ Uncrashed => NothingLeftUnprocessed
  <2> SUFFICES ASSUME IInv, Uncrashed, crashes = 0, NoneSentWithLess, NEW n \in Server
               PROVE  unprocessed[n] = {}
    BY DEF NothingLeftUnprocessed
  <2> QED  BY DEF IInv, Agree, Uncrashed, Prompt, Settled
<1> QED  BY <1>1, <1>2, InitUncrashed, Invariance, CarriedInvariance, PTL DEF Spec
=============================================================================
