---------------------------- MODULE RumorMessages ----------------------------
(***************************************************************************)
(* The messages inside the rumors of the Go backend: how a published       *)
(* message gets into a rumor, what a server does with the messages of a    *)
(* rumor it receives, and with which messages it passes the rumor on.      *)
(*                                                                         *)
(* A message of a rumor may depend on messages the server does not have;   *)
(* such a message is kept in the table unprocessedMessage and is tried     *)
(* again whenever another rumor has been stored.  Every message that is    *)
(* handled is one transaction, so that a server may crash in the middle of *)
(* a rumor; the row of the rumor is stored after its messages.             *)
(*                                                                         *)
(* The transport is what module RumorGossip implements: a rumor is stored  *)
(* after everything its sender had received when it sent it, copies may be *)
(* lost, late or repeated, and a server can ask another for what it lacks. *)
(* What is kept of mongering is to which neighbours a server has told a    *)
(* rumor, and with which messages.                                         *)
(*                                                                         *)
(* Abstracted: what handling a message does, of which only the messages it *)
(* needs are left; the bound of ten rounds over the messages of a channel, *)
(* of which a rumor is assumed to hold fewer; channels with paths of equal *)
(* length, of which there is one for each length.                          *)
(***************************************************************************)
EXTENDS Naturals, FiniteSets

CONSTANTS
  Server,
  Message,
  Neighbors,    \* [Server -> SUBSET Server]
  Publishers,   \* [Message -> SUBSET Server], to whom a client publishes it
  Depends,      \* [Message -> SUBSET Message], what must be there to handle it
  PathLength,   \* [Message -> Nat], length of the path of its channel
  Asking,       \* the servers whose rumor state sender runs
  Crashable,    \* the servers that may crash; they dial all their neighbours
  MaxCrashes    \* bound on the number of crashes

ASSUME MessagesAssumption ==
  /\ Neighbors \in [Server -> SUBSET Server]
  /\ Publishers \in [Message -> SUBSET Server]
  /\ Depends \in [Message -> SUBSET Message]
  /\ PathLength \in [Message -> Nat]
  /\ Asking \subseteq Server
  /\ Crashable \subseteq Server
  /\ MaxCrashes \in Nat

VARIABLES
  message,            \* message[n]: the table message of n
  messageRumor,       \* messageRumor[n]: the relation of messages and rumors
  unprocessed,        \* unprocessed[n]: the table unprocessedMessage of n
  unprocessedRumor,   \* unprocessedRumor[n]: its relation with rumors
  rumor,              \* rumor[n]: the rumors stored by n, its open one excepted
  open,               \* open[n]: id of the open rumor of n
  told,               \* told[n]: <<r, m>> when n has told rumor r to m
  query,              \* query[n]: the rumors n tells again after an answer
  copies,             \* the copies of rumors that were sent to somebody
  sent,               \* the rumors that were closed, as their senders had them
  hub,                \* hub[n]: what the hub of n is doing
  acknowledged,       \* <<n, m>> when n told a client that m was handled
  crashes             \* number of crashes so far

tables == <<message, messageRumor, unprocessed, unprocessedRumor>>
vars == <<message, messageRumor, unprocessed, unprocessedRumor, rumor, open,
          told, query, copies, sent, hub, acknowledged, crashes>>

-----------------------------------------------------------------------------
Rumor == Server \X Nat

OpenRumor(n) == <<n, open[n]>>

Idle == [pc |-> "idle"]

(***************************************************************************)
(* The messages that the relation rel gives to rumor r.                    *)
(***************************************************************************)
MessagesOf(rel, r) == {m \in Message : <<m, r>> \in rel}

(***************************************************************************)
(* The messages of rumor r in an answer to a rumor state query.            *)
(***************************************************************************)
Served(n, r) ==
  MessagesOf(messageRumor[n], r) \cup MessagesOf(unprocessedRumor[n], r)

CanHandle(n, m) == Depends[m] \subseteq message[n]

(***************************************************************************)
(* insertMessageHelper: m is stored, and is no longer unprocessed.         *)
(***************************************************************************)
\* Mistake: the relations of an unprocessed message are not kept.
InsertMessageForgetting(n, m) ==
  /\ message' = [message EXCEPT ![n] = @ \cup {m}]
  /\ messageRumor' = messageRumor
  /\ unprocessedRumor' = [unprocessedRumor EXCEPT ![n] =
                            {x \in @ : x[1] # m}]
  /\ unprocessed' = [unprocessed EXCEPT ![n] = @ \ {m}]

\* Mistake: the message stays in the table of unprocessed messages.
InsertMessageTwice(n, m) ==
  /\ message' = [message EXCEPT ![n] = @ \cup {m}]
  /\ UNCHANGED <<messageRumor, unprocessed, unprocessedRumor>>

InsertMessage(n, m) ==
  /\ message' = [message EXCEPT ![n] = @ \cup {m}]
  /\ messageRumor' = [messageRumor EXCEPT ![n] =
                        @ \cup {x \in unprocessedRumor[n] : x[1] = m}]
  /\ unprocessedRumor' = [unprocessedRumor EXCEPT ![n] =
                            {x \in @ : x[1] # m}]
  /\ unprocessed' = [unprocessed EXCEPT ![n] = @ \ {m}]

Init ==
  /\ message = [n \in Server |-> {}]
  /\ messageRumor = [n \in Server |-> {}]
  /\ unprocessed = [n \in Server |-> {}]
  /\ unprocessedRumor = [n \in Server |-> {}]
  /\ rumor = [n \in Server |-> {}]
  /\ open = [n \in Server |-> 0]
  /\ told = [n \in Server |-> {}]
  /\ query = [n \in Server |-> {}]
  /\ copies = {}
  /\ sent = {}
  /\ hub = [n \in Server |-> Idle]
  /\ acknowledged = {}
  /\ crashes = 0

-----------------------------------------------------------------------------
(***************************************************************************)
(* Publishing: the message is handled, then the client gets its result,    *)
(* then the message is added to the open rumor.  A message the server has  *)
(* is refused.                                                             *)
(***************************************************************************)
Publish(n, m) ==
  /\ hub[n] = Idle
  /\ n \in Publishers[m]
  /\ m \notin message[n]
  /\ CanHandle(n, m)
  /\ InsertMessage(n, m)
  /\ hub' = [hub EXCEPT ![n] = [pc |-> "answer", message |-> m]]
  /\ UNCHANGED <<rumor, open, told, query, copies, sent, acknowledged, crashes>>

SendResult(n) ==
  /\ hub[n].pc = "answer"
  /\ acknowledged' = acknowledged \cup {<<n, hub[n].message>>}
  /\ hub' = [hub EXCEPT ![n].pc = "add"]
  /\ UNCHANGED <<tables, rumor, open, told, query, copies, sent, crashes>>

AddMessageToMyRumor(n) ==
  /\ hub[n].pc = "add"
  /\ messageRumor' = [messageRumor EXCEPT ![n] =
                        @ \cup {<<hub[n].message, OpenRumor(n)>>}]
  /\ hub' = [hub EXCEPT ![n] = Idle]
  /\ UNCHANGED <<message, unprocessed, unprocessedRumor, rumor, open, told, query,
                 copies, sent, acknowledged, crashes>>

(***************************************************************************)
(* The rumor sender closes the open rumor when it has a message.           *)
(***************************************************************************)
\* Mistake: the timestamp does not say what the server had received.
GetAndIncrementWithoutPast(n) ==
  LET r == OpenRumor(n)
      msgs == MessagesOf(messageRumor[n], r)
  IN /\ msgs # {}
     /\ sent' = sent \cup {[rumor |-> r, messages |-> msgs, past |-> {}]}
     /\ rumor' = [rumor EXCEPT ![n] = @ \cup {r}]
     /\ open' = [open EXCEPT ![n] = @ + 1]
     /\ query' = [query EXCEPT ![n] =
                    @ \cup {[rumor |-> r, messages |-> msgs, from |-> n]}]
     /\ UNCHANGED <<tables, told, copies, hub, acknowledged, crashes>>

GetAndIncrementMyRumor(n) ==
  LET r == OpenRumor(n)
      msgs == MessagesOf(messageRumor[n], r)
  IN /\ msgs # {}
     /\ sent' = sent \cup {[rumor |-> r, messages |-> msgs, past |-> rumor[n]]}
     /\ rumor' = [rumor EXCEPT ![n] = @ \cup {r}]
     /\ open' = [open EXCEPT ![n] = @ + 1]
     /\ query' = [query EXCEPT ![n] =
                    @ \cup {[rumor |-> r, messages |-> msgs, from |-> n]}]
     /\ UNCHANGED <<tables, told, copies, hub, acknowledged, crashes>>

-----------------------------------------------------------------------------
(***************************************************************************)
(* SendRumor: rumor q is told to one neighbour that was not told and is    *)
(* not the one it came from.                                               *)
(***************************************************************************)
Copy(n, m, q) ==
  [from |-> n, to |-> m, rumor |-> q.rumor, messages |-> q.messages]

NextTold(n, q) ==
  {m \in Neighbors[n] \ {q.from} : <<q.rumor, m>> \notin told[n]}

SendRumor(n, q) ==
  \/ /\ NextTold(n, q) = {}
     /\ UNCHANGED <<copies, told>>
  \/ \E m \in NextTold(n, q) :
       /\ copies' = copies \cup {Copy(n, m, q)}
       /\ told' = [told EXCEPT ![n] = @ \cup {<<q.rumor, m>>}]

(***************************************************************************)
(* The rumor sender tells a new rumor; the hub tells a rumor again when    *)
(* the neighbour told before has answered, until all of them were told.    *)
(***************************************************************************)
Tell(n) ==
  /\ hub[n] = Idle
  /\ \E q \in query[n] :
       /\ SendRumor(n, q)
       /\ query' = [query EXCEPT ![n] =
                      IF NextTold(n, q) = {} THEN @ \ {q} ELSE @]
  /\ UNCHANGED <<tables, rumor, open, sent, hub, acknowledged, crashes>>

(***************************************************************************)
(* Server n gets from m a rumor it lacks, out of the tables of m.          *)
(***************************************************************************)
HandleRumorState(n, m) ==
  /\ n \in Asking
  /\ m \in Neighbors[n]
  /\ hub[m] = Idle
  /\ \E r \in rumor[m] \ rumor[n] :
       copies' = copies \cup
                   {Copy(m, n, [rumor |-> r, messages |-> Served(m, r)])}
  /\ UNCHANGED <<tables, rumor, open, told, query, sent, hub, acknowledged, crashes>>

(***************************************************************************)
(* CheckRumor: n has stored all that the timestamp of r stands for.        *)
(***************************************************************************)
CheckRumor(n, r) ==
  /\ r \notin rumor[n]
  /\ \A s \in sent : s.rumor = r => s.past \subseteq rumor[n]

(***************************************************************************)
(* handleAndPropagate: the rumor is told to a neighbour, if there is one   *)
(* to tell; then its messages are handled.  What is remembered in order to *)
(* tell it again shares the map of messages with the rumor being handled.  *)
(***************************************************************************)
HandleRumor(n) ==
  /\ hub[n] = Idle
  /\ \E c \in copies :
       LET q == [rumor |-> c.rumor, messages |-> c.messages, from |-> c.from] IN
       /\ c.to = n
       /\ CheckRumor(n, c.rumor)
       /\ SendRumor(n, q)
       /\ hub' = [hub EXCEPT ![n] =
                    [pc |-> "rumor", rumor |-> q, left |-> c.messages, at |-> 0]]
  /\ UNCHANGED <<tables, rumor, open, query, sent, acknowledged, crashes>>

(***************************************************************************)
(* tryHandlingMessagesByChannel: channel by channel, shorter paths first,  *)
(* and for each channel until no message is handled any more.  A message   *)
(* that is there already counts as handled.  The next message handled by   *)
(* the loop at h is one of these.                                          *)
(***************************************************************************)
CanTry(n, h) ==
  {m \in h.left : /\ PathLength[m] >= h.at
                  /\ m \in message[n] \/ CanHandle(n, m)}

NextTried(n, h) ==
  {m \in CanTry(n, h) : \A k \in CanTry(n, h) : PathLength[m] <= PathLength[k]}

HandleMessage(n) ==
  /\ hub[n].pc \in {"rumor", "retry"}
  /\ \E m \in NextTried(n, hub[n]) :
       /\ IF m \in message[n] THEN UNCHANGED tables ELSE InsertMessage(n, m)
       /\ hub' = [hub EXCEPT ![n].left = @ \ {m}, ![n].at = PathLength[m]]
  /\ UNCHANGED <<rumor, open, told, query, copies, sent, acknowledged, crashes>>

(***************************************************************************)
(* StoreRumor, after the messages of the rumor were tried; then all that   *)
(* is unprocessed is tried again.                                          *)
(***************************************************************************)
Relation(msgs, r) == {<<m, r>> : m \in msgs}

\* Mistake: what could not be processed is tried with the next rumor only.
StoreRumorWithoutRetry(n) ==
  LET h == hub[n]
      r == h.rumor.rumor
  IN /\ h.pc = "rumor"
     /\ CanTry(n, h) = {}
     /\ rumor' = [rumor EXCEPT ![n] = @ \cup {r}]
     /\ unprocessed' = [unprocessed EXCEPT ![n] = @ \cup h.left]
     /\ unprocessedRumor' = [unprocessedRumor EXCEPT ![n] =
                               @ \cup Relation(h.left, r)]
     /\ messageRumor' = [messageRumor EXCEPT ![n] =
                           @ \cup Relation(h.rumor.messages \ h.left, r)]
     /\ query' = [query EXCEPT ![n] = @ \cup
                    {q \in {[h.rumor EXCEPT !.messages = h.left]} :
                       \E m \in Server : <<r, m>> \in told[n]}]
     /\ hub' = [hub EXCEPT ![n] = Idle]
     /\ UNCHANGED <<message, open, told, copies, sent, acknowledged, crashes>>

StoreRumor(n) ==
  LET h == hub[n]
      r == h.rumor.rumor
  IN /\ h.pc = "rumor"
     /\ CanTry(n, h) = {}
     /\ rumor' = [rumor EXCEPT ![n] = @ \cup {r}]
     /\ unprocessed' = [unprocessed EXCEPT ![n] = @ \cup h.left]
     /\ unprocessedRumor' = [unprocessedRumor EXCEPT ![n] =
                               @ \cup Relation(h.left, r)]
     /\ messageRumor' = [messageRumor EXCEPT ![n] =
                           @ \cup Relation(h.rumor.messages \ h.left, r)]
     /\ query' = [query EXCEPT ![n] = @ \cup
                    {q \in {[h.rumor EXCEPT !.messages = h.left]} :
                       \E m \in Server : <<r, m>> \in told[n]}]
     /\ hub' = [hub EXCEPT ![n] = [pc |-> "retry", at |-> 0,
                                   left |-> unprocessed[n] \cup h.left]]
     /\ UNCHANGED <<message, open, told, copies, sent, acknowledged, crashes>>

Retried(n) ==
  /\ hub[n].pc = "retry"
  /\ CanTry(n, hub[n]) = {}
  /\ hub' = [hub EXCEPT ![n] = Idle]
  /\ UNCHANGED <<tables, rumor, open, told, query, copies, sent, acknowledged, crashes>>

(***************************************************************************)
(* n crashes and starts again: the tables are left.  It dials all its      *)
(* neighbours, for which its new sockets are sockets that were told        *)
(* nothing.                                                                *)
(***************************************************************************)
Restart(n) ==
  /\ n \in Crashable
  /\ crashes < MaxCrashes
  /\ crashes' = crashes + 1
  /\ hub' = [hub EXCEPT ![n] = Idle]
  /\ query' = [query EXCEPT ![n] = {}]
  /\ told' = [k \in Server |->
                IF k = n THEN {} ELSE {t \in told[k] : t[2] # n}]
  /\ UNCHANGED <<tables, rumor, open, copies, sent, acknowledged>>

-----------------------------------------------------------------------------
Next ==
  \E n \in Server :
    \/ \E m \in Message : Publish(n, m)
    \/ SendResult(n)
    \/ AddMessageToMyRumor(n)
    \/ GetAndIncrementMyRumor(n)
    \/ Tell(n)
    \/ \E m \in Server : HandleRumorState(n, m)
    \/ HandleRumor(n)
    \/ HandleMessage(n)
    \/ StoreRumor(n)
    \/ Retried(n)
    \/ Restart(n)

Spec == Init /\ [][Next]_vars

(***************************************************************************)
(* Fairness.  The goroutines of a server keep running, and rumor states    *)
(* bring every rumor to every server in the end (RumorGossip).             *)
(***************************************************************************)
Fairness ==
  \A n \in Server :
    /\ WF_vars(SendResult(n))
    /\ WF_vars(AddMessageToMyRumor(n))
    /\ WF_vars(GetAndIncrementMyRumor(n))
    /\ WF_vars(HandleRumor(n))
    /\ WF_vars(HandleMessage(n))
    /\ WF_vars(StoreRumor(n))
    /\ WF_vars(Retried(n))
    /\ \A m \in Server : WF_vars(HandleRumorState(n, m))

FairSpec == Spec /\ Fairness

-----------------------------------------------------------------------------
(***************************************************************************)
(* Properties.                                                             *)
(***************************************************************************)

(***************************************************************************)
(* The tables of a server agree: a message is unprocessed as long as some  *)
(* rumor brought it and it is not stored, and every relation of a message  *)
(* is with a rumor that is there.                                          *)
(***************************************************************************)
TablesAgree ==
  \A n \in Server :
    /\ unprocessed[n] \cap message[n] = {}
    /\ unprocessed[n] = {x[1] : x \in unprocessedRumor[n]}
    /\ {x[1] : x \in messageRumor[n]} \subseteq message[n]
    /\ {x[2] : x \in messageRumor[n] \cup unprocessedRumor[n]}
         \subseteq rumor[n] \cup {OpenRumor(n)}

(***************************************************************************)
(* Every server that has stored a rumor has all of its messages, processed *)
(* or not, and serves them to those who ask.  docs/protocol.md says of a   *)
(* rumor that a server "propagates to all Servers in the network messages  *)
(* it encapsulates".                                                       *)
(***************************************************************************)
RumorsAreComplete ==
  \A n \in Server : \A s \in sent :
    s.rumor \in rumor[n] => Served(n, s.rumor) = s.messages

(***************************************************************************)
(* Some server has sent rumor r with all of its messages, and then again   *)
(* with what was left of them when it had handled the others.              *)
(***************************************************************************)
SentWithLess(r) ==
  \E s \in sent : \E c, d \in copies :
    /\ s.rumor = r /\ c.rumor = r /\ d.rumor = r
    /\ c.from = d.from
    /\ d.messages = s.messages /\ c.messages # s.messages

NoneSentWithLess == \A s \in sent : ~SentWithLess(s.rumor)

(***************************************************************************)
(* That is the only way to lose a message of a rumor, in any network and   *)
(* whatever is lost, repeated or cut short by a crash: a server that has   *)
(* stored a rumor lacks none of its messages, unless somebody has sent the *)
(* rumor a second time, with less.                                         *)
(***************************************************************************)
CompleteUnlessSentAgain ==
  \A n \in Server : \A s \in sent :
    s.rumor \in rumor[n] =>
      Served(n, s.rumor) = s.messages \/ SentWithLess(s.rumor)

(***************************************************************************)
(* Rumors arrive in causal order, so that the messages of a rumor can all  *)
(* be handled at once: as long as nothing crashes and every rumor is sent  *)
(* with all its messages, no message is left unprocessed when its rumor    *)
(* has been stored.                                                        *)
(***************************************************************************)
NothingLeftUnprocessed ==
  crashes = 0 /\ NoneSentWithLess =>
    \A n \in Server : hub[n] = Idle => unprocessed[n] = {}

(***************************************************************************)
(* Every message of a rumor that was closed is processed by every server   *)
(* in the end, although servers that pass it on may crash; and so is every *)
(* message that a server which does not crash has acknowledged: unless     *)
(* some rumor is sent a second time, with less.                            *)
(***************************************************************************)
Processed(m) == \A n \in Server : m \in message[n]

Due(m) ==
  \/ \E s \in sent : m \in s.messages
  \/ \E n \in Server \ Crashable : <<n, m>> \in acknowledged

EventuallyProcessed ==
  <>[](\A m \in Message : Due(m) => Processed(m) \/ ~NoneSentWithLess)

=============================================================================
