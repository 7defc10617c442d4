-------------------------- MODULE HubPipelineProofs --------------------------
(***************************************************************************)
(* The goroutines of a backend, for any number of sockets, any size of     *)
(* their send channels and any number of messages and ticks: what a        *)
(* goroutine that holds the lock of Sockets has left to do, and which      *)
(* pumps and goroutines are left as the shutdown goes on.                  *)
(***************************************************************************)
EXTENDS HubPipeline, FiniteSetTheorems, SequenceTheorems, TLAPS

Sending == [op : {"send"}, socket : Socket]

Instruction ==
       Sending \cup [op : {"upsert"}, socket : Socket]
  \cup [op : {"SendRumor", "SendToAll", "SendToRandom", "unlock", "notify"}]

Types ==
  /\ conn \in [Socket -> {"new", "arrived", "up", "lost", "closed"}]
  /\ reader \in [Socket -> {"off", "reading", "offering", "closing", "ended"}]
  /\ writer \in [Socket -> {"off", "writing", "closing", "ended"}]
  /\ queue \in [Socket -> 0 .. Capacity]
  /\ received \in [Socket -> 0 .. MaxMessages]
  /\ subs \subseteq Client /\ IsFiniteSet(subs)
  /\ store \subseteq Socket /\ IsFiniteSet(store)
  /\ holders \subseteq Thread /\ exclusive \in BOOLEAN
  /\ todo \in [Thread -> Seq(Instruction)]
  /\ ticks \in 0 .. MaxTicks
  /\ exited \subseteq Goroutine
  /\ phase \in {"running", "closing clients", "clients", "closing servers", "servers",
               "hub", "stopped"}

(***************************************************************************)
(* What is left to do ends with unlocking the lock of Sockets.             *)
(***************************************************************************)
Unlocks(p) == p # << >> /\ p[Len(p)].op = "unlock"

(***************************************************************************)
(* Calling what takes the lock is the last thing a goroutine does, and     *)
(* there is nothing but writing to sockets before the lock is released.    *)
(***************************************************************************)
Ending == {"SendRumor", "SendToAll", "SendToRandom", "unlock"}

Tidy(p) ==
  /\ \A i \in 1 .. Len(p) : p[i].op \in Ending => i = Len(p)
  /\ Unlocks(p) => \A i \in 1 .. Len(p) : i < Len(p) => p[i].op = "send"

Locks ==
  /\ \A t \in Thread : Tidy(todo[t]) /\ (t \in holders <=> Unlocks(todo[t]))
  /\ exclusive => \E t \in Thread : holders = {t}

(***************************************************************************)
(* What each phase of the shutdown waited for stays as it was.             *)
(***************************************************************************)
Phases ==
  /\ phase \notin {"running", "closing clients"} => NoHandler(Client)
  /\ phase \in {"servers", "hub", "stopped"} => NoHandler(Peer)
  /\ phase \in {"closing servers", "servers", "hub", "stopped"} =>
       Quiet(Client) /\ todo["accept"] = << >>
  /\ phase \in {"hub", "stopped"} => Quiet(Peer)
  /\ phase \notin {"hub", "stopped"} => exited = {}
  /\ \A t \in exited : todo[t] = << >>
  /\ phase = "stopped" => exited = Goroutine

IInv == Types /\ Locks /\ Phases

-----------------------------------------------------------------------------
(***************************************************************************)
(* Programs: sequences of instructions.                                    *)
(***************************************************************************)
LEMMA TailFacts ==
  ASSUME NEW S, NEW p \in Seq(S), p # << >>
  PROVE  /\ Tail(p) \in Seq(S) /\ Len(p) \in Nat \ {0} /\ Head(p) = p[1]
         /\ Len(Tail(p)) = Len(p) - 1
         /\ \A i \in 1 .. Len(p) - 1 : Tail(p)[i] = p[i + 1]
         /\ Len(p) = 1 => Tail(p) = << >>
         /\ Len(p) > 1 => Tail(p) # << >>
<1>1. /\ Tail(p) \in Seq(S) /\ Len(p) \in Nat \ {0} /\ Head(p) = p[1]
      /\ Len(Tail(p)) = Len(p) - 1
  BY HeadTailProperties, EmptySeq
<1>2. \A i \in 1 .. Len(p) - 1 : Tail(p)[i] = p[i + 1]
  OBVIOUS
<1>3. Len(p) = 1 => Tail(p) = << >>
  <2> SUFFICES ASSUME Tail(p) # << >> PROVE Len(p) # 1
    OBVIOUS
  <2> QED  BY <1>1, EmptySeq
<1>4. Len(p) > 1 => Tail(p) # << >>
  <2> DEFINE n == Len(p)
             k == Len(Tail(p))
  <2>1. n \in Nat /\ k = n - 1
    BY <1>1
  <2> HIDE DEF n, k
  <2>2. n > 1 => k # 0
    BY <2>1
  <2>3. Tail(p) = << >> => k = 0
    BY EmptySeq DEF k
  <2> QED  BY <2>2, <2>3 DEF n
<1> QED  BY <1>1, <1>2, <1>3, <1>4

LEMMA TidyTail ==
  ASSUME NEW p \in Seq(Instruction), p # << >>, Tidy(p)
  PROVE  /\ Tail(p) \in Seq(Instruction) /\ Tidy(Tail(p))
         /\ Head(p).op \in Ending => Tail(p) = << >>
         /\ Head(p).op # "unlock" => (Unlocks(Tail(p)) <=> Unlocks(p))
         /\ Head(p).op \notin {"send", "unlock"} => ~Unlocks(p)
         /\ Head(p).op = "unlock" => Unlocks(p)
<1>1. /\ Tail(p) \in Seq(Instruction) /\ Len(p) \in Nat \ {0} /\ Head(p) = p[1]
      /\ Len(Tail(p)) = Len(p) - 1
      /\ \A i \in 1 .. Len(p) - 1 : Tail(p)[i] = p[i + 1]
      /\ Len(p) = 1 => Tail(p) = << >>
      /\ Len(p) > 1 => Tail(p) # << >>
  BY TailFacts
<1>2. CASE Len(p) = 1
  <2>1. Tail(p) = << >>
    BY <1>1, <1>2
  <2>2. Tidy(Tail(p)) /\ ~Unlocks(Tail(p))
    BY <2>1, EmptySeq DEF Tidy, Unlocks
  <2>3. Unlocks(p) <=> Head(p).op = "unlock"
    BY <1>1, <1>2 DEF Unlocks
  <2> QED  BY <1>1, <2>1, <2>2, <2>3
<1>3. CASE Len(p) > 1
  <2>1. Tail(p)[Len(Tail(p))] = p[Len(p)]
    BY <1>1, <1>3
  <2>2. Unlocks(Tail(p)) <=> Unlocks(p)
    BY <1>1, <1>3, <2>1 DEF Unlocks
  <2>3. p[1].op \notin Ending /\ (Unlocks(p) => p[1].op = "send")
    <3>1. 1 \in 1 .. Len(p) /\ 1 < Len(p) /\ 1 # Len(p)
      BY <1>1, <1>3
    <3> QED  BY <3>1 DEF Tidy
  <2>4. ASSUME NEW i \in 1 .. Len(Tail(p))
        PROVE  /\ i + 1 \in 1 .. Len(p) /\ Tail(p)[i] = p[i + 1]
               /\ i = Len(Tail(p)) <=> i + 1 = Len(p)
               /\ i < Len(Tail(p)) <=> i + 1 < Len(p)
    BY <1>1, <1>3
  <2>5. Tidy(Tail(p))
    BY <2>2, <2>4 DEF Tidy
  <2> QED  BY <1>1, <2>2, <2>3, <2>5 DEF Ending
<1> QED  BY <1>1, <1>2, <1>3

(***************************************************************************)
(* Some sends and one more instruction.                                    *)
(***************************************************************************)
LEMMA SendsThen ==
  ASSUME NEW p \in Seq(Sending), NEW x \in Instruction
  PROVE  /\ p \o <<x>> \in Seq(Instruction) /\ Tidy(p \o <<x>>) /\ p \o <<x>> # << >>
         /\ Unlocks(p \o <<x>>) <=> x.op = "unlock"
<1> DEFINE r == p \o <<x>>
<1>1. Sending \subseteq Instruction /\ p \in Seq(Instruction) /\ <<x>> \in Seq(Instruction)
  BY DEF Instruction
<1>2. \A i \in 1 .. Len(p) : p[i].op = "send"
  <2>1. \A i \in 1 .. Len(p) : p[i] \in Sending
    BY ElementOfSeq
  <2> QED  BY <2>1 DEF Sending
<1>3. /\ r \in Seq(Instruction) /\ Len(p) \in Nat /\ Len(r) = Len(p) + 1 /\ r # << >>
      /\ \A i \in 1 .. Len(p) : r[i] = p[i] /\ p[i].op = "send"
      /\ r[Len(r)] = x
  <2>1. r \in Seq(Instruction) /\ Len(p) \in Nat /\ Len(r) = Len(p) + 1
    BY <1>1
  <2>2. \A i \in 1 .. Len(p) : r[i] = p[i]
    BY <1>1
  <2>3. r[Len(p) + 1] = x
    BY <1>1
  <2> QED  BY <1>2, <2>1, <2>2, <2>3, EmptySeq
<1> HIDE DEF r
<1>4. \A i \in 1 .. Len(r) : i < Len(r) => r[i].op = "send"
  BY <1>3
<1>5. Unlocks(r) <=> x.op = "unlock"
  BY <1>3 DEF Unlocks
<1>6. Tidy(r)
  BY <1>3, <1>4 DEF Tidy, Ending
<1> QED  BY <1>3, <1>5, <1>6 DEF r

(***************************************************************************)
(* Writing to all sockets of a set, one after the other.                   *)
(***************************************************************************)
LEMMA SendsToAll ==
  ASSUME NEW S \in SUBSET Socket, IsFiniteSet(S), NEW order \in SetToSeqs(S)
  PROVE  SendEach(order) \in Seq(Sending)
<1>1. Cardinality(S) \in Nat /\ order \in [1 .. Cardinality(S) -> S]
  BY FS_CardinalityType DEF SetToSeqs
<1>2. \A i \in DOMAIN order : order[i] \in Socket /\ Send(order[i]) \in Sending
  BY <1>1 DEF Send, Sending
<1>3. DOMAIN order = 1 .. Cardinality(S)
  BY <1>1
<1>4. SendEach(order) \in [1 .. Cardinality(S) -> Sending]
  BY <1>2, <1>3 DEF SendEach
<1> QED  BY <1>1, <1>4

LEMMA ShortPrograms ==
  /\ \A x \in Instruction : <<x>> \in Seq(Instruction) /\ Tidy(<<x>>)
                            /\ (Unlocks(<<x>>) <=> x.op = "unlock")
  /\ \A s \in Socket, x \in Instruction :
       /\ <<Send(s), x>> \in Seq(Instruction) /\ Tidy(<<Send(s), x>>)
       /\ Unlocks(<<Send(s), x>>) <=> x.op = "unlock"
  /\ \A s \in Socket : /\ <<Upsert(s), Send(s)>> \in Seq(Instruction)
                       /\ Tidy(<<Upsert(s), Send(s)>>) /\ ~Unlocks(<<Upsert(s), Send(s)>>)
  /\ << >> \in Seq(Instruction) /\ Tidy(<< >>) /\ ~Unlocks(<< >>)
BY DEF Instruction, Sending, Send, Upsert, Tidy, Unlocks, Ending

LEMMA Instructions ==
  /\ \A s \in Socket : Send(s) \in Sending /\ Send(s) \in Instruction /\ Upsert(s) \in Instruction
  /\ {SendRumor, SendToAll, SendToRandom, Unlock, NotifyResetRumorSender} \subseteq Instruction
  /\ \A s \in Socket : Send(s).op = "send" /\ Upsert(s).op = "upsert"
  /\ SendRumor.op = "SendRumor" /\ SendToAll.op = "SendToAll" /\ SendToRandom.op = "SendToRandom"
  /\ Unlock.op = "unlock" /\ NotifyResetRumorSender.op = "notify"
BY DEF Instruction, Sending, Send, Upsert, SendRumor, SendToAll, SendToRandom, Unlock,
       NotifyResetRumorSender

(***************************************************************************)
(* The programs of the hub and of the tickers do not unlock anything.      *)
(***************************************************************************)
LEMMA HubPrograms ==
  ASSUME Types, NEW s \in Socket, NEW p \in Programs(s)
  PROVE  p \in Seq(Instruction) /\ Tidy(p) /\ ~Unlocks(p)
<1>1. CASE p \in {<<Send(s)>>, <<Send(s), SendRumor>>, <<SendRumor>>}
  BY <1>1, ShortPrograms, Instructions
<1>2. CASE s \in Client /\ p \in PublishPrograms(s)
  <2>1. PICK order \in SetToSeqs(subs), end \in {<< >>, <<NotifyResetRumorSender>>} :
          p = SendEach(order) \o <<Send(s)>> \o end
    BY <1>2 DEF PublishPrograms
  <2> DEFINE sends == SendEach(order)
  <2>2. sends \in Seq(Sending)
    BY SendsToAll DEF Types, Socket
  <2> HIDE DEF sends
  <2>3. sends \o <<Send(s)>> \in Seq(Sending) /\ sends \o <<Send(s)>> \in Seq(Instruction)
    <3>1. Send(s) \in Sending /\ Send(s) \in Instruction
      BY Instructions
    <3>2. sends \o <<Send(s)>> \in Seq(Sending)
      BY <2>2, <3>1
    <3> QED  BY <2>2, <3>1, <3>2, SendsThen
  <2>4. p = (sends \o <<Send(s)>>) \o end
    BY <2>1 DEF sends
  <2>5. CASE end = << >>
    <3>1. p = sends \o <<Send(s)>>
      BY <2>3, <2>4, <2>5
    <3> QED  BY <2>2, <3>1, SendsThen, Instructions
  <2>6. CASE end = <<NotifyResetRumorSender>>
    BY <2>3, <2>4, <2>6, SendsThen, Instructions
  <2> QED  BY <2>1, <2>5, <2>6
<1> QED  BY <1>1, <1>2 DEF Programs

-----------------------------------------------------------------------------
(***************************************************************************)
(* Steps of one thread, with regard to the lock.                           *)
(***************************************************************************)
LEMMA TodoSet ==
  ASSUME todo \in [Thread -> Seq(Instruction)], NEW t \in Thread
  PROVE  \A p \in Seq(Instruction) : todo' = [todo EXCEPT ![t] = p] =>
           /\ todo' \in [Thread -> Seq(Instruction)] /\ todo'[t] = p
           /\ \A k \in Thread : k # t => todo'[k] = todo[k]
OBVIOUS

LEMMA NoLock ==
  ASSUME Locks, NEW t \in Thread, Tidy(todo'[t]), Unlocks(todo'[t]) <=> Unlocks(todo[t]),
         \A k \in Thread : k # t => todo'[k] = todo[k],
         UNCHANGED <<holders, exclusive>>
  PROVE  Locks'
BY DEF Locks

(***************************************************************************)
(* A thread that has nothing left to do, or that is about to do something  *)
(* other than to write or to unlock, does not hold the lock.               *)
(***************************************************************************)
LEMMA Waiting ==
  ASSUME Types, Locks, NEW t \in Thread,
         todo[t] = << >> \/ Head(todo[t]).op \notin {"send", "unlock"}
  PROVE  ~Unlocks(todo[t]) /\ t \notin holders
<1>1. CASE todo[t] = << >>
  BY <1>1 DEF Locks, Unlocks
<1>2. CASE todo[t] # << >>
  BY <1>2, TidyTail DEF Types, Locks
<1> QED  BY <1>1, <1>2

(***************************************************************************)
(* The sockets of the servers that are told a message are in the model.    *)
(***************************************************************************)
LEMMA SocketsOf ==
  ASSUME Types
  PROVE  /\ \A s \in store : s \in Socket
         /\ \A t \in Thread : todo[t] # << >> =>
              /\ Head(todo[t]) \in Instruction
              /\ Head(todo[t]).op \in {"send", "upsert"} => Head(todo[t]).socket \in Socket
<1>1. \A s \in store : s \in Socket
  BY DEF Types
<1>2. ASSUME NEW t \in Thread, todo[t] # << >>
      PROVE  Head(todo[t]) \in Instruction
  BY <1>2, HeadTailProperties DEF Types
<1>3. \A x \in Instruction : x.op \in {"send", "upsert"} => x.socket \in Socket
  BY DEF Instruction, Sending
<1> QED  BY <1>1, <1>2, <1>3

-----------------------------------------------------------------------------
(***************************************************************************)
(* The phases of the shutdown.                                             *)
(***************************************************************************)
LEMMA QuietStays ==
  ASSUME NEW s \in Socket, NEW S \in SUBSET Socket, Quiet(S),
         \A k \in Socket : k # s => reader'[k] = reader[k] /\ writer'[k] = writer[k],
         Quiet({s}) => Quiet({s})'
  PROVE  Quiet(S)'
BY DEF Quiet

(***************************************************************************)
(* A step of the pumps of s, or of a thread that is not over.              *)
(***************************************************************************)
LEMMA PhasesStay ==
  ASSUME Phases, NEW s \in Socket, Quiet({s}) => Quiet({s})',
         \A k \in Socket : k # s => reader'[k] = reader[k] /\ writer'[k] = writer[k],
         \A k \in Socket : conn'[k] = "arrived" => conn[k] = "arrived",
         \A t \in Thread : todo'[t] = todo[t] \/ (t \notin exited /\ (t = "accept" => todo[t] # << >>)),
         exited \subseteq Thread,
         UNCHANGED <<exited, phase>>
  PROVE  Phases'
<1>1. (Quiet(Client) => Quiet(Client)') /\ (Quiet(Peer) => Quiet(Peer)')
  BY QuietStays DEF Socket
<1>2. todo["accept"] = << >> => todo'["accept"] = << >>
  BY DEF Thread
<1>3. \A t \in exited : todo'[t] = << >>
  BY DEF Phases
<1>4. (NoHandler(Client) => NoHandler(Client)') /\ (NoHandler(Peer) => NoHandler(Peer)')
  BY DEF NoHandler, Socket
<1> QED  BY <1>1, <1>2, <1>3, <1>4 DEF Phases

LEMMA PhasesOfThreads ==
  ASSUME Phases, exited \subseteq Thread, UNCHANGED <<conn, reader, writer, exited, phase>>,
         \A t \in Thread : todo'[t] = todo[t] \/ (t \notin exited /\ (t = "accept" => todo[t] # << >>))
  PROVE  Phases'
<1>1. todo["accept"] = << >> => todo'["accept"] = << >>
  BY DEF Thread
<1>2. \A t \in exited : todo'[t] = << >>
  BY DEF Phases
<1> QED  BY <1>1, <1>2 DEF Phases, Quiet, NoHandler

-----------------------------------------------------------------------------
(***************************************************************************)
(* Connections and pumps.                                                  *)
(***************************************************************************)
LEMMA ArriveKeeps ==
  ASSUME IInv, NEW s \in Socket, Arrive(s)
  PROVE  IInv'
<1>1. /\ Types /\ Locks /\ Phases /\ Open(s)
      /\ conn' = [conn EXCEPT ![s] = "arrived"]
      /\ UNCHANGED <<reader, writer, queue, received, subs, locks, todo, ticks, exited, phase>>
  BY DEF IInv, Arrive
<1>2. Types' /\ Locks'
  BY <1>1 DEF Types, Locks, locks
<1>3. phase' = phase /\ exited' = exited /\ todo' = todo
  BY <1>1
<1>4. (Quiet(Client) => Quiet(Client)') /\ (Quiet(Peer) => Quiet(Peer)')
  BY <1>1 DEF Quiet
<1>5. phase \notin {"running", "closing clients"} => NoHandler(Client)'
  BY <1>1, PipelineAssumption DEF Phases, NoHandler, Open, Types, Socket
<1>6. phase \in {"servers", "hub", "stopped"} => NoHandler(Peer)'
  BY <1>1, PipelineAssumption DEF Phases, NoHandler, Open, Types, Socket
<1>7. Phases'
  BY <1>1, <1>3, <1>4, <1>5, <1>6 DEF Phases
<1> QED  BY <1>2, <1>7 DEF IInv

LEMMA ServeHTTPKeeps ==
  ASSUME IInv, NEW s \in Socket, ServeHTTP(s)
  PROVE  IInv'
<1>1. /\ Types /\ Locks /\ Phases /\ phase \in {"running", "closing clients", "clients"}
      /\ conn' = [conn EXCEPT ![s] = "up"]
      /\ reader' = [reader EXCEPT ![s] = "reading"]
      /\ writer' = [writer EXCEPT ![s] = "writing"]
      /\ UNCHANGED <<queue, received, subs, locks, ticks, exited, phase>>
  BY DEF IInv, ServeHTTP, Open
<1> DEFINE p == <<Upsert(s), Send(s)>>
<1>2. p \in Seq(Instruction) /\ Tidy(p) /\ ~Unlocks(p) /\ "accept" \in Thread
  BY ShortPrograms DEF Thread
<1> HIDE DEF p
<1>3. todo' \in [Thread -> Seq(Instruction)] /\ Locks'
  <2>1. CASE s \in Peer
    <3>1. todo' = [todo EXCEPT !["accept"] = p] /\ todo["accept"] = << >>
      BY <2>1 DEF ServeHTTP, p
    <3>2. /\ todo' \in [Thread -> Seq(Instruction)] /\ todo'["accept"] = p
          /\ \A k \in Thread : k # "accept" => todo'[k] = todo[k]
      BY <1>1, <1>2, <3>1, TodoSet DEF Types
    <3>3. ~Unlocks(todo["accept"])
      BY <3>1 DEF Unlocks
    <3> QED  BY <1>1, <1>2, <3>2, <3>3, NoLock DEF locks
  <2>2. CASE s \notin Peer
    <3>1. todo' = todo /\ UNCHANGED <<holders, exclusive>>
      BY <1>1, <2>2 DEF ServeHTTP, locks
    <3> QED  BY <1>1, <3>1 DEF Types, Locks
  <2> QED  BY <2>1, <2>2
<1>4. Types'
  BY <1>1, <1>3 DEF Types, locks
<1>5. NoHandler(Client) => NoHandler(Client)'
  <2>1. \A k \in Socket : conn'[k] = "arrived" => conn[k] = "arrived"
    BY <1>1 DEF Types
  <2> QED  BY <2>1 DEF NoHandler, Socket
<1>6. Phases'
  BY <1>1, <1>5 DEF Phases
<1> QED  BY <1>3, <1>4, <1>6 DEF IInv

LEMMA PumpKeeps ==
  ASSUME IInv, NEW s \in Socket, Lose(s) \/ Read(s) \/ ReaderEnds(s) \/ Write(s) \/ WriterEnds(s)
  PROVE  IInv'
<1>1. /\ Types /\ Locks /\ Phases /\ UNCHANGED <<subs, locks, todo, ticks, exited, phase>>
  BY DEF IInv, Lose, Read, ReaderEnds, Write, WriterEnds
<1>2. /\ conn' \in [Socket -> {"new", "arrived", "up", "lost", "closed"}]
      /\ reader' \in [Socket -> {"off", "reading", "offering", "closing", "ended"}]
      /\ writer' \in [Socket -> {"off", "writing", "closing", "ended"}]
      /\ \A k \in Socket : k # s => reader'[k] = reader[k] /\ writer'[k] = writer[k]
      /\ Quiet({s}) => Quiet({s})'
      /\ \A k \in Socket : conn'[k] = "arrived" => conn[k] = "arrived"
  <2>1. CASE Lose(s) \/ Write(s)
    BY <1>1, <2>1 DEF Types, Lose, Write, pumps, Quiet
  <2>2. CASE Read(s)
    BY <1>1, <2>2 DEF Types, Read, Quiet
  <2>3. CASE ReaderEnds(s)
    BY <1>1, <2>3 DEF Types, ReaderEnds, Quiet
  <2>4. CASE WriterEnds(s)
    BY <1>1, <2>4 DEF Types, WriterEnds, Quiet
  <2> QED  BY <2>1, <2>2, <2>3, <2>4
<1>3. queue' \in [Socket -> 0 .. Capacity] /\ received' \in [Socket -> 0 .. MaxMessages]
  <2>1. CASE Write(s)
    <3>1. queue[s] - 1 \in 0 .. Capacity
      <4>1. queue[s] \in 0 .. Capacity /\ queue[s] > 0
        BY <1>1, <2>1 DEF Types, Write
      <4> QED  BY <4>1, PipelineAssumption
    <3>2. queue' = [queue EXCEPT ![s] = queue[s] - 1]
      BY <2>1 DEF Write
    <3> QED  BY <1>1, <2>1, <3>1, <3>2 DEF Types, Write
  <2>2. CASE Read(s)
    <3>1. received[s] + 1 \in 0 .. MaxMessages
      <4>1. received[s] \in 0 .. MaxMessages /\ received[s] < MaxMessages
        BY <1>1, <2>2 DEF Types, Read
      <4> QED  BY <4>1, PipelineAssumption
    <3>2. received' = [received EXCEPT ![s] = received[s] + 1]
      BY <2>2 DEF Read
    <3> QED  BY <1>1, <2>2, <3>1, <3>2 DEF Types, Read
  <2>3. CASE Lose(s) \/ ReaderEnds(s) \/ WriterEnds(s)
    BY <1>1, <2>3 DEF Types, Lose, ReaderEnds, WriterEnds
  <2> QED  BY <2>1, <2>2, <2>3
<1>4. Types'
  BY <1>1, <1>2, <1>3 DEF Types, locks
<1>5. Locks'
  BY <1>1 DEF Locks, locks
<1>6. Phases'
  BY <1>1, <1>2, PhasesStay DEF Types, Thread
<1> QED  BY <1>4, <1>5, <1>6 DEF IInv

-----------------------------------------------------------------------------
(***************************************************************************)
(* The hub between two messages.                                           *)
(***************************************************************************)
LEMMA ReceiveKeeps ==
  ASSUME IInv, NEW s \in Socket, Receive(s)
  PROVE  IInv'
<1>1. /\ Types /\ Locks /\ Phases /\ todo["hub"] = << >> /\ "hub" \notin exited
      /\ reader[s] = "offering" /\ reader' = [reader EXCEPT ![s] = "reading"]
      /\ UNCHANGED <<conn, writer, queue, received, locks, ticks, exited, phase>>
  BY DEF IInv, Receive, HubWaits
<1>2. PICK p \in Programs(s) : todo' = [todo EXCEPT !["hub"] = p]
  BY DEF Receive
<1>3. p \in Seq(Instruction) /\ Tidy(p) /\ ~Unlocks(p) /\ "hub" \in Thread
  BY <1>1, HubPrograms DEF Thread, Goroutine
<1>4. /\ todo' \in [Thread -> Seq(Instruction)] /\ todo'["hub"] = p
      /\ \A k \in Thread : k # "hub" => todo'[k] = todo[k]
  BY <1>1, <1>2, <1>3, TodoSet DEF Types
<1>5. Locks'
  <2>1. ~Unlocks(todo["hub"])
    BY <1>1 DEF Unlocks
  <2> QED  BY <1>1, <1>3, <1>4, <2>1, NoLock DEF locks
<1>6. subs' \subseteq Client /\ IsFiniteSet(subs')
  <2>1. CASE subs' = subs
    BY <1>1, <2>1 DEF Types
  <2>2. CASE s \in Client /\ subs' = subs \cup {s}
    BY <1>1, <2>2, FS_AddElement DEF Types
  <2> QED  BY <2>1, <2>2 DEF Receive
<1>7. /\ reader' \in [Socket -> {"off", "reading", "offering", "closing", "ended"}]
      /\ \A k \in Socket : k # s => reader'[k] = reader[k] /\ writer'[k] = writer[k]
      /\ ~Quiet({s})
  BY <1>1 DEF Types, Quiet
<1>8. Types'
  BY <1>1, <1>4, <1>6, <1>7 DEF Types, locks
<1>9. Phases'
  <2>1. \A t \in Thread : todo'[t] = todo[t] \/ (t \notin exited /\ (t = "accept" => todo[t] # << >>))
    BY <1>1, <1>4
  <2>2. exited \subseteq Thread
    BY <1>1 DEF Types, Thread
  <2> QED  BY <1>1, <1>7, <2>1, <2>2, PhasesStay
<1> QED  BY <1>5, <1>8, <1>9 DEF IInv

LEMMA UnsubscribeKeeps ==
  ASSUME IInv, NEW s \in Socket, UnsubscribeFromAll(s)
  PROVE  IInv'
<1>1. /\ Types /\ Locks /\ Phases /\ subs' = subs \ {s}
      /\ UNCHANGED <<conn, queue, received, locks, todo, ticks, exited, phase>>
  BY DEF IInv, UnsubscribeFromAll
<1>2. /\ reader' \in [Socket -> {"off", "reading", "offering", "closing", "ended"}]
      /\ writer' \in [Socket -> {"off", "writing", "closing", "ended"}]
      /\ \A k \in Socket : k # s => reader'[k] = reader[k] /\ writer'[k] = writer[k]
      /\ Quiet({s}) => Quiet({s})'
  <2>1. CASE reader[s] = "closing" /\ reader' = [reader EXCEPT ![s] = "ended"] /\ UNCHANGED writer
    BY <1>1, <2>1 DEF Types, Quiet
  <2>2. CASE writer[s] = "closing" /\ writer' = [writer EXCEPT ![s] = "ended"] /\ UNCHANGED reader
    BY <1>1, <2>2 DEF Types, Quiet
  <2> QED  BY <2>1, <2>2 DEF UnsubscribeFromAll
<1>3. subs' \subseteq Client /\ IsFiniteSet(subs')
  BY <1>1, FS_Subset DEF Types
<1>4. Types'
  BY <1>1, <1>2, <1>3 DEF Types, locks
<1>5. Locks'
  BY <1>1 DEF Locks, locks
<1>6. Phases'
  BY <1>1, <1>2, PhasesStay DEF Types, Thread
<1> QED  BY <1>4, <1>5, <1>6 DEF IInv

-----------------------------------------------------------------------------
(***************************************************************************)
(* Tickers.                                                                *)
(***************************************************************************)
LEMMA TickKeeps ==
  ASSUME IInv, NEW t \in Ticker, Tick(t)
  PROVE  IInv'
<1> DEFINE p == <<TickerProgram(t)>>
<1>1. /\ Types /\ Locks /\ Phases /\ todo[t] = << >> /\ t \notin exited /\ ticks < MaxTicks
      /\ ticks' = ticks + 1
      /\ todo' = [todo EXCEPT ![t] = p]
      /\ UNCHANGED <<pumps, queue, received, subs, locks, exited, phase>>
  BY DEF IInv, Tick
<1>2. t \in Thread /\ t # "accept"
  BY DEF Thread, Goroutine, Ticker
<1>3. p \in Seq(Instruction) /\ Tidy(p) /\ ~Unlocks(p)
  <2>1. TickerProgram(t) \in Instruction /\ TickerProgram(t).op # "unlock"
    BY Instructions DEF TickerProgram, Ticker
  <2> QED  BY <2>1, ShortPrograms
<1> HIDE DEF p
<1>4. /\ todo' \in [Thread -> Seq(Instruction)] /\ todo'[t] = p
      /\ \A k \in Thread : k # t => todo'[k] = todo[k]
  BY <1>1, <1>2, <1>3, TodoSet DEF Types
<1>5. Locks'
  <2>1. ~Unlocks(todo[t])
    BY <1>1 DEF Unlocks
  <2> QED  BY <1>1, <1>2, <1>3, <1>4, <2>1, NoLock DEF locks
<1>6. ticks' \in 0 .. MaxTicks
  <2>1. ticks + 1 \in 0 .. MaxTicks
    <3>1. ticks \in 0 .. MaxTicks
      BY <1>1 DEF Types
    <3> QED  BY <1>1, <3>1, PipelineAssumption
  <2> QED  BY <1>1, <2>1
<1>7. Types'
  BY <1>1, <1>4, <1>6 DEF Types, locks, pumps
<1>8. Phases'
  <2>1. \A k \in Thread : todo'[k] = todo[k] \/ (k \notin exited /\ (k = "accept" => todo[k] # << >>))
    BY <1>1, <1>2, <1>4
  <2>2. exited \subseteq Thread
    BY <1>1 DEF Types, Thread
  <2> QED  BY <1>1, <2>1, <2>2, PhasesOfThreads DEF pumps
<1> QED  BY <1>5, <1>7, <1>8 DEF IInv

-----------------------------------------------------------------------------
(***************************************************************************)
(* Instructions.  A thread that goes on leaves the phases alone.           *)
(***************************************************************************)
LEMMA PhasesOfThread ==
  ASSUME Types, Phases, NEW t \in Thread, todo[t] # << >>,
         \A k \in Thread : k # t => todo'[k] = todo[k],
         UNCHANGED <<conn, reader, writer, exited, phase>>
  PROVE  Phases'
<1>1. t \notin exited
  BY DEF Phases
<1>2. exited \subseteq Thread
  BY DEF Types, Thread
<1> QED  BY <1>1, <1>2, PhasesOfThreads

LEMMA TailStep ==
  ASSUME Types, Locks, NEW t \in Thread, todo[t] # << >>,
         todo' = [todo EXCEPT ![t] = Tail(todo[t])]
  PROVE  /\ todo' \in [Thread -> Seq(Instruction)] /\ Tidy(todo'[t])
         /\ todo'[t] = Tail(todo[t])
         /\ \A k \in Thread : k # t => todo'[k] = todo[k]
         /\ Head(todo[t]).op # "unlock" => (Unlocks(todo'[t]) <=> Unlocks(todo[t]))
<1>1. todo[t] \in Seq(Instruction) /\ Tidy(todo[t])
  BY DEF Types, Locks
<1>2. /\ Tail(todo[t]) \in Seq(Instruction) /\ Tidy(Tail(todo[t]))
      /\ Head(todo[t]).op # "unlock" => (Unlocks(Tail(todo[t])) <=> Unlocks(todo[t]))
  BY <1>1, TidyTail
<1>3. /\ todo' \in [Thread -> Seq(Instruction)] /\ todo'[t] = Tail(todo[t])
      /\ \A k \in Thread : k # t => todo'[k] = todo[k]
  BY <1>2, TodoSet DEF Types
<1> QED  BY <1>2, <1>3

LEMMA DoSendKeeps ==
  ASSUME IInv, NEW t \in Thread, DoSend(t)
  PROVE  IInv'
<1> DEFINE s == Head(todo[t]).socket
<1>1. /\ Types /\ Locks /\ Phases /\ todo[t] # << >> /\ Head(todo[t]).op = "send"
      /\ queue[s] < Capacity /\ queue' = [queue EXCEPT ![s] = queue[s] + 1]
      /\ todo' = [todo EXCEPT ![t] = Tail(todo[t])]
      /\ UNCHANGED <<pumps, received, subs, locks, ticks, exited, phase>>
  BY DEF IInv, DoSend, Doing
<1>2. s \in Socket
  BY <1>1, SocketsOf
<1> HIDE DEF s
<1>3. queue' \in [Socket -> 0 .. Capacity]
  <2>1. queue[s] + 1 \in 0 .. Capacity
    <3>1. queue[s] \in 0 .. Capacity
      BY <1>1, <1>2 DEF Types
    <3> QED  BY <1>1, <3>1, PipelineAssumption
  <2> QED  BY <1>1, <1>2, <2>1 DEF Types
<1>4. /\ todo' \in [Thread -> Seq(Instruction)] /\ Tidy(todo'[t])
      /\ \A k \in Thread : k # t => todo'[k] = todo[k]
      /\ Unlocks(todo'[t]) <=> Unlocks(todo[t])
  BY <1>1, TailStep
<1>5. Types'
  BY <1>1, <1>3, <1>4 DEF Types, pumps, locks
<1>6. Locks'
  BY <1>1, <1>4, NoLock DEF locks
<1>7. Phases'
  BY <1>1, <1>4, PhasesOfThread DEF pumps
<1> QED  BY <1>5, <1>6, <1>7 DEF IInv

LEMMA DoUpsertKeeps ==
  ASSUME IInv, NEW t \in Thread, DoUpsert(t)
  PROVE  IInv'
<1> DEFINE s == Head(todo[t]).socket
<1>1. /\ Types /\ Locks /\ Phases /\ todo[t] # << >> /\ Head(todo[t]).op = "upsert"
      /\ store' = store \cup {s}
      /\ todo' = [todo EXCEPT ![t] = Tail(todo[t])]
      /\ UNCHANGED <<pumps, queue, received, subs, holders, exclusive, ticks, exited, phase>>
  BY DEF IInv, DoUpsert, Doing
<1>2. s \in Socket
  BY <1>1, SocketsOf
<1> HIDE DEF s
<1>3. store' \subseteq Socket /\ IsFiniteSet(store')
  BY <1>1, <1>2, FS_AddElement DEF Types
<1>4. /\ todo' \in [Thread -> Seq(Instruction)] /\ Tidy(todo'[t])
      /\ \A k \in Thread : k # t => todo'[k] = todo[k]
      /\ Unlocks(todo'[t]) <=> Unlocks(todo[t])
  BY <1>1, TailStep
<1>5. Types'
  BY <1>1, <1>3, <1>4 DEF Types, pumps
<1>6. Locks'
  BY <1>1, <1>4, NoLock
<1>7. Phases'
  BY <1>1, <1>4, PhasesOfThread DEF pumps
<1> QED  BY <1>5, <1>6, <1>7 DEF IInv

(***************************************************************************)
(* Taking the lock: t writes to some sockets and then unlocks.             *)
(***************************************************************************)
LEMMA LockKeeps ==
  ASSUME IInv, NEW t \in Thread, todo[t] # << >>,
         todo' \in [Thread -> Seq(Instruction)], Tidy(todo'[t]), Unlocks(todo'[t]),
         \A k \in Thread : k # t => todo'[k] = todo[k],
         \/ holders = {} /\ holders' = {t} /\ exclusive' = TRUE
         \/ ~exclusive /\ holders' = holders \cup {t} /\ exclusive' = exclusive,
         UNCHANGED <<pumps, queue, received, subs, store, ticks, exited, phase>>
  PROVE  IInv'
<1>1. holders' \subseteq Thread /\ exclusive' \in BOOLEAN
  BY DEF IInv, Types
<1>2. Types'
  BY <1>1 DEF IInv, Types, pumps
<1>3. Locks'
  <2>1. \A k \in Thread : k \in holders' <=> (k = t \/ k \in holders)
    OBVIOUS
  <2>2. \A k \in Thread : Tidy(todo'[k]) /\ (k \in holders' <=> Unlocks(todo'[k]))
    BY <2>1 DEF IInv, Locks
  <2>3. exclusive' => \E k \in Thread : holders' = {k}
    OBVIOUS
  <2> QED  BY <2>2, <2>3 DEF Locks
<1>4. Phases'
  BY PhasesOfThread DEF IInv, pumps
<1> QED  BY <1>2, <1>3, <1>4 DEF IInv

LEMMA DoSendRumorKeeps ==
  ASSUME IInv, NEW t \in Thread, DoSendRumor(t)
  PROVE  IInv'
<1>1. PICK sends \in {<< >>} \cup {<<Send(s)>> : s \in store} :
        todo' = [todo EXCEPT ![t] = sends \o <<Unlock>> \o Tail(todo[t])]
  BY DEF DoSendRumor
<1>2. /\ Types /\ Locks /\ todo[t] # << >> /\ Head(todo[t]).op = "SendRumor"
      /\ holders = {} /\ holders' = {t} /\ exclusive' = TRUE
      /\ UNCHANGED <<pumps, queue, received, subs, store, ticks, exited, phase>>
  BY DEF IInv, DoSendRumor, Doing
<1>3. Tail(todo[t]) = << >>
  BY <1>2, TidyTail DEF Types, Locks, Ending
<1>4. sends \in Seq(Sending) /\ Unlock \in Instruction /\ Unlock.op = "unlock"
  <2>1. \A s \in store : <<Send(s)>> \in Seq(Sending)
    <3>1. \A s \in store : s \in Socket
      BY <1>2, SocketsOf
    <3> QED  BY <3>1, Instructions
  <2> QED  BY <1>1, <2>1, Instructions, EmptySeq
<1> DEFINE p == sends \o <<Unlock>>
<1>5. p \in Seq(Instruction) /\ Tidy(p) /\ Unlocks(p)
  BY <1>4, SendsThen
<1>6. todo' = [todo EXCEPT ![t] = p]
  <2>1. p \o << >> = p
    BY <1>5, ConcatEmptySeq
  <2> QED  BY <1>1, <1>3, <2>1
<1> HIDE DEF p
<1>7. /\ todo' \in [Thread -> Seq(Instruction)] /\ todo'[t] = p
      /\ \A k \in Thread : k # t => todo'[k] = todo[k]
  BY <1>2, <1>5, <1>6, TodoSet DEF Types
<1> QED  BY <1>2, <1>5, <1>7, LockKeeps

LEMMA DoSendToAllKeeps ==
  ASSUME IInv, NEW t \in Thread, DoSendToAll(t)
  PROVE  IInv'
<1>1. PICK order \in SetToSeqs(store) :
        todo' = [todo EXCEPT ![t] = SendEach(order) \o <<Unlock>>]
  BY DEF DoSendToAll
<1>2. /\ Types /\ Locks /\ todo[t] # << >>
      /\ ~exclusive /\ holders' = holders \cup {t} /\ exclusive' = exclusive
      /\ UNCHANGED <<pumps, queue, received, subs, store, ticks, exited, phase>>
  BY DEF IInv, DoSendToAll, ReadLock, Doing
<1> DEFINE p == SendEach(order) \o <<Unlock>>
<1>3. p \in Seq(Instruction) /\ Tidy(p) /\ Unlocks(p)
  <2>1. SendEach(order) \in Seq(Sending)
    BY <1>2, SendsToAll DEF Types
  <2> QED  BY <2>1, SendsThen, Instructions
<1> HIDE DEF p
<1>4. /\ todo' \in [Thread -> Seq(Instruction)] /\ todo'[t] = p
      /\ \A k \in Thread : k # t => todo'[k] = todo[k]
  BY <1>1, <1>2, <1>3, TodoSet DEF Types, p
<1> QED  BY <1>2, <1>3, <1>4, LockKeeps

LEMMA DoSendToRandomKeeps ==
  ASSUME IInv, NEW t \in Thread, DoSendToRandom(t)
  PROVE  IInv'
<1>1. PICK p \in {<<Unlock>>} \cup {<<Send(s), Unlock>> : s \in store} :
        todo' = [todo EXCEPT ![t] = p]
  BY DEF DoSendToRandom
<1>2. /\ Types /\ Locks /\ todo[t] # << >>
      /\ ~exclusive /\ holders' = holders \cup {t} /\ exclusive' = exclusive
      /\ UNCHANGED <<pumps, queue, received, subs, store, ticks, exited, phase>>
  BY DEF IInv, DoSendToRandom, ReadLock, Doing
<1>3. p \in Seq(Instruction) /\ Tidy(p) /\ Unlocks(p)
  <2>1. \A s \in store : s \in Socket
    BY <1>2 DEF Types
  <2> QED  BY <1>1, <2>1, ShortPrograms, Instructions
<1>4. /\ todo' \in [Thread -> Seq(Instruction)] /\ todo'[t] = p
      /\ \A k \in Thread : k # t => todo'[k] = todo[k]
  BY <1>1, <1>2, <1>3, TodoSet DEF Types
<1> QED  BY <1>2, <1>3, <1>4, LockKeeps

LEMMA DoUnlockKeeps ==
  ASSUME IInv, NEW t \in Thread, DoUnlock(t)
  PROVE  IInv'
<1>1. /\ Types /\ Locks /\ Phases /\ todo[t] # << >> /\ Head(todo[t]).op = "unlock"
      /\ holders' = holders \ {t} /\ exclusive' = FALSE
      /\ todo' = [todo EXCEPT ![t] = Tail(todo[t])]
      /\ UNCHANGED <<pumps, queue, received, subs, store, ticks, exited, phase>>
  BY DEF IInv, DoUnlock, Doing
<1>2. /\ todo' \in [Thread -> Seq(Instruction)] /\ Tidy(todo'[t])
      /\ todo'[t] = Tail(todo[t])
      /\ \A k \in Thread : k # t => todo'[k] = todo[k]
  BY <1>1, TailStep
<1>3. Tail(todo[t]) = << >>
  BY <1>1, TidyTail DEF Types, Locks, Ending
<1>4. ~Unlocks(todo'[t])
  BY <1>2, <1>3 DEF Unlocks
<1>5. Types'
  BY <1>1, <1>2 DEF Types, pumps
<1>6. Locks'
  BY <1>1, <1>2, <1>4 DEF Locks
<1>7. Phases'
  BY <1>1, <1>2, PhasesOfThread DEF pumps
<1> QED  BY <1>5, <1>6, <1>7 DEF IInv

(***************************************************************************)
(* The hub wakes up the rumor sender, which was between two ticks.         *)
(***************************************************************************)
LEMMA DoNotifyKeeps ==
  ASSUME IInv, NEW t \in Thread, DoNotify(t)
  PROVE  IInv'
<1>1. /\ Types /\ Locks /\ Phases /\ todo[t] # << >> /\ Head(todo[t]).op = "notify"
      /\ UNCHANGED <<pumps, queue, received, subs, locks, ticks, exited, phase>>
  BY DEF IInv, DoNotify, Doing
<1> DEFINE tail == Tail(todo[t])
<1>2. tail \in Seq(Instruction) /\ Tidy(tail) /\ (Unlocks(tail) <=> Unlocks(todo[t]))
  BY <1>1, TidyTail DEF Types, Locks
<1> HIDE DEF tail
<1>3. CASE todo' = [todo EXCEPT ![t] = tail]
  <2>1. /\ todo' \in [Thread -> Seq(Instruction)] /\ todo'[t] = tail
        /\ \A k \in Thread : k # t => todo'[k] = todo[k]
    BY <1>1, <1>2, <1>3, TodoSet DEF Types
  <2>2. Locks'
    BY <1>1, <1>2, <2>1, NoLock DEF locks
  <2>3. Phases'
    BY <1>1, <2>1, PhasesOfThread DEF pumps
  <2>4. Types'
    BY <1>1, <2>1 DEF Types, pumps, locks
  <2> QED  BY <2>2, <2>3, <2>4 DEF IInv
<1>4. ASSUME NEW p \in {<< >>, <<SendRumor>>}, todo["rumor"] = << >>, "rumor" \notin exited,
             todo' = [todo EXCEPT ![t] = tail, !["rumor"] = p]
      PROVE  IInv'
  <2>1. p \in Seq(Instruction) /\ Tidy(p) /\ ~Unlocks(p) /\ "rumor" \in Thread /\ t # "rumor"
    BY <1>1, <1>4, ShortPrograms, Instructions DEF Thread, Goroutine, Ticker
  <2>2. /\ todo' \in [Thread -> Seq(Instruction)] /\ todo'[t] = tail /\ todo'["rumor"] = p
        /\ \A k \in Thread : k # t /\ k # "rumor" => todo'[k] = todo[k]
    BY <1>1, <1>2, <1>4, <2>1 DEF Types
  <2>3. ~Unlocks(todo["rumor"])
    BY <1>4 DEF Unlocks
  <2>4. Locks'
    BY <1>1, <1>2, <2>1, <2>2, <2>3 DEF Locks, locks
  <2>5. Phases'
    <3>1. t \notin exited /\ exited \subseteq Thread
      BY <1>1 DEF Phases, Types, Thread
    <3>2. \A k \in Thread : todo'[k] = todo[k] \/ (k \notin exited /\ (k = "accept" => todo[k] # << >>))
      BY <1>1, <1>4, <2>2, <3>1
    <3> QED  BY <1>1, <3>1, <3>2, PhasesOfThreads DEF pumps
  <2>6. Types'
    BY <1>1, <2>2 DEF Types, pumps, locks
  <2> QED  BY <2>4, <2>5, <2>6 DEF IInv
<1> QED  BY <1>3, <1>4 DEF DoNotify, tail

LEMMA StepKeeps ==
  ASSUME IInv, NEW t \in Thread, Step(t)
  PROVE  IInv'
BY DoSendKeeps, DoUpsertKeeps, DoSendRumorKeeps, DoSendToAllKeeps, DoSendToRandomKeeps,
   DoUnlockKeeps, DoNotifyKeeps DEF Step

-----------------------------------------------------------------------------
(***************************************************************************)
(* Shutdown.                                                               *)
(***************************************************************************)
LEMMA ShutdownKeeps ==
  ASSUME IInv, Shutdown
  PROVE  IInv'
<1>1. /\ Types /\ Locks /\ Phases
      /\ UNCHANGED <<pumps, queue, received, subs, locks, todo, ticks, exited>>
  BY DEF IInv, Shutdown
<1>2. Types'
  BY <1>1 DEF Types, Shutdown, pumps, locks
<1>3. Locks'
  BY <1>1 DEF Locks, locks
<1>4. UNCHANGED <<Quiet(Client), Quiet(Peer), NoHandler(Client), NoHandler(Peer)>>
  BY <1>1 DEF Quiet, NoHandler, pumps
<1>5. Phases'
  BY <1>1, <1>4 DEF Phases, Shutdown
<1> QED  BY <1>2, <1>3, <1>5 DEF IInv

LEMMA ExitKeeps ==
  ASSUME IInv, NEW t \in Goroutine, Exit(t)
  PROVE  IInv'
<1>1. /\ Types /\ Locks /\ Phases /\ phase = "hub" /\ todo[t] = << >>
      /\ exited' = exited \cup {t}
      /\ UNCHANGED <<pumps, queue, received, subs, locks, todo, ticks, phase>>
  BY DEF IInv, Exit
<1>2. Types'
  BY <1>1 DEF Types, pumps, locks
<1>3. Locks'
  BY <1>1 DEF Locks, locks
<1>4. Phases'
  BY <1>1 DEF Phases, Quiet, NoHandler, pumps
<1> QED  BY <1>2, <1>3, <1>4 DEF IInv

-----------------------------------------------------------------------------
LEMMA InitIInv == Init => IInv
<1> SUFFICES ASSUME Init PROVE IInv
  OBVIOUS
<1>1. Types
  <2>1. 0 \in 0 .. Capacity /\ 0 \in 0 .. MaxMessages /\ 0 \in 0 .. MaxTicks
    BY PipelineAssumption
  <2>2. /\ queue \in [Socket -> 0 .. Capacity] /\ received \in [Socket -> 0 .. MaxMessages]
        /\ ticks \in 0 .. MaxTicks
    BY <2>1 DEF Init
  <2>3. todo \in [Thread -> Seq(Instruction)]
    BY EmptySeq DEF Init
  <2>4. subs = {} /\ store = {} /\ IsFiniteSet({})
    BY FS_EmptySet DEF Init
  <2> QED  BY <2>2, <2>3, <2>4 DEF Init, Types
<1>2. Locks /\ Phases
  BY ShortPrograms DEF Init, Locks, Phases, Goroutine, NoHandler, Socket
<1> QED  BY <1>1, <1>2 DEF IInv

LEMMA NextIInv == IInv /\ [Next]_vars => IInv'
<1> SUFFICES ASSUME IInv, [Next]_vars PROVE IInv'
  OBVIOUS
<1>1. CASE UNCHANGED vars
  BY <1>1 DEF vars, IInv, Types, Locks, Phases, Quiet, NoHandler
<1>2. CASE Next
  BY <1>2, ArriveKeeps, ServeHTTPKeeps, PumpKeeps, ReceiveKeeps, UnsubscribeKeeps, TickKeeps, StepKeeps,
     ExitKeeps, ShutdownKeeps DEF Next
<1> QED  BY <1>1, <1>2

(***************************************************************************)
(* The inductive invariant.                                                *)
(***************************************************************************)
THEOREM Invariance == Spec => []IInv
BY InitIInv, NextIInv, PTL DEF Spec

(***************************************************************************)
(* When the servers are shut down no pump talks to a connection any more,  *)
(* whatever was under way when the shutdown began.                         *)
(***************************************************************************)
THEOREM NoPumpOutlives == Spec => []NoPumpAfterShutdown
<1>1. IInv => NoPumpAfterShutdown
  BY DEF IInv, Phases, NoPumpAfterShutdown, Quiet, Socket
<1> QED  BY <1>1, Invariance, PTL

(***************************************************************************)
(* A goroutine that waits for the lock of Sockets, or for the rumor        *)
(* sender, does not hold the lock; one that holds it writes to sockets and *)
(* then unlocks; two hold it only when both share it.  Hence no cycle of   *)
(* goroutines waits for one another, and what may keep the lock from being *)
(* released is a socket whose send channel stays full.                     *)
(***************************************************************************)
WaitersHoldNothing ==
  /\ \A t \in Thread : todo[t] # << >> /\ Head(todo[t]).op \notin {"send", "unlock"}
                         => t \notin holders
  /\ \A t \in holders :
       /\ todo[t] # << >> /\ todo[t][Len(todo[t])].op = "unlock"
       /\ \A i \in 1 .. Len(todo[t]) : i < Len(todo[t]) => todo[t][i].op = "send"
  /\ exclusive => \E t \in Thread : holders = {t}

THEOREM LockIsReleased == Spec => []WaitersHoldNothing
<1>1. IInv => WaitersHoldNothing
  <2> SUFFICES ASSUME IInv PROVE WaitersHoldNothing
    OBVIOUS
  <2>1. \A t \in holders : t \in Thread /\ Unlocks(todo[t]) /\ Tidy(todo[t])
    BY DEF IInv, Types, Locks
  <2>2. \A t \in Thread : todo[t] # << >> /\ Head(todo[t]).op \notin {"send", "unlock"}
                           => t \notin holders
    BY Waiting DEF IInv
  <2>3. exclusive => \E t \in Thread : holders = {t}
    BY DEF IInv, Locks
  <2> QED  BY <2>1, <2>2, <2>3 DEF WaitersHoldNothing, Unlocks, Tidy
<1> QED  BY <1>1, Invariance, PTL

(***************************************************************************)
(* When the process has stopped, every goroutine of the hub has finished   *)
(* what it was doing, no server is being accepted and nobody holds the     *)
(* lock of Sockets.                                                        *)
(***************************************************************************)
StoppedIsStill ==
  phase = "stopped" => holders = {} /\ \A t \in Thread : todo[t] = << >>

THEOREM NothingRunsAfterStop == Spec => []StoppedIsStill
<1>1. IInv => StoppedIsStill
  <2> SUFFICES ASSUME IInv, phase = "stopped"
               PROVE  holders = {} /\ \A t \in Thread : todo[t] = << >>
    BY DEF StoppedIsStill
  <2>1. \A t \in Thread : todo[t] = << >>
    BY DEF IInv, Phases, Thread
  <2>2. \A t \in Thread : t \notin holders
    BY <2>1, Waiting DEF IInv
  <2> QED  BY <2>1, <2>2 DEF IInv, Types
<1> QED  BY <1>1, Invariance, PTL

(***************************************************************************)
(* There are no pumps before a connection is accepted.                     *)
(***************************************************************************)
PumpsBegin ==
  \A s \in Socket :
    conn[s] \in {"new", "arrived"} => reader[s] = "off" /\ writer[s] = "off"

LEMMA PumpsBeginLater == Spec => []PumpsBegin
<1>1. Init => PumpsBegin
  BY DEF Init, PumpsBegin
<1>2. ASSUME Types, PumpsBegin, [Next]_vars
      PROVE  PumpsBegin'
  <2>1. CASE UNCHANGED vars
    BY <1>2, <2>1 DEF vars, PumpsBegin
  <2>2. ASSUME NEW k \in Socket,
               \/ Arrive(k) \/ ServeHTTP(k) \/ Lose(k) \/ Read(k) \/ ReaderEnds(k)
               \/ Write(k) \/ WriterEnds(k) \/ Receive(k) \/ UnsubscribeFromAll(k)
        PROVE  PumpsBegin'
    BY <1>2, <2>2 DEF Types, PumpsBegin, Arrive, ServeHTTP, Lose, Read, ReaderEnds, Write,
       WriterEnds, Receive, UnsubscribeFromAll, pumps
  <2>3. ASSUME NEW t \in Thread, Tick(t) \/ Step(t) \/ Exit(t)
        PROVE  PumpsBegin'
    BY <1>2, <2>3 DEF PumpsBegin, Tick, Step, Exit, DoSend, DoUpsert, DoSendRumor, DoSendToAll,
       DoSendToRandom, ReadLock, DoUnlock, DoNotify, pumps
  <2>4. CASE Shutdown
    BY <1>2, <2>4 DEF PumpsBegin, Shutdown, pumps
  <2> QED  BY <1>2, <2>1, <2>2, <2>3, <2>4 DEF Next, Thread, Goroutine
<1>3. IInv => Types
  BY DEF IInv
<1>4. Types /\ PumpsBegin /\ [Next]_vars => PumpsBegin'
  BY <1>2
<1> QED  BY <1>1, <1>3, <1>4, Invariance, PTL DEF Spec

(***************************************************************************)
(* Where a shutdown gets stuck (network/server.go:163): a handler that     *)
(* waits for the lock `closing' while Shutdown holds it waits for ever,    *)
(* and the shutdown with it: it goes on from no state with such a handler. *)
(***************************************************************************)
StuckForGood == HandlerWaits => HandlerWaits' /\ phase' = phase

THEOREM HandlersWaitForEver == Spec => [][StuckForGood]_vars
<1>1. ASSUME IInv, PumpsBegin, HandlerWaits, [Next]_vars
      PROVE  HandlerWaits' /\ phase' = phase
  <2>1. PICK s \in Socket : conn[s] = "arrived" /\ ~Open(s)
    BY <1>1 DEF HandlerWaits
  <2>2. /\ Types /\ Phases
        /\ phase = (IF s \in Client THEN "closing clients" ELSE "closing servers")
    BY <1>1, <2>1 DEF IInv, Phases, Open, NoHandler, Socket, Types
  <2>3. conn'[s] = "arrived" /\ phase' = phase
    <3>1. CASE UNCHANGED vars
      BY <2>1, <3>1 DEF vars
    <3>2. ASSUME NEW k \in Socket,
                 \/ Arrive(k) \/ ServeHTTP(k) \/ Lose(k) \/ Read(k) \/ ReaderEnds(k)
                 \/ Write(k) \/ WriterEnds(k) \/ Receive(k) \/ UnsubscribeFromAll(k)
          PROVE  conn'[s] = "arrived" /\ phase' = phase
      <4>1. reader[s] = "off" /\ writer[s] = "off"
        BY <1>1, <2>1 DEF PumpsBegin
      <4> QED
        BY <2>1, <2>2, <3>2, <4>1 DEF Types, Arrive, ServeHTTP, Lose, Read, ReaderEnds, Write,
           WriterEnds, Receive, UnsubscribeFromAll, pumps
    <3>3. ASSUME NEW t \in Thread, Tick(t) \/ Step(t) \/ Exit(t)
          PROVE  conn'[s] = "arrived" /\ phase' = phase
      BY <2>1, <3>3 DEF Tick, Step, Exit, DoSend, DoUpsert, DoSendRumor, DoSendToAll,
         DoSendToRandom, ReadLock, DoUnlock, DoNotify, pumps
    <3>4. ASSUME Shutdown PROVE FALSE
      BY <2>1, <2>2, <3>4 DEF Shutdown, NoHandler, Socket
    <3> QED  BY <1>1, <3>1, <3>2, <3>3, <3>4 DEF Next, Thread, Goroutine
  <2>4. ~Open(s)'
    BY <2>1, <2>3 DEF Open
  <2> QED  BY <2>3, <2>4 DEF HandlerWaits
<1>2. IInv /\ PumpsBegin /\ [Next]_vars => [StuckForGood]_vars
  BY <1>1 DEF StuckForGood
<1> QED  BY <1>2, Invariance, PumpsBeginLater, PTL DEF Spec
=============================================================================
