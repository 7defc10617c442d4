-------------------------- MODULE RumorSocketsProofs --------------------------
(***************************************************************************)
(* The way of a rumor round the ring of sockets, for any number of sockets,*)
(* rumors and connections: NeverBack, CycleTellsThoseThere and ToldOnce of *)
(* RumorSockets.                                                           *)
(***************************************************************************)
EXTENDS RumorSockets, SequenceTheorems, FiniteSetTheorems, TLAPS

State == [counter : Nat, index : Nat, banned : Socket \cup {NoSocket}]

Types ==
  /\ socketIDs \in Seq(Socket) /\ store = Range(socketIDs)
  /\ rState \in [Sent -> State]
  /\ \A r \in Sent : rState[r].index < Size
  /\ told \in [Rumor -> Seq(Socket)]
  /\ \A r \in Rumor \ Sent : told[r] = << >>
  /\ there \in [Rumor -> SUBSET store]
  /\ Sent \subseteq Rumor

(***************************************************************************)
(* Where a rumor is that was told to the sockets in tos, when those in     *)
(* those were there at the beginning.  The ring grows at its end only, so  *)
(* that a rumor has seen the positions from start on, and once it came to  *)
(* the end, when the ring had size positions, those from the first one on. *)
(***************************************************************************)
Passed(state, tos, p) == At(p) = state.banned \/ At(p) \in tos

Straight(state, tos, those, start) ==
  /\ start <= state.index /\ state.counter = state.index - start
  /\ \A p \in start .. state.index - 1 : Passed(state, tos, p)
  /\ those = store => \A s \in tos : \E p \in start .. state.index - 1 : At(p) = s

Wrapped(state, tos, those, start, size) ==
  /\ start < size /\ size <= Size /\ state.counter = size - start + state.index
  /\ \A p \in start .. size - 1 : Passed(state, tos, p)
  /\ \A p \in 0 .. state.index - 1 : Passed(state, tos, p)
  /\ \A s \in those : \E p \in 0 .. size - 1 : At(p) = s
  /\ those = store =>
       /\ size = Size
       /\ \A s \in tos : \E p \in (start .. size - 1) \cup (0 .. state.index - 1) : At(p) = s

Around(state, tos, those) ==
  /\ \A s \in those : s = state.banned \/ s \in tos
  /\ those = store => Completed(state)

OnTheWay(state, tos, those) ==
  \/ \E start \in Nat : Straight(state, tos, those, start)
  \/ \E start, size \in Nat : Wrapped(state, tos, those, start, size)
  \/ Around(state, tos, those)

(***************************************************************************)
(* What holds of a rumor as long as no socket is in the ring twice.        *)
(***************************************************************************)
Tracked(r) ==
  /\ OnTheWay(rState[r], Range(told[r]), there[r])
  /\ rState[r].banned \notin Range(told[r])
  /\ there[r] = store => IsInjective(told[r])

IInv == Types /\ (NoRepetition => \A r \in Sent : Tracked(r))

-----------------------------------------------------------------------------
(***************************************************************************)
(* The ring.                                                               *)
(***************************************************************************)
LEMMA Remainder ==
  ASSUME NEW m \in Nat, NEW x \in 0 .. m - 1
  PROVE  /\ x % m = x
         /\ (x + 1) % m = IF x + 1 = m THEN 0 ELSE x + 1
OBVIOUS

LEMMA RingSize ==
  ASSUME NEW ring \in Seq(Socket)
  PROVE  /\ IsFiniteSet(Range(ring))
         /\ Cardinality(Range(ring)) \in Nat
         /\ Cardinality(Range(ring)) <= Len(ring)
         /\ IsInjective(ring) => Cardinality(Range(ring)) = Len(ring)
<1> DEFINE D == 1 .. Len(ring)
<1>1. Len(ring) \in Nat /\ DOMAIN ring = D
  OBVIOUS
<1>2. IsFiniteSet(D) /\ Cardinality(D) = Len(ring)
  BY <1>1, FS_Interval
<1>3. ring \in Surjection(D, Range(ring))
  BY <1>1 DEF Surjection, Range
<1>4. /\ IsFiniteSet(Range(ring)) /\ Cardinality(Range(ring)) <= Cardinality(D)
      /\ Cardinality(Range(ring)) = Cardinality(D) <=> ring \in Injection(D, Range(ring))
  BY <1>2, <1>3, FS_Surjection
<1>5. IsInjective(ring) => ring \in Injection(D, Range(ring))
  BY <1>1 DEF Injection, IsInjective, Range
<1> QED  BY <1>2, <1>4, <1>5, FS_CardinalityType

LEMMA Positions ==
  ASSUME Types
  PROVE  /\ Size \in Nat
         /\ \A p \in 0 .. Size - 1 : At(p) \in store /\ At(p) \in Socket
         /\ store # {} => Size > 0
         /\ NoRepetition =>
              /\ \A s \in store : \E p \in 0 .. Size - 1 : At(p) = s
              /\ \A p, q \in 0 .. Size - 1 : At(p) = At(q) => p = q
<1>1. socketIDs \in Seq(Socket) /\ store = Range(socketIDs)
  BY DEF Types
<1>2. /\ IsFiniteSet(store) /\ Size \in Nat /\ Size <= Len(socketIDs) /\ Len(socketIDs) \in Nat
      /\ NoRepetition => Size = Len(socketIDs)
  BY <1>1, RingSize DEF Size, NoRepetition
<1>3. \A p \in 0 .. Size - 1 : p + 1 \in DOMAIN socketIDs
  BY <1>1, <1>2
<1>4. \A p \in 0 .. Size - 1 : At(p) \in store /\ At(p) \in Socket
  BY <1>1, <1>3 DEF At, Range
<1>5. store # {} => Size > 0
  BY <1>2, FS_EmptySet DEF Size
<1>6. ASSUME NoRepetition, NEW s \in store
      PROVE  \E p \in 0 .. Size - 1 : At(p) = s
  <2>1. PICK i \in DOMAIN socketIDs : socketIDs[i] = s
    BY <1>1 DEF Range
  <2>2. i - 1 \in 0 .. Size - 1 /\ (i - 1) + 1 = i
    BY <1>1, <1>2, <1>6
  <2> QED  BY <2>1, <2>2 DEF At
<1>7. ASSUME NoRepetition, NEW p \in 0 .. Size - 1, NEW q \in 0 .. Size - 1, At(p) = At(q)
      PROVE  p = q
  BY <1>2, <1>3, <1>7 DEF At, NoRepetition, IsInjective
<1> QED  BY <1>2, <1>4, <1>5, <1>6, <1>7

-----------------------------------------------------------------------------
(***************************************************************************)
(* One step round the ring: past the socket the rumor came from, or past   *)
(* one it is told to.                                                      *)
(***************************************************************************)
LEMMA AdvanceState ==
  ASSUME Types, NEW state \in State, state.index < Size
  PROVE  /\ Advance(state) \in State
         /\ Advance(state).banned = state.banned
         /\ Advance(state).counter = state.counter + 1
         /\ Advance(state).index = (IF state.index + 1 = Size THEN 0 ELSE state.index + 1)
         /\ Advance(state).index < Size
<1> DEFINE i == (state.index + 1) % Size
           n == state.counter + 1
<1>1. Size \in Nat /\ state.index \in 0 .. Size - 1 /\ n \in Nat
  BY Positions DEF State
<1>2. i = (IF state.index + 1 = Size THEN 0 ELSE state.index + 1)
  BY <1>1, Remainder
<1>3. i \in Nat /\ i < Size
  BY <1>1, <1>2
<1>4. Advance(state) = [state EXCEPT !.index = i, !.counter = n]
  BY DEF Advance
<1> HIDE DEF i, n
<1>5. /\ Advance(state) \in State /\ Advance(state).banned = state.banned
      /\ Advance(state).counter = n /\ Advance(state).index = i
  BY <1>1, <1>3, <1>4 DEF State
<1> QED  BY <1>2, <1>3, <1>5 DEF n

LEMMA AdvanceKeeps ==
  ASSUME Types, NoRepetition, NEW state \in State, state.index < Size,
         NEW tos, NEW those \in SUBSET store, OnTheWay(state, tos, those),
         NEW more, more = tos \/ more = tos \cup {At(state.index)},
         Passed(state, more, state.index)
  PROVE  OnTheWay(Advance(state), more, those)
<1> DEFINE next == Advance(state)
           i == state.index
<1>1. /\ next.banned = state.banned /\ next.counter = state.counter + 1
      /\ next.index = (IF i + 1 = Size THEN 0 ELSE i + 1) /\ i \in Nat /\ state.counter \in Nat
      /\ Size \in Nat /\ i < Size
  BY AdvanceState, Positions DEF State
<1>2. \A p : Passed(state, tos, p) => Passed(next, more, p)
  BY <1>1 DEF Passed
<1>3. Passed(next, more, i)
  BY <1>1 DEF Passed
<1>4. \A s \in more : s \in tos \/ s = At(i)
  OBVIOUS
<1>5. \A s \in those : \E p \in 0 .. Size - 1 : At(p) = s
  BY Positions
<1> HIDE DEF next
<1>6. ASSUME NEW start \in Nat, Straight(state, tos, those, start)
      PROVE  OnTheWay(next, more, those)
  <2>1. /\ start <= i /\ state.counter = i - start
        /\ \A p \in start .. i : Passed(next, more, p)
        /\ those = store => \A s \in more : \E p \in start .. i : At(p) = s
    BY <1>1, <1>2, <1>3, <1>4, <1>6 DEF Straight
  <2>2. CASE i + 1 = Size
    <3>1. Wrapped(next, more, those, start, Size)
      <4>1. next.index = 0 /\ i = Size - 1 /\ start < Size /\ next.counter = Size - start + 0
        BY <1>1, <2>1, <2>2
      <4>2. \A p \in start .. Size - 1 : Passed(next, more, p)
        BY <2>1, <4>1
      <4>3. those = store => \A s \in more : \E p \in (start .. Size - 1) \cup (0 .. next.index - 1) : At(p) = s
        BY <2>1, <4>1
      <4> QED  BY <1>1, <1>5, <4>1, <4>2, <4>3 DEF Wrapped
    <3> QED  BY <1>1, <3>1 DEF OnTheWay
  <2>3. CASE i + 1 # Size
    <3>1. Straight(next, more, those, start)
      BY <1>1, <2>1, <2>3 DEF Straight
    <3> QED  BY <3>1 DEF OnTheWay
  <2> QED  BY <2>2, <2>3
<1>7. ASSUME NEW start \in Nat, NEW size \in Nat, Wrapped(state, tos, those, start, size)
      PROVE  OnTheWay(next, more, those)
  <2>1. /\ start < size /\ size <= Size /\ state.counter = size - start + i
        /\ \A p \in start .. size - 1 : Passed(next, more, p)
        /\ \A p \in 0 .. i : Passed(next, more, p)
        /\ \A s \in those : \E p \in 0 .. size - 1 : At(p) = s
        /\ those = store => size = Size
    BY <1>1, <1>2, <1>3, <1>7 DEF Wrapped
  <2>2. those = store => \A s \in more : \E p \in (start .. size - 1) \cup (0 .. i) : At(p) = s
    BY <1>1, <1>4, <1>7 DEF Wrapped
  <2>3. CASE i + 1 = Size
    <3>1. \A s \in those : s = next.banned \/ s \in more
      BY <1>1, <2>1, <2>3 DEF Passed
    <3>2. those = store => Completed(next)
      BY <1>1, <2>1, <2>3 DEF Completed
    <3> QED  BY <3>1, <3>2 DEF OnTheWay, Around
  <2>4. CASE i + 1 # Size
    <3>1. next.index - 1 = i /\ next.counter = size - start + next.index
      BY <1>1, <2>1, <2>4
    <3>2. Wrapped(next, more, those, start, size)
      BY <2>1, <2>2, <3>1 DEF Wrapped
    <3> QED  BY <3>2 DEF OnTheWay
  <2> QED  BY <2>3, <2>4
<1>8. CASE Around(state, tos, those)
  <2>1. \A s \in those : s = next.banned \/ s \in more
    BY <1>1, <1>8 DEF Around
  <2>2. those = store => Completed(next)
    BY <1>1, <1>8 DEF Around, Completed
  <2> QED  BY <2>1, <2>2 DEF OnTheWay, Around, next
<1> QED  BY <1>6, <1>7, <1>8 DEF OnTheWay, next

(***************************************************************************)
(* A rumor that is told went past everybody it was told to before.         *)
(***************************************************************************)
LEMMA NotToldYet ==
  ASSUME Types, NoRepetition, NEW state \in State, state.index < Size,
         NEW tos, OnTheWay(state, tos, store), ~Completed(state)
  PROVE  At(state.index) \notin tos
<1> DEFINE i == state.index
<1>1. Size \in Nat /\ i \in 0 .. Size - 1 /\ state.counter \in Nat /\ state.counter < Size
  BY Positions DEF State, Completed
<1>2. \A p \in 0 .. Size - 1 : At(p) = At(i) => p = i
  BY <1>1, Positions
<1>3. ASSUME NEW start \in Nat, Straight(state, tos, store, start), At(i) \in tos
      PROVE  FALSE
  BY <1>1, <1>2, <1>3 DEF Straight
<1>4. ASSUME NEW start \in Nat, NEW size \in Nat, Wrapped(state, tos, store, start, size), At(i) \in tos
      PROVE  FALSE
  <2>1. start < size /\ size = Size /\ state.counter = size - start + i
    BY <1>4 DEF Wrapped
  <2>2. PICK p \in (start .. size - 1) \cup (0 .. i - 1) : At(p) = At(i)
    BY <1>4 DEF Wrapped
  <2> QED  BY <1>1, <1>2, <2>1, <2>2
<1> QED  BY <1>3, <1>4 DEF OnTheWay, Around

LEMMA SkipState ==
  ASSUME Types, NEW state \in State, state.index < Size
  PROVE  /\ Skip(state) \in State /\ Skip(state).index < Size
         /\ Skip(state).banned = state.banned
BY AdvanceState DEF Skip

(***************************************************************************)
(* One skip is enough: the next socket is another one, unless the ring has *)
(* only one, and then the cycle is completed.                              *)
(***************************************************************************)
LEMMA SkipIsEnough ==
  ASSUME Types, NoRepetition, NEW state \in State, state.index < Size, ~Completed(Skip(state))
  PROVE  At(Skip(state).index) # state.banned
<1> DEFINE i == state.index
<1>1. Size \in Nat /\ i \in 0 .. Size - 1 /\ state.counter \in Nat
  BY Positions DEF State
<1>2. CASE At(i) # state.banned
  BY <1>2 DEF Skip
<1>3. CASE At(i) = state.banned
  <2> DEFINE next == Advance(state)
  <2>1. Skip(state) = next
    BY <1>3 DEF Skip
  <2>2. next.counter = state.counter + 1 /\ next.index = (IF i + 1 = Size THEN 0 ELSE i + 1)
    BY AdvanceState
  <2> HIDE DEF next
  <2>3. next.index \in 0 .. Size - 1 /\ next.index # i
    BY <1>1, <2>1, <2>2 DEF Completed
  <2> QED  BY <1>1, <1>3, <2>1, <2>3, Positions
<1> QED  BY <1>2, <1>3

-----------------------------------------------------------------------------
LEMMA AppendFacts ==
  ASSUME NEW tos \in Seq(Socket), NEW s \in Socket
  PROVE  /\ Append(tos, s) \in Seq(Socket)
         /\ Range(Append(tos, s)) = Range(tos) \cup {s}
         /\ IsInjective(tos) /\ s \notin Range(tos) => IsInjective(Append(tos, s))
<1> DEFINE more == Append(tos, s)
<1>1. /\ more \in Seq(Socket) /\ Len(tos) \in Nat /\ DOMAIN tos = 1 .. Len(tos)
      /\ DOMAIN more = 1 .. Len(tos) + 1 /\ more[Len(tos) + 1] = s
      /\ \A i \in 1 .. Len(tos) : more[i] = tos[i]
  OBVIOUS
<1> HIDE DEF more
<1>2. \A x : x \in Range(more) <=> x \in Range(tos) \/ x = s
  <2>1. ASSUME NEW x \in Range(more) PROVE x \in Range(tos) \/ x = s
    BY <1>1 DEF Range
  <2>2. ASSUME NEW x \in Range(tos) PROVE x \in Range(more)
    BY <1>1 DEF Range
  <2>3. s \in Range(more)
    BY <1>1 DEF Range
  <2> QED  BY <2>1, <2>2, <2>3
<1>3. ASSUME IsInjective(tos), s \notin Range(tos), NEW i \in DOMAIN more, NEW j \in DOMAIN more,
             more[i] = more[j]
      PROVE  i = j
  BY <1>1, <1>3 DEF IsInjective, Range
<1>4. IsInjective(tos) /\ s \notin Range(tos) => IsInjective(more)
  BY <1>3 DEF IsInjective
<1> QED  BY <1>1, <1>2, <1>4 DEF more

(***************************************************************************)
(* SendRumor, from where the rumor was or where it begins.                 *)
(***************************************************************************)
LEMMA SendKeeps ==
  ASSUME Types, NEW r \in Rumor, NEW from \in State, from.index < Size, Send(r, from),
         NEW those \in SUBSET store, UNCHANGED <<socketIDs, store>>
  PROVE  /\ Sent' = Sent \cup {r}
         /\ rState' \in [Sent' -> State]
         /\ \A q \in Sent' : rState'[q].index < Size
         /\ told' \in [Rumor -> Seq(Socket)]
         /\ \A q \in Sent : q # r => rState'[q] = rState[q]
         /\ \A q \in Rumor : q # r => told'[q] = told[q]
         /\ NoRepetition /\ OnTheWay(from, Range(told[r]), those) =>
              OnTheWay(rState'[r], Range(told'[r]), those)
         /\ NoRepetition /\ from.banned \notin Range(told[r]) =>
              rState'[r].banned \notin Range(told'[r])
         /\ NoRepetition /\ OnTheWay(from, Range(told[r]), those) /\ those = store
              /\ IsInjective(told[r]) => IsInjective(told'[r])
<1> DEFINE state == Skip(from)
           i == state.index
<1>1. state \in State /\ i < Size /\ state.banned = from.banned /\ Size \in Nat /\ i \in 0 .. Size - 1
  BY SkipState, Positions DEF State
<1>2. NoRepetition /\ OnTheWay(from, Range(told[r]), those) => OnTheWay(state, Range(told[r]), those)
  BY AdvanceKeeps DEF Skip, Passed
<1>3. told[r] \in Seq(Socket) /\ told \in [Rumor -> Seq(Socket)]
  BY DEF Types
<1>4. rState' = Put(r, IF Completed(state) THEN state ELSE Advance(state))
  BY DEF Send
<1>5. Completed(state) => told' = told
  BY DEF Send
<1>6. ~Completed(state) => told' = [told EXCEPT ![r] = Append(@, At(i))]
  BY DEF Send
<1>7. NoRepetition /\ ~Completed(state) => At(i) # from.banned
  BY SkipIsEnough
<1>8. NoRepetition /\ OnTheWay(state, Range(told[r]), those) /\ those = store /\ ~Completed(state)
        => At(i) \notin Range(told[r])
  BY <1>1, NotToldYet
<1>9. At(i) \in Socket
  BY <1>1, Positions
<1> HIDE DEF state, i
<1> DEFINE next == IF Completed(state) THEN state ELSE Advance(state)
<1>10. next \in State /\ next.index < Size /\ next.banned = from.banned
  BY <1>1, AdvanceState DEF i
<1>11. /\ Sent' = Sent \cup {r} /\ rState'[r] = next
       /\ \A q \in Sent : q # r => rState'[q] = rState[q]
       /\ rState' = [q \in Sent' |-> rState'[q]]
  BY <1>4 DEF Put, Sent
<1>12. rState' \in [Sent' -> State] /\ \A q \in Sent' : rState'[q].index < Size
  BY <1>10, <1>11 DEF Types
<1>13. CASE Completed(state)
  <2>1. told' = told /\ rState'[r] = state
    BY <1>5, <1>11, <1>13
  <2> QED  BY <1>1, <1>2, <1>3, <1>11, <1>12, <2>1
<1>14. CASE ~Completed(state)
  <2> DEFINE tos == Append(told[r], At(i))
  <2>0. tos \in Seq(Socket) /\ Range(tos) = Range(told[r]) \cup {At(i)}
    BY <1>3, <1>9, AppendFacts
  <2>a. told' = [told EXCEPT ![r] = tos]
    BY <1>6, <1>14
  <2>b. At(i) \notin Range(told[r]) /\ IsInjective(told[r]) => IsInjective(tos)
    BY <1>3, <1>9, AppendFacts
  <2> HIDE DEF tos
  <2>1. told'[r] = tos /\ rState'[r] = Advance(state)
    BY <1>3, <1>11, <1>14, <2>a
  <2>2. told' \in [Rumor -> Seq(Socket)] /\ \A q \in Rumor : q # r => told'[q] = told[q]
    BY <1>3, <2>0, <2>a
  <2>3. Range(told'[r]) = Range(told[r]) \cup {At(i)}
    BY <2>0, <2>1
  <2>4. NoRepetition /\ OnTheWay(from, Range(told[r]), those) =>
          OnTheWay(rState'[r], Range(told'[r]), those)
    BY <1>1, <1>2, <2>1, <2>3, AdvanceKeeps DEF i, Passed
  <2>5. NoRepetition /\ from.banned \notin Range(told[r]) => rState'[r].banned \notin Range(told'[r])
    BY <1>7, <1>10, <1>11, <1>14, <2>3
  <2>6. At(i) \notin Range(told[r]) /\ IsInjective(told[r]) => IsInjective(told'[r])
    BY <2>1, <2>b
  <2> QED  BY <1>2, <1>8, <1>11, <1>12, <1>14, <2>2, <2>4, <2>5, <2>6
<1> QED  BY <1>13, <1>14

(***************************************************************************)
(* What is known of a rumor depends on the ring only through socketIDs and *)
(* store.                                                                  *)
(***************************************************************************)
LEMMA SameRing ==
  ASSUME UNCHANGED <<socketIDs, store>>, NEW r,
         OnTheWay(rState'[r], Range(told'[r]), there'[r])
  PROVE  OnTheWay(rState[r], Range(told[r]), there[r])'
<1>1. Size' = Size /\ \A p : At(p)' = At(p)
  BY DEF Size, At
<1>2. ASSUME NEW start \in Nat, Straight(rState'[r], Range(told'[r]), there'[r], start)
      PROVE  OnTheWay(rState[r], Range(told[r]), there[r])'
  BY <1>1, <1>2 DEF OnTheWay, Straight, Passed, At
<1>3. ASSUME NEW start \in Nat, NEW size \in Nat,
             Wrapped(rState'[r], Range(told'[r]), there'[r], start, size)
      PROVE  OnTheWay(rState[r], Range(told[r]), there[r])'
  BY <1>1, <1>3 DEF OnTheWay, Wrapped, Passed, At
<1>4. CASE Around(rState'[r], Range(told'[r]), there'[r])
  BY <1>1, <1>4 DEF OnTheWay, Around, Completed
<1> QED  BY <1>2, <1>3, <1>4 DEF OnTheWay

(***************************************************************************)
(* A rumor that is sent stays tracked, if it was when it was sent.         *)
(***************************************************************************)
LEMMA SendTracked ==
  ASSUME IInv, NEW r \in Rumor, NEW from \in State, from.index < Size, Send(r, from),
         NEW those \in SUBSET store, UNCHANGED <<socketIDs, store>>,
         there' \in [Rumor -> SUBSET store], there'[r] = those,
         \A q \in Rumor : q # r => there'[q] = there[q],
         NoRepetition =>
           /\ OnTheWay(from, Range(told[r]), those)
           /\ from.banned \notin Range(told[r])
           /\ those = store => IsInjective(told[r])
  PROVE  IInv'
<1>1. Types
  BY DEF IInv
<1>2. /\ Sent' = Sent \cup {r}
      /\ rState' \in [Sent' -> State]
      /\ \A q \in Sent' : rState'[q].index < Size
      /\ told' \in [Rumor -> Seq(Socket)]
      /\ \A q \in Sent : q # r => rState'[q] = rState[q]
      /\ \A q \in Rumor : q # r => told'[q] = told[q]
      /\ NoRepetition =>
           /\ OnTheWay(rState'[r], Range(told'[r]), those)
           /\ rState'[r].banned \notin Range(told'[r])
           /\ those = store => IsInjective(told'[r])
  BY <1>1, SendKeeps
<1>3. Size' = Size /\ (NoRepetition' <=> NoRepetition)
  BY DEF Size, NoRepetition
<1>4. Types'
  BY <1>1, <1>2, <1>3 DEF Types
<1>5. ASSUME NoRepetition', NEW q \in Sent'
      PROVE  Tracked(q)'
  <2>1. /\ OnTheWay(rState'[q], Range(told'[q]), there'[q])
        /\ rState'[q].banned \notin Range(told'[q])
        /\ there'[q] = store => IsInjective(told'[q])
    <3>1. CASE q = r
      BY <1>2, <1>3, <1>5, <3>1
    <3>2. CASE q # r
      <4>1. q \in Sent /\ q \in Rumor /\ Tracked(q)
        BY <1>1, <1>2, <1>3, <1>5, <3>2 DEF IInv, Types
      <4>2. rState'[q] = rState[q] /\ told'[q] = told[q] /\ there'[q] = there[q]
        BY <1>2, <3>2, <4>1
      <4> QED  BY <4>1, <4>2 DEF Tracked
    <3> QED  BY <3>1, <3>2
  <2>2. OnTheWay(rState[q], Range(told[q]), there[q])'
    BY <2>1, SameRing
  <2> QED  BY <2>1, <2>2 DEF Tracked
<1> QED  BY <1>4, <1>5 DEF IInv

LEMMA SendFirstKeeps ==
  ASSUME IInv, NEW r \in Rumor, SendFirst(r)
  PROVE  IInv'
<1>1. PICK index \in 0 .. Size - 1, banned \in store \cup {NoSocket} :
        Send(r, [counter |-> 0, index |-> index, banned |-> banned])
  BY DEF SendFirst
<1> DEFINE from == [counter |-> 0, index |-> index, banned |-> banned]
<1>2. Types /\ store \subseteq Socket /\ Size \in Nat
  BY Positions DEF IInv, Types, Range
<1>3. from \in State /\ from.index < Size /\ from.index = index /\ from.counter = 0
  BY <1>2 DEF State
<1>4. told[r] = << >> /\ Range(told[r]) = {} /\ IsInjective(told[r])
  BY <1>2 DEF Types, SendFirst, Range, IsInjective
<1>5. Straight(from, Range(told[r]), store, index)
  BY <1>2, <1>3, <1>4 DEF Straight
<1>6. index \in Nat
  BY <1>2
<1> HIDE DEF from
<1>7. OnTheWay(from, Range(told[r]), store)
  BY <1>5, <1>6 DEF OnTheWay
<1>8. /\ there' \in [Rumor -> SUBSET store] /\ there'[r] = store
      /\ \A q \in Rumor : q # r => there'[q] = there[q]
      /\ UNCHANGED <<socketIDs, store>>
  BY <1>2 DEF SendFirst, Types
<1>9. Send(r, from)
  BY <1>1 DEF from
<1> QED  BY <1>3, <1>4, <1>7, <1>8, <1>9, SendTracked

LEMMA SendAgainKeeps ==
  ASSUME IInv, NEW r \in Rumor, SendAgain(r)
  PROVE  IInv'
<1> DEFINE state == rState[r]
           from == [state EXCEPT !.index = state.index % Size]
<1>1. Types /\ r \in Sent /\ UNCHANGED <<socketIDs, store, there>> /\ Size \in Nat
  BY Positions DEF IInv, SendAgain
<1>2. state \in State /\ state.index \in 0 .. Size - 1
  BY <1>1 DEF Types, State
<1>3. state.index % Size = state.index
  BY <1>1, <1>2, Remainder
<1>4. Send(r, from)
  BY DEF SendAgain
<1>5. from = state
  BY <1>2, <1>3 DEF State
<1> HIDE DEF from
<1>6. there[r] \in SUBSET store /\ there' \in [Rumor -> SUBSET store]
  BY <1>1 DEF Types
<1>7. NoRepetition => Tracked(r)
  BY <1>1 DEF IInv
<1> QED  BY <1>1, <1>2, <1>4, <1>5, <1>6, <1>7, SendTracked DEF Tracked

(***************************************************************************)
(* A server that connects is put at the end of the ring.  It was not there *)
(* when the rumors that are known were sent first.                         *)
(***************************************************************************)
LEMMA UpsertKeeps ==
  ASSUME IInv, NEW s \in Socket, Upsert(s)
  PROVE  IInv'
<1>1. Types /\ UNCHANGED <<rState, told, there>>
  BY DEF IInv, Upsert
<1>2. /\ socketIDs \in Seq(Socket) /\ store = Range(socketIDs)
      /\ socketIDs' = Append(socketIDs, s) /\ store' = store \cup {s}
  BY <1>1 DEF Types, Upsert
<1>3. socketIDs' \in Seq(Socket) /\ store' = Range(socketIDs')
  BY <1>2, AppendFacts
<1>4. IsFiniteSet(store) /\ Size \in Nat /\ (NoRepetition => Size = Len(socketIDs))
  BY <1>2, RingSize DEF Size, NoRepetition
<1>5. /\ Size' \in Nat /\ Size <= Size'
      /\ s \notin store => Size' = Size + 1
  <2>1. Size' = Cardinality(store \cup {s})
    BY <1>2 DEF Size
  <2>2. Cardinality(store \cup {s}) = IF s \in store THEN Size ELSE Size + 1
    BY <1>4, FS_AddElement DEF Size
  <2> QED  BY <1>4, <2>1, <2>2
<1>6. Types'
  <2>1. Sent' = Sent /\ \A r \in Sent : rState[r].index < Size'
    BY <1>1, <1>4, <1>5 DEF Types, Sent, State
  <2> QED  BY <1>1, <1>2, <1>3, <2>1 DEF Types
<1>7. ASSUME NoRepetition', NEW r \in Sent'
      PROVE  Tracked(r)'
  <2>1. NoRepetition /\ s \notin store
    <3>1. \A i \in DOMAIN socketIDs :
            /\ i \in DOMAIN socketIDs' /\ i # Len(socketIDs) + 1
            /\ socketIDs'[i] = socketIDs[i]
      BY <1>2
    <3>2. Len(socketIDs) + 1 \in DOMAIN socketIDs' /\ socketIDs'[Len(socketIDs) + 1] = s
      BY <1>2
    <3>3. \A i, j \in DOMAIN socketIDs' : socketIDs'[i] = socketIDs'[j] => i = j
      BY <1>7 DEF NoRepetition, IsInjective
    <3>4. NoRepetition
      BY <3>1, <3>3 DEF NoRepetition, IsInjective
    <3>5. s \notin store
      BY <1>2, <3>1, <3>2, <3>3 DEF Range
    <3> QED  BY <3>4, <3>5
  <2>2. \A p \in 0 .. Size - 1 : At(p)' = At(p)
    BY <1>2, <1>4, <2>1 DEF At
  <2>3. r \in Sent /\ r \in Rumor /\ Tracked(r) /\ there[r] \subseteq store /\ there[r] # store'
    BY <1>1, <1>2, <1>7, <2>1 DEF IInv, Types, Sent
  <2>4. rState[r].index \in 0 .. Size - 1
    BY <1>1, <1>4, <2>3 DEF Types, State
  <2>5. ASSUME NEW start \in Nat, Straight(rState[r], Range(told[r]), there[r], start)
        PROVE  Straight(rState[r], Range(told[r]), there[r], start)'
    BY <1>1, <1>4, <2>2, <2>3, <2>4, <2>5 DEF Straight, Passed
  <2>6. ASSUME NEW start \in Nat, NEW size \in Nat,
               Wrapped(rState[r], Range(told[r]), there[r], start, size)
        PROVE  Wrapped(rState[r], Range(told[r]), there[r], start, size)'
    BY <1>1, <1>4, <1>5, <2>2, <2>3, <2>4, <2>6 DEF Wrapped, Passed
  <2>7. Around(rState[r], Range(told[r]), there[r]) => Around(rState[r], Range(told[r]), there[r])'
    BY <1>1, <2>3 DEF Around
  <2>8. OnTheWay(rState[r], Range(told[r]), there[r])'
    BY <2>3, <2>5, <2>6, <2>7 DEF OnTheWay, Tracked
  <2> QED  BY <1>1, <2>3, <2>8 DEF Tracked
<1> QED  BY <1>6, <1>7 DEF IInv

-----------------------------------------------------------------------------
(***************************************************************************)
(* IInv is inductive.                                                      *)
(***************************************************************************)
LEMMA InitIInv == Init => IInv
<1> SUFFICES ASSUME Init PROVE IInv
  OBVIOUS
<1>1. socketIDs = << >> /\ store = {} /\ rState = << >> /\ Sent = {}
  BY DEF Init, Sent
<1>2. socketIDs \in Seq(Socket) /\ store = Range(socketIDs)
  BY <1>1 DEF Range
<1>3. rState \in [Sent -> State]
  BY <1>1
<1>4. Types
  BY <1>1, <1>2, <1>3 DEF Init, Types
<1> QED  BY <1>1, <1>4 DEF IInv

LEMMA NextIInv == IInv /\ [Next]_vars => IInv'
<1> SUFFICES ASSUME IInv, [Next]_vars PROVE IInv'
  OBVIOUS
<1>1. ASSUME NEW s \in Socket, Connect(s) \/ HandleChallenge(s) PROVE IInv'
  BY <1>1, UpsertKeeps DEF Connect, HandleChallenge
<1>2. ASSUME NEW r \in Rumor, SendFirst(r) PROVE IInv'
  BY <1>2, SendFirstKeeps
<1>3. ASSUME NEW r \in Rumor, SendAgain(r) PROVE IInv'
  BY <1>3, SendAgainKeeps
<1>4. CASE UNCHANGED vars
  BY <1>4 DEF vars, IInv, Types, Sent, State, Size, NoRepetition, Tracked, OnTheWay,
              Straight, Wrapped, Around, Passed, At, Completed
<1> QED  BY <1>1, <1>2, <1>3, <1>4 DEF Next

(***************************************************************************)
(* The inductive invariant.                                                *)
(***************************************************************************)
THEOREM Invariance == Spec => []IInv
BY InitIInv, NextIInv, PTL DEF Spec

(***************************************************************************)
(* A rumor is never sent back to where it came from, however many servers  *)
(* connect while it goes round.                                            *)
(***************************************************************************)
THEOREM NotSentBack == Spec => []NeverBack
<1>1. IInv => NeverBack
  BY DEF IInv, NeverBack, Tracked
<1> QED  BY <1>1, Invariance, PTL

(***************************************************************************)
(* A rumor is sent to nobody twice while nobody connects.                  *)
(***************************************************************************)
THEOREM SentOnce == Spec => []ToldOnce
<1>1. IInv => ToldOnce
  BY DEF IInv, ToldOnce, Tracked
<1> QED  BY <1>1, Invariance, PTL

(***************************************************************************)
(* After as many steps as there are servers a rumor was sent to all that   *)
(* were there at the beginning, although the ring grew meanwhile.          *)
(***************************************************************************)
THEOREM CycleIsComplete == Spec => []CycleTellsThoseThere
<1>1. IInv => CycleTellsThoseThere
  <2> SUFFICES ASSUME IInv, NEW r \in Sent, NoRepetition, Completed(rState[r]),
                      NEW s \in there[r], s # rState[r].banned
               PROVE  s \in Range(told[r])
    BY DEF CycleTellsThoseThere
  <2>1. /\ Size \in Nat /\ rState[r].index \in 0 .. Size - 1 /\ rState[r].counter >= Size
        /\ OnTheWay(rState[r], Range(told[r]), there[r])
    BY Positions DEF IInv, Types, State, Completed, Tracked
  <2>2. ASSUME NEW start \in Nat, Straight(rState[r], Range(told[r]), there[r], start)
        PROVE  FALSE
    BY <2>1, <2>2 DEF Straight
  <2>3. ASSUME NEW start \in Nat, NEW size \in Nat,
               Wrapped(rState[r], Range(told[r]), there[r], start, size)
        PROVE  s \in Range(told[r])
    <3>1. PICK p \in 0 .. size - 1 : At(p) = s
      BY <2>3 DEF Wrapped
    <3>2. p \in start .. size - 1 \/ p \in 0 .. rState[r].index - 1
      BY <2>1, <2>3 DEF Wrapped
    <3> QED  BY <2>3, <3>1, <3>2 DEF Wrapped, Passed
  <2> QED  BY <2>1, <2>2, <2>3 DEF OnTheWay, Around
<1> QED  BY <1>1, Invariance, PTL
=============================================================================
