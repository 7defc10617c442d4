-------------------------- MODULE RumorGossipProofs --------------------------
(***************************************************************************)
(* The safety of the gossip protocol, for every network, every number of   *)
(* rumors and any number of crashes.  First the comparisons of timestamps  *)
(* and the rows of a rumor table: what a well-formed table is, and that    *)
(* closing the open rumor and storing a rumor of another server keep it    *)
(* well formed; nothing there depends on the state of the system.  Then an *)
(* inductive invariant, and from it TypeOK, ContiguousRumors,              *)
(* RumorAgreement, CausalClosure and ReceivedGrows of RumorGossip; and     *)
(* that it implements CausalBroadcast.                                     *)
(***************************************************************************)
EXTENDS RumorGossip, FiniteSetTheorems, SequenceTheorems, TLAPS

(***************************************************************************)
(* The type of a timestamp, in the form the provers use.                   *)
(***************************************************************************)
LEMMA TimestampType ==
  ASSUME NEW t \in Timestamp
  PROVE  /\ \A s \in Server : t[s] \in Int /\ t[s] >= -1
         /\ \A s \in Server : s \in Entries(t) <=> t[s] \in Nat
         /\ \A s \in Server : s \notin Entries(t) <=> t[s] = -1
BY DEF Timestamp, Entries, Absent

(***************************************************************************)
(* Exceeds, the flag computed by one loop of mrumor's IsBefore, is the     *)
(* negation of the pointwise order.                                        *)
(***************************************************************************)
LEMMA ExceedsIsNotLeq ==
  ASSUME NEW t \in Timestamp, NEW o \in Timestamp
  PROVE  Exceeds(t, o) <=> ~VectorLeq(t, o)
<1>1. ASSUME Exceeds(t, o) PROVE ~VectorLeq(t, o)
  <2>1. PICK s \in Entries(t) : s \notin Entries(o) \/ o[s] < t[s]
    BY <1>1 DEF Exceeds
  <2>2. s \in Server /\ t[s] \in Nat
    BY TimestampType DEF Entries
  <2>3. ~(t[s] <= o[s])
    BY <2>1, <2>2, TimestampType
  <2> QED  BY <2>2, <2>3 DEF VectorLeq
<1>2. ASSUME ~VectorLeq(t, o) PROVE Exceeds(t, o)
  <2>1. PICK s \in Server : ~(t[s] <= o[s])
    BY <1>2 DEF VectorLeq
  <2>2. s \in Entries(t) /\ o[s] < t[s]
    BY <2>1, TimestampType
  <2> QED  BY <2>2 DEF Exceeds
<1> QED  BY <1>1, <1>2

(***************************************************************************)
(* Timestamps that are pointwise equal are equal.                          *)
(***************************************************************************)
LEMMA LeqAntisymmetric ==
  ASSUME NEW t \in Timestamp, NEW o \in Timestamp,
         VectorLeq(t, o), VectorLeq(o, t)
  PROVE  t = o
<1>1. ASSUME NEW s \in Server PROVE t[s] = o[s]
  <2>1. t[s] <= o[s] /\ o[s] <= t[s]
    BY DEF VectorLeq
  <2> QED  BY <2>1, TimestampType
<1> QED  BY <1>1 DEF Timestamp

(***************************************************************************)
(* The pointwise order is transitive.                                      *)
(***************************************************************************)
LEMMA LeqTransitive ==
  ASSUME NEW t \in Timestamp, NEW u \in Timestamp, NEW v \in Timestamp,
         VectorLeq(t, u), VectorLeq(u, v)
  PROVE  VectorLeq(t, v)
<1> SUFFICES ASSUME NEW s \in Server PROVE t[s] <= v[s]
  BY DEF VectorLeq
<1>1. t[s] <= u[s] /\ u[s] <= v[s]
  BY DEF VectorLeq
<1> QED  BY <1>1, TimestampType

(***************************************************************************)
(* The two loops of mrumor's IsBefore compute the strict pointwise order.  *)
(***************************************************************************)
THEOREM IsBeforeIsVectorLess ==
  ASSUME NEW t \in Timestamp, NEW o \in Timestamp
  PROVE  IsBefore(t, o) <=> VectorLess(t, o)
<1>1. VectorLeq(t, t)
  <2> SUFFICES ASSUME NEW s \in Server PROVE t[s] <= t[s]
    BY DEF VectorLeq
  <2> QED  BY TimestampType
<1> QED  BY <1>1, ExceedsIsNotLeq, LeqAntisymmetric DEF IsBefore, VectorLess

(***************************************************************************)
(* IsBefore is a strict partial order: what the two sorts of the protocol  *)
(* compare with is consistent.  (It is not a weak order: incomparability   *)
(* is not transitive.)                                                     *)
(***************************************************************************)
THEOREM IsBeforeStrictOrder ==
  ASSUME NEW t \in Timestamp, NEW u \in Timestamp, NEW v \in Timestamp
  PROVE  /\ ~IsBefore(t, t)
         /\ IsBefore(t, u) => ~IsBefore(u, t)
         /\ IsBefore(t, u) /\ IsBefore(u, v) => IsBefore(t, v)
<1>1. /\ ~VectorLess(t, t)
      /\ VectorLess(t, u) => ~VectorLess(u, t)
      /\ VectorLess(t, u) /\ VectorLess(u, v) => VectorLess(t, v)
  BY LeqTransitive, LeqAntisymmetric DEF VectorLess
<1> QED  BY <1>1, IsBeforeIsVectorLess

(***************************************************************************)
(* A rumor the database accepts is never left in the buffer: when its own  *)
(* timestamp names at most its sender's previous rumor, CheckTimestamp     *)
(* implies IsValid.  (The converse fails: Lookup   *)
(* reads an entry that is missing as 0.)                                   *)
(***************************************************************************)
THEOREM CheckedIsValid ==
  ASSUME NEW state \in Timestamp, NEW t \in Timestamp,
         NEW sender \in Server, NEW id \in Nat,
         t[sender] <= id - 1,
         CheckTimestamp(state, sender, id, t)
  PROVE  IsValid(state, t)
<1> SUFFICES ASSUME NEW s \in Entries(t)
             PROVE  t[s] <= Lookup(state, s)
  BY DEF IsValid
<1>1. s \in Server /\ t[s] \in Nat
  BY TimestampType DEF Entries
<1>2. CASE s # sender
  BY <1>1, <1>2 DEF CheckTimestamp, Lookup, Entries
<1>3. CASE s = sender
  BY <1>1, <1>3, TimestampType DEF CheckTimestamp, Lookup, Entries
<1> QED  BY <1>2, <1>3

(***************************************************************************)
(* A rumor is accepted or already there, never both, and once the state    *)
(* has advanced to it, it is already there.                                *)
(***************************************************************************)
THEOREM AcceptedOnce ==
  ASSUME NEW state \in Timestamp, NEW t \in Timestamp,
         NEW sender \in Server, NEW id \in Nat,
         CheckTimestamp(state, sender, id, t)
  PROVE  /\ ~AlreadyExists(state, sender, id)
         /\ AlreadyExists([state EXCEPT ![sender] = id], sender, id)
<1>1. ~AlreadyExists(state, sender, id)
  BY TimestampType DEF CheckTimestamp, AlreadyExists
<1>2. AlreadyExists([state EXCEPT ![sender] = id], sender, id)
  BY DEF AlreadyExists, Entries, Timestamp, Absent
<1> QED  BY <1>1, <1>2

-----------------------------------------------------------------------------
(***************************************************************************)
(* A table of server n is good when n has an open row, the ids of every    *)
(* sender are an unbroken prefix, no two rows have the same key, and each  *)
(* row but the open one follows its sender's previous rumor and depends on *)
(* nothing that the table lacks.                                           *)
(***************************************************************************)
Prefix(ids) == ids # {} => \E k \in ids : ids = 0 .. k

FollowsPrevious(r) == r.timestamp[r.sender] = r.id - 1

GoodRows(n, rows) ==
  /\ rows \in FiniteSubsets(Rumor)
  /\ IDs(rows, n) # {}
  /\ \A s \in Server : Prefix(IDs(rows, s))
  /\ \A r, q \in rows : SameID(r, q) => r = q
  /\ \A r \in Closed(n, rows) :
       /\ FollowsPrevious(r)
       /\ VectorLeq(r.timestamp, GetRumorTimestamp(n, rows))

-----------------------------------------------------------------------------
(***************************************************************************)
(* The last id of an unbroken prefix.                                      *)
(***************************************************************************)
LEMMA LastIDIs ==
  ASSUME NEW rows, NEW s, NEW k \in Nat, IDs(rows, s) = 0 .. k
  PROVE  LastID(rows, s) = k
<1>1. k \in IDs(rows, s) /\ \A j \in IDs(rows, s) : j <= k
  OBVIOUS
<1>2. ASSUME NEW i \in IDs(rows, s), \A j \in IDs(rows, s) : j <= i
      PROVE  i = k
  <2>1. i \in 0 .. k /\ k <= i
    BY <1>1, <1>2
  <2> QED  BY <2>1
<1> QED  BY <1>1, <1>2 DEF LastID

LEMMA GoodLastID ==
  ASSUME NEW n \in Server, NEW rows, GoodRows(n, rows),
         NEW s \in Server, IDs(rows, s) # {}
  PROVE  /\ LastID(rows, s) \in Nat
         /\ IDs(rows, s) = 0 .. LastID(rows, s)
<1>1. IDs(rows, s) \subseteq Nat
  BY DEF GoodRows, IDs, FiniteSubsets, Rumor
<1>2. PICK k \in IDs(rows, s) : IDs(rows, s) = 0 .. k
  BY DEF GoodRows, Prefix
<1> QED  BY <1>1, <1>2, LastIDIs

(***************************************************************************)
(* The state of a good table is a timestamp, and names for every sender    *)
(* the last of its rows that is not open.                                  *)
(***************************************************************************)
LEMMA GoodState ==
  ASSUME NEW n \in Server, NEW rows, GoodRows(n, rows)
  PROVE  /\ GetRumorTimestamp(n, rows) \in Timestamp
         /\ \A s \in Server : IDs(rows, s) # {} => LastID(rows, s) \in Nat
         /\ \A s \in Server \ {n} :
              GetRumorTimestamp(n, rows)[s] =
                IF IDs(rows, s) = {} THEN -1 ELSE LastID(rows, s)
         /\ GetRumorTimestamp(n, rows)[n] = LastID(rows, n) - 1
<1>1. \A s \in Server : IDs(rows, s) # {} => LastID(rows, s) \in Nat
  BY GoodLastID
<1>2. LastID(rows, n) \in Nat
  BY <1>1 DEF GoodRows
<1>3. LastID(rows, n) - 1 \in Nat \cup {-1}
  BY <1>2
<1> QED  BY <1>1, <1>2, <1>3 DEF GetRumorTimestamp, Timestamp, Absent

LEMMA ClosedByState ==
  ASSUME NEW n \in Server, NEW rows, GoodRows(n, rows), NEW r \in rows
  PROVE  /\ r \in Rumor
         /\ r \in Closed(n, rows) <=> r.id <= GetRumorTimestamp(n, rows)[r.sender]
<1>1. r \in Rumor /\ r.sender \in Server /\ r.id \in Nat
  BY DEF GoodRows, FiniteSubsets, Rumor
<1>2. r.id \in IDs(rows, r.sender)
  BY DEF IDs
<1>3. LastID(rows, r.sender) \in Nat /\ r.id \in 0 .. LastID(rows, r.sender)
  BY <1>1, <1>2, GoodLastID
<1>4. CASE r.sender = n
  <2>1. GetRumorTimestamp(n, rows)[r.sender] = LastID(rows, n) - 1
    BY <1>4, GoodState
  <2> QED  BY <1>1, <1>3, <1>4, <2>1 DEF Closed
<1>5. CASE r.sender # n
  <2>1. GetRumorTimestamp(n, rows)[r.sender] = LastID(rows, r.sender)
    BY <1>1, <1>2, <1>5, GoodState
  <2> QED  BY <1>1, <1>3, <1>5, <2>1 DEF Closed
<1> QED  BY <1>1, <1>4, <1>5

(***************************************************************************)
(* StoreFirstRumor changes nothing on a server that was started before,    *)
(* and makes a good table of an empty one.                                 *)
(***************************************************************************)
LEMMA FirstRumorType ==
  ASSUME NEW n \in Server
  PROVE  FirstRumor(n) \in Rumor
BY DEF FirstRumor, NewRumor, Rumor, EmptyTimestamp, Timestamp, Absent

LEMMA RestartKeepsRows ==
  ASSUME NEW n \in Server, NEW rows, GoodRows(n, rows)
  PROVE  StoreFirstRumor(n, rows) = rows
<1>1. LastID(rows, n) \in Nat /\ IDs(rows, n) = 0 .. LastID(rows, n)
  BY GoodLastID DEF GoodRows
<1>2. 0 \in IDs(rows, n)
  BY <1>1
<1>3. PICK q \in rows : q.sender = n /\ q.id = 0
  BY <1>2 DEF IDs
<1> QED  BY <1>3 DEF StoreFirstRumor, SameID, FirstRumor, NewRumor

LEMMA FirstRows ==
  ASSUME NEW n \in Server
  PROVE  GoodRows(n, StoreFirstRumor(n, {})) /\ Closed(n, StoreFirstRumor(n, {})) = {}
<1> DEFINE rows == StoreFirstRumor(n, {})
<1>1. rows = {FirstRumor(n)}
  BY DEF StoreFirstRumor
<1>2. FirstRumor(n).sender = n /\ FirstRumor(n).id = 0
  BY DEF FirstRumor, NewRumor
<1>3. IDs(rows, n) = {0} /\ \A s \in Server \ {n} : IDs(rows, s) = {}
  BY <1>1, <1>2 DEF IDs
<1>4. IDs(rows, n) = 0 .. 0
  BY <1>3
<1>5. LastID(rows, n) = 0
  BY <1>4, LastIDIs
<1>6. Closed(n, rows) = {}
  BY <1>1, <1>2, <1>5 DEF Closed
<1>7. \A s \in Server : Prefix(IDs(rows, s))
  BY <1>3, <1>4 DEF Prefix
<1>8. rows \in FiniteSubsets(Rumor)
  BY <1>1, FirstRumorType, FS_Singleton DEF FiniteSubsets
<1> QED  BY <1>1, <1>3, <1>6, <1>7, <1>8 DEF GoodRows

-----------------------------------------------------------------------------
(***************************************************************************)
(* StoreRumor: a rumor of another server that CheckTimestamp accepts, and  *)
(* what the rows are with it.                                              *)
(***************************************************************************)
Storable(n, rows, r) ==
  /\ GoodRows(n, rows) /\ r.sender # n /\ FollowsPrevious(r)
  /\ CheckTimestamp(GetRumorTimestamp(n, rows), r.sender, r.id, r.timestamp)

StoredIn(n, rows, r) ==
  /\ GoodRows(n, rows \cup {r})
  /\ Closed(n, rows \cup {r}) = Closed(n, rows) \cup {r}
  /\ GetRumorTimestamp(n, rows \cup {r}) = [GetRumorTimestamp(n, rows) EXCEPT ![r.sender] = r.id]
  /\ ~\E q \in rows : SameID(q, r)

LEMMA StoreRemote ==
  ASSUME NEW n \in Server, NEW rows, NEW r \in Rumor, Storable(n, rows, r)
  PROVE  StoredIn(n, rows, r)
<1> SUFFICES ASSUME GoodRows(n, rows), r.sender # n, FollowsPrevious(r),
                    CheckTimestamp(GetRumorTimestamp(n, rows), r.sender, r.id, r.timestamp)
             PROVE  /\ GoodRows(n, rows \cup {r})
                    /\ Closed(n, rows \cup {r}) = Closed(n, rows) \cup {r}
                    /\ GetRumorTimestamp(n, rows \cup {r}) =
                         [GetRumorTimestamp(n, rows) EXCEPT ![r.sender] = r.id]
                    /\ ~\E q \in rows : SameID(q, r)
  BY DEF Storable, StoredIn
<1> DEFINE state == GetRumorTimestamp(n, rows)
           rows2 == rows \cup {r}
           state2 == GetRumorTimestamp(n, rows2)
<1>1. /\ r.sender \in Server /\ r.id \in Nat /\ r.timestamp \in Timestamp
      /\ state \in Timestamp
  BY GoodState DEF Rumor
<1>2. IDs(rows, r.sender) = {} => r.id = 0
  BY <1>1, GoodState DEF CheckTimestamp, Entries, Absent
<1>3. IDs(rows, r.sender) # {} =>
        /\ LastID(rows, r.sender) \in Nat
        /\ IDs(rows, r.sender) = 0 .. LastID(rows, r.sender)
        /\ r.id = LastID(rows, r.sender) + 1
  BY <1>1, GoodState, GoodLastID DEF CheckTimestamp, Entries, Absent
<1>4. IDs(rows2, r.sender) = IDs(rows, r.sender) \cup {r.id}
  BY DEF IDs
<1>5. \A s \in Server \ {r.sender} : IDs(rows2, s) = IDs(rows, s)
  BY DEF IDs
<1>6. IDs(rows2, r.sender) = 0 .. r.id
  <2>1. CASE IDs(rows, r.sender) = {}
    <3>1. IDs(rows2, r.sender) = {0} /\ r.id = 0
      BY <1>2, <1>4, <2>1
    <3> QED  BY <3>1
  <2>2. CASE IDs(rows, r.sender) # {}
    <3>1. PICK k \in Nat : IDs(rows, r.sender) = 0 .. k /\ r.id = k + 1
      BY <1>3, <2>2
    <3> HIDE DEF rows2
    <3>2. IDs(rows2, r.sender) = (0 .. k) \cup {k + 1}
      BY <1>4, <3>1
    <3> QED  BY <3>1, <3>2
  <2> QED  BY <2>1, <2>2
<1>7. /\ LastID(rows2, r.sender) = r.id
      /\ \A s \in Server \ {r.sender} : LastID(rows2, s) = LastID(rows, s)
  BY <1>1, <1>5, <1>6, LastIDIs DEF LastID
<1>8. Closed(n, rows2) = Closed(n, rows) \cup {r}
  BY <1>1, <1>7 DEF Closed
<1>9. state2 = [state EXCEPT ![r.sender] = r.id]
  BY <1>1, <1>4, <1>5, <1>7 DEF GetRumorTimestamp
<1>10. ~\E q \in rows : SameID(q, r)
  <2> SUFFICES ASSUME NEW q \in rows, q.sender = r.sender, q.id = r.id
               PROVE  FALSE
    BY DEF SameID
  <2>1. r.id \in IDs(rows, r.sender)
    BY DEF IDs
  <2> QED  BY <1>1, <1>3, <2>1
<1>11. VectorLeq(state, state2)
  <2> SUFFICES ASSUME NEW s \in Server PROVE state[s] <= state2[s]
    BY DEF VectorLeq
  <2>1. CASE s # r.sender
    <3>1. state2[s] = state[s]
      BY <1>1, <1>9, <2>1 DEF Timestamp
    <3>2. state[s] \in Int
      BY <1>1, TimestampType
    <3> HIDE DEF state, state2
    <3> QED  BY <3>1, <3>2
  <2>2. CASE s = r.sender
    <3>1. state[s] = -1 \/ state[s] = r.id - 1
      BY <1>1, <1>2, <1>3, <2>2, GoodState
    <3>2. state2[s] = r.id
      BY <1>1, <1>9, <2>2 DEF Timestamp
    <3> QED  BY <1>1, <1>2, <3>1, <3>2
  <2> QED  BY <2>1, <2>2
<1>12. VectorLeq(r.timestamp, state2)
  <2> SUFFICES ASSUME NEW s \in Server PROVE r.timestamp[s] <= state2[s]
    BY DEF VectorLeq
  <2>1. CASE s = r.sender
    <3>1. r.timestamp[s] = r.id - 1 /\ state2[s] = r.id
      BY <1>1, <1>9, <2>1 DEF FollowsPrevious, Timestamp
    <3> QED  BY <1>1, <3>1
  <2>2. CASE s # r.sender
    <3>1. r.timestamp[s] <= state[s]
      BY <1>1, <2>2, TimestampType DEF CheckTimestamp, Entries
    <3> QED  BY <1>1, <1>9, <2>2, <3>1 DEF Timestamp
  <2> QED  BY <2>1, <2>2
<1>13. \A q \in Closed(n, rows2) :
         FollowsPrevious(q) /\ VectorLeq(q.timestamp, state2)
  <2> SUFFICES ASSUME NEW q \in Closed(n, rows)
               PROVE  FollowsPrevious(q) /\ VectorLeq(q.timestamp, state2)
    BY <1>8, <1>12
  <2>1. q.timestamp \in Timestamp
    BY DEF GoodRows, FiniteSubsets, Closed, Rumor
  <2>2. FollowsPrevious(q) /\ VectorLeq(q.timestamp, state)
    BY DEF GoodRows
  <2>3. state2 \in Timestamp
    BY <1>1, <1>9 DEF Timestamp
  <2> QED  BY <1>1, <1>11, <2>1, <2>2, <2>3, LeqTransitive
<1>14. rows2 \in FiniteSubsets(Rumor)
  BY FS_AddElement DEF GoodRows, FiniteSubsets
<1>15. \A s \in Server : Prefix(IDs(rows2, s))
  <2>1. r.id \in 0 .. r.id
    BY <1>1
  <2>2. Prefix(IDs(rows2, r.sender))
    BY <1>6, <2>1 DEF Prefix
  <2> QED  BY <1>5, <2>2 DEF GoodRows
<1>16. \A p, q \in rows2 : SameID(p, q) => p = q
  BY <1>10 DEF GoodRows, SameID
<1>17. IDs(rows2, n) # {}
  BY <1>5 DEF GoodRows
<1>18. GoodRows(n, rows2)
  BY <1>13, <1>14, <1>15, <1>16, <1>17 DEF GoodRows
<1> QED  BY <1>8, <1>9, <1>10, <1>18

(***************************************************************************)
(* GetAndIncrementMyRumor: the open row is given the state as its          *)
(* timestamp, and the next row is opened.                                  *)
(***************************************************************************)
MyRumor(n, rows) == NewRumor(n, LastID(rows, n), GetRumorTimestamp(n, rows))
NextRow(n, rows) == NewRumor(n, LastID(rows, n) + 1, EmptyTimestamp)
CloseRow(n, rows) == Closed(n, rows) \cup {MyRumor(n, rows), NextRow(n, rows)}

LEMMA CloseOwn ==
  ASSUME NEW n \in Server, NEW rows, GoodRows(n, rows)
  PROVE  /\ MyRumor(n, rows) \in Rumor
         /\ MyRumor(n, rows).sender = n
         /\ GoodRows(n, CloseRow(n, rows))
         /\ Closed(n, CloseRow(n, rows)) =
              Closed(n, rows) \cup {MyRumor(n, rows)}
         /\ GetRumorTimestamp(n, CloseRow(n, rows)) =
              [GetRumorTimestamp(n, rows) EXCEPT ![n] = LastID(rows, n)]
<1> DEFINE mine == MyRumor(n, rows)
           new == NextRow(n, rows)
           state == GetRumorTimestamp(n, rows)
           last == LastID(rows, n)
           rows2 == Closed(n, rows) \cup {mine, new}
           state2 == GetRumorTimestamp(n, rows2)
<1>1. /\ last \in Nat /\ IDs(rows, n) = 0 .. last
      /\ state \in Timestamp /\ state[n] = last - 1
  BY GoodState, GoodLastID DEF GoodRows
<1>2. /\ mine \in Rumor /\ mine.sender = n /\ mine.id = last
      /\ mine.timestamp = state
      /\ new \in Rumor /\ new.sender = n /\ new.id = last + 1
  BY <1>1 DEF MyRumor, NextRow, NewRumor, Rumor, EmptyTimestamp, Timestamp, Absent
<1> HIDE DEF mine, new
<1>3. IDs(rows2, n) = 0 .. last + 1
  <2>1. \A q \in rows : q.sender = n => q.id \in 0 .. last
    BY <1>1 DEF IDs
  <2>2. \A i \in 0 .. last : \E q \in rows : q.sender = n /\ q.id = i
    BY <1>1 DEF IDs
  <2>3. \A q \in Closed(n, rows) : q.sender = n => q.id \in 0 .. last - 1
    BY <1>1, <2>1 DEF Closed
  <2>4. \A i \in 0 .. last - 1 : \E q \in Closed(n, rows) : q.sender = n /\ q.id = i
    BY <1>1, <2>2 DEF Closed
  <2>5. \A i \in 0 .. last + 1 : i \in IDs(rows2, n)
    BY <1>1, <1>2, <2>4 DEF IDs
  <2>6. \A i \in IDs(rows2, n) : i \in 0 .. last + 1
    BY <1>1, <1>2, <2>3 DEF IDs
  <2> QED  BY <2>5, <2>6
<1>4. \A s \in Server \ {n} : IDs(rows2, s) = IDs(rows, s)
  BY <1>2 DEF IDs, Closed
<1>5. /\ LastID(rows2, n) = last + 1
      /\ \A s \in Server \ {n} : LastID(rows2, s) = LastID(rows, s)
  <2>1. last + 1 \in Nat
    BY <1>1
  <2>2. LastID(rows2, n) = last + 1
    BY <1>3, <2>1, LastIDIs
  <2> QED  BY <1>4, <2>2 DEF LastID
<1>6. ASSUME NEW q \in Closed(n, rows), q.sender = n PROVE q.id \in Nat /\ q.id < last
  <2>1. q.id \in IDs(rows, n) /\ q.id # last
    BY <1>6 DEF Closed, IDs
  <2>2. q.id \in 0 .. last
    BY <1>1, <2>1
  <2> HIDE DEF last
  <2> QED  BY <1>1, <2>1, <2>2
<1>7. Closed(n, rows2) = Closed(n, rows) \cup {mine}
  <2>1. Closed(n, rows2) = {q \in rows2 : q.sender = n => q.id # last + 1}
    BY <1>5 DEF Closed
  <2>2. new \notin Closed(n, rows2) /\ mine \in Closed(n, rows2)
    <3>1. new.sender = n /\ new.id = last + 1 /\ mine \in rows2
      BY <1>2
    <3>2. mine.id # last + 1
      BY <1>1, <1>2
    <3> HIDE DEF last, rows2
    <3> QED  BY <2>1, <3>1, <3>2
  <2>3. ASSUME NEW q \in Closed(n, rows) PROVE q \in Closed(n, rows2)
    <3>1. q.sender = n => q.id \in Nat /\ q.id < last
      BY <1>6
    <3> HIDE DEF last
    <3>2. q.sender = n => q.id # last + 1
      BY <1>1, <3>1
    <3> QED  BY <2>1, <3>2 DEF last
  <2>4. Closed(n, rows2) \subseteq rows2
    BY <2>1
  <2> HIDE DEF last
  <2> QED  BY <2>2, <2>3, <2>4
<1>8. state2 = [state EXCEPT ![n] = last]
  <2>1. \A s \in Server : state2[s] = IF s = n THEN last ELSE state[s]
    <3>1. state2[n] = LastID(rows2, n) - 1
      BY DEF GetRumorTimestamp
    <3>2. LastID(rows2, n) - 1 = last
      BY <1>1, <1>5
    <3>3. \A s \in Server \ {n} : state2[s] = state[s]
      BY <1>4, <1>5 DEF GetRumorTimestamp
    <3> QED  BY <3>1, <3>2, <3>3
  <2>2. state2 = [s \in Server |-> state2[s]] /\ state = [s \in Server |-> state[s]]
    BY DEF GetRumorTimestamp
  <2> HIDE DEF state, state2, last
  <2> QED  BY <2>1, <2>2
<1>9. VectorLeq(state, state2)
  <2> SUFFICES ASSUME NEW s \in Server PROVE state[s] <= state2[s]
    BY DEF VectorLeq
  <2>1. state2[s] = IF s = n THEN last ELSE state[s]
    BY <1>1, <1>8 DEF Timestamp
  <2> QED  BY <1>1, <2>1, TimestampType
<1>10. \A q \in Closed(n, rows2) :
         FollowsPrevious(q) /\ VectorLeq(q.timestamp, state2)
  <2>1. FollowsPrevious(mine) /\ VectorLeq(mine.timestamp, state2)
    BY <1>1, <1>2, <1>9 DEF FollowsPrevious
  <2> SUFFICES ASSUME NEW q \in Closed(n, rows)
               PROVE  FollowsPrevious(q) /\ VectorLeq(q.timestamp, state2)
    BY <1>7, <2>1
  <2>2. q.timestamp \in Timestamp
    BY DEF GoodRows, FiniteSubsets, Closed, Rumor
  <2>3. FollowsPrevious(q) /\ VectorLeq(q.timestamp, state)
    BY DEF GoodRows
  <2>4. state2 \in Timestamp
    BY <1>1, <1>8 DEF Timestamp
  <2> QED  BY <1>1, <1>9, <2>2, <2>3, <2>4, LeqTransitive
<1>11. rows2 \in FiniteSubsets(Rumor)
  <2>1. Closed(n, rows) \in SUBSET rows /\ IsFiniteSet(rows) /\ rows \subseteq Rumor
    BY DEF Closed, GoodRows, FiniteSubsets
  <2>2. IsFiniteSet(Closed(n, rows))
    BY <2>1, FS_Subset
  <2>3. IsFiniteSet((Closed(n, rows) \cup {mine}) \cup {new})
    BY <2>2, FS_AddElement
  <2>4. (Closed(n, rows) \cup {mine}) \cup {new} = rows2
    OBVIOUS
  <2> QED  BY <1>2, <2>1, <2>3, <2>4 DEF FiniteSubsets
<1>12. \A s \in Server : Prefix(IDs(rows2, s))
  <2>1. last + 1 \in 0 .. last + 1
    BY <1>1
  <2>2. Prefix(IDs(rows2, n))
    BY <1>3, <2>1 DEF Prefix
  <2> QED  BY <1>4, <2>2 DEF GoodRows
<1>13. \A p, q \in rows2 : SameID(p, q) => p = q
  <2>1. \A p, q \in Closed(n, rows) : SameID(p, q) => p = q
    BY DEF GoodRows, Closed
  <2>2. \A q \in Closed(n, rows) : ~SameID(q, mine) /\ ~SameID(q, new)
    BY <1>1, <1>2, <1>6 DEF SameID
  <2> QED  BY <1>1, <1>2, <2>1, <2>2 DEF SameID
<1>14. IDs(rows2, n) # {}
  <2>1. 0 \in 0 .. last + 1
    BY <1>1
  <2> QED  BY <1>3, <2>1
<1>15. GoodRows(n, rows2)
  BY <1>10, <1>11, <1>12, <1>13, <1>14 DEF GoodRows
<1> QED  BY <1>2, <1>7, <1>8, <1>15 DEF CloseRow, mine, new

-----------------------------------------------------------------------------
(***************************************************************************)
(* The rumors that were sent: the sender has them in a row that is not     *)
(* open any more.                                                          *)
(***************************************************************************)
Known == {r \in Rumor : r \in Received(r.sender)}

(***************************************************************************)
(* Every rumor held outside the table, by a server or by a connection, is  *)
(* one of R.                                                               *)
(***************************************************************************)
LinkType(R) == [Server -> [Server -> Seq(Message(R))]]
WorkType(R) == [Server -> Seq([rumor : R, from : Server])]
ToldType == [Server -> SUBSET (Server \X Nat \X Server)]

Typed(R) ==
  /\ pending \in [Server -> BOOLEAN]
  /\ buffer \in [Server -> Seq(R)]
  /\ told \in ToldType
  /\ up \subseteq Links
  /\ link \in LinkType(R)
  /\ hub \in [Server -> {"idle", "store", "next"}]
  /\ storing \in [Server -> SUBSET R]
  /\ work \in WorkType(R)
  /\ sending \in [Server -> SUBSET R]
  /\ dead \in [Server -> BOOLEAN]
  /\ crashes \in 0 .. MaxCrashes

(***************************************************************************)
(* The rumor a hub is about to store can still be stored.                  *)
(***************************************************************************)
Checked(n) ==
  \A r \in storing[n] : hub[n] = "store" /\ r.sender # n /\ CheckRumor(n, r)

GoodTables ==
  /\ table \in [Server -> FiniteSubsets(Rumor)]
  /\ \A n \in Server : GoodRows(n, table[n]) /\ Received(n) \subseteq Known

IInv ==
  /\ GoodTables
  /\ Typed(Known)
  /\ \A n \in Server : Checked(n)

-----------------------------------------------------------------------------
(***************************************************************************)
(* Sequences and messages.                                                 *)
(***************************************************************************)
LEMMA ElementsOfSeq ==
  ASSUME NEW R, NEW q \in Seq(R)
  PROVE  Elements(q) \in FiniteSubsets(R)
<1>1. Len(q) \in Nat /\ q \in [1 .. Len(q) -> R] /\ DOMAIN q = 1 .. Len(q)
  BY LenProperties
<1>2. Elements(q) \subseteq R
  BY <1>1 DEF Elements
<1>3. q \in Surjection(1 .. Len(q), Elements(q))
  BY <1>1 DEF Surjection, Elements
<1>4. IsFiniteSet(1 .. Len(q))
  BY <1>1, FS_Interval
<1>5. IsFiniteSet(Elements(q))
  BY <1>3, <1>4, FS_Surjection
<1> QED  BY <1>2, <1>5 DEF FiniteSubsets

LEMMA SortingIsSeq ==
  ASSUME NEW R, NEW S \in FiniteSubsets(R), NEW q \in Sortings(S)
  PROVE  q \in Seq(R) /\ DOMAIN q = 1 .. Len(q)
<1>1. PICK k \in Nat : q \in [1 .. k -> S]
  BY FS_CardinalityType DEF Sortings, FiniteSubsets
<1>2. q \in [1 .. k -> R]
  BY <1>1 DEF FiniteSubsets
<1>3. q \in Seq(R)
  BY <1>2, SeqDef
<1> QED  BY <1>3, LenProperties

LEMMA RemoveAtIsSeq ==
  ASSUME NEW R, NEW q \in Seq(R), NEW i \in DOMAIN q
  PROVE  RemoveAt(q, i) \in Seq(R)
<1>1. Len(q) \in Nat /\ q \in [1 .. Len(q) -> R] /\ i \in 1 .. Len(q)
  BY LenProperties
<1>2. RemoveAt(q, i) \in [1 .. Len(q) - 1 -> R]
  BY <1>1 DEF RemoveAt
<1>3. Len(q) - 1 \in Nat
  BY <1>1
<1> QED  BY <1>2, <1>3, SeqDef

LEMMA MessageFields ==
  ASSUME NEW R, NEW msg \in Message(R)
  PROVE  /\ msg.type = "rumor" => msg.rumor \in R
         /\ msg.type = "rumor_answer" => msg.rumor \in R
         /\ msg.type = "rumor_state_answer" => msg.rumors \in FiniteSubsets(R)
BY DEF Message

LEMMA MessageMonotonic ==
  ASSUME NEW R, NEW S, R \subseteq S
  PROVE  Message(R) \subseteq Message(S)
BY DEF Message, FiniteSubsets

LEMMA SendType ==
  ASSUME NEW R, NEW l \in LinkType(R), NEW n \in Server, NEW m \in Server,
         NEW msg \in Message(R)
  PROVE  Send(l, n, m, msg) \in LinkType(R)
<1>1. Append(l[n][m], msg) \in Seq(Message(R))
  BY AppendProperties DEF LinkType
<1> QED  BY <1>1 DEF Send, LinkType

LEMMA ConsumedType ==
  ASSUME NEW R, link \in LinkType(R), NEW n \in Server, NEW m \in Server,
         link[m][n] # << >>
  PROVE  /\ Head(link[m][n]) \in Message(R)
         /\ Consumed(n, m) \in LinkType(R)
<1>1. link[m][n] \in Seq(Message(R))
  BY DEF LinkType
<1>2. Head(link[m][n]) \in Message(R) /\ Tail(link[m][n]) \in Seq(Message(R))
  BY <1>1, HeadTailProperties
<1> QED  BY <1>2 DEF Consumed, LinkType

LEMMA AnsweredType ==
  ASSUME NEW R, link \in LinkType(R), NEW n \in Server, NEW m \in Server,
         link[m][n] # << >>, NEW r \in R, NEW dup \in BOOLEAN
  PROVE  Answered(n, m, r, dup) \in LinkType(R)
<1>1. [type |-> "rumor_answer", rumor |-> r, duplicate |-> dup] \in Message(R)
  BY DEF Message
<1> QED  BY <1>1, ConsumedType, SendType DEF Answered

LEMMA SendRumorType ==
  ASSUME NEW R \in SUBSET Rumor, NEW l \in LinkType(R), told \in ToldType,
         NEW n \in Server, NEW from \in Server, NEW r \in R,
         SendRumor(l, n, from, r)
  PROVE  link' \in LinkType(R) /\ told' \in ToldType
<1> DEFINE skip == IF Told(n, r) = {} THEN {from} ELSE Told(n, r)
           noted(S) == [told EXCEPT ![n] =
                          @ \cup {<<r.sender, r.id, m>> : m \in S}]
<1>1. skip \subseteq Server
  BY DEF Told
<1>2. \A S \in SUBSET Server : noted(S) \in ToldType
  BY DEF ToldType, Rumor
<1>3. [type |-> "rumor", rumor |-> r] \in Message(R)
  BY DEF Message
<1>4. CASE told' = noted(skip) /\ link' = l
  BY <1>1, <1>2, <1>4
<1>5. CASE \E m \in Neighbors(n) \ skip :
             /\ told' = noted(skip \cup {m})
             /\ link' = Send(l, n, m, [type |-> "rumor", rumor |-> r])
  <2>1. PICK m \in Server :
             /\ told' = noted(skip \cup {m})
             /\ link' = Send(l, n, m, [type |-> "rumor", rumor |-> r])
    BY <1>5 DEF Neighbors
  <2>2. told' \in ToldType
    BY <1>1, <1>2, <2>1
  <2> QED  BY <1>3, <2>1, <2>2, SendType
<1> QED  BY <1>4, <1>5 DEF SendRumor

LEMMA BufferInsertType ==
  ASSUME NEW R, buffer \in [Server -> Seq(R)], NEW n \in Server, NEW r \in R,
         BufferInsert(n, r)
  PROVE  buffer' \in [Server -> Seq(R)]
<1>1. CASE UNCHANGED buffer
  BY <1>1
<1>2. CASE \E q \in Sortings(Elements(buffer[n]) \cup {r}) :
             buffer' = [buffer EXCEPT ![n] = q]
  <2>1. Elements(buffer[n]) \cup {r} \in FiniteSubsets(R)
    <3>1. Elements(buffer[n]) \in FiniteSubsets(R)
      BY ElementsOfSeq
    <3> HIDE DEF Elements
    <3> QED  BY <3>1, FS_AddElement DEF FiniteSubsets
  <2> QED  BY <1>2, <2>1, SortingIsSeq
<1> QED  BY <1>1, <1>2 DEF BufferInsert

-----------------------------------------------------------------------------
(***************************************************************************)
(* What the invariant says of a server before a step.                      *)
(***************************************************************************)
LEMMA StateType ==
  ASSUME GoodTables, NEW n \in Server
  PROVE  State(n) \in Timestamp
BY GoodState DEF GoodTables, State

LEMMA ReceivedFinite ==
  ASSUME GoodTables, NEW n \in Server
  PROVE  Received(n) \in FiniteSubsets(Rumor)
<1>1. /\ table[n] \in SUBSET Rumor /\ IsFiniteSet(table[n])
      /\ Received(n) \in SUBSET table[n]
  BY DEF GoodTables, FiniteSubsets, Received, Closed
<1>2. IsFiniteSet(Received(n))
  BY <1>1, FS_Subset
<1> QED  BY <1>1, <1>2 DEF FiniteSubsets

LEMMA KnownFollows ==
  ASSUME GoodTables, NEW r \in Known
  PROVE  r \in Rumor /\ r.sender \in Server /\ FollowsPrevious(r)
BY DEF GoodTables, GoodRows, Known, Received, Rumor

(***************************************************************************)
(* A server never accepts a rumor of its own: it has all that were sent.   *)
(***************************************************************************)
LEMMA CheckedIsRemote ==
  ASSUME GoodTables, NEW n \in Server, NEW r \in Known, CheckRumor(n, r)
  PROVE  r.sender # n
<1> SUFFICES ASSUME r.sender = n PROVE FALSE
  OBVIOUS
<1>1. r \in Rumor /\ r \in Closed(n, table[n]) /\ r \in table[n] /\ r.id \in Nat
  BY DEF Known, Received, Closed, Rumor
<1>2. r.id <= State(n)[n]
  BY <1>1, ClosedByState DEF GoodTables, State
<1>3. r.id = IF n \in Entries(State(n)) THEN State(n)[n] + 1 ELSE 0
  BY DEF CheckRumor, CheckTimestamp
<1> QED  BY <1>1, <1>2, <1>3, StateType, TimestampType

-----------------------------------------------------------------------------
(***************************************************************************)
(* The types, action by action.  R is any set that holds the rumors known  *)
(* before the step and, if the step sends one, the new one.                *)
(***************************************************************************)
LEMMA AddMessageTyped ==
  ASSUME NEW R \in SUBSET Rumor, Typed(R), NEW n \in Server,
         AddMessageToMyRumor(n)
  PROVE  Typed(R)'
BY DEF Typed, AddMessageToMyRumor, LinkType, WorkType, ToldType

LEMMA GetAndIncrementTyped ==
  ASSUME NEW R \in SUBSET Rumor, Typed(R), NEW n \in Server,
         NewRumor(n, OpenID(n), State(n)) \in R,
         GetAndIncrementMyRumor(n)
  PROVE  Typed(R)'
BY DEF Typed, GetAndIncrementMyRumor, LinkType, WorkType, ToldType

LEMMA SendMyRumorTyped ==
  ASSUME NEW R \in SUBSET Rumor, Typed(R), NEW n \in Server, SendMyRumor(n)
  PROVE  Typed(R)'
<1>1. PICK r \in sending[n] :
        /\ SendRumor(link, n, n, r)
        /\ sending' = [sending EXCEPT ![n] = {}]
        /\ UNCHANGED <<table, pending, buffer, up, hub, storing, work, dead, crashes>>
  BY DEF SendMyRumor
<1>2. r \in R
  BY DEF Typed
<1>3. link' \in LinkType(R) /\ told' \in ToldType
  BY <1>1, <1>2, SendRumorType DEF Typed
<1>4. sending' \in [Server -> SUBSET R]
  BY <1>1 DEF Typed
<1> QED  BY <1>1, <1>3, <1>4 DEF Typed, LinkType, WorkType, ToldType

LEMMA HandleRumorTyped ==
  ASSUME NEW R \in SUBSET Rumor, Typed(R), NEW n \in Server, NEW m \in Server,
         HandleRumor(n, m)
  PROVE  Typed(R)' /\ Head(link[m][n]).rumor \in R
<1> DEFINE r == Head(link[m][n]).rumor
<1>1. /\ link[m][n] # << >> /\ Head(link[m][n]).type = "rumor"
      /\ UNCHANGED <<table, pending, up, work, sending, dead, crashes>>
  BY DEF HandleRumor, Incoming
<1>2. r \in R
  BY <1>1, ConsumedType, MessageFields DEF Typed
<1>3. \A dup \in BOOLEAN : Answered(n, m, r, dup) \in LinkType(R)
  BY <1>1, <1>2, AnsweredType DEF Typed
<1>4. CASE /\ link' = Answered(n, m, r, TRUE)
           /\ UNCHANGED <<buffer, told, hub, storing>>
  <2>1. link' \in LinkType(R)
    BY <1>3, <1>4
  <2> QED  BY <1>1, <1>2, <1>4, <2>1 DEF Typed, LinkType, WorkType, ToldType
<1>5. CASE /\ BufferInsert(n, r)
           /\ link' = Answered(n, m, r, InBuffer(n, r))
           /\ UNCHANGED <<told, hub, storing>>
  <2>1. buffer' \in [Server -> Seq(R)]
    BY <1>2, <1>5, BufferInsertType DEF Typed
  <2>2. InBuffer(n, r) \in BOOLEAN
    BY DEF InBuffer
  <2>3. link' \in LinkType(R)
    BY <1>3, <1>5, <2>2
  <2> QED  BY <1>1, <1>2, <1>5, <2>1, <2>3 DEF Typed, LinkType, WorkType, ToldType
<1>6. CASE /\ SendRumor(Answered(n, m, r, FALSE), n, m, r)
           /\ storing' = [storing EXCEPT ![n] = {r}]
           /\ hub' = [hub EXCEPT ![n] = "store"]
           /\ UNCHANGED buffer
  <2>1. link' \in LinkType(R) /\ told' \in ToldType
    BY <1>2, <1>3, <1>6, SendRumorType DEF Typed
  <2> QED  BY <1>1, <1>2, <1>6, <2>1 DEF Typed, LinkType, WorkType, ToldType
<1>7. \/ /\ link' = Answered(n, m, r, TRUE)
         /\ UNCHANGED <<buffer, told, hub, storing>>
      \/ /\ BufferInsert(n, r)
         /\ link' = Answered(n, m, r, InBuffer(n, r))
         /\ UNCHANGED <<told, hub, storing>>
      \/ /\ SendRumor(Answered(n, m, r, FALSE), n, m, r)
         /\ storing' = [storing EXCEPT ![n] = {r}]
         /\ hub' = [hub EXCEPT ![n] = "store"]
         /\ UNCHANGED buffer
  BY DEF HandleRumor
<1> QED  BY <1>2, <1>4, <1>5, <1>6, <1>7

LEMMA StoreRumorTyped ==
  ASSUME NEW R \in SUBSET Rumor, Typed(R), NEW n \in Server, StoreRumor(n)
  PROVE  Typed(R)'
BY DEF Typed, StoreRumor, LinkType, WorkType, ToldType

LEMMA HandleNextRumorTyped ==
  ASSUME NEW R \in SUBSET Rumor, Typed(R), NEW n \in Server, HandleNextRumor(n)
  PROVE  Typed(R)'
<1>1. UNCHANGED <<table, pending, up, work, sending, dead, crashes>>
  BY DEF HandleNextRumor
<1>2. CASE /\ hub' = [hub EXCEPT ![n] = "idle"]
           /\ UNCHANGED <<buffer, told, link, storing>>
  BY <1>1, <1>2 DEF Typed, LinkType, WorkType, ToldType
<1>3. ASSUME NEW i \in DOMAIN buffer[n],
             buffer' = [buffer EXCEPT ![n] = RemoveAt(@, i)],
             \/ /\ hub' = [hub EXCEPT ![n] = "idle"]
                /\ UNCHANGED <<told, link, storing>>
             \/ /\ SendRumor(link, n, n, buffer[n][i])
                /\ storing' = [storing EXCEPT ![n] = {buffer[n][i]}]
                /\ hub' = [hub EXCEPT ![n] = "store"]
      PROVE  Typed(R)'
  <2>1. buffer' \in [Server -> Seq(R)]
    BY <1>3, RemoveAtIsSeq DEF Typed
  <2>2. buffer[n][i] \in R
    BY ElementsOfSeq DEF Typed, Elements, FiniteSubsets
  <2>3. CASE /\ hub' = [hub EXCEPT ![n] = "idle"]
             /\ UNCHANGED <<told, link, storing>>
    BY <1>1, <2>1, <2>3 DEF Typed, LinkType, WorkType, ToldType
  <2>4. CASE /\ SendRumor(link, n, n, buffer[n][i])
             /\ storing' = [storing EXCEPT ![n] = {buffer[n][i]}]
             /\ hub' = [hub EXCEPT ![n] = "store"]
    <3>1. link' \in LinkType(R) /\ told' \in ToldType
      BY <2>2, <2>4, SendRumorType DEF Typed
    <3> QED  BY <1>1, <2>1, <2>2, <2>4, <3>1 DEF Typed, LinkType, WorkType, ToldType
  <2> QED  BY <1>3, <2>3, <2>4
<1> QED  BY <1>2, <1>3 DEF HandleNextRumor, Ready

LEMMA ExpireBufferedTyped ==
  ASSUME NEW R \in SUBSET Rumor, Typed(R), NEW n \in Server, ExpireBuffered(n)
  PROVE  Typed(R)'
<1>1. buffer' \in [Server -> Seq(R)]
  BY RemoveAtIsSeq DEF Typed, ExpireBuffered
<1> QED  BY <1>1 DEF Typed, ExpireBuffered, LinkType, WorkType, ToldType

LEMMA HandleRumorAnswerTyped ==
  ASSUME NEW R \in SUBSET Rumor, Typed(R), NEW n \in Server, NEW m \in Server,
         HandleRumorAnswer(n, m)
  PROVE  Typed(R)'
<1> DEFINE answer == Head(link[m][n])
<1>1. /\ link[m][n] # << >> /\ answer.type = "rumor_answer"
      /\ UNCHANGED <<table, pending, buffer, up, hub, storing, work, sending,
                     dead, crashes>>
  BY DEF HandleRumorAnswer, Incoming
<1>2. answer.rumor \in R /\ Consumed(n, m) \in LinkType(R)
  BY <1>1, ConsumedType, MessageFields DEF Typed
<1>3. \/ SendRumor(Consumed(n, m), n, n, answer.rumor)
      \/ link' = Consumed(n, m) /\ UNCHANGED told
  BY DEF HandleRumorAnswer
<1>4. link' \in LinkType(R) /\ told' \in ToldType
  BY <1>2, <1>3, SendRumorType DEF Typed
<1> QED  BY <1>1, <1>4 DEF Typed, LinkType, WorkType, ToldType

LEMMA SendRumorStateTyped ==
  ASSUME NEW R \in SUBSET Rumor, Typed(R), NEW n \in Server, NEW m \in Server,
         State(n) \in Timestamp,
         SendRumorState(n, m)
  PROVE  Typed(R)'
<1>1. StateQuery(State(n)) \in Message(R)
  BY DEF StateQuery, Message
<1>2. link' \in LinkType(R)
  BY <1>1, SendType DEF Typed, SendRumorState
<1> QED  BY <1>2 DEF Typed, SendRumorState, serverVars, LinkType, WorkType, ToldType

LEMMA HandleRumorStateTyped ==
  ASSUME NEW R \in SUBSET Rumor, Typed(R), NEW n \in Server, NEW m \in Server,
         Received(n) \in FiniteSubsets(R),
         HandleRumorState(n, m)
  PROVE  Typed(R)'
<1> DEFINE rumors == MissingFrom(n, Head(link[m][n]).state)
<1>1. rumors \in FiniteSubsets(R)
  <2>1. rumors \in SUBSET Received(n)
    BY DEF MissingFrom
  <2> QED  BY <2>1, FS_Subset DEF FiniteSubsets
<1>2. [type |-> "rumor_state_answer", rumors |-> rumors] \in Message(R)
  BY <1>1 DEF Message
<1>3. link[m][n] # << >>
  BY DEF HandleRumorState, Incoming
<1>4. link' \in LinkType(R)
  BY <1>2, <1>3, ConsumedType, SendType DEF Typed, HandleRumorState
<1> QED  BY <1>4 DEF Typed, HandleRumorState, serverVars, LinkType, WorkType, ToldType

LEMMA HandleRumorStateAnswerTyped ==
  ASSUME NEW R \in SUBSET Rumor, Typed(R), NEW n \in Server, NEW m \in Server,
         HandleRumorStateAnswer(n, m)
  PROVE  Typed(R)'
<1>1. /\ link[m][n] # << >> /\ Head(link[m][n]).type = "rumor_state_answer"
      /\ link' = Consumed(n, m)
      /\ UNCHANGED <<table, pending, buffer, told, up, hub, storing, sending,
                     dead, crashes>>
  BY DEF HandleRumorStateAnswer, Incoming
<1>2. Head(link[m][n]).rumors \in FiniteSubsets(R) /\ link' \in LinkType(R)
  BY <1>1, ConsumedType, MessageFields DEF Typed
<1>3. PICK q \in Sortings(Head(link[m][n]).rumors) :
        work' = [work EXCEPT ![n] = [i \in DOMAIN q |-> [rumor |-> q[i], from |-> m]]]
  BY DEF HandleRumorStateAnswer
<1>4. q \in Seq(R) /\ DOMAIN q = 1 .. Len(q)
  BY <1>2, SortingIsSeq
<1>5. Len(q) \in Nat /\ q \in [1 .. Len(q) -> R]
  BY <1>4, LenProperties
<1>6. [i \in DOMAIN q |-> [rumor |-> q[i], from |-> m]]
        \in [1 .. Len(q) -> [rumor : R, from : Server]]
  BY <1>4, <1>5
<1>7. [i \in DOMAIN q |-> [rumor |-> q[i], from |-> m]]
        \in Seq([rumor : R, from : Server])
  BY <1>5, <1>6, SeqDef
<1>8. work' \in WorkType(R)
  BY <1>3, <1>7 DEF Typed, WorkType
<1> QED  BY <1>1, <1>2, <1>8 DEF Typed, LinkType, WorkType, ToldType

LEMMA HandleWorkTyped ==
  ASSUME NEW R \in SUBSET Rumor, Typed(R), NEW n \in Server, HandleWork(n)
  PROVE  Typed(R)' /\ Head(work[n]).rumor \in R
<1> DEFINE r == Head(work[n]).rumor
           from == Head(work[n]).from
<1>1. /\ work[n] # << >> /\ work' = [work EXCEPT ![n] = Tail(@)]
      /\ UNCHANGED <<table, pending, up, sending, dead, crashes>>
  BY DEF HandleWork
<1>2. work[n] \in Seq([rumor : R, from : Server])
  BY DEF Typed, WorkType
<1>3. /\ Head(work[n]) \in [rumor : R, from : Server]
      /\ Tail(work[n]) \in Seq([rumor : R, from : Server])
  BY <1>1, <1>2, HeadTailProperties
<1>4. r \in R /\ from \in Server /\ work' \in WorkType(R)
  BY <1>1, <1>3 DEF Typed, WorkType
<1>5. CASE UNCHANGED <<buffer, told, link, hub, storing>>
  BY <1>1, <1>4, <1>5 DEF Typed, LinkType, WorkType, ToldType
<1>6. CASE BufferInsert(n, r) /\ UNCHANGED <<told, link, hub, storing>>
  <2>1. buffer' \in [Server -> Seq(R)]
    BY <1>4, <1>6, BufferInsertType DEF Typed
  <2> QED  BY <1>1, <1>4, <1>6, <2>1 DEF Typed, LinkType, WorkType, ToldType
<1>7. CASE /\ SendRumor(link, n, from, r)
           /\ storing' = [storing EXCEPT ![n] = {r}]
           /\ hub' = [hub EXCEPT ![n] = "store"]
           /\ UNCHANGED buffer
  <2>1. link' \in LinkType(R) /\ told' \in ToldType
    <3>1. link \in LinkType(R) /\ told \in ToldType
      BY DEF Typed
    <3> HIDE DEF r, from
    <3> QED  BY <1>4, <1>7, <3>1, SendRumorType
  <2> QED  BY <1>1, <1>4, <1>7, <2>1 DEF Typed, LinkType, WorkType, ToldType
<1>8. \/ UNCHANGED <<buffer, told, link, hub, storing>>
      \/ BufferInsert(n, r) /\ UNCHANGED <<told, link, hub, storing>>
      \/ /\ SendRumor(link, n, from, r)
         /\ storing' = [storing EXCEPT ![n] = {r}]
         /\ hub' = [hub EXCEPT ![n] = "store"]
         /\ UNCHANGED buffer
  BY DEF HandleWork
<1> QED  BY <1>4, <1>5, <1>6, <1>7, <1>8

LEMMA RestartTyped ==
  ASSUME NEW R \in SUBSET Rumor, Typed(R), NEW n \in Server,
         \A k \in Server : State(k) \in Timestamp,
         Restart(n)
  PROVE  Typed(R)'
<1>1. link' \in LinkType(R)
  <2>1. << >> \in Seq(Message(R))
    BY EmptySeq
  <2>2. ASSUME NEW k \in Server PROVE << StateQuery(State(k)) >> \in Seq(Message(R))
    <3>1. StateQuery(State(k)) \in Message(R)
      BY DEF StateQuery, Message
    <3> QED  BY <3>1
  <2> QED  BY <2>1, <2>2 DEF Restart, Typed, LinkType
<1>2. told' \in ToldType
  BY DEF Restart, Typed, ToldType
<1>3. up' \subseteq Links
  <2>1. Dials[n] \subseteq Server
    BY DialsAssumption
  <2>2. ASSUME NEW m \in Dials[n] PROVE {n, m} \in Links
    BY <2>1 DEF Links
  <2>3. up' = {p \in up : n \notin p} \cup {{n, m} : m \in Dials[n]}
    BY DEF Restart
  <2> HIDE DEF Links
  <2> QED  BY <2>2, <2>3 DEF Typed
<1>4. buffer' \in [Server -> Seq(R)] /\ work' \in WorkType(R)
  BY EmptySeq DEF Restart, Typed, WorkType
<1>5. /\ hub' \in [Server -> {"idle", "store", "next"}]
      /\ storing' \in [Server -> SUBSET R] /\ sending' \in [Server -> SUBSET R]
      /\ pending' \in [Server -> BOOLEAN]
  BY DEF Restart, Typed
<1>6. crashes' \in 0 .. MaxCrashes /\ dead' \in [Server -> BOOLEAN]
  BY BoundsAssumption DEF Restart, Typed
<1> QED  BY <1>1, <1>2, <1>3, <1>4, <1>5, <1>6 DEF Typed

-----------------------------------------------------------------------------
(***************************************************************************)
(* The tables.  In a step the table of a server stays as it is, gains the  *)
(* rumor its hub has checked, or has its open row closed.                  *)
(***************************************************************************)
TableKept(n) == table'[n] = table[n]

TableStored(n) ==
  \E r \in storing[n] : table'[n] = table[n] \cup {r} /\ storing'[n] = {}

TableClosed(n) ==
  /\ table'[n] = CloseRow(n, table[n])
  /\ storing' = storing /\ hub' = hub

LEMMA TableStep ==
  ASSUME IInv, [Next]_vars, NEW k \in Server
  PROVE  /\ table' = [n \in Server |-> table'[n]]
         /\ TableKept(k) \/ TableStored(k) \/ TableClosed(k)
<1> USE DEF TableKept, TableStored, TableClosed
<1>1. table = [n \in Server |-> table[n]]
  BY DEF IInv, GoodTables
<1>2. CASE UNCHANGED table
  BY <1>1, <1>2
<1>3. ASSUME NEW n \in Server, StoreRumor(n)
      PROVE  /\ table' = [s \in Server |-> table'[s]]
             /\ TableKept(k) \/ TableStored(k)
  <2>1. PICK r \in storing[n] :
          UNCHANGED table \/ table' = [table EXCEPT ![n] = @ \cup {r}]
    BY <1>3 DEF StoreRumor
  <2>2. storing' = [storing EXCEPT ![n] = {}]
    BY <1>3 DEF StoreRumor
  <2>3. storing'[n] = {}
    BY <2>2 DEF IInv, Typed
  <2>4. CASE k = n
    BY <1>1, <2>1, <2>3, <2>4
  <2>5. CASE k # n
    BY <1>1, <2>1, <2>5
  <2> QED  BY <2>4, <2>5
<1>4. ASSUME NEW n \in Server, GetAndIncrementMyRumor(n)
      PROVE  /\ table' = [s \in Server |-> table'[s]]
             /\ TableKept(k) \/ TableClosed(k)
  <2>1. /\ table' = [table EXCEPT ![n] = CloseRow(n, @)]
        /\ storing' = storing /\ hub' = hub
    BY <1>4 DEF GetAndIncrementMyRumor, CloseRow, MyRumor, NextRow, OpenID, State
  <2>2. CASE k = n
    BY <1>1, <2>1, <2>2
  <2>3. CASE k # n
    BY <1>1, <2>1, <2>3
  <2> QED  BY <1>1, <2>1, <2>2, <2>3
<1>5. ASSUME NEW n \in Server, Restart(n) PROVE UNCHANGED table
  <2>1. StoreFirstRumor(n, table[n]) = table[n]
    BY RestartKeepsRows DEF IInv, GoodTables
  <2>2. table' = [table EXCEPT ![n] = StoreFirstRumor(n, @)]
    BY <1>5 DEF Restart
  <2> QED  BY <1>1, <2>1, <2>2
<1>6. ASSUME NEW n \in Server,
             \/ AddMessageToMyRumor(n) \/ SendMyRumor(n) \/ HandleNextRumor(n)
             \/ ExpireBuffered(n) \/ HandleWork(n)
      PROVE  UNCHANGED table
  BY <1>6 DEF AddMessageToMyRumor, SendMyRumor, HandleNextRumor, ExpireBuffered,
              HandleWork
<1>7. ASSUME NEW n \in Server, NEW m \in Server,
             \/ HandleRumor(n, m) \/ HandleRumorAnswer(n, m) \/ SendRumorState(n, m)
             \/ HandleRumorState(n, m) \/ HandleRumorStateAnswer(n, m)
      PROVE  UNCHANGED table
  BY <1>7 DEF HandleRumor, HandleRumorAnswer, SendRumorState, HandleRumorState,
              HandleRumorStateAnswer, serverVars
<1>8. CASE UNCHANGED vars
  BY <1>2, <1>8 DEF vars
<1> HIDE DEF TableKept, TableStored, TableClosed
<1> QED  BY <1>2, <1>3, <1>4, <1>5, <1>6, <1>7, <1>8 DEF Next

(***************************************************************************)
(* A rumor of another server that CheckRumor accepts.                      *)
(***************************************************************************)
LEMMA StoreRow ==
  ASSUME NEW n \in Server, NEW r \in Rumor, GoodRows(n, table[n]), r.sender # n,
         FollowsPrevious(r), CheckRumor(n, r)
  PROVE  /\ GoodRows(n, table[n] \cup {r})
         /\ Closed(n, table[n] \cup {r}) = Closed(n, table[n]) \cup {r}
         /\ ~\E q \in table[n] : SameID(q, r)
<1>1. Storable(n, table[n], r)
  BY DEF Storable, CheckRumor, State
<1>2. StoredIn(n, table[n], r)
  BY <1>1, StoreRemote
<1> QED  BY <1>2 DEF StoredIn

(***************************************************************************)
(* The tables stay good, nothing that was sent is forgotten, and what is   *)
(* new was known or is the row just closed.                                *)
(***************************************************************************)
LEMMA GoodRowsStep ==
  ASSUME IInv, [Next]_vars, NEW n \in Server
  PROVE  /\ GoodRows(n, table'[n])
         /\ Received(n) \subseteq Closed(n, table'[n])
         /\ \A r \in Closed(n, table'[n]) :
              \/ r \in Known
              \/ r \in Rumor /\ r.sender = n
<1>1. GoodRows(n, table[n]) /\ Received(n) \subseteq Known
  BY DEF IInv, GoodTables
<1>2. CASE TableKept(n)
  BY <1>1, <1>2 DEF TableKept, Received
<1>3. CASE TableStored(n)
  <2>1. PICK r \in storing[n] : table'[n] = table[n] \cup {r}
    BY <1>3 DEF TableStored
  <2>2. r \in Known /\ r.sender # n /\ CheckRumor(n, r)
    BY DEF IInv, Typed, Checked
  <2>3. r \in Rumor /\ FollowsPrevious(r)
    BY <2>2, KnownFollows DEF IInv
  <2>4. /\ GoodRows(n, table[n] \cup {r})
        /\ Closed(n, table[n] \cup {r}) = Closed(n, table[n]) \cup {r}
    BY <1>1, <2>2, <2>3, StoreRow
  <2> QED  BY <1>1, <2>1, <2>2, <2>4 DEF Received
<1>4. CASE TableClosed(n)
  BY <1>1, <1>4, CloseOwn DEF TableClosed, Received
<1> QED  BY <1>2, <1>3, <1>4, TableStep

LEMMA GoodTablesStep ==
  ASSUME IInv, [Next]_vars
  PROVE  /\ GoodTables'
         /\ Known \subseteq Known'
         /\ \A n \in Server : Received(n) \subseteq Received(n)'
<1>1. \A n \in Server : Received(n)' = Closed(n, table'[n])
  BY DEF Received
<1>2. \A n \in Server : Received(n) \subseteq Received(n)'
  BY <1>1, GoodRowsStep
<1>3. Known' = {r \in Rumor : r \in Closed(r.sender, table'[r.sender])}
  BY DEF Known, Received
<1>4. Known \subseteq Known'
  <2> SUFFICES ASSUME NEW r \in Known PROVE r \in Known'
    OBVIOUS
  <2>1. r \in Rumor /\ r.sender \in Server /\ r \in Received(r.sender)
    BY DEF Known, Rumor
  <2>2. r \in Closed(r.sender, table'[r.sender])
    BY <1>1, <1>2, <2>1
  <2> QED  BY <1>3, <2>1, <2>2
<1>5. ASSUME NEW n \in Server PROVE Closed(n, table'[n]) \subseteq Known'
  <2> SUFFICES ASSUME NEW r \in Closed(n, table'[n]) PROVE r \in Known'
    OBVIOUS
  <2>1. CASE r \in Known
    BY <1>4, <2>1
  <2>2. CASE r \in Rumor /\ r.sender = n
    BY <1>3, <2>2
  <2> QED  BY <2>1, <2>2, GoodRowsStep
<1>6. \A n \in Server : GoodRows(n, table'[n])
  BY GoodRowsStep
<1>7. table' \in [Server -> FiniteSubsets(Rumor)]
  <2>1. \A n \in Server : table'[n] \in FiniteSubsets(Rumor)
    BY <1>6 DEF GoodRows
  <2>2. CASE Server = {}
    <3>1. UNCHANGED table
      BY <2>2 DEF Next, vars
    <3> QED  BY <3>1 DEF IInv, GoodTables
  <2>3. CASE Server # {}
    BY <2>1, <2>3, TableStep
  <2> QED  BY <2>2, <2>3
<1>8. GoodTables'
  BY <1>1, <1>5, <1>6, <1>7 DEF GoodTables
<1> QED  BY <1>2, <1>4, <1>8

-----------------------------------------------------------------------------
(***************************************************************************)
(* What is on its way.                                                     *)
(***************************************************************************)
LEMMA TypedMonotonic ==
  ASSUME NEW R \in SUBSET Rumor, Typed(Known), Known \subseteq R
  PROVE  Typed(R)
<1>1. /\ buffer \in [Server -> Seq(R)]
      /\ storing \in [Server -> SUBSET R]
      /\ sending \in [Server -> SUBSET R]
  BY SeqMonotonic DEF Typed
<1>2. work \in WorkType(R)
  <2> DEFINE from == [rumor : Known, from : Server]
             to == [rumor : R, from : Server]
  <2>1. from \subseteq to
    OBVIOUS
  <2>2. work \in [Server -> Seq(from)]
    BY DEF Typed, WorkType
  <2> HIDE DEF from, to
  <2>3. work \in [Server -> Seq(to)]
    BY <2>1, <2>2, SeqMonotonic
  <2> QED  BY <2>3 DEF to, WorkType
<1>3. link \in LinkType(R)
  <2>1. Message(Known) \subseteq Message(R)
    BY MessageMonotonic
  <2> QED  BY <2>1, SeqMonotonic DEF Typed, LinkType
<1> QED  BY <1>1, <1>2, <1>3 DEF Typed

LEMMA TypedStep ==
  ASSUME IInv, [Next]_vars
  PROVE  Typed(Known)'
<1>1. /\ GoodTables /\ Typed(Known)
      /\ GoodTables' /\ Known \subseteq Known'
  BY GoodTablesStep DEF IInv
<1>2. PICK R : R = Known'
  OBVIOUS
<1>3. R \in SUBSET Rumor /\ Known \subseteq R
  BY <1>1, <1>2 DEF Known
<1>4. Typed(R)
  BY <1>1, <1>3, TypedMonotonic
<1>5. \A n \in Server : State(n) \in Timestamp
  BY <1>1, StateType
<1>6. \A n \in Server : Received(n) \in FiniteSubsets(R)
  BY <1>1, <1>3, ReceivedFinite DEF GoodTables, FiniteSubsets
<1>7. ASSUME NEW n \in Server, GetAndIncrementMyRumor(n)
      PROVE  NewRumor(n, OpenID(n), State(n)) \in R
  <2>1. /\ MyRumor(n, table[n]) \in Rumor
        /\ MyRumor(n, table[n]).sender = n
        /\ MyRumor(n, table[n]) \in Closed(n, CloseRow(n, table[n]))
    BY <1>1, CloseOwn DEF GoodTables
  <2>2. table'[n] = CloseRow(n, table[n])
    BY <1>1, <1>7
       DEF GetAndIncrementMyRumor, CloseRow, MyRumor, NextRow, OpenID, State, GoodTables
  <2>3. MyRumor(n, table[n]) \in Known'
    BY <2>1, <2>2 DEF Known, Received
  <2> QED  BY <1>2, <2>3 DEF MyRumor, OpenID, State
<1>8. Typed(R)'
  <2>1. CASE UNCHANGED vars
    BY <1>4, <2>1 DEF vars, Typed, LinkType, WorkType, ToldType
  <2>2. ASSUME NEW n \in Server,
               \/ AddMessageToMyRumor(n) \/ GetAndIncrementMyRumor(n)
               \/ SendMyRumor(n) \/ StoreRumor(n) \/ HandleNextRumor(n)
               \/ ExpireBuffered(n) \/ HandleWork(n) \/ Restart(n)
        PROVE  Typed(R)'
    BY <1>3, <1>4, <1>5, <1>7, <2>2, AddMessageTyped, GetAndIncrementTyped,
       SendMyRumorTyped, StoreRumorTyped, HandleNextRumorTyped,
       ExpireBufferedTyped, HandleWorkTyped, RestartTyped
  <2>3. ASSUME NEW n \in Server, NEW m \in Server,
               \/ HandleRumor(n, m) \/ HandleRumorAnswer(n, m)
               \/ SendRumorState(n, m) \/ HandleRumorState(n, m)
               \/ HandleRumorStateAnswer(n, m)
        PROVE  Typed(R)'
    BY <1>3, <1>4, <1>5, <1>6, <2>3, HandleRumorTyped, HandleRumorAnswerTyped,
       SendRumorStateTyped, HandleRumorStateTyped, HandleRumorStateAnswerTyped
  <2> QED  BY <2>1, <2>2, <2>3 DEF Next
<1> QED  BY <1>2, <1>8 DEF Typed, LinkType, WorkType, ToldType

(***************************************************************************)
(* A rumor that was checked stays acceptable until it is stored: only the  *)
(* row of the server itself can change in between.                         *)
(***************************************************************************)
LEMMA NothingStored ==
  ASSUME \A n \in Server : Checked(n), NEW n \in Server, hub[n] # "store"
  PROVE  storing[n] = {}
BY DEF Checked

LEMMA CheckedStep ==
  ASSUME IInv, [Next]_vars, NEW k \in Server
  PROVE  Checked(k)'
<1> SUFFICES ASSUME NEW r \in storing'[k]
             PROVE  hub'[k] = "store" /\ r.sender # k /\ CheckRumor(k, r)'
  BY DEF Checked
<1>1. \/ r \in storing[k] /\ hub'[k] = hub[k]
      \/ r \in Known /\ CheckRumor(k, r) /\ hub'[k] = "store" /\ table' = table
  <2>1. CASE UNCHANGED <<hub, storing>>
    BY <2>1
  <2>2. ASSUME NEW n \in Server, NEW q \in Known, CheckRumor(n, q), table' = table,
               storing' = [storing EXCEPT ![n] = {q}],
               hub' = [hub EXCEPT ![n] = "store"]
        PROVE  \/ r \in storing[k] /\ hub'[k] = hub[k]
               \/ r \in Known /\ CheckRumor(k, r) /\ hub'[k] = "store" /\ table' = table
    BY <2>2 DEF IInv, Typed
  <2>3. ASSUME NEW n \in Server, StoreRumor(n) \/ Restart(n)
        PROVE  r \in storing[k] /\ hub'[k] = hub[k]
    <3>1. /\ storing' = [storing EXCEPT ![n] = {}]
          /\ \E h \in {"idle", "next"} : hub' = [hub EXCEPT ![n] = h]
      BY <2>3 DEF StoreRumor, Restart
    <3> QED  BY <3>1 DEF IInv, Typed
  <2>4. ASSUME NEW n \in Server, HandleNextRumor(n)
        PROVE  \/ r \in storing[k] /\ hub'[k] = hub[k]
               \/ r \in Known /\ CheckRumor(k, r) /\ hub'[k] = "store" /\ table' = table
    <3>1. hub[n] = "next" /\ storing[n] = {} /\ table' = table
      BY <2>4, NothingStored DEF HandleNextRumor, IInv
    <3>2. CASE hub' = [hub EXCEPT ![n] = "idle"] /\ storing' = storing
      BY <3>1, <3>2 DEF IInv, Typed
    <3>3. ASSUME NEW i \in DOMAIN buffer[n], CheckRumor(n, buffer[n][i]),
                 storing' = [storing EXCEPT ![n] = {buffer[n][i]}],
                 hub' = [hub EXCEPT ![n] = "store"]
          PROVE  \/ r \in storing[k] /\ hub'[k] = hub[k]
                 \/ r \in Known /\ CheckRumor(k, r) /\ hub'[k] = "store" /\ table' = table
      <4>1. buffer[n][i] \in Known
        BY ElementsOfSeq DEF IInv, Typed, Elements, FiniteSubsets
      <4> QED  BY <2>2, <3>1, <3>3, <4>1
    <3> QED  BY <2>4, <3>2, <3>3 DEF HandleNextRumor, Ready
  <2>5. ASSUME NEW n \in Server, HandleWork(n)
        PROVE  \/ r \in storing[k] /\ hub'[k] = hub[k]
               \/ r \in Known /\ CheckRumor(k, r) /\ hub'[k] = "store" /\ table' = table
    <3>1. Head(work[n]).rumor \in Known /\ table' = table
      BY <2>5, HandleWorkTyped DEF HandleWork, IInv, Known
    <3> QED  BY <2>1, <2>2, <2>5, <3>1 DEF HandleWork
  <2>6. ASSUME NEW n \in Server, NEW m \in Server, HandleRumor(n, m)
        PROVE  \/ r \in storing[k] /\ hub'[k] = hub[k]
               \/ r \in Known /\ CheckRumor(k, r) /\ hub'[k] = "store" /\ table' = table
    <3>1. Head(link[m][n]).rumor \in Known /\ table' = table
      BY <2>6, HandleRumorTyped DEF HandleRumor, IInv, Known
    <3> QED  BY <2>1, <2>2, <2>6, <3>1 DEF HandleRumor
  <2>7. ASSUME NEW n \in Server,
               \/ AddMessageToMyRumor(n) \/ GetAndIncrementMyRumor(n)
               \/ SendMyRumor(n) \/ ExpireBuffered(n)
        PROVE  UNCHANGED <<hub, storing>>
    BY <2>7 DEF AddMessageToMyRumor, GetAndIncrementMyRumor, SendMyRumor, ExpireBuffered
  <2>8. ASSUME NEW n \in Server, NEW m \in Server,
               \/ HandleRumorAnswer(n, m) \/ SendRumorState(n, m)
               \/ HandleRumorState(n, m) \/ HandleRumorStateAnswer(n, m)
        PROVE  UNCHANGED <<hub, storing>>
    BY <2>8 DEF HandleRumorAnswer, SendRumorState, HandleRumorState,
                HandleRumorStateAnswer, serverVars
  <2>9. UNCHANGED vars => UNCHANGED <<hub, storing>>
    BY DEF vars
  <2> QED  BY <2>1, <2>3, <2>4, <2>5, <2>6, <2>7, <2>8, <2>9 DEF Next
<1>2. CASE r \in Known /\ CheckRumor(k, r) /\ hub'[k] = "store" /\ table' = table
  <2>1. r.sender # k
    BY <1>2, CheckedIsRemote DEF IInv
  <2> QED  BY <1>2, <2>1 DEF CheckRumor, State
<1>3. CASE r \in storing[k] /\ hub'[k] = hub[k]
  <2>1. hub'[k] = "store" /\ r.sender # k /\ CheckRumor(k, r)
    BY <1>3 DEF IInv, Checked
  <2>2. CASE TableKept(k)
    BY <2>1, <2>2 DEF TableKept, CheckRumor, State
  <2>3. CASE TableStored(k)
    BY <2>3 DEF TableStored
  <2>4. CASE TableClosed(k)
    <3>1. GoodRows(k, table[k]) /\ State(k) \in Timestamp /\ LastID(table[k], k) \in Nat
      BY StateType, GoodLastID DEF IInv, GoodTables, GoodRows
    <3>2. State(k)' = [State(k) EXCEPT ![k] = LastID(table[k], k)]
      BY <2>4, <3>1, CloseOwn DEF State, TableClosed
    <3>3. \A s \in Server : s # k => State(k)'[s] = State(k)[s]
      BY <3>1, <3>2 DEF Timestamp
    <3>4. State(k)'[k] = LastID(table[k], k) /\ State(k)[k] = LastID(table[k], k) - 1
      BY <3>1, <3>2, GoodState DEF Timestamp, State
    <3>5. r.sender \in Server /\ r.timestamp \in Timestamp
      BY <1>3 DEF IInv, Typed, Known, Rumor
    <3>6. CheckTimestamp(State(k)', r.sender, r.id, r.timestamp)
      BY <2>1, <3>1, <3>3, <3>4, <3>5, TimestampType
         DEF CheckRumor, CheckTimestamp, Entries, Absent
    <3> QED  BY <2>1, <3>6 DEF CheckRumor
  <2> QED  BY <2>1, <2>2, <2>3, <2>4, TableStep
<1> QED  BY <1>1, <1>2, <1>3

-----------------------------------------------------------------------------
(***************************************************************************)
(* The invariant.                                                          *)
(***************************************************************************)
LEMMA InitIInv == Init => IInv
<1> SUFFICES ASSUME Init PROVE IInv
  OBVIOUS
<1>1. \A n \in Server : GoodRows(n, table[n]) /\ Received(n) = {}
  BY FirstRows DEF Init, Received
<1>2. table \in [Server -> FiniteSubsets(Rumor)]
  BY <1>1 DEF Init, GoodRows
<1>3. GoodTables
  BY <1>1, <1>2 DEF GoodTables
<1>4. Typed(Known)
  <2>1. \A S : << >> \in Seq(S)
    BY EmptySeq
  <2>2. up \subseteq Links /\ crashes \in 0 .. MaxCrashes
    BY BoundsAssumption DEF Init
  <2>3. /\ link \in LinkType(Known) /\ work \in WorkType(Known)
        /\ buffer \in [Server -> Seq(Known)]
    BY <2>1 DEF Init, LinkType, WorkType
  <2>4. /\ pending \in [Server -> BOOLEAN] /\ told \in ToldType
        /\ hub \in [Server -> {"idle", "store", "next"}]
        /\ storing \in [Server -> SUBSET Known]
        /\ sending \in [Server -> SUBSET Known]
        /\ dead \in [Server -> BOOLEAN]
    BY DEF Init, ToldType
  <2> QED  BY <2>2, <2>3, <2>4 DEF Typed
<1>5. \A n \in Server : Checked(n)
  BY DEF Init, Checked
<1> QED  BY <1>3, <1>4, <1>5 DEF IInv

LEMMA NextIInv == IInv /\ [Next]_vars => IInv'
<1> SUFFICES ASSUME IInv, [Next]_vars PROVE IInv'
  OBVIOUS
<1> QED  BY GoodTablesStep, TypedStep, CheckedStep DEF IInv

(***************************************************************************)
(* The invariant is inductive: tables are good, what is on its way was     *)
(* sent, and what is about to be stored may be stored.                     *)
(***************************************************************************)
THEOREM Invariance == Spec => []IInv
BY InitIInv, NextIInv, PTL DEF Spec

(***************************************************************************)
(* The types of the variables of the gossip protocol.                      *)
(***************************************************************************)
THEOREM TypeCorrect == Spec => []TypeOK
<1>1. IInv => TypeOK
  <2> SUFFICES ASSUME IInv PROVE TypeOK
    OBVIOUS
  <2>1. Typed(Rumor)
    BY TypedMonotonic DEF IInv, Known
  <2> QED  BY <2>1 DEF IInv, GoodTables, Typed, TypeOK, LinkType, WorkType, ToldType
<1> QED  BY <1>1, Invariance, PTL

(***************************************************************************)
(* Whatever the network delays, reorders between connections or loses in a *)
(* crash, a server holds an unbroken prefix of every sender's rumors: one  *)
(* id per sender, all that GetRumorTimestamp computes, describes it.       *)
(***************************************************************************)
THEOREM Contiguity == Spec => []ContiguousRumors
<1>1. IInv => ContiguousRumors
  BY DEF IInv, GoodTables, GoodRows, Prefix, ContiguousRumors
<1> QED  BY <1>1, Invariance, PTL

(***************************************************************************)
(* Every copy of a rumor, stored, buffered or on its way, is the rumor its *)
(* sender has: no crash makes a server reuse an id, and the open rumor     *)
(* never leaves it.                                                        *)
(***************************************************************************)
THEOREM Agreement == Spec => []RumorAgreement
<1>1. IInv => RumorAgreement
  <2> SUFFICES ASSUME IInv, NEW n \in Server, NEW r \in Held(n)
               PROVE  r \in Known
    BY DEF RumorAgreement, Known
  <2> HIDE DEF Known
  <2>1. CASE r \in Received(n)
    BY <2>1 DEF IInv, GoodTables
  <2>2. CASE r \in Elements(buffer[n])
    BY <2>2, ElementsOfSeq DEF IInv, Typed, FiniteSubsets
  <2>3. CASE r \in storing[n] \cup sending[n]
    BY <2>3 DEF IInv, Typed
  <2>4. CASE r \in {w.rumor : w \in Elements(work[n])}
    <3>1. PICK w \in Elements(work[n]) : r = w.rumor
      BY <2>4
    <3>2. work[n] \in Seq([rumor : Known, from : Server])
      BY DEF IInv, Typed, WorkType
    <3>3. w \in [rumor : Known, from : Server]
      BY <3>1, <3>2, ElementsOfSeq DEF FiniteSubsets
    <3> QED  BY <3>1, <3>3
  <2>5. CASE r \in UNION {InFlight(n, m) : m \in Server}
    <3>1. PICK m \in Server : r \in InFlight(n, m)
      BY <2>5
    <3>2. PICK i \in DOMAIN link[n][m] :
            LET msg == link[n][m][i] IN
              r \in CASE msg.type \in {"rumor", "rumor_answer"} -> {msg.rumor}
                     [] msg.type = "rumor_state_answer" -> msg.rumors
                     [] OTHER -> {}
      BY <3>1 DEF InFlight
    <3>3. link[n][m][i] \in Message(Known)
      <4>1. link[n][m] \in Seq(Message(Known))
        BY DEF IInv, Typed, LinkType
      <4> QED  BY <4>1, ElementsOfSeq DEF Elements, FiniteSubsets
    <3>4. \/ link[n][m][i].type \in {"rumor", "rumor_answer"} /\ r = link[n][m][i].rumor
          \/ link[n][m][i].type = "rumor_state_answer" /\ r \in link[n][m][i].rumors
      BY <3>2
    <3> QED  BY <3>3, <3>4, MessageFields DEF FiniteSubsets
  <2> QED  BY <2>1, <2>2, <2>3, <2>4, <2>5 DEF Held
<1> QED  BY <1>1, Invariance, PTL

(***************************************************************************)
(* Rumors are stored in causal order: with a rumor, a server has every     *)
(* rumor its timestamp names.                                              *)
(***************************************************************************)
THEOREM CausalOrder == Spec => []CausalClosure
<1>1. IInv => CausalClosure
  <2> SUFFICES ASSUME IInv, NEW n \in Server, NEW r \in Received(n),
                      NEW s \in Entries(r.timestamp)
               PROVE  s \in Entries(State(n)) /\ r.timestamp[s] <= State(n)[s]
    BY DEF CausalClosure
  <2>1. VectorLeq(r.timestamp, State(n)) /\ r.timestamp \in Timestamp
    BY DEF IInv, GoodTables, GoodRows, Received, State, Known, Rumor
  <2>2. State(n) \in Timestamp
    BY StateType DEF IInv
  <2>3. s \in Server /\ r.timestamp[s] \in Nat
    BY <2>1, TimestampType DEF Entries
  <2>4. r.timestamp[s] <= State(n)[s]
    BY <2>1, <2>3 DEF VectorLeq
  <2> QED  BY <2>2, <2>3, <2>4, TimestampType
<1> QED  BY <1>1, Invariance, PTL

(***************************************************************************)
(* What a server has received it keeps, across its crashes.                *)
(***************************************************************************)
THEOREM NothingForgotten == Spec => ReceivedGrows
<1>1. IInv /\ [Next]_vars => [\A n \in Server : Received(n) \subseteq Received(n)']_vars
  BY GoodTablesStep
<1> QED  BY <1>1, Invariance, PTL DEF Spec, ReceivedGrows


-----------------------------------------------------------------------------
(***************************************************************************)
(* The gossip protocol implements causal broadcast: its initial state is   *)
(* one of CausalBroadcast, the closing of a rumor is a Broadcast, the      *)
(* storing of one a Deliver, and every other step changes nothing that     *)
(* CausalBroadcast speaks of.                                              *)
(***************************************************************************)

(***************************************************************************)
(* What CausalBroadcast calls a message, and what has been received.       *)
(***************************************************************************)
MessageOf(r) == [sender |-> r.sender, id |-> r.id, past |-> Past(r)]
Messages(rows) == {MessageOf(r) : r \in rows}
Keys(rows) == {<<r.sender, r.id>> : r \in rows}
MessagesReceived == [n \in Server |-> Messages(Received(n))]

(***************************************************************************)
(* A rumor that may be closed has an id below the bound.                   *)
(***************************************************************************)
Bounded == \A n \in Server : pending[n] => OpenID(n) \in RumorID

-----------------------------------------------------------------------------
(***************************************************************************)
(* The state of a server stands for exactly the rumors it has received.    *)
(***************************************************************************)
LEMMA StateNamesReceived ==
  ASSUME NEW n \in Server, NEW rows, GoodRows(n, rows)
  PROVE  Keys(Closed(n, rows)) =
           UNION {{s} \X (0 .. GetRumorTimestamp(n, rows)[s]) : s \in Server}
<1> DEFINE state == GetRumorTimestamp(n, rows)
           all == UNION {{s} \X (0 .. state[s]) : s \in Server}
<1>1. \A r \in rows : /\ r.sender \in Server /\ r.id \in Nat
                      /\ r \in Closed(n, rows) <=> r.id <= state[r.sender]
  BY ClosedByState DEF Rumor
<1>2. \A s \in Server : state[s] \in Int
  BY GoodState, TimestampType DEF Timestamp, Absent
<1>3. ASSUME NEW r \in Closed(n, rows) PROVE <<r.sender, r.id>> \in all
  BY <1>1, <1>2 DEF Closed
<1>4. ASSUME NEW s \in Server, NEW i \in 0 .. state[s]
      PROVE  <<s, i>> \in Keys(Closed(n, rows))
  <2>1. i \in IDs(rows, s)
    <3>1. CASE s = n
      BY <1>2, <3>1, GoodState, GoodLastID DEF GoodRows
    <3>2. CASE s # n
      <4>1. IDs(rows, s) # {} /\ LastID(rows, s) = state[s]
        BY <1>2, <3>2, GoodState
      <4> QED  BY <1>2, <4>1, GoodLastID
    <3> QED  BY <3>1, <3>2
  <2>2. PICK r \in rows : r.sender = s /\ r.id = i
    BY <2>1 DEF IDs
  <2>3. r \in Closed(n, rows)
    BY <1>1, <1>2, <2>2
  <2> QED  BY <2>2, <2>3 DEF Keys
<1>5. ASSUME NEW x \in Keys(Closed(n, rows)) PROVE x \in all
  BY <1>3, <1>5 DEF Keys
<1>6. ASSUME NEW x \in all PROVE x \in Keys(Closed(n, rows))
  <2>1. PICK s \in Server : x \in {s} \X (0 .. state[s])
    BY <1>6
  <2> QED  BY <1>4, <2>1
<1> QED  BY <1>5, <1>6

LEMMA NamesAreKeys ==
  ASSUME NEW n \in Server
  PROVE  Causal!Names(n) = Keys(Received(n))
<1>1. Causal!Names(n) = {Causal!Name(m) : m \in Messages(Received(n))}
  BY DEF Causal!Names, Messages, MessageOf
<1>2. \A r : Causal!Name(MessageOf(r)) = <<r.sender, r.id>>
  BY DEF Causal!Name, MessageOf
<1>3. \A x : x \in Messages(Received(n)) <=> \E r \in Received(n) : x = MessageOf(r)
  BY DEF Messages
<1> QED  BY <1>1, <1>2, <1>3 DEF Keys

LEMMA PastOfLater ==
  ASSUME NEW r \in Rumor, NEW t \in Timestamp, VectorLeq(r.timestamp, t)
  PROVE  Past(r) \subseteq UNION {{s} \X (0 .. t[s]) : s \in Server}
<1>1. \A s \in Server : r.timestamp[s] \in Int /\ t[s] \in Int /\ r.timestamp[s] <= t[s]
  BY TimestampType DEF Rumor, VectorLeq, Timestamp, Absent
<1>2. \A s \in Server : \A i \in 0 .. r.timestamp[s] : i \in 0 .. t[s]
  BY <1>1
<1> QED  BY <1>2 DEF Past

-----------------------------------------------------------------------------
(***************************************************************************)
(* A rumor that is put in a table is received, when it was not there and   *)
(* its past was.                                                           *)
(***************************************************************************)
LEMMA ReceiveRumor ==
  ASSUME NEW n \in Server, NEW r,
         <<r.sender, r.id>> \notin Keys(Received(n)),
         Past(r) \subseteq Keys(Received(n)),
         Received(n)' = Received(n) \cup {r},
         \A k \in Server : k # n => Received(k)' = Received(k)
  PROVE  Causal!Receive(n, MessageOf(r))
<1>1. Causal!Name(MessageOf(r)) \notin Causal!Names(n)
  BY NamesAreKeys DEF Causal!Name, MessageOf
<1>2. MessageOf(r).past \subseteq Causal!Names(n)
  BY NamesAreKeys DEF MessageOf
<1>3. MessagesReceived' = [MessagesReceived EXCEPT ![n] = @ \cup {MessageOf(r)}]
  <2>1. Messages(Received(n) \cup {r}) = Messages(Received(n)) \cup {MessageOf(r)}
    BY DEF Messages
  <2>2. \A k \in Server : Messages(Received(k))' =
          IF k = n THEN Messages(Received(n)) \cup {MessageOf(r)} ELSE Messages(Received(k))
    BY <2>1 DEF Messages, MessageOf, Past
  <2>3. MessagesReceived' = [k \in Server |-> Messages(Received(k))']
    BY DEF MessagesReceived
  <2> QED  BY <2>2, <2>3 DEF MessagesReceived
<1> QED  BY <1>1, <1>2, <1>3 DEF Causal!Receive, MessagesReceived, Messages, MessageOf

(***************************************************************************)
(* The two writes of a table.                                              *)
(***************************************************************************)
LEMMA StoreIsDeliver ==
  ASSUME IInv, NEW n \in Server, NEW r \in storing[n],
         table' = [table EXCEPT ![n] = @ \cup {r}]
  PROVE  Causal!Deliver(n)
<1>1. /\ r \in Known /\ r.sender # n /\ CheckRumor(n, r)
      /\ GoodRows(n, table[n]) /\ table \in [Server -> FiniteSubsets(Rumor)]
  BY DEF IInv, Typed, Checked, GoodTables
<1>2. r \in Rumor /\ r.sender \in Server /\ FollowsPrevious(r) /\ r \in Received(r.sender)
  BY <1>1, KnownFollows DEF IInv, Known
<1>3. /\ Closed(n, table[n] \cup {r}) = Received(n) \cup {r}
      /\ ~\E q \in table[n] : SameID(q, r)
  <2>1. /\ Closed(n, table[n] \cup {r}) = Closed(n, table[n]) \cup {r}
        /\ ~\E q \in table[n] : SameID(q, r)
    BY <1>1, <1>2, StoreRow
  <2> QED  BY <2>1 DEF Received
<1>4. <<r.sender, r.id>> \notin Keys(Received(n))
  BY <1>3 DEF Keys, SameID, Received, Closed
<1>5. VectorLeq(r.timestamp, State(n))
  <2>1. State(n) \in Timestamp /\ r.timestamp \in Timestamp
    BY <1>2, StateType DEF IInv, Rumor
  <2>2. ASSUME NEW s \in Server, s # r.sender
        PROVE  r.timestamp[s] <= State(n)[s]
    BY <1>1, <2>1, <2>2, TimestampType DEF CheckRumor, CheckTimestamp
  <2>3. r.timestamp[r.sender] <= State(n)[r.sender]
    BY <1>1, <1>2, <2>1, TimestampType DEF CheckRumor, CheckTimestamp, FollowsPrevious
  <2> QED  BY <2>2, <2>3 DEF VectorLeq
<1>6. Past(r) \subseteq Keys(Received(n))
  <2>1. Past(r) \subseteq UNION {{s} \X (0 .. State(n)[s]) : s \in Server}
    BY <1>2, <1>5, PastOfLater, StateType DEF IInv
  <2> QED  BY <1>1, <2>1, StateNamesReceived DEF State, Received
<1>7. /\ Received(n)' = Received(n) \cup {r}
      /\ \A k \in Server : k # n => Received(k)' = Received(k)
  BY <1>1, <1>3 DEF Received
<1>8. Causal!Receive(n, MessageOf(r))
  BY <1>4, <1>6, <1>7, ReceiveRumor
<1>9. MessageOf(r) \in MessagesReceived[r.sender] /\ MessageOf(r).sender = r.sender
  BY <1>2 DEF MessagesReceived, Messages, MessageOf
<1> QED  BY <1>2, <1>8, <1>9 DEF Causal!Deliver, MessagesReceived, Messages, MessageOf

LEMMA CloseIsBroadcast ==
  ASSUME IInv, Bounded, NEW n \in Server, GetAndIncrementMyRumor(n)
  PROVE  Causal!Broadcast(n)
<1>0. PICK mine : mine = MyRumor(n, table[n])
  OBVIOUS
<1>1. GoodRows(n, table[n]) /\ table \in [Server -> FiniteSubsets(Rumor)]
  BY DEF IInv, GoodTables
<1>2. table' = [table EXCEPT ![n] = CloseRow(n, @)]
  BY DEF GetAndIncrementMyRumor, CloseRow, MyRumor, NextRow, OpenID, State
<1>3. Closed(n, CloseRow(n, table[n])) = Received(n) \cup {mine}
  BY <1>0, <1>1, CloseOwn DEF Received
<1>4. /\ Received(n)' = Received(n) \cup {mine}
      /\ \A k \in Server : k # n => Received(k)' = Received(k)
  BY <1>1, <1>2, <1>3 DEF Received
<1>5. mine.sender = n /\ mine.id = OpenID(n) /\ mine.timestamp = State(n)
  BY <1>0 DEF MyRumor, NewRumor, OpenID, State
<1>6. Past(mine) = Keys(Received(n))
  BY <1>1, <1>5, StateNamesReceived DEF Past, State, Received
<1>7. <<mine.sender, mine.id>> \notin Keys(Received(n))
  BY <1>5 DEF Keys, Received, Closed, OpenID
<1>8. Causal!Receive(n, MessageOf(mine))
  BY <1>4, <1>6, <1>7, ReceiveRumor
<1>9. MessageOf(mine) = [sender |-> n, id |-> OpenID(n), past |-> Causal!Names(n)]
  BY <1>5, <1>6, NamesAreKeys DEF MessageOf
<1>10. OpenID(n) \in RumorID
  BY DEF Bounded, GetAndIncrementMyRumor
<1> QED  BY <1>8, <1>9, <1>10 DEF Causal!Broadcast, Causal!Receive
(***************************************************************************)
(* All other steps leave the tables alone.                                 *)
(***************************************************************************)
LEMMA TableWrites ==
  ASSUME IInv, [Next]_vars
  PROVE  \/ UNCHANGED table
         \/ \E n \in Server : \E r \in storing[n] :
              table' = [table EXCEPT ![n] = @ \cup {r}] /\ UNCHANGED pending
         \/ \E n \in Server : GetAndIncrementMyRumor(n)
<1>1. ASSUME NEW n \in Server, StoreRumor(n)
      PROVE  \/ UNCHANGED table
             \/ \E r \in storing[n] :
                  table' = [table EXCEPT ![n] = @ \cup {r}] /\ UNCHANGED pending
  BY <1>1 DEF StoreRumor
<1>2. ASSUME NEW n \in Server, Restart(n) PROVE UNCHANGED table
  <2>1. StoreFirstRumor(n, table[n]) = table[n] /\ table = [k \in Server |-> table[k]]
    BY RestartKeepsRows DEF IInv, GoodTables
  <2>2. table' = [table EXCEPT ![n] = StoreFirstRumor(n, @)]
    BY <1>2 DEF Restart
  <2> QED  BY <2>1, <2>2
<1>3. ASSUME NEW n \in Server,
             \/ AddMessageToMyRumor(n) \/ SendMyRumor(n) \/ HandleNextRumor(n)
             \/ ExpireBuffered(n) \/ HandleWork(n)
      PROVE  UNCHANGED table
  BY <1>3 DEF AddMessageToMyRumor, SendMyRumor, HandleNextRumor, ExpireBuffered,
              HandleWork
<1>4. ASSUME NEW n \in Server, NEW m \in Server,
             \/ HandleRumor(n, m) \/ HandleRumorAnswer(n, m) \/ SendRumorState(n, m)
             \/ HandleRumorState(n, m) \/ HandleRumorStateAnswer(n, m)
      PROVE  UNCHANGED table
  BY <1>4 DEF HandleRumor, HandleRumorAnswer, SendRumorState, HandleRumorState,
              HandleRumorStateAnswer, serverVars
<1>5. CASE UNCHANGED vars
  BY <1>5 DEF vars
<1> QED  BY <1>1, <1>2, <1>3, <1>4, <1>5 DEF Next

LEMMA CausalStep ==
  ASSUME IInv, Bounded, [Next]_vars
  PROVE  [Causal!Next]_MessagesReceived
<1>1. CASE UNCHANGED table
  BY <1>1 DEF MessagesReceived, Messages, MessageOf, Past, Received
<1>2. ASSUME NEW n \in Server, NEW r \in storing[n],
             table' = [table EXCEPT ![n] = @ \cup {r}]
      PROVE  Causal!Next
  BY <1>2, StoreIsDeliver DEF Causal!Next
<1>3. ASSUME NEW n \in Server, GetAndIncrementMyRumor(n)
      PROVE  Causal!Next
  BY <1>3, CloseIsBroadcast DEF Causal!Next
<1> QED  BY <1>1, <1>2, <1>3, TableWrites

(***************************************************************************)
(* The rumors stay below their bound: a message is added to the open rumor *)
(* below it only, and the next rumor is opened without one.                *)
(***************************************************************************)
LEMMA OpenIDType ==
  ASSUME IInv, NEW n \in Server
  PROVE  OpenID(n) \in Nat
BY GoodLastID DEF IInv, GoodTables, GoodRows, OpenID

LEMMA BoundedStep ==
  ASSUME IInv, Bounded, [Next]_vars
  PROVE  Bounded'
<1> SUFFICES ASSUME NEW k \in Server, pending'[k]
             PROVE  OpenID(k)' \in RumorID
  BY DEF Bounded, RumorID
<1>1. OpenID(k)' = OpenID(k) \/ \E n \in Server : GetAndIncrementMyRumor(n)
  <2>1. CASE UNCHANGED table
    BY <2>1 DEF OpenID
  <2>2. ASSUME NEW n \in Server, NEW r \in storing[n],
               table' = [table EXCEPT ![n] = @ \cup {r}]
        PROVE  OpenID(k)' = OpenID(k)
    <3>1. r.sender # n /\ table \in [Server -> FiniteSubsets(Rumor)]
      BY DEF IInv, Checked, GoodTables
    <3>2. table'[k] = table[k] \/ (k = n /\ table'[k] = table[k] \cup {r})
      BY <2>2, <3>1
    <3>3. IDs(table'[k], k) = IDs(table[k], k)
      BY <3>1, <3>2 DEF IDs
    <3> QED  BY <3>3 DEF OpenID, LastID
  <2> QED  BY <2>1, <2>2, TableWrites
<1>2. ASSUME NEW n \in Server, GetAndIncrementMyRumor(n)
      PROVE  OpenID(k)' = OpenID(k) /\ pending'[k] = pending[k]
  <2>1. /\ pending' = [pending EXCEPT ![n] = FALSE] /\ pending \in [Server -> BOOLEAN]
        /\ table \in [Server -> FiniteSubsets(Rumor)]
    BY <1>2 DEF GetAndIncrementMyRumor, IInv, Typed, GoodTables
  <2>2. k # n
    BY <2>1
  <2> QED  BY <1>2, <2>1, <2>2 DEF GetAndIncrementMyRumor, OpenID
<1>3. pending'[k] = pending[k] \/ OpenID(k) < MaxRumors[k]
  <2>1. ASSUME NEW n \in Server, AddMessageToMyRumor(n)
        PROVE  pending'[k] = pending[k] \/ OpenID(k) < MaxRumors[k]
    BY <2>1 DEF AddMessageToMyRumor, IInv, Typed
  <2>2. ASSUME NEW n \in Server,
               \/ SendMyRumor(n) \/ StoreRumor(n) \/ HandleNextRumor(n)
               \/ ExpireBuffered(n) \/ HandleWork(n) \/ Restart(n)
        PROVE  UNCHANGED pending
    BY <2>2 DEF SendMyRumor, StoreRumor, HandleNextRumor, ExpireBuffered, HandleWork,
                Restart
  <2>3. ASSUME NEW n \in Server, NEW m \in Server,
               \/ HandleRumor(n, m) \/ HandleRumorAnswer(n, m) \/ SendRumorState(n, m)
               \/ HandleRumorState(n, m) \/ HandleRumorStateAnswer(n, m)
        PROVE  UNCHANGED pending
    BY <2>3 DEF HandleRumor, HandleRumorAnswer, SendRumorState, HandleRumorState,
                HandleRumorStateAnswer, serverVars
  <2>4. UNCHANGED vars => UNCHANGED pending
    BY DEF vars
  <2> QED  BY <1>2, <2>1, <2>2, <2>3, <2>4 DEF Next
<1>4. OpenID(k)' = OpenID(k)
  BY <1>1, <1>2
<1>5. CASE pending[k]
  BY <1>4, <1>5 DEF Bounded
<1>6. CASE OpenID(k) < MaxRumors[k]
  <2>1. OpenID(k) \in 0 .. MaxRumors[k]
    BY <1>6, OpenIDType, BoundsAssumption
  <2> QED  BY <1>4, <2>1 DEF RumorID
<1> QED  BY <1>3, <1>5, <1>6

-----------------------------------------------------------------------------
LEMMA CausalInit == Init => Causal!Init
<1> SUFFICES ASSUME Init PROVE Causal!Init
  OBVIOUS
<1>1. \A n \in Server : Received(n) = {}
  BY FirstRows DEF Init, Received
<1> QED  BY <1>1 DEF Causal!Init

(***************************************************************************)
(* What a server stores of its rumors and of those of others is a causal   *)
(* broadcast: whatever is lost, delayed, buffered or forgotten in a crash, *)
(* a rumor is received once and after all its sender had received.         *)
(***************************************************************************)
THEOREM Implementation == Spec => ImplementsCausalBroadcast
<1>1. Init => Bounded
  BY DEF Init, Bounded
<1>2. IInv /\ Bounded /\ [Next]_vars => Bounded'
  BY BoundedStep
<1>3. IInv /\ Bounded /\ [Next]_vars => [Causal!Next]_MessagesReceived
  BY CausalStep
<1> QED  BY <1>1, <1>2, <1>3, CausalInit, Invariance, PTL
         DEF Spec, ImplementsCausalBroadcast, Causal!Spec, MessagesReceived, Messages, MessageOf
=============================================================================
