--------------------------- MODULE RumorTimestamp ---------------------------
(***************************************************************************)
(* Rumor timestamps of the Go backend: partial vector clocks from the key  *)
(* of a server to the id of the last of its rumors.  The module holds the  *)
(* three comparisons the gossip protocol is built on:                      *)
(*   - IsBefore and IsValid (internal/handler/method/rumor/mrumor), used   *)
(*     to sort rumors and to take them out of the reordering buffer;       *)
(*   - CheckTimestampHelper (internal/database/sqlite), which decides      *)
(*     whether a rumor may be stored.                                      *)
(* A Go map is a function to rumor ids in which a server the map has no    *)
(* entry for has the value Absent.  Reading such an entry gives 0, the     *)
(* zero value of an int: the code tells "absent" from "0" only where it    *)
(* tests the second result of the lookup, and so do these definitions.     *)
(***************************************************************************)
EXTENDS Integers

CONSTANT Server      \* the public keys of the servers

Absent == -1

Timestamp == [Server -> Nat \cup {Absent}]

EmptyTimestamp == [s \in Server |-> Absent]

Entries(t) == {s \in Server : t[s] # Absent}

Lookup(t, s) == IF t[s] = Absent THEN 0 ELSE t[s]

(***************************************************************************)
(* Some entry of t is missing from other, or larger than in other: the     *)
(* "smaller" flag of IsBefore for t = r, its "greater" flag for t = other. *)
(***************************************************************************)
Exceeds(t, other) ==
  \E s \in Entries(t) : s \notin Entries(other) \/ other[s] < t[s]

IsBefore(r, other) == ~Exceeds(r, other) /\ Exceeds(other, r)

(***************************************************************************)
(* What a server in this state accepts to take out of its buffer.  An      *)
(* entry the state lacks counts as rumor 0 already received.               *)
(***************************************************************************)
IsValid(state, t) == \A s \in Entries(t) : t[s] <= Lookup(state, s)

(***************************************************************************)
(* The two results of CheckTimestampHelper for rumor id of sender with     *)
(* timestamp t, on a server in this state.                                 *)
(***************************************************************************)
AlreadyExists(state, sender, id) ==
  sender \in Entries(state) /\ id <= state[sender]

\* Mistake: a rumor may skip the ids before it.
CheckTimestampGap(state, sender, id, t) ==
  /\ id >= IF sender \in Entries(state) THEN state[sender] + 1 ELSE 0
  /\ \A s \in Entries(t) \ {sender} : s \in Entries(state) /\ t[s] <= state[s]

\* Mistake: only the sender's own rumors are checked.
CheckTimestampSenderOnly(state, sender, id, t) ==
  id = IF sender \in Entries(state) THEN state[sender] + 1 ELSE 0

CheckTimestamp(state, sender, id, t) ==
  /\ id = IF sender \in Entries(state) THEN state[sender] + 1 ELSE 0
  /\ \A s \in Entries(t) \ {sender} : s \in Entries(state) /\ t[s] <= state[s]

-----------------------------------------------------------------------------
(***************************************************************************)
(* The reference order: the pointwise order of the vectors, in which a     *)
(* server that is absent comes before its rumor 0.                         *)
(***************************************************************************)
VectorLeq(t, other) == \A s \in Server : t[s] <= other[s]

VectorLess(t, other) == VectorLeq(t, other) /\ t # other

=============================================================================
