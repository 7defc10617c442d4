-------------------------- MODULE Fe1NetworkProofs --------------------------
(***************************************************************************)
(* The safety of the network layer of the web frontend, for any number of  *)
(* servers, calls, attempts and events: an inductive invariant, and from   *)
(* it TypeOK, HopeOrDead and ResolvedMeansAccepted of Fe1Network.          *)
(***************************************************************************)
EXTENDS Fe1Network, SequenceTheorems, FiniteSetTheorems, TLAPS

Requests ==
  [st : {"none", "waiting", "sent", "resolved", "rejected"}, id : 0 .. IdWrap - 1,
   checks : 0 .. MaxChecks]

Packets == [type : {"request"}, id : Nat, call : Calls] \cup [type : {"result", "error"}, id : Nat]

Callbacks == {Nobody, <<"create", 0>>, <<"retry", 0>>} \cup ({"round"} \X Rounds)

Connection ==
  [address : Addresses, ws : {"connecting", "open", "closing", "closed"}, old : Nat,
   alive : BOOLEAN, closeIntent : BOOLEAN, attempts : Nat, initTimer : BOOLEAN,
   callback : Callbacks, retries : Nat, nextRpcId : 0 .. IdWrap - 1,
   req : [Calls -> Requests], wire : SUBSET Packets, subscribed : BOOLEAN]

(***************************************************************************)
(* The calls that a connection gave an id.  Ids are given in order and     *)
(* none twice, since a connection sends a call once and there are more ids *)
(* than calls.                                                             *)
(***************************************************************************)
Numbered(r) == {k \in Calls : r.req[k].id # 0}

NextAfter(n) == IF n + 1 = IdWrap THEN 0 ELSE n + 1

Assigned(r) ==
  /\ \A k \in Calls : /\ r.req[k].id <= Cardinality(Numbered(r))
                      /\ r.req[k].st \in {"none", "waiting"} => r.req[k].id = 0
                      /\ r.req[k].st = "sent" => r.req[k].id # 0
  /\ \A k, l \in Numbered(r) : r.req[k].id = r.req[l].id => k = l
  /\ r.nextRpcId = NextAfter(Cardinality(Numbered(r)))

(***************************************************************************)
(* What is on the wire has the id of the call it is about, and an answer   *)
(* is that of a server that handled the call.                              *)
(***************************************************************************)
Answered(r, done) ==
  /\ \A w \in r.wire : w.type = "request" => w.id # 0 /\ r.req[w.call].id = w.id
  /\ \A w \in r.wire : w.type # "request" =>
       w.id # 0 /\ \E k \in Calls : r.req[k].id = w.id /\ <<r.address, k>> \in done
  /\ \A k \in Calls : r.req[k].st = "resolved" => <<r.address, k>> \in done

Hopeful(r) == r.alive /\ r.ws = "closed" => r.retries > 0 \/ r.initTimer

(***************************************************************************)
(* A connection was not asked for calls that have not begun.               *)
(***************************************************************************)
Unasked(r, waiting) == \A k \in waiting : r.req[k].st = "none"

Sound(r, done, waiting) ==
  r \in Connection /\ Assigned(r) /\ Answered(r, done) /\ Unasked(r, waiting)

Good(r, done, waiting) == Sound(r, done, waiting) /\ Hopeful(r)

-----------------------------------------------------------------------------
(***************************************************************************)
(* Numbers and sets.                                                       *)
(***************************************************************************)
LEMMA WrapAround ==
  ASSUME NEW m \in Nat, NEW x \in 0 .. m - 1
  PROVE  (x + 1) % m = IF x + 1 = m THEN 0 ELSE x + 1
OBVIOUS

LEMMA FiniteCalls == IsFiniteSet(Calls)
<1>1. IsFiniteSet({"publish"}) /\ IsFiniteSet({"subscribe", "catchup"})
  <2>1. {"subscribe", "catchup"} = {"subscribe"} \cup {"catchup"}
    OBVIOUS
  <2>2. IsFiniteSet({"publish"}) /\ IsFiniteSet({"subscribe"})
    BY FS_Singleton
  <2> QED  BY <2>1, <2>2, FS_AddElement
<1>2. IsFiniteSet(Publications) /\ IsFiniteSet(Rounds)
  BY BoundsAssumption, FS_Interval DEF Rounds
<1>3. IsFiniteSet({"publish"} \X Publications)
  BY <1>1, <1>2, FS_Product
<1>4. IsFiniteSet({"subscribe", "catchup"} \X Rounds)
  BY <1>1, <1>2, FS_Product
<1> QED  BY <1>3, <1>4, FS_Union DEF Calls

LEMMA NumberedCalls ==
  ASSUME NEW r
  PROVE  /\ IsFiniteSet(Numbered(r))
         /\ Cardinality(Numbered(r)) \in Nat
         /\ Cardinality(Numbered(r)) <= Cardinality(Calls)
         /\ Cardinality(Calls) \in Nat
         /\ \A k \in Calls : k \notin Numbered(r) => Cardinality(Numbered(r)) < Cardinality(Calls)
<1>1. Numbered(r) \in SUBSET Calls
  BY DEF Numbered
<1>2. IsFiniteSet(Numbered(r)) /\ Cardinality(Numbered(r)) <= Cardinality(Calls)
  BY <1>1, FiniteCalls, FS_Subset
<1>3. Cardinality(Numbered(r)) \in Nat /\ Cardinality(Calls) \in Nat
  BY <1>2, FiniteCalls, FS_CardinalityType
<1>4. Cardinality(Calls) = Cardinality(Numbered(r)) => Calls = Numbered(r)
  BY <1>1, FiniteCalls, FS_Subset
<1> QED  BY <1>2, <1>3, <1>4

(***************************************************************************)
(* What happens to a connection that concerns neither its requests nor its *)
(* wire keeps it sound.                                                    *)
(***************************************************************************)
LEMMA SameRequests ==
  ASSUME NEW done, NEW waiting, NEW r, Sound(r, done, waiting),
         NEW s \in Connection, s.req = r.req, s.nextRpcId = r.nextRpcId,
         s.address = r.address, s.wire \subseteq r.wire
  PROVE  Sound(s, done, waiting)
<1>1. Numbered(s) = Numbered(r)
  BY DEF Numbered
<1>2. Assigned(s)
  BY <1>1 DEF Sound, Assigned
<1>3. Answered(s, done)
  BY DEF Sound, Answered
<1> QED  BY <1>2, <1>3 DEF Sound, Unasked

LEMMA MoreDone ==
  ASSUME NEW done, NEW waiting, NEW r, Good(r, done, waiting),
         NEW more, done \subseteq more, NEW fewer, fewer \subseteq waiting
  PROVE  Good(r, more, fewer)
BY DEF Good, Sound, Answered, Unasked

-----------------------------------------------------------------------------
(***************************************************************************)
(* Each operation on a connection.                                         *)
(***************************************************************************)
LEMMA NewIsGood ==
  ASSUME NEW a \in Addresses, NEW done, NEW waiting \in SUBSET Calls
  PROVE  Good(NewConnection(a), done, waiting) /\ NewConnection(a).address = a
<1> DEFINE r == NewConnection(a)
<1>1. IdWrap \in Nat /\ MaxChecks \in Nat /\ IdWrap > 1
  BY BoundsAssumption
<1>2. r \in Connection
  <2>1. [k \in Calls |-> NotSent] \in [Calls -> Requests]
    BY <1>1 DEF NotSent, Requests
  <2>2. Nobody \in Callbacks /\ <<"create", 0>> \in Callbacks
    BY DEF Callbacks
  <2>3. 1 \in 0 .. IdWrap - 1
    BY <1>1
  <2> QED  BY <2>1, <2>2, <2>3 DEF NewConnection, Connection
<1>3. \A k \in Calls : r.req[k] = NotSent
  BY DEF NewConnection
<1>4. Numbered(r) = {}
  BY <1>3 DEF Numbered, NotSent
<1>5. Assigned(r)
  <2>1. Cardinality(Numbered(r)) = 0
    BY <1>4, FS_EmptySet
  <2>2. r.nextRpcId = 1 /\ NextAfter(0) = 1
    BY <1>1 DEF NewConnection, NextAfter
  <2>3. \A k \in Calls : r.req[k].id = 0 /\ r.req[k].st = "none"
    BY <1>3 DEF NotSent
  <2> HIDE DEF r
  <2> QED  BY <1>4, <2>1, <2>2, <2>3 DEF Assigned
<1>6. Answered(r, done) /\ Unasked(r, waiting)
  BY <1>3 DEF Answered, Unasked, NewConnection, NotSent
<1> QED  BY <1>2, <1>5, <1>6 DEF Good, Sound, Hopeful, NewConnection

LEMMA EstablishKeeps ==
  ASSUME NEW done, NEW waiting, NEW r, Sound(r, done, waiting)
  PROVE  /\ Good(EstablishConnection(r), done, waiting)
         /\ EstablishConnection(r).ws = "connecting"
         /\ EstablishConnection(r).address = r.address
<1> DEFINE n == r.old + (IF r.ws = "closing" THEN 1 ELSE 0)
           s == [r EXCEPT !.ws = "connecting", !.old = n, !.wire = {}, !.subscribed = FALSE]
<1>1. r \in Connection
  BY DEF Sound
<1>2. n \in Nat
  BY <1>1 DEF Connection
<1>3. EstablishConnection(r) = s
  BY DEF EstablishConnection
<1> HIDE DEF n
<1>4. s \in Connection /\ s.req = r.req /\ s.nextRpcId = r.nextRpcId /\ s.address = r.address
        /\ s.wire = {} /\ s.ws = "connecting"
  BY <1>1, <1>2 DEF Connection
<1>5. Sound(s, done, waiting)
  BY <1>4, SameRequests
<1> QED  BY <1>3, <1>4, <1>5 DEF Good, Hopeful

LEMMA ReconnectKeeps ==
  ASSUME NEW done, NEW waiting, NEW r, Sound(r, done, waiting), NEW cb \in Callbacks
  PROVE  /\ Good(ReconnectIfNecessary(r, cb), done, waiting)
         /\ ReconnectIfNecessary(r, cb).address = r.address
<1>1. CASE IsDown(r)
  <2> DEFINE e == EstablishConnection(r)
             s == [e EXCEPT !.alive = TRUE, !.closeIntent = FALSE, !.callback = cb]
  <2>1. Sound(e, done, waiting) /\ e.ws = "connecting" /\ e.address = r.address
    BY EstablishKeeps DEF Good
  <2> HIDE DEF e
  <2>2. s \in Connection /\ s.req = e.req /\ s.nextRpcId = e.nextRpcId /\ s.address = e.address
          /\ s.wire = e.wire /\ s.ws = "connecting"
    BY <2>1 DEF Sound, Connection
  <2>3. Sound(s, done, waiting)
    BY <2>1, <2>2, SameRequests
  <2>4. ReconnectIfNecessary(r, cb) = s
    BY <1>1 DEF ReconnectIfNecessary, e
  <2> QED  BY <2>1, <2>2, <2>3, <2>4 DEF Good, Hopeful
<1>2. CASE ~IsDown(r)
  BY <1>2 DEF ReconnectIfNecessary, Good, Hopeful, IsDown
<1> QED  BY <1>1, <1>2

LEMMA CloseSocketKeeps ==
  ASSUME NEW done, NEW waiting, NEW r, Good(r, done, waiting)
  PROVE  Good(CloseSocket(r), done, waiting) /\ CloseSocket(r).address = r.address
<1> DEFINE w == IF r.ws = "closed" THEN "closed" ELSE "closing"
           s == [r EXCEPT !.ws = w]
<1>1. r \in Connection /\ w \in {"closing", "closed"}
  BY DEF Good, Sound
<1>2. CloseSocket(r) = s
  BY DEF CloseSocket
<1>3. s \in Connection /\ s.req = r.req /\ s.nextRpcId = r.nextRpcId /\ s.address = r.address
        /\ s.wire = r.wire /\ s.ws = w /\ s.alive = r.alive /\ s.retries = r.retries
        /\ s.initTimer = r.initTimer
  BY <1>1 DEF Connection
<1>4. Sound(s, done, waiting)
  BY <1>3, SameRequests DEF Good
<1> QED  BY <1>2, <1>3, <1>4 DEF Good, Hopeful

LEMMA DisconnectKeeps ==
  ASSUME NEW done, NEW waiting, NEW r, Good(r, done, waiting)
  PROVE  Good(Disconnect(r), done, waiting) /\ Disconnect(r).address = r.address
<1> DEFINE e == CloseSocket(r)
           s == [e EXCEPT !.closeIntent = TRUE]
<1>1. Good(e, done, waiting) /\ e.address = r.address
  BY CloseSocketKeeps
<1> HIDE DEF e
<1>2. s \in Connection /\ s.req = e.req /\ s.nextRpcId = e.nextRpcId /\ s.address = e.address
        /\ s.wire = e.wire /\ s.ws = e.ws /\ s.alive = e.alive /\ s.retries = e.retries
        /\ s.initTimer = e.initTimer
  BY <1>1 DEF Good, Sound, Connection
<1>3. Sound(s, done, waiting)
  BY <1>1, <1>2, SameRequests DEF Good
<1>4. Disconnect(r) = s
  BY DEF Disconnect, e
<1> QED  BY <1>1, <1>2, <1>3, <1>4 DEF Good, Hopeful

(***************************************************************************)
(* A socket that was not closed on purpose leaves a timer behind, or the   *)
(* connection dead.                                                        *)
(***************************************************************************)
LEMMA OnCloseKeeps ==
  ASSUME NEW done, NEW waiting, NEW r, Sound(r, done, waiting)
  PROVE  Good(OnClose(r), done, waiting) /\ OnClose(r).address = r.address
<1>1. r \in Connection /\ r.attempts \in Nat /\ r.retries \in Nat
  BY DEF Sound, Connection
<1>2. CASE ~r.alive
  BY <1>2 DEF OnClose, Good, Hopeful
<1>3. CASE r.alive /\ (r.closeIntent \/ GivesUp(r))
  <2> DEFINE n == r.attempts + (IF r.closeIntent THEN 0 ELSE 1)
             s == [r EXCEPT !.alive = FALSE, !.attempts = n]
  <2>1. n \in Nat
    BY <1>1
  <2>2. OnClose(r) = s
    BY <1>3 DEF OnClose
  <2> HIDE DEF n
  <2>3. s \in Connection /\ s.req = r.req /\ s.nextRpcId = r.nextRpcId /\ s.address = r.address
          /\ s.wire = r.wire /\ ~s.alive
    BY <1>1, <2>1 DEF Connection
  <2>4. Sound(s, done, waiting)
    BY <2>3, SameRequests
  <2> QED  BY <2>2, <2>3, <2>4 DEF Good, Hopeful
<1>4. CASE r.alive /\ ~(r.closeIntent \/ GivesUp(r))
  <2> DEFINE n == r.attempts + 1
             m == r.retries + 1
             s == [r EXCEPT !.attempts = n, !.retries = m]
  <2>1. n \in Nat /\ m \in Nat /\ m > 0
    BY <1>1
  <2>2. OnClose(r) = s
    BY <1>4 DEF OnClose
  <2> HIDE DEF n, m
  <2>3. s \in Connection /\ s.req = r.req /\ s.nextRpcId = r.nextRpcId /\ s.address = r.address
          /\ s.wire = r.wire /\ s.retries = m
    BY <1>1, <2>1 DEF Connection
  <2>4. Sound(s, done, waiting)
    BY <2>3, SameRequests
  <2> QED  BY <2>1, <2>2, <2>3, <2>4 DEF Good, Hopeful
<1> QED  BY <1>2, <1>3, <1>4

(***************************************************************************)
(* A request changes its status, but keeps its id.                         *)
(***************************************************************************)
LEMMA SameIds ==
  ASSUME NEW done, NEW waiting, NEW fewer, NEW r, Sound(r, done, waiting),
         NEW s \in Connection, s.nextRpcId = r.nextRpcId, s.address = r.address,
         s.wire \subseteq r.wire,
         \A k \in Calls :
           /\ s.req[k].id = r.req[k].id
           /\ s.req[k].st \in {"none", "waiting"} => s.req[k].id = 0
           /\ s.req[k].st = "sent" => s.req[k].id # 0
           /\ s.req[k].st = "resolved" => <<r.address, k>> \in done,
         Unasked(s, fewer)
  PROVE  Sound(s, done, fewer)
<1>1. Numbered(s) = Numbered(r)
  BY DEF Numbered
<1>2. Assigned(s)
  <2>1. \A k, l \in Numbered(s) : s.req[k].id = s.req[l].id => k = l
    BY <1>1 DEF Sound, Assigned, Numbered
  <2>2. \A k \in Calls : s.req[k].id <= Cardinality(Numbered(s))
    BY <1>1 DEF Sound, Assigned
  <2> QED  BY <1>1, <2>1, <2>2 DEF Sound, Assigned
<1>3. Answered(s, done)
  <2>1. \A w \in s.wire : w.type = "request" => w.id # 0 /\ s.req[w.call].id = w.id
    <3> SUFFICES ASSUME NEW w \in s.wire, w.type = "request"
                 PROVE  w.id # 0 /\ s.req[w.call].id = w.id
      OBVIOUS
    <3>1. w \in Packets
      BY DEF Sound, Connection
    <3>2. w.call \in Calls
      BY <3>1 DEF Packets
    <3> QED  BY <3>2 DEF Sound, Answered
  <2>2. \A w \in s.wire : w.type # "request" =>
          w.id # 0 /\ \E k \in Calls : s.req[k].id = w.id /\ <<s.address, k>> \in done
    BY DEF Sound, Answered
  <2> QED  BY <2>1, <2>2 DEF Answered
<1> QED  BY <1>2, <1>3 DEF Sound

(***************************************************************************)
(* The id a request gets is new: fewer ids were given than there are.      *)
(***************************************************************************)
LEMMA SendNowKeeps ==
  ASSUME NEW done, NEW waiting, NEW r, Sound(r, done, waiting), r.ws = "open",
         NEW k \in Calls, r.req[k].id = 0
  PROVE  Good(SendNow(r, k), done, waiting \ {k}) /\ SendNow(r, k).address = r.address
<1> DEFINE n == Cardinality(Numbered(r))
           id == r.nextRpcId
           next == (id + 1) % IdWrap
           q == [type |-> "request", id |-> id, call |-> k]
           sent == [st |-> "sent", id |-> id, checks |-> 0]
           wire == r.wire \cup {q}
           s == [r EXCEPT !.req[k] = sent, !.wire = wire, !.nextRpcId = next]
<1>1. /\ IdWrap \in Nat /\ MaxChecks \in Nat
      /\ n \in Nat /\ n < Cardinality(Calls) /\ Cardinality(Calls) \in Nat
      /\ IdWrap > Cardinality(Calls)
  BY BoundsAssumption, NumberedCalls DEF Numbered
<1>2. id = n + 1 /\ id \in 0 .. IdWrap - 1 /\ id # 0
  BY <1>1 DEF Sound, Assigned, NextAfter
<1>3. next = NextAfter(n + 1) /\ next \in 0 .. IdWrap - 1
  <2>1. next = IF id + 1 = IdWrap THEN 0 ELSE id + 1
    BY <1>1, <1>2, WrapAround
  <2> QED  BY <1>1, <1>2, <2>1 DEF NextAfter
<1>4. SendNow(r, k) = s
  BY DEF SendNow
<1>5. r \in Connection
  BY DEF Sound
<1>6. sent \in Requests /\ sent.id = id /\ sent.st = "sent"
  BY <1>1, <1>2 DEF Requests
<1>7. wire \in SUBSET Packets
  <2>1. q \in Packets
    BY <1>2 DEF Packets
  <2> QED  BY <1>5, <2>1 DEF Connection
<1>8. q.type = "request" /\ q.id = id /\ q.call = k
  OBVIOUS
<1> HIDE DEF sent, wire, next, q, id
<1>9. /\ s \in Connection /\ s.address = r.address /\ s.wire = wire /\ s.nextRpcId = next
      /\ s.ws = "open" /\ s.req = [r.req EXCEPT ![k] = sent]
  BY <1>3, <1>5, <1>6, <1>7 DEF Connection
<1>10. \A l \in Calls : s.req[l] = IF l = k THEN sent ELSE r.req[l]
  BY <1>5, <1>9 DEF Connection
<1> HIDE DEF s
<1>11. Numbered(s) = Numbered(r) \cup {k}
  BY <1>2, <1>6, <1>10 DEF Numbered
<1>12. Cardinality(Numbered(s)) = n + 1
  <2>1. k \notin Numbered(r)
    BY DEF Numbered
  <2> QED  BY <1>11, <2>1, NumberedCalls, FS_AddElement
<1>13. \A l \in Calls : r.req[l].id <= n /\ r.req[l].id \in Nat
  BY <1>1, <1>5 DEF Sound, Assigned, Connection, Requests
<1>14. Assigned(s)
  <2>1. \A l \in Calls : /\ s.req[l].id <= n + 1
                         /\ s.req[l].st \in {"none", "waiting"} => s.req[l].id = 0
                         /\ s.req[l].st = "sent" => s.req[l].id # 0
    BY <1>1, <1>2, <1>6, <1>10, <1>13 DEF Sound, Assigned
  <2>2. ASSUME NEW l \in Numbered(s), NEW m \in Numbered(s), s.req[l].id = s.req[m].id
        PROVE  l = m
    <3>1. l \in Calls /\ m \in Calls
      BY DEF Numbered
    <3>2. CASE l # k /\ m # k
      BY <1>10, <1>11, <2>2, <3>1, <3>2 DEF Sound, Assigned
    <3>3. CASE l = k \/ m = k
      <4>1. \A x \in Calls : x # k => s.req[x].id <= n
        BY <1>10, <1>13
      <4>2. s.req[k].id = n + 1
        BY <1>2, <1>6, <1>10
      <4>3. \A x \in Calls : x # k => s.req[x].id # s.req[k].id
        BY <1>1, <1>10, <1>13, <4>1, <4>2
      <4> QED  BY <2>2, <3>1, <3>3, <4>3
    <3> QED  BY <3>2, <3>3
  <2>3. s.nextRpcId = NextAfter(n + 1)
    BY <1>3, <1>9
  <2> QED  BY <1>12, <2>1, <2>2, <2>3 DEF Assigned
<1>15. Answered(s, done)
  <2>1. \A l \in Calls : r.req[l].id # 0 => s.req[l] = r.req[l]
    BY <1>10
  <2>2. ASSUME NEW w \in s.wire, w.type = "request"
        PROVE  w.id # 0 /\ s.req[w.call].id = w.id
    <3>1. CASE w = q
      BY <1>2, <1>6, <1>8, <1>10, <3>1
    <3>2. CASE w \in r.wire
      <4>1. w.id # 0 /\ r.req[w.call].id = w.id
        BY <2>2, <3>2 DEF Sound, Answered
      <4>2. w.call \in Calls
        BY <1>5, <2>2, <3>2 DEF Connection, Packets
      <4> QED  BY <2>1, <4>1, <4>2
    <3> QED  BY <1>9, <3>1, <3>2 DEF wire
  <2>3. ASSUME NEW w \in s.wire, w.type # "request"
        PROVE  w.id # 0 /\ \E l \in Calls : s.req[l].id = w.id /\ <<s.address, l>> \in done
    <3>1. w \in r.wire
      BY <1>8, <1>9, <2>3 DEF wire
    <3>2. PICK l \in Calls : w.id # 0 /\ r.req[l].id = w.id /\ <<r.address, l>> \in done
      BY <2>3, <3>1 DEF Sound, Answered
    <3> QED  BY <1>9, <2>1, <3>2
  <2>4. \A l \in Calls : s.req[l].st = "resolved" => <<s.address, l>> \in done
    BY <1>6, <1>9, <1>10 DEF Sound, Answered
  <2> QED  BY <2>2, <2>3, <2>4 DEF Answered
<1>16. Unasked(s, waiting \ {k})
  <2> SUFFICES ASSUME NEW l \in waiting, l # k
               PROVE  s.req[l].st = "none"
    BY DEF Unasked
  <2>1. r.req[l].st = "none"
    BY DEF Sound, Unasked
  <2>2. s.req[l] = r.req[l]
    BY <1>5, <1>9 DEF Connection
  <2> QED  BY <2>1, <2>2
<1> QED  BY <1>4, <1>9, <1>14, <1>15, <1>16 DEF Good, Sound, Hopeful

(***************************************************************************)
(* A request that cannot be sent yet waits.                                *)
(***************************************************************************)
LEMMA SendPayloadKeeps ==
  ASSUME NEW done, NEW waiting, NEW r, Good(r, done, waiting),
         NEW k \in Calls, k \in waiting
  PROVE  Good(SendPayload(r, k), done, waiting \ {k}) /\ SendPayload(r, k).address = r.address
<1>1. r.req[k].st = "none" /\ r.req[k].id = 0
  BY DEF Good, Sound, Unasked, Assigned
<1>2. CASE r.ws = "open"
  BY <1>1, <1>2, SendNowKeeps DEF SendPayload, Good
<1>3. CASE r.ws # "open"
  <2> DEFINE s == [r EXCEPT !.req[k].st = "waiting"]
  <2>1. r \in Connection
    BY DEF Good, Sound
  <2>2. /\ s \in Connection /\ s.address = r.address /\ s.wire = r.wire /\ s.nextRpcId = r.nextRpcId
        /\ s.ws = r.ws /\ s.alive = r.alive /\ s.retries = r.retries /\ s.initTimer = r.initTimer
    BY <2>1 DEF Connection, Requests
  <2>3. \A l : l # k => s.req[l] = r.req[l] \/ l \notin Calls
    BY <2>1 DEF Connection
  <2>4. s.req[k].st = "waiting" /\ s.req[k].id = 0
    BY <1>1, <2>1 DEF Connection, Requests
  <2>5. SendPayload(r, k) = s
    BY <1>3 DEF SendPayload
  <2> HIDE DEF s
  <2>6. Unasked(s, waiting \ {k})
    <3> SUFFICES ASSUME NEW l \in waiting, l # k
                 PROVE  s.req[l].st = "none"
      BY DEF Unasked
    <3>1. s.req = [r.req EXCEPT ![k].st = "waiting"]
      BY <2>1, <2>5, <1>3 DEF SendPayload, Connection
    <3>2. s.req[l] = r.req[l]
      BY <2>1, <3>1 DEF Connection
    <3> QED  BY <3>2 DEF Good, Sound, Unasked
  <2>7. Sound(s, done, waiting \ {k})
    <3>1. \A l \in Calls :
           /\ s.req[l].id = r.req[l].id
           /\ s.req[l].st \in {"none", "waiting"} => s.req[l].id = 0
           /\ s.req[l].st = "sent" => s.req[l].id # 0
           /\ s.req[l].st = "resolved" => <<r.address, l>> \in done
      BY <1>1, <2>3, <2>4 DEF Good, Sound, Assigned, Answered
    <3> QED  BY <2>2, <2>6, <3>1, SameIds DEF Good
  <2> QED  BY <2>2, <2>5, <2>7 DEF Good, Hopeful
<1> QED  BY <1>2, <1>3

(***************************************************************************)
(* A request that is sent again has the id it had.                         *)
(***************************************************************************)
LEMMA ResendPendingKeeps ==
  ASSUME NEW done, NEW waiting, NEW r, Sound(r, done, waiting), r.ws = "open"
  PROVE  Good(ResendPending(r), done, waiting) /\ ResendPending(r).address = r.address
<1> DEFINE again == {[type |-> "request", id |-> r.req[k].id, call |-> k] :
                       k \in {c \in Calls : r.req[c].st = "sent"}}
           wire == r.wire \cup again
           s == [r EXCEPT !.wire = wire]
<1>1. r \in Connection
  BY DEF Sound
<1>2. \A w \in again : /\ w \in Packets /\ w.type = "request" /\ w.id # 0
                       /\ w.call \in Calls /\ r.req[w.call].id = w.id
  <2> SUFFICES ASSUME NEW k \in Calls, r.req[k].st = "sent"
               PROVE  LET w == [type |-> "request", id |-> r.req[k].id, call |-> k]
                      IN  w \in Packets /\ w.id # 0 /\ r.req[w.call].id = w.id
    OBVIOUS
  <2>1. r.req[k].id \in Nat /\ r.req[k].id # 0
    BY <1>1, BoundsAssumption DEF Connection, Requests, Sound, Assigned
  <2> QED  BY <2>1 DEF Packets
<1>3. ResendPending(r) = s
  BY DEF ResendPending
<1> HIDE DEF again
<1>4. wire \in SUBSET Packets
  BY <1>1, <1>2 DEF Connection
<1>5. /\ s \in Connection /\ s.address = r.address /\ s.wire = wire /\ s.nextRpcId = r.nextRpcId
      /\ s.ws = "open" /\ s.req = r.req
  BY <1>1, <1>4 DEF Connection
<1> HIDE DEF s
<1>6. Numbered(s) = Numbered(r)
  BY <1>5 DEF Numbered
<1>7. Assigned(s) /\ Unasked(s, waiting)
  BY <1>5, <1>6 DEF Sound, Assigned, Unasked
<1>8. Answered(s, done)
  BY <1>2, <1>5 DEF Sound, Answered
<1> QED  BY <1>3, <1>5, <1>7, <1>8 DEF Good, Sound, Hopeful

LEMMA OnOpenKeeps ==
  ASSUME NEW done, NEW waiting, NEW r, Sound(r, done, waiting), r.ws = "open"
  PROVE  Good(OnOpen(r), done, waiting) /\ OnOpen(r).address = r.address
<1>1. CASE ~r.alive
  BY <1>1 DEF OnOpen, Good, Hopeful
<1>2. CASE r.alive
  <2> DEFINE s == [r EXCEPT !.initTimer = FALSE, !.attempts = 0, !.callback = Nobody]
  <2>1. /\ s \in Connection /\ s.address = r.address /\ s.wire = r.wire
        /\ s.nextRpcId = r.nextRpcId /\ s.ws = "open" /\ s.req = r.req
    BY DEF Sound, Connection, Callbacks
  <2>2. OnOpen(r) = ResendPending(s)
    BY <1>2 DEF OnOpen
  <2> HIDE DEF s
  <2>3. Sound(s, done, waiting)
    BY <2>1, SameRequests
  <2> QED  BY <2>1, <2>2, <2>3, ResendPendingKeeps
<1> QED  BY <1>1, <1>2

(***************************************************************************)
(* An answer settles the request that has its id, which is the one the     *)
(* server handled.                                                         *)
(***************************************************************************)
LEMMA ProcessResponseKeeps ==
  ASSUME NEW done, NEW waiting \in SUBSET Calls, NEW r, Good(r, done, waiting),
         NEW answer \in r.wire, answer.type # "request"
  PROVE  /\ Good(ProcessResponse(r, answer), done, waiting)
         /\ ProcessResponse(r, answer).address = r.address
<1> DEFINE ends(k) == r.req[k].st = "sent" /\ r.req[k].id = answer.id
           st == IF answer.type = "result" THEN "resolved" ELSE "rejected"
           reqs == [k \in Calls |-> IF ends(k) THEN [r.req[k] EXCEPT !.st = st] ELSE r.req[k]]
           wire == r.wire \ {answer}
           s == [r EXCEPT !.wire = wire, !.req = reqs]
<1>1. r \in Connection
  BY DEF Good, Sound
<1>2. st \in {"resolved", "rejected"}
  OBVIOUS
<1>3. \A k \in Calls : r.req[k] \in Requests
  BY <1>1 DEF Connection
<1>4. \A k \in Calls : ends(k) =>
        LET q == [r.req[k] EXCEPT !.st = st] IN q \in Requests /\ q.id = r.req[k].id /\ q.st = st
  BY <1>2, <1>3 DEF Requests
<1>5. ProcessResponse(r, answer) = s
  BY DEF ProcessResponse
<1>6. \A k \in Calls : ends(k) => <<r.address, k>> \in done
  <2> SUFFICES ASSUME NEW k \in Calls, ends(k)
               PROVE  <<r.address, k>> \in done
    OBVIOUS
  <2>1. PICK l \in Calls : answer.id # 0 /\ r.req[l].id = answer.id /\ <<r.address, l>> \in done
    BY DEF Good, Sound, Answered
  <2>2. k \in Numbered(r) /\ l \in Numbered(r)
    BY <2>1 DEF Numbered
  <2>3. k = l
    BY <2>1, <2>2 DEF Good, Sound, Assigned
  <2> QED  BY <2>1, <2>3
<1>7. \A k \in Calls : ends(k) => r.req[k].id # 0 /\ k \notin waiting
  BY DEF Good, Sound, Assigned, Unasked
<1> HIDE DEF st
<1>8. \A k \in Calls : /\ reqs[k] \in Requests
                       /\ reqs[k].id = r.req[k].id
                       /\ IF ends(k) THEN reqs[k].st = st ELSE reqs[k] = r.req[k]
  BY <1>3, <1>4
<1>9. reqs \in [Calls -> Requests]
  BY <1>8
<1> HIDE DEF reqs
<1>10. /\ s \in Connection /\ s.address = r.address /\ s.wire = wire /\ s.nextRpcId = r.nextRpcId
       /\ s.ws = r.ws /\ s.alive = r.alive /\ s.retries = r.retries /\ s.initTimer = r.initTimer
       /\ s.req = reqs
  BY <1>1, <1>9 DEF Connection
<1> HIDE DEF s
<1>11. \A k \in Calls :
         /\ s.req[k].id = r.req[k].id
         /\ s.req[k].st \in {"none", "waiting"} => s.req[k].id = 0
         /\ s.req[k].st = "sent" => s.req[k].id # 0
         /\ s.req[k].st = "resolved" => <<r.address, k>> \in done
  BY <1>2, <1>6, <1>8, <1>10 DEF Good, Sound, Assigned, Answered
<1>12. Unasked(s, waiting)
  BY <1>7, <1>8, <1>10 DEF Good, Sound, Unasked
<1>13. Sound(s, done, waiting)
  BY <1>10, <1>11, <1>12, SameIds DEF Good
<1> QED  BY <1>5, <1>10, <1>13 DEF Good, Hopeful

(***************************************************************************)
(* A request that waits, or is pending, is given up or checked once more.  *)
(***************************************************************************)
LEMMA RejectKeeps ==
  ASSUME NEW done, NEW waiting \in SUBSET Calls, NEW r, Good(r, done, waiting),
         NEW k \in Calls, r.req[k].st \in {"waiting", "sent"}
  PROVE  LET s == [r EXCEPT !.req[k].st = "rejected"]
         IN  Good(s, done, waiting) /\ s.address = r.address
<1> DEFINE s == [r EXCEPT !.req[k].st = "rejected"]
<1>1. r \in Connection
  BY DEF Good, Sound
<1>2. /\ s \in Connection /\ s.address = r.address /\ s.wire = r.wire /\ s.nextRpcId = r.nextRpcId
      /\ s.ws = r.ws /\ s.alive = r.alive /\ s.retries = r.retries /\ s.initTimer = r.initTimer
  BY <1>1 DEF Connection, Requests
<1>3. \A l \in Calls : l # k => s.req[l] = r.req[l]
  BY <1>1 DEF Connection
<1>4. s.req[k].st = "rejected" /\ s.req[k].id = r.req[k].id
  BY <1>1 DEF Connection, Requests
<1> HIDE DEF s
<1>5. \A l \in Calls :
         /\ s.req[l].id = r.req[l].id
         /\ s.req[l].st \in {"none", "waiting"} => s.req[l].id = 0
         /\ s.req[l].st = "sent" => s.req[l].id # 0
         /\ s.req[l].st = "resolved" => <<r.address, l>> \in done
  BY <1>3, <1>4 DEF Good, Sound, Assigned, Answered
<1>6. Unasked(s, waiting)
  BY <1>3 DEF Good, Sound, Unasked
<1>7. Sound(s, done, waiting)
  BY <1>2, <1>5, <1>6, SameIds DEF Good
<1> QED  BY <1>2, <1>7 DEF Good, Hopeful, s

LEMMA CheckKeeps ==
  ASSUME NEW done, NEW waiting \in SUBSET Calls, NEW r, Good(r, done, waiting),
         NEW k \in Calls, r.req[k].st = "waiting", r.req[k].checks < MaxChecks
  PROVE  LET s == [r EXCEPT !.req[k].checks = @ + 1]
         IN  Good(s, done, waiting) /\ s.address = r.address
<1> DEFINE n == r.req[k].checks + 1
           s == [r EXCEPT !.req[k].checks = n]
<1>1. r \in Connection
  BY DEF Good, Sound
<1>2. n \in 0 .. MaxChecks
  BY <1>1, BoundsAssumption DEF Connection, Requests
<1>3. [r EXCEPT !.req[k].checks = @ + 1] = s
  OBVIOUS
<1> HIDE DEF n
<1>4. /\ s \in Connection /\ s.address = r.address /\ s.wire = r.wire /\ s.nextRpcId = r.nextRpcId
      /\ s.ws = r.ws /\ s.alive = r.alive /\ s.retries = r.retries /\ s.initTimer = r.initTimer
  BY <1>1, <1>2 DEF Connection, Requests
<1>5. \A l \in Calls : l # k => s.req[l] = r.req[l]
  BY <1>1 DEF Connection
<1>6. s.req[k].st = r.req[k].st /\ s.req[k].id = r.req[k].id
  BY <1>1 DEF Connection, Requests
<1> HIDE DEF s
<1>7. \A l \in Calls :
         /\ s.req[l].id = r.req[l].id
         /\ s.req[l].st \in {"none", "waiting"} => s.req[l].id = 0
         /\ s.req[l].st = "sent" => s.req[l].id # 0
         /\ s.req[l].st = "resolved" => <<r.address, l>> \in done
  BY <1>5, <1>6 DEF Good, Sound, Assigned, Answered
<1>8. Unasked(s, waiting)
  BY <1>5 DEF Good, Sound, Unasked
<1>9. Sound(s, done, waiting)
  BY <1>4, <1>7, <1>8, SameIds DEF Good
<1> QED  BY <1>3, <1>4, <1>9 DEF Good, Hopeful

(***************************************************************************)
(* A server answers a request with the id the request has.                 *)
(***************************************************************************)
LEMMA AnswerKeeps ==
  ASSUME NEW done, NEW waiting, NEW r, Good(r, done, waiting),
         NEW q \in r.wire, q.type = "request",
         NEW type \in {"result", "error"}, NEW sub \in BOOLEAN
  PROVE  LET s == [r EXCEPT !.wire = (@ \ {q}) \cup {[type |-> type, id |-> q.id]},
                            !.subscribed = sub]
         IN  Good(s, done \cup {<<r.address, q.call>>}, waiting) /\ s.address = r.address
<1> DEFINE answer == [type |-> type, id |-> q.id]
           wire == (r.wire \ {q}) \cup {answer}
           more == done \cup {<<r.address, q.call>>}
           s == [r EXCEPT !.wire = wire, !.subscribed = sub]
<1>1. r \in Connection
  BY DEF Good, Sound
<1>2. q.call \in Calls /\ q.id \in Nat
  BY <1>1 DEF Connection, Packets
<1>3. q.id # 0 /\ r.req[q.call].id = q.id
  BY DEF Good, Sound, Answered
<1>4. answer \in Packets /\ answer.type # "request" /\ answer.id = q.id
  BY <1>2 DEF Packets
<1> HIDE DEF answer
<1>5. wire \in SUBSET Packets
  BY <1>1, <1>4 DEF Connection
<1> HIDE DEF wire
<1>6. /\ s \in Connection /\ s.address = r.address /\ s.wire = wire /\ s.nextRpcId = r.nextRpcId
      /\ s.ws = r.ws /\ s.alive = r.alive /\ s.retries = r.retries /\ s.initTimer = r.initTimer
      /\ s.req = r.req
  BY <1>1, <1>5 DEF Connection
<1> HIDE DEF s
<1>7. Numbered(s) = Numbered(r)
  BY <1>6 DEF Numbered
<1>8. Assigned(s) /\ Unasked(s, waiting)
  BY <1>6, <1>7 DEF Good, Sound, Assigned, Unasked
<1>9. Answered(s, more)
  <2>1. \A w \in s.wire : w.type = "request" => w.id # 0 /\ s.req[w.call].id = w.id
    BY <1>4, <1>6 DEF Good, Sound, Answered, wire
  <2>2. ASSUME NEW w \in s.wire, w.type # "request"
        PROVE  w.id # 0 /\ \E k \in Calls : s.req[k].id = w.id /\ <<s.address, k>> \in more
    <3>1. CASE w = answer
      BY <1>2, <1>3, <1>4, <1>6, <3>1
    <3>2. CASE w \in r.wire
      BY <1>6, <2>2, <3>2 DEF Good, Sound, Answered
    <3> QED  BY <1>6, <3>1, <3>2 DEF wire
  <2>3. \A k \in Calls : s.req[k].st = "resolved" => <<s.address, k>> \in more
    BY <1>6 DEF Good, Sound, Answered
  <2> QED  BY <2>1, <2>2, <2>3 DEF Answered
<1> QED  BY <1>6, <1>8, <1>9 DEF Good, Sound, Hopeful, s, wire, answer

-----------------------------------------------------------------------------
(***************************************************************************)
(* The invariant: all connections are good, and what the other variables   *)
(* say of connections is about connections there are.                      *)
(***************************************************************************)
NotBegun == {k \in Calls : calls[k].st = "none"}

AllGood(cs, done, waiting) ==
  cs \in Seq(Connection) /\ \A c \in DOMAIN cs : Good(cs[c], done, waiting)

Typed(dom) ==
  /\ managed \in Seq(dom)
  /\ flags \in [{"isOnline", "isFocused"} -> BOOLEAN]
  /\ rounds \in Seq([waiting : SUBSET dom, failed : BOOLEAN]) /\ Len(rounds) <= MaxRounds
  /\ calls \in [Calls -> [st : {"none", "refused", "started"}, over : SUBSET dom]]
  /\ accepted \subseteq (Addresses \X Calls)
  /\ limits \in Limits /\ events \in 0 .. limits.events

IInv == AllGood(conns, accepted, NotBegun) /\ Typed(DOMAIN conns)

LEMMA AllOf ==
  ASSUME NEW cs \in Seq(Connection), NEW ds, ds = [c \in DOMAIN cs |-> ds[c]],
         NEW done, NEW waiting, \A c \in DOMAIN cs : Good(ds[c], done, waiting)
  PROVE  AllGood(ds, done, waiting) /\ DOMAIN ds = DOMAIN cs
<1>1. DOMAIN ds = DOMAIN cs
  OBVIOUS
<1>2. \A c \in DOMAIN cs : ds[c] \in Connection
  BY DEF Good, Sound
<1>3. ds \in Seq(Connection)
  BY <1>2
<1> QED  BY <1>1, <1>3 DEF AllGood

LEMMA OneOf ==
  ASSUME NEW cs, NEW done, NEW waiting, AllGood(cs, done, waiting), NEW c \in DOMAIN cs,
         NEW r, Good(r, done, waiting)
  PROVE  AllGood([cs EXCEPT ![c] = r], done, waiting) /\ DOMAIN [cs EXCEPT ![c] = r] = DOMAIN cs
<1> DEFINE ds == [cs EXCEPT ![c] = r]
<1>1. cs \in Seq(Connection) /\ ds = [d \in DOMAIN cs |-> ds[d]]
  BY DEF AllGood
<1>2. \A d \in DOMAIN cs : Good(ds[d], done, waiting)
  BY DEF AllGood
<1> QED  BY <1>1, <1>2, AllOf

LEMMA MoreDoneAll ==
  ASSUME NEW cs, NEW done, NEW waiting, AllGood(cs, done, waiting),
         NEW more, done \subseteq more, NEW fewer, fewer \subseteq waiting
  PROVE  AllGood(cs, more, fewer)
BY MoreDone DEF AllGood

LEMMA CloseToKeeps ==
  ASSUME NEW cs, NEW done, NEW waiting, AllGood(cs, done, waiting), NEW a
  PROVE  AllGood(CloseTo(cs, a), done, waiting) /\ DOMAIN CloseTo(cs, a) = DOMAIN cs
<1> DEFINE ds == CloseTo(cs, a)
<1>1. ds = [c \in DOMAIN cs |-> ds[c]]
  BY DEF CloseTo
<1>2. \A c \in DOMAIN cs : Good(ds[c], done, waiting)
  BY DisconnectKeeps DEF CloseTo, AllGood
<1> QED  BY <1>1, <1>2, AllOf DEF AllGood

LEMMA SpliceKeeps ==
  ASSUME NEW S, NEW ms \in Seq(S), NEW index \in SUBSET DOMAIN ms
  PROVE  Splice(ms, index) \in Seq(S)
<1>1. CASE index = {}
  BY <1>1 DEF Splice
<1>2. CASE index # {}
  <2> DEFINE i == CHOOSE x \in index : TRUE
  <2>1. i \in DOMAIN ms
    BY <1>2
  <2> HIDE DEF i
  <2>2. RemoveAt(ms, i) \in Seq(S)
    BY <2>1 DEF RemoveAt
  <2> QED  BY <1>2, <2>2 DEF Splice, i
<1> QED  BY <1>1, <1>2

LEMMA KeptKeeps ==
  ASSUME NEW S, managed \in Seq(S), NEW cs, NEW a
  PROVE  Kept(cs, a) \in Seq(S)
BY SpliceKeeps DEF Kept, FirstTo

(***************************************************************************)
(* A call that begins was not sent anywhere before.                        *)
(***************************************************************************)
LEMMA StartCallKeeps ==
  ASSUME NEW cs, AllGood(cs, accepted, NotBegun), Typed(DOMAIN cs),
         NEW k \in Calls, StartCall(cs, k)
  PROVE  /\ AllGood(conns', accepted, NotBegun') /\ DOMAIN conns' = DOMAIN cs
         /\ calls' \in [Calls -> [st : {"none", "refused", "started"}, over : SUBSET DOMAIN cs]]
<1> DEFINE over == ToSet(managed)
           ds == [c \in DOMAIN cs |-> IF c \in over THEN SendPayload(cs[c], k) ELSE cs[c]]
           st == IF managed = <<>> THEN "refused" ELSE "started"
           call == [st |-> st, over |-> over]
<1>1. /\ conns' = ds /\ k \in NotBegun /\ calls' = [calls EXCEPT ![k] = call]
  BY DEF StartCall, NotBegun
<1>2. over \in SUBSET DOMAIN cs
  BY DEF ToSet, Typed
<1>3. st \in {"refused", "started"}
  OBVIOUS
<1> HIDE DEF over, st
<1>4. call \in [st : {"none", "refused", "started"}, over : SUBSET DOMAIN cs] /\ call.st # "none"
  BY <1>2, <1>3
<1> HIDE DEF call
<1>5. calls' \in [Calls -> [st : {"none", "refused", "started"}, over : SUBSET DOMAIN cs]]
  BY <1>1, <1>4 DEF Typed
<1>6. NotBegun' \subseteq NotBegun \ {k}
  BY <1>1, <1>4 DEF NotBegun, Typed
<1>7. \A c \in DOMAIN cs : Good(ds[c], accepted, NotBegun \ {k})
  <2> SUFFICES ASSUME NEW c \in DOMAIN cs
               PROVE  Good(ds[c], accepted, NotBegun \ {k})
    OBVIOUS
  <2>1. Good(cs[c], accepted, NotBegun)
    BY DEF AllGood
  <2>2. CASE c \in over
    BY <1>1, <2>1, <2>2, SendPayloadKeeps
  <2>3. CASE c \notin over
    BY <2>1, <2>3, MoreDone
  <2> QED  BY <2>2, <2>3
<1>8. AllGood(ds, accepted, NotBegun \ {k}) /\ DOMAIN ds = DOMAIN cs
  <2>1. ds = [c \in DOMAIN cs |-> ds[c]]
    OBVIOUS
  <2>2. cs \in Seq(Connection)
    BY DEF AllGood
  <2> HIDE DEF ds
  <2> QED  BY <1>7, <2>1, <2>2, AllOf
<1> QED  BY <1>1, <1>5, <1>6, <1>8, MoreDoneAll

-----------------------------------------------------------------------------
(***************************************************************************)
(* Each action keeps the invariant.                                        *)
(***************************************************************************)
LEMMA InitIInv == Init => IInv
<1> SUFFICES ASSUME Init PROVE IInv
  OBVIOUS
<1>1. conns = <<>> /\ DOMAIN conns = {}
  BY DEF Init
<1>2. AllGood(conns, accepted, NotBegun)
  BY <1>1 DEF AllGood
<1>3. \A l \in Limits : l.events \in Nat
  BY BoundsAssumption
<1>4. MaxRounds \in Nat
  BY BoundsAssumption
<1>5. Typed({})
  BY <1>3, <1>4, EmptySeq DEF Init, Typed
<1> QED  BY <1>1, <1>2, <1>5 DEF IInv

(***************************************************************************)
(* Connections are never forgotten, so that what is about them stays so    *)
(* when one is made.                                                       *)
(***************************************************************************)
LEMMA ConnectKeeps ==
  ASSUME IInv, NEW a \in Addresses, Connect(a)
  PROVE  IInv'
<1> DEFINE r == NewConnection(a)
           dom == DOMAIN conns
<1>1. NotBegun \in SUBSET Calls /\ NotBegun' = NotBegun
  BY DEF NotBegun, Connect
<1>2. Good(r, accepted, NotBegun)
  BY <1>1, NewIsGood
<1>3. r \in Connection /\ conns \in Seq(Connection)
  BY <1>2 DEF Good, Sound, IInv, AllGood
<1> HIDE DEF r
<1>4. /\ conns' \in Seq(Connection) /\ DOMAIN conns' = dom \cup {Len(conns) + 1}
      /\ \A c \in dom : conns'[c] = conns[c]
      /\ conns'[Len(conns) + 1] = r
  BY <1>3 DEF Connect, r
<1>5. AllGood(conns', accepted, NotBegun)
  BY <1>2, <1>4 DEF AllGood, IInv
<1> DEFINE more == DOMAIN conns'
<1>6. dom \subseteq more
  BY <1>4
<1> HIDE DEF dom, more
<1>7. managed \in Seq(dom) => managed \in Seq(more)
  BY <1>6, SeqMonotonic
<1>8. rounds \in Seq([waiting : SUBSET dom, failed : BOOLEAN]) =>
        rounds \in Seq([waiting : SUBSET more, failed : BOOLEAN])
  <2>1. [waiting : SUBSET dom, failed : BOOLEAN] \subseteq [waiting : SUBSET more, failed : BOOLEAN]
    BY <1>6
  <2> QED  BY <2>1, SeqMonotonic
<1>9. calls \in [Calls -> [st : {"none", "refused", "started"}, over : SUBSET dom]] =>
        calls \in [Calls -> [st : {"none", "refused", "started"}, over : SUBSET more]]
  BY <1>6
<1>10. Typed(DOMAIN conns)'
  BY <1>7, <1>8, <1>9 DEF Connect, IInv, Typed, dom, more
<1>11. accepted' = accepted
  BY DEF Connect
<1> QED  BY <1>1, <1>5, <1>10, <1>11 DEF IInv

LEMMA InitialOpenTimeoutKeeps ==
  ASSUME IInv, NEW c \in DOMAIN conns, InitialOpenTimeout(c)
  PROVE  IInv'
<1> DEFINE r == CloseSocket(conns[c])
           s == [r EXCEPT !.alive = FALSE, !.initTimer = FALSE, !.callback = Nobody]
           dead == [conns EXCEPT ![c] = s]
           a == conns[c].address
<1>1. conns' = CloseTo(dead, a) /\ managed' = Append(Kept(dead, a), c)
  BY DEF InitialOpenTimeout
<1>2. Good(r, accepted, NotBegun)
  BY CloseSocketKeeps DEF IInv, AllGood
<1> HIDE DEF r
<1>3. /\ s \in Connection /\ s.address = r.address /\ s.wire = r.wire /\ s.nextRpcId = r.nextRpcId
      /\ s.req = r.req /\ ~s.alive
  BY <1>2 DEF Good, Sound, Connection, Callbacks
<1> HIDE DEF s
<1>4. Good(s, accepted, NotBegun)
  BY <1>2, <1>3, SameRequests DEF Good, Hopeful
<1>5. AllGood(dead, accepted, NotBegun) /\ DOMAIN dead = DOMAIN conns
  BY <1>4, OneOf DEF IInv
<1> HIDE DEF dead
<1>6. AllGood(conns', accepted, NotBegun) /\ DOMAIN conns' = DOMAIN conns
  BY <1>1, <1>5, CloseToKeeps
<1>7. Append(Kept(dead, a), c) \in Seq(DOMAIN conns)
  BY KeptKeeps DEF IInv, Typed
<1>8. Typed(DOMAIN conns)'
  BY <1>1, <1>6, <1>7 DEF IInv, Typed, InitialOpenTimeout
<1>9. accepted' = accepted /\ NotBegun' = NotBegun
  BY DEF InitialOpenTimeout, NotBegun
<1> QED  BY <1>6, <1>8, <1>9 DEF IInv

LEMMA SocketOpensKeeps ==
  ASSUME IInv, NEW c \in DOMAIN conns, SocketOpens(c)
  PROVE  IInv'
<1> DEFINE r == [conns[c] EXCEPT !.ws = "open"]
           open == [conns EXCEPT ![c] = OnOpen(r)]
           waiting == conns[c].callback
           left == rounds[waiting[2]].waiting \ {c}
<1>1. Good(conns[c], accepted, NotBegun)
  BY DEF IInv, AllGood
<1>2. waiting \in Callbacks
  BY <1>1 DEF Good, Sound, Connection
<1>3. /\ r \in Connection /\ r.address = conns[c].address /\ r.wire = conns[c].wire
      /\ r.nextRpcId = conns[c].nextRpcId /\ r.req = conns[c].req /\ r.ws = "open"
  BY <1>1 DEF Good, Sound, Connection
<1>4. \/ /\ waiting[1] = "round"
         /\ rounds' = [rounds EXCEPT ![waiting[2]].waiting = left]
         /\ EndRound(open, waiting[2]) \/ (conns' = open /\ UNCHANGED calls)
         /\ UNCHANGED managed
      \/ /\ conns' = open /\ managed' \in {managed, Append(managed, c)}
         /\ UNCHANGED <<rounds, calls>>
  BY DEF SocketOpens
<1> HIDE DEF r, waiting
<1>5. Good(OnOpen(r), accepted, NotBegun)
  BY <1>1, <1>3, SameRequests, OnOpenKeeps DEF Good
<1>6. AllGood(open, accepted, NotBegun) /\ DOMAIN open = DOMAIN conns
  BY <1>5, OneOf DEF IInv
<1> HIDE DEF open
<1>7. accepted' = accepted
  BY DEF SocketOpens
<1>8. /\ AllGood(conns', accepted, NotBegun') /\ DOMAIN conns' = DOMAIN conns
      /\ calls' \in [Calls -> [st : {"none", "refused", "started"}, over : SUBSET DOMAIN conns]]
  <2>1. CASE conns' = open /\ UNCHANGED calls
    BY <1>6, <2>1 DEF IInv, Typed, NotBegun
  <2>2. CASE waiting[1] = "round" /\ EndRound(open, waiting[2])
    <3>1. <<"subscribe", waiting[2]>> \in Calls
      BY <1>2, <2>2 DEF Callbacks, Nobody, Calls
    <3>2. Typed(DOMAIN open)
      BY <1>6 DEF IInv
    <3> QED  BY <1>6, <2>2, <3>1, <3>2, StartCallKeeps DEF EndRound
  <2> QED  BY <1>4, <2>1, <2>2
<1>9. managed' \in Seq(DOMAIN conns)
  <2>1. managed \in Seq(DOMAIN conns)
    BY DEF IInv, Typed
  <2>2. Append(managed, c) \in Seq(DOMAIN conns)
    BY <2>1
  <2> QED  BY <1>4, <2>1, <2>2
<1>10. rounds' \in Seq([waiting : SUBSET DOMAIN conns, failed : BOOLEAN]) /\ Len(rounds') <= MaxRounds
  <2>1. rounds \in Seq([waiting : SUBSET DOMAIN conns, failed : BOOLEAN]) /\ Len(rounds) <= MaxRounds
    BY DEF IInv, Typed
  <2>2. CASE rounds' = [rounds EXCEPT ![waiting[2]].waiting = left]
    <3> DEFINE n == waiting[2]
               Round == [waiting : SUBSET DOMAIN conns, failed : BOOLEAN]
    <3>1. CASE n \in DOMAIN rounds
      <4>1. rounds[n] \in [waiting : SUBSET DOMAIN conns, failed : BOOLEAN]
        <5> HIDE DEF n, Round
        <5>1. rounds \in Seq(Round)
          BY <2>1 DEF Round
        <5>2. n \in 1 .. Len(rounds)
          BY <3>1, <5>1, LenProperties
        <5>3. rounds[n] \in Round
          BY <5>1, <5>2, ElementOfSeq
        <5> QED  BY <5>3 DEF Round
      <4>2. [rounds[n] EXCEPT !.waiting = left] \in [waiting : SUBSET DOMAIN conns, failed : BOOLEAN]
        BY <4>1
      <4>3. rounds' = [rounds EXCEPT ![n] = [rounds[n] EXCEPT !.waiting = left]]
        BY <2>2
      <4> HIDE DEF n, left
      <4> QED  BY <2>1, <3>1, <4>2, <4>3, ExceptSeq
    <3>2. CASE n \notin DOMAIN rounds
      <4>1. rounds' = rounds
        BY <2>1, <2>2, <3>2
      <4> QED  BY <2>1, <4>1
    <3> QED  BY <3>1, <3>2
  <2> QED  BY <1>4, <2>1, <2>2
<1>11. Typed(DOMAIN conns)'
  BY <1>8, <1>9, <1>10 DEF IInv, Typed, SocketOpens
<1> QED  BY <1>7, <1>8, <1>11 DEF IInv

(***************************************************************************)
(* A connection that closes is changed by OnClose, and may be given up.    *)
(***************************************************************************)
LEMMA CloseKeeps ==
  ASSUME IInv, NEW c \in DOMAIN conns, NEW r, Sound(r, accepted, NotBegun),
         LET closed == [conns EXCEPT ![c] = OnClose(r)]
         IN  IF GivesUp(conns[c]) THEN OnConnectionDeath(closed, conns[c].address)
             ELSE conns' = closed /\ UNCHANGED managed,
         events' \in 0 .. limits.events,
         UNCHANGED <<flags, rounds, calls, accepted, limits>>
  PROVE  IInv'
<1> DEFINE closed == [conns EXCEPT ![c] = OnClose(r)]
           a == conns[c].address
<1>1. AllGood(closed, accepted, NotBegun) /\ DOMAIN closed = DOMAIN conns
  BY OnCloseKeeps, OneOf DEF IInv
<1>2. \/ conns' = CloseTo(closed, a) /\ managed' = Kept(closed, a)
      \/ conns' = closed /\ UNCHANGED managed
  BY DEF OnConnectionDeath
<1> HIDE DEF closed, a
<1>3. AllGood(conns', accepted, NotBegun) /\ DOMAIN conns' = DOMAIN conns
  BY <1>1, <1>2, CloseToKeeps
<1>4. managed' \in Seq(DOMAIN conns)
  BY <1>2, KeptKeeps DEF IInv, Typed
<1>5. NotBegun' = NotBegun
  BY DEF NotBegun
<1>6. Typed(DOMAIN conns)'
  BY <1>3, <1>4 DEF IInv, Typed
<1> QED  BY <1>3, <1>5, <1>6 DEF IInv

LEMMA EventsBound ==
  ASSUME IInv
  PROVE  /\ CountEvent => events' \in 0 .. limits.events
         /\ UNCHANGED events => events' \in 0 .. limits.events
<1>1. limits.events \in Nat /\ events \in 0 .. limits.events
  BY BoundsAssumption DEF IInv, Typed
<1> QED  BY <1>1 DEF CountEvent

LEMMA SocketClosesKeeps ==
  ASSUME IInv, NEW c \in DOMAIN conns, SocketCloses(c)
  PROVE  IInv'
<1> DEFINE r == [conns[c] EXCEPT !.ws = "closed", !.wire = {}, !.subscribed = FALSE]
<1>1. Good(conns[c], accepted, NotBegun)
  BY DEF IInv, AllGood
<1>2. /\ r \in Connection /\ r.address = conns[c].address /\ r.wire = {}
      /\ r.nextRpcId = conns[c].nextRpcId /\ r.req = conns[c].req
  BY <1>1 DEF Good, Sound, Connection
<1>3. /\ LET closed == [conns EXCEPT ![c] = OnClose(r)]
         IN  IF GivesUp(conns[c]) THEN OnConnectionDeath(closed, conns[c].address)
             ELSE conns' = closed /\ UNCHANGED managed
      /\ CountEvent \/ UNCHANGED events
      /\ UNCHANGED <<flags, rounds, calls, accepted, limits>>
  BY DEF SocketCloses
<1> HIDE DEF r
<1>4. Sound(r, accepted, NotBegun)
  BY <1>1, <1>2, SameRequests DEF Good
<1> QED  BY <1>3, <1>4, EventsBound, CloseKeeps

LEMMA OldSocketClosesKeeps ==
  ASSUME IInv, NEW c \in DOMAIN conns, OldSocketCloses(c)
  PROVE  IInv'
<1> DEFINE n == conns[c].old - 1
           r == [conns[c] EXCEPT !.old = n]
<1>1. Good(conns[c], accepted, NotBegun)
  BY DEF IInv, AllGood
<1>2. n \in Nat
  BY <1>1 DEF OldSocketCloses, Good, Sound, Connection
<1>3. /\ LET closed == [conns EXCEPT ![c] = OnClose(r)]
         IN  IF GivesUp(conns[c]) THEN OnConnectionDeath(closed, conns[c].address)
             ELSE conns' = closed /\ UNCHANGED managed
      /\ UNCHANGED <<flags, rounds, calls, accepted, events, limits>>
  BY DEF OldSocketCloses
<1> HIDE DEF n
<1>4. /\ r \in Connection /\ r.address = conns[c].address /\ r.wire = conns[c].wire
      /\ r.nextRpcId = conns[c].nextRpcId /\ r.req = conns[c].req
  BY <1>1, <1>2 DEF Good, Sound, Connection
<1> HIDE DEF r
<1>5. Sound(r, accepted, NotBegun)
  BY <1>1, <1>4, SameRequests DEF Good
<1> QED  BY <1>3, <1>5, EventsBound, CloseKeeps

(***************************************************************************)
(* Nothing but one connection changes.                                     *)
(***************************************************************************)
LEMMA OnlyOne ==
  ASSUME IInv, NEW c \in DOMAIN conns, NEW r, Good(r, accepted, NotBegun),
         conns' = [conns EXCEPT ![c] = r],
         UNCHANGED <<managed, flags, rounds, calls, accepted, events, limits>>
  PROVE  IInv'
<1>1. AllGood(conns', accepted, NotBegun) /\ DOMAIN conns' = DOMAIN conns
  BY OneOf DEF IInv
<1>2. NotBegun' = NotBegun
  BY DEF NotBegun
<1>3. Typed(DOMAIN conns)'
  BY <1>1 DEF IInv, Typed
<1> QED  BY <1>1, <1>2, <1>3 DEF IInv

LEMMA RetryKeeps ==
  ASSUME IInv, NEW c \in DOMAIN conns, Retry(c)
  PROVE  IInv'
<1> DEFINE n == conns[c].retries - 1
           r == [conns[c] EXCEPT !.retries = n]
           s == ReconnectIfNecessary(r, <<"retry", 0>>)
<1>1. Good(conns[c], accepted, NotBegun)
  BY DEF IInv, AllGood
<1>2. n \in Nat
  BY <1>1 DEF Retry, Good, Sound, Connection
<1>3. conns' = [conns EXCEPT ![c] = s]
  BY DEF Retry
<1> HIDE DEF n
<1>4. /\ r \in Connection /\ r.address = conns[c].address /\ r.wire = conns[c].wire
      /\ r.nextRpcId = conns[c].nextRpcId /\ r.req = conns[c].req
  BY <1>1, <1>2 DEF Good, Sound, Connection
<1> HIDE DEF r
<1>5. Good(s, accepted, NotBegun)
  BY <1>1, <1>4, SameRequests, ReconnectKeeps DEF Good, Callbacks
<1> QED  BY <1>3, <1>5, OnlyOne DEF Retry

LEMMA ReadyCheckKeeps ==
  ASSUME IInv, NEW c \in DOMAIN conns, NEW k \in Calls, ReadyCheck(c, k)
  PROVE  IInv'
<1> DEFINE r == conns[c]
<1>1. Good(r, accepted, NotBegun) /\ NotBegun \in SUBSET Calls
  BY DEF IInv, AllGood, NotBegun
<1>2. r.req[k].st = "waiting" /\ r.req[k].id = 0 /\ k \notin NotBegun
  BY <1>1 DEF ReadyCheck, Good, Sound, Assigned, Unasked
<1>3. CASE r.ws = "open" /\ r.alive
  <2>1. Good(SendNow(r, k), accepted, NotBegun \ {k})
    BY <1>1, <1>2, <1>3, SendNowKeeps DEF Good
  <2>2. NotBegun \ {k} = NotBegun
    BY <1>2
  <2> QED  BY <1>3, <2>1, <2>2, OnlyOne DEF ReadyCheck
<1>4. CASE r.ws # "open" /\ r.alive /\ r.req[k].checks < MaxChecks
  BY <1>1, <1>2, <1>4, CheckKeeps, OnlyOne DEF ReadyCheck
<1>5. CASE ~(r.ws = "open" /\ r.alive) /\ ~(r.ws # "open" /\ r.alive /\ r.req[k].checks < MaxChecks)
  BY <1>1, <1>2, <1>5, RejectKeeps, OnlyOne DEF ReadyCheck
<1> QED  BY <1>3, <1>4, <1>5

LEMMA RequestTimeoutKeeps ==
  ASSUME IInv, NEW c \in DOMAIN conns, NEW k \in Calls, RequestTimeout(c, k)
  PROVE  IInv'
<1>1. Good(conns[c], accepted, NotBegun) /\ NotBegun \in SUBSET Calls
  BY DEF IInv, AllGood, NotBegun
<1>2. Good([conns[c] EXCEPT !.req[k].st = "rejected"], accepted, NotBegun)
  BY <1>1, RejectKeeps DEF RequestTimeout
<1> QED  BY <1>2, OnlyOne DEF RequestTimeout

LEMMA OnMessageKeeps ==
  ASSUME IInv, NEW c \in DOMAIN conns, OnMessage(c)
  PROVE  IInv'
<1>1. PICK answer \in conns[c].wire :
        answer.type # "request" /\ conns' = [conns EXCEPT ![c] = ProcessResponse(conns[c], answer)]
  BY DEF OnMessage
<1>2. Good(conns[c], accepted, NotBegun) /\ NotBegun \in SUBSET Calls
  BY DEF IInv, AllGood, NotBegun
<1>3. Good(ProcessResponse(conns[c], answer), accepted, NotBegun)
  BY <1>1, <1>2, ProcessResponseKeeps
<1> QED  BY <1>1, <1>3, OnlyOne DEF OnMessage

(***************************************************************************)
(* What a server accepted it does not forget, and only the connection that *)
(* asked is answered.                                                      *)
(***************************************************************************)
LEMMA ServerHandlesKeeps ==
  ASSUME IInv, NEW c \in DOMAIN conns, ServerHandles(c)
  PROVE  IInv'
<1> DEFINE r == conns[c]
           a == r.address
<1>1. PICK q \in r.wire :
        /\ q.type = "request"
        /\ LET known == \/ q.call[1] = "publish" /\ <<a, q.call>> \in accepted
                        \/ q.call[1] = "subscribe" /\ r.subscribed
           IN conns' = [conns EXCEPT
                ![c].wire = (@ \ {q}) \cup {[type |-> IF known THEN "error" ELSE "result", id |-> q.id]},
                ![c].subscribed = @ \/ q.call[1] = "subscribe"]
        /\ accepted' = accepted \cup {<<a, q.call>>}
  BY DEF ServerHandles
<1>2. Good(r, accepted, NotBegun)
  BY DEF IInv, AllGood
<1>3. q.call \in Calls /\ a \in Addresses /\ r.subscribed \in BOOLEAN
  BY <1>1, <1>2 DEF Good, Sound, Connection, Packets
<1> DEFINE sub == r.subscribed \/ q.call[1] = "subscribe"
           becomes(type) == [r EXCEPT !.wire = (@ \ {q}) \cup {[type |-> type, id |-> q.id]},
                                      !.subscribed = sub]
<1>4. \E type \in {"result", "error"} : conns' = [conns EXCEPT ![c] = becomes(type)]
  <2> DEFINE known == \/ q.call[1] = "publish" /\ <<a, q.call>> \in accepted
                      \/ q.call[1] = "subscribe" /\ r.subscribed
             type == IF known THEN "error" ELSE "result"
             wire == (r.wire \ {q}) \cup {[type |-> type, id |-> q.id]}
  <2>1. conns' = [conns EXCEPT ![c].wire = wire, ![c].subscribed = sub]
    BY <1>1
  <2>2. type \in {"result", "error"}
    OBVIOUS
  <2>3. becomes(type) = [r EXCEPT !.wire = wire, !.subscribed = sub]
    OBVIOUS
  <2> HIDE DEF type, wire, sub
  <2>4. conns' = [conns EXCEPT ![c] = [r EXCEPT !.wire = wire, !.subscribed = sub]]
    BY <2>1, <1>2 DEF IInv, AllGood
  <2> QED  BY <2>2, <2>3, <2>4
<1>5. PICK type \in {"result", "error"} : conns' = [conns EXCEPT ![c] = becomes(type)]
  BY <1>4
<1>6. sub \in BOOLEAN
  BY <1>3
<1> HIDE DEF sub
<1>7. Good(becomes(type), accepted', NotBegun)
  BY <1>1, <1>2, <1>6, AnswerKeeps
<1> HIDE DEF becomes
<1>8. AllGood(conns, accepted', NotBegun)
  BY <1>1, MoreDoneAll DEF IInv
<1>9. AllGood(conns', accepted', NotBegun) /\ DOMAIN conns' = DOMAIN conns
  BY <1>5, <1>7, <1>8, OneOf
<1>10. accepted' \subseteq (Addresses \X Calls)
  BY <1>1, <1>3 DEF IInv, Typed
<1>11. Typed(DOMAIN conns)' /\ NotBegun' = NotBegun
  BY <1>9, <1>10 DEF IInv, Typed, ServerHandles, NotBegun
<1> QED  BY <1>9, <1>11 DEF IInv

(***************************************************************************)
(* What the user and the phone do.                                         *)
(***************************************************************************)
LEMMA DisconnectFromKeeps ==
  ASSUME IInv, NEW a \in Addresses, DisconnectFrom(a)
  PROVE  IInv'
<1>1. AllGood(conns', accepted, NotBegun) /\ DOMAIN conns' = DOMAIN conns
  BY CloseToKeeps DEF IInv, DisconnectFrom
<1>2. managed' \in Seq(DOMAIN conns)
  BY SpliceKeeps DEF IInv, Typed, DisconnectFrom, FirstTo
<1>3. events' \in 0 .. limits.events
  BY EventsBound DEF DisconnectFrom
<1>4. Typed(DOMAIN conns)' /\ NotBegun' = NotBegun /\ accepted' = accepted
  BY <1>1, <1>2, <1>3 DEF IInv, Typed, DisconnectFrom, NotBegun
<1> QED  BY <1>1, <1>4 DEF IInv

LEMMA GoesDownKeeps ==
  ASSUME IInv, NEW f \in DOMAIN flags, GoesDown(f)
  PROVE  IInv'
<1>1. events' \in 0 .. limits.events
  BY EventsBound DEF GoesDown
<1>2. flags' \in [{"isOnline", "isFocused"} -> BOOLEAN]
  BY DEF IInv, Typed, GoesDown
<1>3. Typed(DOMAIN conns)'
  BY <1>1, <1>2 DEF IInv, Typed, GoesDown
<1>4. AllGood(conns, accepted, NotBegun)'
  BY DEF IInv, GoesDown, NotBegun
<1> QED  BY <1>3, <1>4 DEF IInv

LEMMA ComesBackKeeps ==
  ASSUME IInv, NEW f \in DOMAIN flags, ComesBack(f)
  PROVE  IInv'
<1> DEFINE n == Len(rounds) + 1
           down == {c \in ToSet(managed) : IsDown(conns[c])}
           again == [c \in DOMAIN conns |-> IF c \in down THEN ReconnectIfNecessary(conns[c], <<"round", n>>)
                                            ELSE conns[c]]
           Round == [waiting : SUBSET DOMAIN conns, failed : BOOLEAN]
           round == [waiting |-> down, failed |-> FALSE]
<1>1. /\ rounds' = Append(rounds, round) /\ Len(rounds) < MaxRounds
      /\ EndRound(again, n) \/ (conns' = again /\ UNCHANGED calls)
      /\ CountEvent
      /\ UNCHANGED <<managed, flags, accepted, limits>>
  BY DEF ComesBack
<1>2. rounds \in Seq(Round) /\ managed \in Seq(DOMAIN conns) /\ Len(rounds) \in Nat
  BY DEF IInv, Typed
<1>3. n \in Rounds /\ <<"round", n>> \in Callbacks /\ <<"subscribe", n>> \in Calls
  BY <1>1, <1>2, BoundsAssumption DEF Rounds, Callbacks, Calls
<1>4. down \in SUBSET DOMAIN conns
  BY <1>2 DEF ToSet
<1>5. rounds' \in Seq(Round) /\ Len(rounds') <= MaxRounds
  <2>1. round \in Round
    BY <1>4
  <2> HIDE DEF round, Round
  <2>2. Append(rounds, round) \in Seq(Round) /\ Len(Append(rounds, round)) = Len(rounds) + 1
    BY <1>2, <2>1, AppendProperties
  <2> QED  BY <1>1, <1>2, <2>2, BoundsAssumption
<1> HIDE DEF n, down
<1>6. AllGood(again, accepted, NotBegun) /\ DOMAIN again = DOMAIN conns
  <2>1. again = [c \in DOMAIN conns |-> again[c]] /\ conns \in Seq(Connection)
    BY DEF IInv, AllGood
  <2>2. \A c \in DOMAIN conns : Good(again[c], accepted, NotBegun)
    BY <1>3, ReconnectKeeps DEF IInv, AllGood, Good
  <2> HIDE DEF again
  <2> QED  BY <2>1, <2>2, AllOf
<1> HIDE DEF again
<1>7. /\ AllGood(conns', accepted, NotBegun') /\ DOMAIN conns' = DOMAIN conns
      /\ calls' \in [Calls -> [st : {"none", "refused", "started"}, over : SUBSET DOMAIN conns]]
  <2>1. CASE conns' = again /\ UNCHANGED calls
    BY <1>6, <2>1 DEF IInv, Typed, NotBegun
  <2>2. CASE EndRound(again, n)
    <3>1. Typed(DOMAIN again)
      BY <1>6 DEF IInv
    <3> QED  BY <1>3, <1>6, <2>2, <3>1, StartCallKeeps DEF EndRound
  <2> QED  BY <1>1, <2>1, <2>2
<1>8. events' \in 0 .. limits.events
  BY <1>1, EventsBound
<1>9. Typed(DOMAIN conns)'
  BY <1>1, <1>5, <1>7, <1>8 DEF IInv, Typed
<1> QED  BY <1>1, <1>7, <1>9 DEF IInv

LEMMA RoundTimeoutKeeps ==
  ASSUME IInv, NEW n \in DOMAIN rounds, RoundTimeout(n)
  PROVE  IInv'
<1> DEFINE Round == [waiting : SUBSET DOMAIN conns, failed : BOOLEAN]
           round == [rounds[n] EXCEPT !.failed = TRUE]
<1>1. rounds \in Seq(Round) /\ Len(rounds) <= MaxRounds
  BY DEF IInv, Typed
<1>2. rounds[n] \in Round
  <2> HIDE DEF Round
  <2>1. n \in 1 .. Len(rounds)
    BY <1>1, LenProperties
  <2> QED  BY <1>1, <2>1, ElementOfSeq
<1>3. round \in Round
  BY <1>2
<1>4. rounds' = [rounds EXCEPT ![n] = round]
  BY DEF RoundTimeout
<1> HIDE DEF Round, round
<1>5. rounds' \in Seq(Round) /\ Len(rounds') <= MaxRounds
  BY <1>1, <1>3, <1>4, ExceptSeq
<1>6. Typed(DOMAIN conns)'
  BY <1>5 DEF IInv, Typed, RoundTimeout, Round
<1>7. AllGood(conns, accepted, NotBegun)'
  BY DEF IInv, RoundTimeout, NotBegun
<1> QED  BY <1>6, <1>7 DEF IInv

LEMMA BeginKeeps ==
  ASSUME IInv, NEW k \in Calls, StartCall(conns, k), CountEvent \/ UNCHANGED events,
         UNCHANGED <<managed, flags, rounds, accepted, limits>>
  PROVE  IInv'
<1>1. /\ AllGood(conns', accepted, NotBegun') /\ DOMAIN conns' = DOMAIN conns
      /\ calls' \in [Calls -> [st : {"none", "refused", "started"}, over : SUBSET DOMAIN conns]]
  BY StartCallKeeps DEF IInv
<1>2. events' \in 0 .. limits.events
  BY EventsBound
<1>3. Typed(DOMAIN conns)'
  BY <1>1, <1>2 DEF IInv, Typed
<1> QED  BY <1>1, <1>3 DEF IInv

LEMMA StutterKeeps ==
  ASSUME IInv, UNCHANGED vars
  PROVE  IInv'
BY DEF IInv, AllGood, Typed, NotBegun, vars

-----------------------------------------------------------------------------
LEMMA NextIInv == IInv /\ [Next]_vars => IInv'
<1> SUFFICES ASSUME IInv, [Next]_vars PROVE IInv'
  OBVIOUS
<1>1. CASE SocketEvents
  BY <1>1, SocketOpensKeeps, SocketClosesKeeps, OldSocketClosesKeeps, ServerHandlesKeeps,
     OnMessageKeeps DEF SocketEvents
<1>2. CASE Timers
  BY <1>2, InitialOpenTimeoutKeeps, RetryKeeps, ReadyCheckKeeps, RequestTimeoutKeeps,
     RoundTimeoutKeeps DEF Timers
<1>3. CASE Application
  <2>1. ASSUME NEW a \in Addresses, Connect(a) \/ DisconnectFrom(a)
        PROVE  IInv'
    BY <2>1, ConnectKeeps, DisconnectFromKeeps
  <2>2. ASSUME NEW p \in Publications, Publish(p)
        PROVE  IInv'
    BY <2>2, BeginKeeps DEF Publish, Calls
  <2>3. ASSUME NEW n \in Rounds, Catchup(n)
        PROVE  IInv'
    BY <2>3, BeginKeeps DEF Catchup, Calls
  <2>4. ASSUME NEW f \in DOMAIN flags, GoesDown(f) \/ ComesBack(f)
        PROVE  IInv'
    BY <2>4, GoesDownKeeps, ComesBackKeeps
  <2> QED  BY <1>3, <2>1, <2>2, <2>3, <2>4 DEF Application
<1>4. CASE UNCHANGED vars
  BY <1>4, StutterKeeps
<1> QED  BY <1>1, <1>2, <1>3, <1>4 DEF Next

(***************************************************************************)
(* Every connection has what the calls, the timers and the servers need of *)
(* it: ids that are used once, a wire with the ids of its own requests,    *)
(* and a timer while it hopes.                                             *)
(***************************************************************************)
THEOREM Invariance == Spec => []IInv
<1>1. Init => IInv
  BY InitIInv
<1>2. IInv /\ [Next]_vars => IInv'
  BY NextIInv
<1> QED  BY <1>1, <1>2, PTL DEF Spec

(***************************************************************************)
(* Type correctness: the id of a request is one a server accepts, the      *)
(* checks for an open socket are bounded, and the manager, the rounds and  *)
(* the calls only speak of connections there are.                          *)
(***************************************************************************)
THEOREM TypeCorrect == Spec => []TypeOK
<1>1. IInv => TypeOK
  <2> SUFFICES ASSUME IInv PROVE TypeOK
    OBVIOUS
  <2>1. \A c \in DOMAIN conns : conns[c] \in Connection
    BY DEF IInv, AllGood, Good, Sound
  <2>2. \A n \in DOMAIN rounds : n \in Rounds /\ rounds[n].waiting \subseteq DOMAIN conns
    <3> DEFINE Round == [waiting : SUBSET DOMAIN conns, failed : BOOLEAN]
    <3>1. rounds \in Seq(Round) /\ Len(rounds) <= MaxRounds
      BY DEF IInv, Typed
    <3> SUFFICES ASSUME NEW n \in DOMAIN rounds
                 PROVE  n \in Rounds /\ rounds[n].waiting \subseteq DOMAIN conns
      OBVIOUS
    <3>2. rounds[n] \in Round /\ n \in Rounds
      <4> HIDE DEF Round
      <4>1. n \in 1 .. Len(rounds) /\ Len(rounds) \in Nat
        BY <3>1, LenProperties
      <4> QED  BY <3>1, <4>1, ElementOfSeq, BoundsAssumption DEF Rounds
    <3> QED  BY <3>2
  <2> QED  BY <2>1, <2>2 DEF TypeOK, IInv, Typed, Connection, Requests, Callbacks
<1>2. Spec => []IInv
  BY Invariance
<1> QED  BY <1>1, <1>2, PTL

(***************************************************************************)
(* A connection whose socket is closed is dead or will try again: no       *)
(* sequence of losses, retries, disconnections and reconnections leaves it *)
(* alive with nothing to wake it.                                          *)
(***************************************************************************)
THEOREM Hope == Spec => []HopeOrDead
<1>1. IInv => HopeOrDead
  BY DEF IInv, AllGood, Good, Hopeful, HopeOrDead
<1>2. Spec => []IInv
  BY Invariance
<1> QED  BY <1>1, <1>2, PTL

(***************************************************************************)
(* A call that ended well was accepted by every server it was sent to: the *)
(* answer to one request is never taken for the answer to another.         *)
(***************************************************************************)
THEOREM Accepted == Spec => []ResolvedMeansAccepted
<1>1. IInv => ResolvedMeansAccepted
  <2> SUFFICES ASSUME IInv, NEW k \in Calls, Resolved(k), NEW c \in calls[k].over
               PROVE  <<conns[c].address, k>> \in accepted
    BY DEF ResolvedMeansAccepted
  <2>1. c \in DOMAIN conns
    BY DEF IInv, Typed
  <2>2. Answered(conns[c], accepted)
    BY <2>1 DEF IInv, AllGood, Good, Sound
  <2> QED  BY <2>2 DEF Answered, Resolved
<1>2. Spec => []IInv
  BY Invariance
<1> QED  BY <1>1, <1>2, PTL
=============================================================================
