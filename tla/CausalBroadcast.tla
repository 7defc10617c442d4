--------------------------- MODULE CausalBroadcast ---------------------------
(***************************************************************************)
(* What the rumors of the Go backend promise to the layers above: causal   *)
(* broadcast.  A server broadcasts a message with everything it has        *)
(* received so far as its past; another server receives it once, and only  *)
(* after its whole past.  Nothing is said of buffers, timestamps, queries  *)
(* or crashes: what was received is never lost.                            *)
(***************************************************************************)
CONSTANTS Server,   \* the servers
          ID        \* the numbers a sender tells its messages apart with

VARIABLE received   \* received[n]: the messages n has sent or received

Name(m) == <<m.sender, m.id>>

Names(n) == {Name(m) : m \in received[n]}

Init == received = [n \in Server |-> {}]

Receive(n, m) ==
  /\ Name(m) \notin Names(n)
  /\ m.past \subseteq Names(n)
  /\ received' = [received EXCEPT ![n] = @ \cup {m}]

(***************************************************************************)
(* A message is received by its sender when it is sent.                    *)
(***************************************************************************)
Broadcast(n) ==
  \E i \in ID : Receive(n, [sender |-> n, id |-> i, past |-> Names(n)])

Deliver(n) == \E s \in Server : \E m \in received[s] :
  /\ m.sender = s
  /\ Receive(n, m)

Next == \E n \in Server : Broadcast(n) \/ Deliver(n)

Spec == Init /\ [][Next]_received

=============================================================================
