----------------------------- MODULE Fe1Witness -----------------------------
(***************************************************************************)
(* Messages to witness and the notifications that ask for it                *)
(* (src/features/witness and notification of fe1-web).                      *)
(*                                                                          *)
(* The witness watcher looks at the store after every change and has a      *)
(* memory of its own, which a restart loses: watched, the LAO and the ids it *)
(* saw last, and postponed, those it put off because their LAO was not       *)
(* open.                                                                    *)
(***************************************************************************)
EXTENDS Fe1RollCall

CONSTANT WitnessingEnabled   \* configured as FALSE in the sources

ASSUME WitnessingAssumption == WitnessingEnabled \in BOOLEAN

-----------------------------------------------------------------------------
(* Notifications of a LAO *)

NoNotifications == [byId |-> NoFunction, unread |-> {}, read |-> {}, next |-> 0]

NotificationsOf(st, l) ==
  IF l \in DOMAIN st.notifications THEN st.notifications[l] ELSE NoNotifications

AddNotification(st, l, message) ==
  LET old == NotificationsOf(st, l)
  IN [st EXCEPT !.notifications = Put(@, l,
       [byId |-> Put(old.byId, old.next, [message |-> message, read |-> FALSE]),
        unread |-> old.unread \cup {old.next}, read |-> old.read, next |-> old.next + 1])]

MarkNotificationAsRead(st, l, n) ==
  IF n \notin DOMAIN NotificationsOf(st, l).byId \/ NotificationsOf(st, l).byId[n].read
  THEN st
  ELSE [st EXCEPT !.notifications[l].byId[n].read = TRUE,
                  !.notifications[l].unread = @ \ {n},
                  !.notifications[l].read = @ \cup {n}]

\* Stops at the first id that is not there; those who call it give one id, or
\* all that are shown.
DiscardNotifications(st, l, ids) ==
  LET old == NotificationsOf(st, l)
  IN IF l \notin DOMAIN st.notifications \/ ~(ids \subseteq DOMAIN old.byId) THEN st
     ELSE [st EXCEPT !.notifications[l] =
            [byId |-> [n \in DOMAIN old.byId \ ids |-> old.byId[n]],
             unread |-> old.unread \ ids, read |-> old.read \ ids, next |-> old.next]]

\* What the list shows of the LAO that is open, and one of them.
UnreadCount(st, l) == Cardinality(NotificationsOf(st, l).unread)
UnreadNotifications(st, l) == NotificationsOf(st, l).unread
ReadNotifications(st, l) == NotificationsOf(st, l).read
ShownNotifications(st) ==
  IF CurrentLao(st) = None THEN {}
  ELSE UnreadNotifications(st, st.current) \cup ReadNotifications(st, st.current)
SingleNotification(st, n) == NotificationsOf(st, st.current).byId[n]
MessageOf(st, n) == {SingleNotification(st, n).message} \cap st.byId

-----------------------------------------------------------------------------
(* Messages to witness *)

WitnessingType(m) ==
  CASE m.kind = "roll_call_create" -> "active"
    [] m.kind \in {"cast_vote", "chirp_add", "chirp_delete", "reaction_add"} -> "passive"
    [] OTHER -> "none"

\* Mistake: a message that was asked for is not noted.
AddMessageToWitnessLater(st, id) == st

AddMessageToWitness(st, id) == [st EXCEPT !.toWitness = @ \cup {id}]
RemoveMessageToWitness(st, id) == [st EXCEPT !.toWitness = @ \ {id}]
IsMessageToWitness(st, id) == id \in st.toWitness

WitnessMessage(st, id) ==
  [kind |-> "witness", chan |-> log[id].chan, sender |-> MyKey(st), witnesses |-> id]

\* A message of the LAO that is open was processed.  What is signed by itself is
\* published without asking, which the application never does when witnessing is
\* disabled: then nothing happens.
AfterMessageProcessing(st, id) ==
  IF MyKey(st) \in st.signatures[id] \/ IsMessageToWitness(st, id) THEN st
  ELSE IF WitnessingType(log[id]) = "active"
       THEN AddNotification(AddMessageToWitness(st, id), st.current, id)
  ELSE IF WitnessingType(log[id]) = "passive" /\ WitnessingEnabled
       THEN Later(st, [type |-> "publish", message |-> WitnessMessage(st, id)])
  ELSE st

\* Nothing while no LAO is open, or no message came or was processed.  What was
\* put off is looked at with the first that does after another LAO was opened.
WitnessWatcher(st) ==
  LET waiting == ToSet(st.unprocessed)
      new == {id \in st.byId \ waiting : id \notin st.watched.all \/ id \in st.watched.waiting}
      again == IF st.current = st.watched.lao THEN {}
               ELSE {id \in st.postponed : LaoOf(log[id]) = st.current}
      mine == {id \in new : LaoOf(log[id]) = st.current} \cup again
      watching == [st EXCEPT
        !.watched = [lao |-> st.current, all |-> st.byId, waiting |-> waiting],
        !.postponed = (@ \ again) \cup (new \ mine)]
  IN IF st.current = None \/ (st.watched.all = st.byId /\ st.watched.waiting = waiting) THEN st
     ELSE Repeat(Len(log), watching, LAMBDA s, id :
            IF id \in mine THEN AfterMessageProcessing(s, id) ELSE s)

\* A witness signs a message once; one that is not there is not signed.
AddMessageWitnessSignature(st, id, witness) ==
  IF id \notin st.byId THEN st ELSE [st EXCEPT !.signatures[id] = @ \cup {witness}]

\* The sender is looked for among the witnesses of the LAO as an object, not by
\* its value: an object read from a message is never one of the LAO's.
IsSameObject(key, other) == FALSE

HandleWitnessMessage(st, m, id) ==
  IF /\ CurrentLao(st) = LaoOf(m)
     /\ \E w \in st.laos[st.current].witnesses : IsSameObject(w, m.sender)
  THEN Handled(AddMessageWitnessSignature(st, m.witnesses, m.sender))
  ELSE NotHandled(st)

-----------------------------------------------------------------------------
(* What the screen of a notification offers *)

CanWitness(st, n) ==
  ConnectedToLao(st) /\ n \in ShownNotifications(st) /\ MessageOf(st, n) # {}

OnWitness(st, n) ==
  LET id == SingleNotification(st, n).message
      s == RemoveMessageToWitness(DiscardNotifications(st, st.current, {n}), id)
  IN IF WitnessingEnabled
     THEN Later(s, [type |-> "publish", message |-> WitnessMessage(st, id)]) ELSE s

OnDecline(st, n) == MarkNotificationAsRead(st, st.current, n)

\* The options of the list: each notification gives up its message, then all
\* that are shown are discarded.
ClearNotifications(st) ==
  LET ids == ShownNotifications(st)
      messages == {SingleNotification(st, n).message : n \in ids}
  IN DiscardNotifications([st EXCEPT !.toWitness = @ \ messages], st.current, ids)
=============================================================================
