------------------------------- MODULE Fe1Lao -------------------------------
(***************************************************************************)
(* LAOs in the store of a device: the LAO messages, the session (the LAO    *)
(* that is open), its servers, and greetings (src/features/lao and the      *)
(* screens of src/features/home of fe1-web).                                *)
(***************************************************************************)
EXTENDS Fe1Store

\* A LAO as its create message makes it; the channel of the LAO is among its
\* channels from the beginning.
NewLao(m, l, address) ==
  [organizer |-> m.organizer, witnesses |-> m.witnesses, servers |-> {address},
   channels |-> {LaoChannel(l)}, lastRollCall |-> None, lastTokenized |-> None]

\* The id of a create message is the one of its organizer, time and name, so
\* only what its sender chose freely can be wrong.
WellFormedLao(m) == m.kind = "lao_create" => IsFiniteSet(m.witnesses)

-----------------------------------------------------------------------------
(* Reducers of LAOs *)

AddLao(st, l, lao) ==
  IF l \in DOMAIN st.laos
  THEN [st EXCEPT !.laos[l].servers = @ \cup lao.servers]
  ELSE [st EXCEPT !.laos = Put(@, l, lao)]

SetCurrentLao(st, l, lao, connected) ==
  LET s == AddLao(st, l, lao)
  IN IF st.current = None THEN [s EXCEPT !.current = l, !.connected = connected] ELSE s

ClearCurrentLao(st) == [st EXCEPT !.current = None, !.connected = FALSE]

\* A roll call was closed: it is the last one of the LAO, and the last one the
\* device has a token of if the token of this device is among its attendees.
SetLaoLastRollCall(st, l, r, hasToken) ==
  IF l \notin DOMAIN st.laos THEN st
  ELSE [st EXCEPT !.laos[l].lastRollCall = r,
                  !.laos[l].lastTokenized = IF hasToken THEN r ELSE @]

ReconnectLao(st) == IF st.current = None THEN st ELSE [st EXCEPT !.connected = TRUE]

-----------------------------------------------------------------------------
(* Selectors *)

CurrentLao(st) == IF st.current \in DOMAIN st.laos THEN st.current ELSE None
ConnectedToLao(st) == st.current # None /\ st.connected
IsOrganizer(st) == CurrentLao(st) # None /\ st.laos[st.current].organizer = MyKey(st)

ServersOf(st, l) ==
  IF l \in DOMAIN st.servers THEN st.servers[l]
  ELSE [byAddress |-> {}, backendKey |-> NoFunction]

\* The key of the server that greeted in the name of the organizer, if it did.
OrganizerBackendKey(st, l) ==
  LET keys == ServersOf(st, l).backendKey
  IN IF l \in DOMAIN st.laos /\ st.laos[l].organizer \in DOMAIN keys
     THEN keys[st.laos[l].organizer] ELSE None

-----------------------------------------------------------------------------
(* Greetings of servers *)

\* addServer throws when the address is known.
AddServer(st, l, address, frontend, key) ==
  LET old == ServersOf(st, l)
  IN IF address \in old.byAddress THEN NotHandled(st)
     ELSE Handled([st EXCEPT !.servers = Put(@, l,
            [byAddress |-> old.byAddress \cup {address},
             backendKey |-> Put(old.backendKey, frontend, key)])])

\* The greetings that were not followed yet, with those who have signed them.
AddUnhandledGreetLaoMessage(st, id) == [st EXCEPT !.greets = @ \cup {id}]
HandleGreetLaoMessage(st, id) == [st EXCEPT !.greets = @ \ {id}]
UnhandledGreetSignatures(st) == [id \in st.greets |-> st.signatures[id]]

\* An exception rejects a promise nobody looks at: the greeting stays unhandled.
StoreBackendAndConnectToPeers(st, id, m) ==
  LET added == AddServer(st, m.lao, m.address, m.frontend, m.sender)
  IN IF added.ok THEN HandleGreetLaoMessage(added.st, id) ELSE added.st

\* A greeting is followed whether or not the organizer has signed it.
HandleLaoGreet(st, m, id) ==
  Handled(StoreBackendAndConnectToPeers(AddUnhandledGreetLaoMessage(st, id), id, m))

\* While a LAO is open, an unhandled greeting is tried again when the organizer
\* has signed it.
GreetWatcher(st) ==
  LET signers == UnhandledGreetSignatures(st)
      ready == {id \in DOMAIN signers : /\ LaoOf(log[id]) \in DOMAIN st.laos
                                        /\ st.laos[LaoOf(log[id])].organizer \in signers[id]}
  IN IF CurrentLao(st) = None THEN st
     ELSE Repeat(Len(log), st, LAMBDA s, id :
            IF id \in ready THEN StoreBackendAndConnectToPeers(s, id, log[id]) ELSE s)

-----------------------------------------------------------------------------
(* The create message is handled on every arrival, never stored: it opens    *)
(* the LAO when none is open.                                                *)
HandleLaoCreate(st, m, id, address) ==
  SetCurrentLao(st, id, NewLao(m, id, address), TRUE)

-----------------------------------------------------------------------------
(* The session.  What a channel holds comes after the subscription to it, and *)
(* new messages may come in between: the create message need not be first.    *)

CreateLaoMessage(st, id, witnesses) ==
  [kind |-> "lao_create", chan |-> LaoChannel(id), sender |-> MyKey(st),
   organizer |-> MyKey(st), witnesses |-> witnesses]

\* All channels of a LAO are subscribed to again, all at once.
ResubscribeToLao(st, l) ==
  [st EXCEPT !.online = TRUE, !.subscribed = @ \cup st.laos[l].channels]

\* A QR code was scanned, an id typed, or a LAO created on the home screens: a
\* LAO that is not known is subscribed to; the channel of federations is, when
\* the LAO has been caught up with.
ConnectToLao(st, l) ==
  LET online == [st EXCEPT !.online = TRUE]
      s == IF l \in DOMAIN st.laos THEN ResubscribeToLao(st, l)
           ELSE SubscribeToChannel(online, l, LaoChannel(l))
  IN Later(s, [type |-> "connect", lao |-> l])
AfterConnect(st, task) ==
  SubscribeToChannel([st EXCEPT !.tasks = @ \ {task}], task.lao, FederationChannel(task.lao))

\* A LAO of the list of the home screen was pressed: all of its servers answer,
\* or one does not and the LAO is opened without a connection.
ReconnectToLao(st, l) == ResubscribeToLao(st, l)
OpenLaoOffline(st, l) == SetCurrentLao(st, l, st.laos[l], FALSE)

\* The home screen is shown: all connections are closed, no LAO is open.
DisconnectFromLao(st) == [ClearCurrentLao(st) EXCEPT !.online = FALSE, !.subscribed = {}]

\* The connections are lost; the LAO stays open and says nothing of it.
LoseConnections(st) == [st EXCEPT !.online = FALSE, !.subscribed = {}]

\* The last server of the LAO is given up: home screen again.
ConnectionDied(st) == DisconnectFromLao(st)

\* Connections are back after they were lost: the LAO that is open is
\* subscribed to again.
OnReconnected(st) ==
  IF CurrentLao(st) = None THEN st
  ELSE ReconnectLao(ReconnectToLao(st, st.current))

\* What the screens offer.
LaunchReady(st) == st.current = None /\ st.seed # None
LaoDrawer(st) == st.current # None
HomeList(st) == IF LaunchReady(st) THEN DOMAIN st.laos ELSE {}
LogoutReady(st) == LaunchReady(st)
=============================================================================
