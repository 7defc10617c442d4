------------------------------ MODULE Fe1Store ------------------------------
(***************************************************************************)
(* What the feature modules of the web front-end (src/fe1-web) share: keys, *)
(* channels, the messages the servers have accepted, and the redux store of *)
(* a device, a record with one field per slice.  A feature module defines   *)
(* its reducers, its message handlers and its enabling conditions as        *)
(* operators on that record; Fe1App gives every device one and composes     *)
(* them.                                                                    *)
(*                                                                          *)
(* A message id is the hash of what the message says: here it is the place  *)
(* of the message in the log, and the id of what a message creates (a roll  *)
(* call, an election, a chirp, ...) is the id of that message.              *)
(***************************************************************************)
EXTENDS Integers, FiniteSets, Sequences, SequencesExt

CONSTANTS Device,    \* the phones and browsers that run the application
          None       \* the value of what is undefined

VARIABLE log         \* the messages the servers accepted, oldest first

ASSUME DeviceAssumption == /\ IsFiniteSet(Device)
                           /\ None \notin Device

\* No message has the id None.
ASSUME NoneAssumption == None \notin Nat

-----------------------------------------------------------------------------
(* Keys.  A device has a key pair until its storage is cleared; a proof-of- *)
(* personhood token is derived from a wallet seed and a roll call.          *)

KeyPair(d, n) == <<"key", d, n>>
Token(seed, rollCall) == <<"token", seed, rollCall>>
BackendKey(address) == <<"backend", address, 0>>

MyKey(st) == KeyPair(st.dev, st.keyPair)

-----------------------------------------------------------------------------
(* Channels, as paths below the channel of a LAO. *)

LaoChannel(l) == <<l, "lao", None>>
FederationChannel(l) == <<l, "federation", None>>
CoinChannel(l) == <<l, "coin", None>>
ReactionChannel(l) == <<l, "reactions", None>>
AuthenticationChannel(l) == <<l, "authentication", None>>
UserSocialChannel(l, token) == <<l, "social", token>>
ElectionChannel(l, e) == <<l, "election", e>>

LaoOf(m) == m.chan[1]
LastPart(chan) == chan[3]

-----------------------------------------------------------------------------
(* The store before anything was received. *)

NoFunction == [x \in {} |-> None]

\* What the witness watcher saw last: the LAO, and the messages.
NothingWatched == [lao |-> None, all |-> {}, waiting |-> {}]

InitialStore(d) ==
  [dev |-> d, keyPair |-> 1, seed |-> None,
   laos |-> NoFunction, current |-> None, connected |-> FALSE,
   servers |-> NoFunction, greets |-> {},
   byId |-> {}, unprocessed |-> <<>>, signatures |-> NoFunction,
   events |-> NoFunction, rollCalls |-> NoFunction, byAlias |-> NoFunction,
   meetings |-> NoFunction, elections |-> NoFunction, electionKeys |-> NoFunction,
   toWitness |-> {}, notifications |-> NoFunction,
   watched |-> NothingWatched, postponed |-> {},
   social |-> NoFunction,
   cash |-> NoFunction,
   challenge |-> NoFunction, results |-> NoFunction, scanned |-> NoFunction,
   linked |-> NoFunction, linkedLaos |-> NoFunction,
   scanning |-> NoFunction, tasks |-> {}, online |-> FALSE, subscribed |-> {}]

\* CLEAR_STORAGE: every slice is reset, a new key pair is made when one is
\* needed, and what runs or is connected stays.
ClearStorage(st) ==
  [InitialStore(st.dev) EXCEPT !.keyPair = st.keyPair + 1,
                               !.tasks = st.tasks, !.online = st.online,
                               !.subscribed = st.subscribed,
                               !.watched = st.watched, !.postponed = st.postponed]

\* The storage is read back when the application starts: all slices but the
\* current LAO, which nobody has opened yet; what was running or connected, and
\* what the screens hold, is gone.
Rehydrate(st) ==
  [st EXCEPT !.current = None, !.tasks = {}, !.online = FALSE, !.subscribed = {},
             !.scanning = NoFunction, !.watched = NothingWatched, !.postponed = {}]

-----------------------------------------------------------------------------
(* What a handler of a message returns. *)

Handled(st) == [st |-> st, ok |-> TRUE]
NotHandled(st) == [st |-> st, ok |-> FALSE]

Put(f, k, v) == [x \in DOMAIN f \cup {k} |-> IF x = k THEN v ELSE f[x]]
Drop(f, k) == [x \in DOMAIN f \ {k} |-> f[x]]

\* A loop: what n steps, the k-th with k, make of what is there first.
Repeat(n, first, Step(_, _)) ==
  LET after[k \in 0 .. n] == IF k = 0 THEN first ELSE Step(after[k - 1], k)
  IN after[n]

\* A promise nobody waits for: the rest of an asynchronous function, with what
\* it has read so far.
Later(st, task) == [st EXCEPT !.tasks = @ \cup {task}]

-----------------------------------------------------------------------------
(* Subscription: the channel is noted in the LAO, which must be known for    *)
(* that, and the servers are asked for it and for what it holds.             *)

AddSubscribedChannels(st, l, channels) ==
  IF l \in DOMAIN st.laos THEN [st EXCEPT !.laos[l].channels = @ \cup channels] ELSE st

Subscribe(st, channels) ==
  [st EXCEPT !.subscribed = IF st.online THEN @ \cup channels ELSE @]
SubscribeToChannels(st, l, channels) ==
  Subscribe(AddSubscribedChannels(st, l, channels), channels)
SubscribeToChannel(st, l, chan) == SubscribeToChannels(st, l, {chan})
=============================================================================
