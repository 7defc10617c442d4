# Verification of PoPStellar

PoPStellar organises communities (LAOs) whose members hold roll calls, elections, meetings and federations, chirp and pay with coins. Devices run a *frontend* that publishes signed messages on one or several *servers*; the servers pass them on to each other, so that every server has them all and each can check them against what it stored, and every device builds what it shows from the messages it received. This directory holds TLA+ models of the Go server (`src/be1-go`) and of the web frontend (`src/fe1-web`), their model checking with TLC and proofs with TLAPS.

Source files are named relative to `src/be1-go` in the parts about the server and relative to `src/fe1-web/src` in the parts about the frontend. `PROJECT.json` maps every definition to the lines it models, lists the hazards the properties are about, and gives for each checked property a plausible mistake in a mapped definition that breaks it (the operators commented "Mistake:" in the modules).

Contents: [Inventory](#inventory), [The modules](#the-modules), [Runs](#runs), [Fairness](#fairness), [Proofs](#proofs), [Findings](#findings), [Limits of the models](#limits-of-the-models), [Not modelled and plan](#not-modelled-and-plan).

## Inventory

### The server

The Go backend is one process with a database, a *hub* and two WebSocket servers, one for frontends and one for other servers. Its parts, from the bottom up:

| Part | State | Operations | What is hard | What makes it correct |
|---|---|---|---|---|
| **Rumor timestamps** (`handler/method/rumor/mrumor`, `database/sqlite/query.go`) | none: maps from server keys to the last rumor id | `IsBefore`, `IsValid`, `CheckTimestampHelper` | an absent entry is not the entry 0, but a Go map reads it as 0 | the order is a strict partial order; what one check accepts the other accepts |
| **Rumor gossip** (`handler/method/rumor/hrumor`, `rumorstate`, `handler/answer`, `hub`) | table `rumor` (the open rumor of the server is the last of its rows), buffer of early rumors, pending queries | open and close a rumor, send, check, store, buffer, expire, relay after an answer, exchange rumor states, restart | three goroutines and one database; rumors overtake one another, come twice, are lost with a connection or a crash | a rumor is stored after everything it depends on, ids are never reused, nothing is forgotten, everything arrives |
| **Message tables** (`database/sqlite/sqlite.go`, `query.go`, `hpublish`, `hrumor`) | tables `message`, `unprocessedMessage` and the two relations with rumors | publish, handle the messages of a rumor in order of channel paths, retry what could not be handled, serve rumors | a rumor is many transactions; a crash between any two of them; a map shared with `Queries` | tables agree, stored rumors are served complete, every message is processed everywhere: the last two as long as no rumor is sent again with less |
| **Ring of server sockets** (`state/sockets.go`) | `socketIDs`, `store`, an index and counter per rumor | `Upsert`, `SendRumor`, `SendToAll`, `SendToRandom` | servers connect in the middle of a cycle; a federation upserts a socket again | everybody there at the beginning is told once, the sender is not |
| **Hub, pumps, servers, shutdown** (`hub`, `network`, `state`) | channels, bounded send channels, the lock of `Sockets`, subscribers, wait groups | read, write, receive, report a closed socket, three tickers, accept, shut down | bounded channels and a lock held while writing; two reports per socket; shutdown in the middle of anything | nobody waits forever; who left is unsubscribed; no pump outlives the shutdown, and only two named waits keep it from ending |
| **Server connections** (`cli/cli.go`) | configuration file, list of servers, which are connected, ticker with a delay | load, dial, back off, update, stop | the file is read while written, updates while dialling, a stale tick, servers that are down | a listed server that is up is dialled; retries stop only when all are connected; stop ends the loop |
| **Elections** (`hlao` for the setup, `helection`, `database/sqlite/election.go`) | messages of the election channel, their order of storage; the result in the end | setup, open, cast vote, end with a hash of the registered votes, result | each server sees its own order; refusals are repeated; votes race the end | phases in order, last votes count, same end same result, an end spreads where the votes are those it registers |
| **LAO and roll calls** (`hlao`, `database/sqlite/lao.go`) | chain of update ids, list of attendees, channels of attendees | create, open, reopen, close | several roll calls at once share one chain; side effects outside of the transaction | planned, see [Plan](#plan) |
| **Root channel** (`hroot`) | LAOs, their channels and keys | create a LAO | one transaction after the channels were added | planned with roll calls |
| **Federation** (`hfederation`) | challenges with expiry, expect and init messages | request, expect, init, challenge, result, tokens exchange | a challenge is removed before what follows can fail; two LAOs on two servers | its effect on the ring is in `RumorSockets`, challenges, expectations and results are in `Fe1App`; the dialled socket and the expiry are planned |
| **Queries, subscribers, peers, greeting** (`state`, `hgreetserver`) | ids of pending queries, subscriptions, who was greeted | add, answer, subscribe, greet | an answer that never comes or comes twice; greeting recorded after it was sent | in part in the gossip and the hub; the rest is planned |
| **heartbeat, get_messages_by_id, catchup** (`handler/method`) | none of their own | compare ids, ask, answer from the tables | what is answered while messages are processed | planned as an extension of the message tables |
| **Chirps, reactions, coins** | none of their own | check fields, insert | one insertion each | not modelled |
| **Schemas, cryptography, OpenID login (PoPCHA), logging** | none | pure functions, I/O | | not modelled |
| **Previous hub** (`internal/old`) | an older hub and channels, with consensus | | not used by the process outside of tests and one interface | not modelled |
| **Scala backend, Android frontend, tests, schemas** | | | other programs | not modelled |

How they interact: the WebSocket servers start two *pumps* per socket; read pumps hand messages to the hub over an unbuffered channel, one at a time; a handler reads and writes the database, one transaction per call, and writes to sockets through `Subscribers` (frontends) and `Sockets` (servers). Three tickers run beside the hub: heartbeat, rumor sender and rumor state sender; publishing may wake up the rumor sender. `cli` dials the servers of the configuration file and hands their sockets to the same hub. What a rumor brings is handled by the same handlers as what a client publishes.

### The web frontend

One page (or phone application) per user: a redux store, a wallet, sockets to the servers of the opened LAO. JavaScript runs one callback at a time; the concurrency is in which callback comes next.

| Part | State | Operations | What is hard | What makes it correct |
|---|---|---|---|---|
| **Network layer** (`core/network`: `NetworkConnection`, `NetworkManager`, `JsonRpcApi`) | sockets, attempts, timers, pending requests and their ids, managed connections | connect, lose, retry, give up, disconnect, reconnect all, send, resend, time out, answer | close events of sockets already replaced; retry timers that outlive what they were for; ids that wrap around and requests sent again | a live connection has a socket or a timer; an answer is that of its request; every call ends |
| **Ingestion** (`core/network/ingestion`, `RpcHandler`) | message store, list of unprocessed messages | receive, hand to handlers, fall through when a message cannot be handled yet | the watcher is called again from within its own loop and goes on with a stale list | what is shown does not depend on the order of arrival |
| **LAOs, servers, session** (`features/lao`, `home`, `connect`, `core/redux`) | LAOs, the current one, servers, subscribed channels, last roll calls | create, scan, open, leave, lose connections, greet, restart, log out | a restart in the middle of asynchronous work; LAOs that are known but not open | parts of the store agree |
| **Roll calls, events, wallet** (`features/rollCall`, `events`, `wallet`) | roll calls by id and by alias, events, attendees, seed | create, open, close, reopen, scan, make tokens | each message names the one before by an alias that changes; closing goes on asynchronously | aliases name the right roll call; the last message of the chain wins, except through the stale list of the watcher |
| **Witnessing, notifications** (`features/witness`, `notification`) | messages to witness, notifications, a memory outside of the store | notice, postpone, sign, decline, clear | the memory is lost with a restart and the watcher is re-entered | every message is asked for once |
| **Elections** (`features/evoting`) | elections, votes by voter, results | setup, key, open, vote, end, result | handlers ask neither for status nor for sender | the latest vote of a voter is kept |
| **Social media** (`features/social`) | chirps by id, sorted lists, reactions, scores | chirp, delete, react | deletion before the chirp, reactions before their chirp, presses that repeat | newest first, what its sender deleted stays deleted, a reaction counts once |
| **Digital cash** (`features/digital-cash`) | transactions, balances, transactions by key | issue, send, check, add | payments made before the last one came back | what a wallet makes is valid |
| **Linked organizations** (`features/linked-organizations`) | challenges, scans, results, links | ask, expect, start, match results, exchange tokens | matching happens in an effect of a screen | linked only with a challenge of one of the two, with which a federation was expected there and started by the organizer who was expected |
| **Meetings, PoPCHA** (`features/meeting`, `popcha`) | meetings | create, state; authenticate | two dispatches per meeting | its event and the meeting agree |
| **Screens, navigation, components** | React state, routes | what a user can do when | | their conditions are guards; layout is left out |

How they interact: a user's action builds a message from the store and publishes it through the network manager to every connected server. Nothing is stored then: the message is stored when a server sends it back, by broadcast or by catchup, as are those of everybody else. `RpcHandler` adds it to the message store; the ingestion watcher hands all unprocessed messages to the handler their object and action have in `MessageRegistry`; a handler checks them against the store, dispatches to the reducers of one or several features, and answers whether the message was processed. Other watchers of the store (greetings, witnessing) run after every dispatch. What handlers start asynchronously goes on later.

## The modules

| Module | What it models |
|---|---|
| `RumorTimestamp` | the comparison and the checks of timestamps, as operators; `Absent` (-1) is a missing entry, and `Lookup` reads it as 0 as the map does |
| `RumorGossip` | the gossip between servers |
| `CausalBroadcast` | what the gossip promises: a server delivers what it broadcasts at once and the rest in causal order |
| `RumorMessages` | the messages inside rumors, on top of that transport |
| `RumorSockets` | the ring of sockets, one step per call of a method of `Sockets` |
| `HubPipeline` | goroutines, channels, the lock of `Sockets`, shutdown |
| `ServerConnections` | `serverConnectionLoop` and `watchConfigFile` |
| `Election` | an election on several servers |
| `Fe1Network` | the frontend's sockets, connections, manager and calls |
| `Fe1Store`, `Fe1Lao`, `Fe1RollCall`, `Fe1Witness`, `Fe1Election`, `Fe1Social`, `Fe1Cash`, `Fe1LinkedOrgs`, `Fe1Meeting` | the features of the frontend, as operators on the store of one device; each extends the one before |
| `Fe1Ingestion` | the message store and its watcher, on top of the features |
| `Fe1App` | several devices, the log of the servers, and what users and servers do |
| `MC...` | instances for TLC: networks, ballots, messages, scenarios |
| `RumorGossipProofs`, `RumorMessagesProofs`, `RumorSocketsProofs`, `HubPipelineProofs`, `ServerConnectionsProofs`, `ElectionProofs`, `Fe1NetworkProofs`, `Fe1AppProofs` | [proofs](#proofs) |

**`RumorGossip`.** `table[n]` is the table `rumor` of server n. The row of n with the largest id is its *open* rumor, which `AddMessageToMyRumor` fills and `GetAndIncrementMyRumor` closes: only then does it get its timestamp, the last id of every sender as stored by n at that moment. The hub is a small program: `HandleRumor` reads a rumor, checks it (`CheckRumor`: exactly the next one of its sender, and nothing in its timestamp missing), answers, and tells the next neighbour; `StoreRumor` stores it in a step of its own, because the rumor sender runs in between and the process may crash there; `HandleNextRumor` takes the first ready rumor out of the buffer. `HandleRumorStateAnswer` and `HandleWork` do the same for the rumors of an answer, sorted by a comparison that is only a partial order (`Sortings`: all results `sort.Slice` may give). `Restart` loses everything but the table and the open messages, dials again and makes both ends of each new connection ask for rumors. A connection that nobody dials again stays down, and its socket stays in the ring of the other end (`dead`).

**`CausalBroadcast`** knows only what each server has received. `RumorGossip` implements it: received are the closed rows; the past of a rumor is what its timestamp stands for. The refinement is checked as a property of the gossip, with restarts and reorderings.

**`RumorMessages`** takes the transport as `RumorGossip` shows it (a rumor is stored after its past; copies are lost, late and repeated) and models what is in a rumor: the four tables, `InsertMessage` with the move of the relations (one transaction), the rounds of `tryHandlingMessagesByChannel`, the retry of everything unprocessed after each rumor, and the relay. The messages a server tells a *second* neighbour are those left over in a map that handling has emptied meanwhile; this is modelled as it is. `SentWithLess` says of a rumor that this has happened to it: some server sent it whole and then again with less. It is the one exception of `CompleteUnlessSentAgain`, and `RumorsAreComplete`, which has no exception, is what the run `relay` refutes (see [Findings](#findings)).

**`RumorSockets`** is the ring with its indices. `RumorGossip` replaces it by a set of neighbours already told, which `CycleTellsThoseThere` and `ToldOnce` justify as long as no socket is in the ring twice.

**`HubPipeline`** gives each goroutine the list of instructions it has yet to run (send to a socket, take the lock, wait for the rumor sender). What messages are about is reduced to whom handling them writes. It covers what the other modules assume: that a handler ends. A connection is `arrived` when its HTTP handler has begun and before it has the lock `closing`; `Shutdown` goes through the phases of the code, server by server: it takes `closing` (phase *closing*), waits until no handler is active (`NoHandler`), closes `done` (`Done`), waits for the pumps (`Quiet`) and unlocks. A handler that has arrived and not locked before `Shutdown` did waits for the lock, and `Shutdown` for the handler (`HandlerWaits`). A connection that is lost ends its pumps, so that its send channel may fill up and block who writes to it (`SendWaits`).

**`ServerConnections`** has the two goroutines of `cli.go`, the file that is empty for a moment while it is written, servers that go down and come up, a ticker that can leave a stale tick, and a stop at any step, also while dialling.

**`Election`** has the messages of the election channel as each server stored them, in that order. A message reaches a server from a client or from another server that stored it, any time later and again after a refusal, which is how gossip and unprocessed messages behave. An end carries a hash of the votes its organizer saw, which each server compares with that of its own; without any vote on either side the two are equal. Votes are read in the order of their ids, which are hashes, so ids are numbers that say nothing of time. Open and secret ballots differ in what can be decrypted by whom.

**`Fe1Network`.** A step is one callback: an event of a socket, a timer, an event of the phone, a call of the application. `conns` has every `NetworkConnection` ever made, as a record of what its object holds (the socket's state, whether it is alive, attempts, armed timers, pending requests with their ids) and of what is on its wire; `managed` is the array of the manager, in order, since a connection is found as the first one with an address. Two `connect` to one address may be under way at the same time and then make two connections. `old` counts replaced sockets whose close event is still to come. A call (`publish`, `subscribe`, `catchup`) is sent over all managed connections and settles as `Promise.all` does. The server is external: it answers each request on the socket it came from, and refuses a message it has and a second subscription.

**The features.** The state of a device is one record with a field per slice of the redux store, and a few for what is kept outside of it: the memory of the witness watcher, the asynchronous tasks under way, the number of the key pair. A feature module has its reducers (`AddRollCall`, `RegisterVote`, `AddChirp`...), its message handlers (`HandleRollCallOpenMessage`...), the conditions under which its screens offer something (`Can...`) and the messages its screens build. A handler or reducer that may fail returns the store and whether it did what was asked (`Handled`, `NotHandled`), as in the code a handler returns a boolean and a reducer throws. Dispatches run the watchers in between where that matters (`Watchers`, in `Fe1Ingestion` and `Fe1Witness`).

**`Fe1Ingestion`** gives all unprocessed messages to their handlers in the order they came, with the watcher that is called again from within its own loop whenever a message is marked as processed, and that goes on afterwards with the list it had. A run of the watcher is the store and the list of what all loops under way have before them, the innermost first: handling a message that changes the list of unprocessed ones puts this list in front (`HandleNext`). With n messages there are at most n (n + 1) / 2 such steps, so that `Ingest` repeats the step as often.

**`Fe1App`** gives each device a store. `log` is the sequence of messages the servers accepted; the id of a message, which is a hash, is its place there. A device receives the messages of the channels it is subscribed to in any order (`ReceiveMessage`), runs what it started asynchronously at any later moment (`RunTask`), and its user does what the screens offer. `ServerAccepts` has what the servers refuse, and `Servers` what they publish: greetings, election keys, results, challenges. Both are translated from `be1-go`: who deletes a chirp must own the channel, and need not have sent the chirp (`hchirp/chirp.go:127`); a started federation is matched with the newest expectation of the LAO by the key of the organizer and the challenge, not by the LAO it was started from (`Matches`, `database/sqlite/federation.go:61`); it gives its result once, because the challenge is removed (`Federate`). A failed federation has a result on the Scala server only (`Mismatch`), and a meeting gets its state from no server in the repository that the model has: it is external. Initial states are *scenarios* (`MCFe1App`): a log, and for each device what it has received of it, brought into the store by the same operators as later messages; `left` bounds how often each kind of move is made from there. The states between the beginning of the application and the start of a scenario are explored by the other scenarios, of which one starts with an empty log.

## Runs

| Run | Module, instance | Checks |
|---|---|---|
| `gossip` | `RumorGossip`: a dials b, c dials b; a and b send one rumor each; a may crash once | types, `RumorAgreement`, `CausalClosure`, `ReceivedGrows`, refinement of `CausalBroadcast` |
| `gossip_liveness` | `RumorGossip`: a dials b; b sends two rumors; both ask for rumor states; a may crash once | `ContiguousRumors`, `EventuallyEverywhere` |
| `messages` | `RumorMessages`: a line of three servers, three messages each depending on the one before, published on a, c and b; b or c may crash once | `TablesAgree`, `CompleteUnlessSentAgain`, `NothingLeftUnprocessed`, `EventuallyProcessed` |
| `relay` | `RumorMessages`: the same messages, c between three servers, no crash; finds a disagreement | `RumorsAreComplete` |
| `ring` | `RumorSockets`: four sockets, two rumors, at most four upserts | `NeverBack`, `ToldOnce`, `CycleTellsThoseThere` |
| `pipeline` | `HubPipeline`: a client that may be lost, a server, a message from each, three tickers with a tick each, send channels of one, shutdown at any step | `NobodyBlocked`, `NoPumpAfterShutdown`, `LostIsUnsubscribed`, `ShutdownEnds` |
| `connect` | `ServerConnections`: two addresses, one listed first; two edits, one change of a server or connection, stop | `NothingLeftToRetry`, `EventuallyConnected`, `LoopEnds` |
| `election` | `Election`: two servers, open and secret ballot, a voter with two votes, at most three votes, opens and crashes together, one end | types, `PhasesInOrder`, `SameEndSameResult`, `OnlyLastVotesCount`, `EndSpreads` |
| `network` | `Fe1Network`: two servers, one of them listed by the LAO; either two connections and two events (a socket lost, a server left, the phone down or back, a publication) or one connection and four | types, `HopeOrDead`, `ResolvedMeansAccepted`, `CallsSettle` |
| `frontend` | `Fe1App`: two organizers or an organizer and an attendee, seventeen scenarios of roll calls, elections, chirps, reactions, coins, linked organizations, witnessing, meetings, authentication and the session, with witnessing enabled | `StoresOK`, `AliasesNameRollCalls`, `RollCallsKeepUp`, `LatestVoteIsRegistered`, `ReactionsCountOnce`, `ChirpsNewestFirst`, `DeletedChirpStaysDeleted`, `OwnTransactionsAreValid`, `LinkedByChallenge`, `AskedOnce` |
| `cash` | `Fe1App`: the scenario of coins; finds a disagreement | `AllInputsAreUsed` |
| `early` | `Fe1App`: the messages of a roll call arrive while another message waits (`EarlyScenario`); finds a disagreement | `RollCallsFollowTheirMessages` |

**What they show.**

- `gossip`: whatever the interleaving of hub, rumor sender and rumor state answers, and across a restart in the middle of anything, no copy of a rumor differs from that of its sender, a rumor is stored after all its timestamp names, no stored rumor is forgotten, and the gossip is a causal broadcast. Two senders and a server between them are the least in which one rumor may or may not depend on another, and in which a rumor takes two hops. With no rumor states asked for other than those at (re)connection, the state space stays small; both are asked for in the next run.
- `gossip_liveness`: two rumors of one server are what it takes to have one overtake another, wait in the buffer, expire and be asked for. With rumor states exchanged, every closed rumor arrives in the end, although answers, buffered rumors and relays are lost with a crash. Without them it does not (the mutant with a wrong query shows that the property depends on it). With two servers there is no next neighbour, and with one sender all rumors can be compared: that chains which break off and answers in any order are made good *in the end* is not checked for three servers, whose state space is too large for liveness. Safety under both is checked by `gossip` and proved.
- `messages` (about 433,000 states): a message processed anywhere is processed everywhere in the end, unless its own server crashes between answering the client and adding it to the rumor, or a rumor is sent again with less; messages that depend on one another over three servers never stay behind. The server in the middle has crashed in the middle of a rumor and gets it again from one neighbour, having told the other: the exception is reached in this run too, and there are both states in which it loses messages and states in which it does not.
- `relay`: with a third neighbour no crash is needed. c tells b a rumor of a, handles its messages, and tells d what is left, which is nothing; d stores the row of the rumor without messages.
- `ring`: as long as no socket is in the ring twice. Four sockets allow two to connect while a rumor is under way, before and behind its index.
- `pipeline` (about 178,000 states): a send channel of one entry is full whenever anything is in it, so that every wait that 256 entries make unlikely happens, and the client may be lost with its channel full. A goroutine then waits for ever only behind a full channel nobody empties (`SendWaits`): the lock of `Sockets`, the rumor sender and the hub make no cycle of their own. No pump is left after a shutdown that ended, and no client that left stays subscribed even if its last subscribe was handled between the two reports of its pumps. A shutdown ends at whatever point it begins, unless a full channel keeps a goroutine or a handler waits for `closing`. Both exceptions are reached, and both are defects of the code (see [Findings](#findings)); the property says that there is no third one.
- `connect`: two edits let an update reach the loop while it dials, while it waits for a tick, and after the ticker was stopped; with a third address nothing new happens, because addresses do not interact except through the ticker. `LoopEnds` is for a stop at any step.
- `election`: votes of the same voter that come in different orders, messages published several times, a crash after a broadcast and before storing, and an end that registers votes another server has not seen, or none (about 150,000 states). An end with the votes that all servers have ends the election on each of them. Servers that accept the same registered end agree on the result of an open ballot; they need not in a secret one, where each server has an election key of its own and can read only the votes encrypted for it.
- `network`: with one connection, four events are enough for a socket to be refused, lost and lost again while another is closing, and for a request to be sent again over the next one; with two, for a round of reconnection that waits for both, a connection that is given up while the other works, and two connections to one address. One retry and one check for an open socket stand for the five and ten of the code, so that the limits are reached. Ids wrap around at 4 (10,000 in the code), above the three calls there are.
- `frontend` (about 350,000 states): the messages of a chain of create, open, close, reopen, close may come in any order, some while the LAO is not open or after a restart. What a roll call shows is what the last message of its chain says, and every step keeps it so (`RollCallsKeepUp`), except a step that handles a message which waited and is not an update of this roll call: with it the watcher goes on from a stale list. Two scenarios have messages that cannot be handled when they come, and stay first in the list while others follow: the state of a meeting before the meeting (`EarlyScenario`), chirps while the LAO is not open (`ReturnScenario`). Votes of one voter, chirps and reactions, deletions before what they delete, by the sender of the chirp or by another (`DeletionScenario`): the reducers sort it out. Of federations, the scan of each organizer, the challenge that was given before and the one that was asked for later, results that come before the scan, a start that the other does not expect, an expectation that the server refuses, and an organizer of two LAOs who starts from the one that is not expected (`TwoLaosScenario`). Two devices are what it takes for every one of these protocols. The session scenario starts from nothing and has a wallet, a LAO made, found, left, lost and opened again, a restart and a logout at any step.
- `early`: without that exception the property fails. Of the messages of a LAO that is not known yet, the state of a meeting waits. The roll call is created, the message that closes it waits for the one that opens it, the LAO becomes known, and the message that opens the roll call arrives. The list is now: state of the meeting, close, open. The first is handled, and from within, the watcher handles the open message and then the close message. The interrupted loop goes on with its own list: the close message finds no roll call any more, as the alias has changed, but the open message finds it by its id and opens it.

Deadlock is not checked (`CHECK_DEADLOCK FALSE`) because all counters are bounded: with no message left to publish the system rests. That nobody waits for one another is `NobodyBlocked`, `ShutdownEnds` and `CallsSettle` instead.

**Bounds.** `MaxRumors`, `MaxCrashes` (gossip, messages); `MaxUpserts` (ring); `Capacity`, `MaxMessages`, `MaxTicks` (pipeline); `MaxEdits`, `MaxChanges` (connections); `MaxEvents`, `MaxEnds` (election); `Limits`, `MaxAttempts`, `MaxChecks`, `MaxRounds` (network); the `left` of a scenario (frontend). Each is a guard of the action it bounds and an action of the environment, or of a ticker, so that no bound stops a server from finishing what it began.

## Fairness

- *Goroutines run.* Weak fairness of each step of the hub, the rumor sender, pumps, the connection loop. Go schedules preemptively.
- *The hub serves everybody.* A read pump with a message blocks on the hub's channel, and blocked senders are served in order. As the hub is not idle all the time, this is strong fairness of `Handle(n, m)` in the gossip; in the bounded pipeline weak fairness is enough since every behaviour comes to rest.
- *Rumor states.* The ticker asks one neighbour picked at random every few seconds: strong fairness for every neighbour, asked only of instances in which a server stays connected or connects again.
- *Select.* A `select` with several ready cases picks one at random: strong fairness of the cases of `serverConnectionLoop`.
- *Timers fire.* In the network layer only of the two timers a call may wait for, the check for an open socket and the timeout of a request (`ReadyCheck`, `RequestTimeout`): the event loop runs every timer that is due. Nothing is assumed of sockets, servers or the user, so that `CallsSettle` holds with servers that never answer.
- *Not assumed:* that clients publish, that servers restart or connections are lost or restored, that files are edited, that buffered rumors expire or do not, that answers arrive.

In `messages` weak fairness suffices for asking, because a rumor that is missing stays missing until it is stored; in `election` for handling, because a message that can be handled is stored once. `Fe1App` states no fairness and no liveness: that a device receives what the servers have is up to the network.

## Proofs

*The gossip of the server*, in `RumorGossipProofs` (timestamps and tables first), for every set of servers, every network and every number of rumors and crashes. The assumptions are `DialsAssumption` (two servers do not dial each other and none dials itself, so that there is at most one connection between two servers: the configurations list each pair on one side only) and `BoundsAssumption` (types of the bounds).

*Timestamps.* `IsBeforeIsVectorLess`: `IsBefore` is the strict pointwise order in which an absent entry is below all others. `CheckedIsValid`: what `CheckTimestampHelper` accepts (and `CheckRumor` with it), `IsValid` accepts, so that a rumor put back for later is not held there by the second check. `IsBeforeStrictOrder`, `AcceptedOnce` state that the order is strict and that a rumor that was stored is not accepted again. The converse of `CheckedIsValid` does not hold (see [Findings](#findings)).

*Gossip.* `TypeCorrect`, `Contiguity`, `Agreement`, `CausalOrder` and `NothingForgotten` state `TypeOK`, `ContiguousRumors`, `RumorAgreement`, `CausalClosure` and `ReceivedGrows` of `Spec`. They all follow from `Invariance`: `Spec => []IInv`, where `IInv` has, beside types,

- `GoodTables`: every server has an open row; the ids of each sender are an unbroken prefix; no two rows have the same key; the timestamp of each closed row names exactly the previous rumor of its sender, and nothing that the state of the server lacks;
- *everything on its way was sent*: each rumor in a buffer, on a link, in an answer being worked off, in the hub or in the rumor sender is a closed row of its sender. `Received` only grows, so this is stable; it is what makes copies agree;
- `Checked`: a rumor between `CheckRumor` and `StoreRumor` is one of another server and still passes `CheckRumor`.

The invariants are not inductive without these. `CausalClosure` needs the check to hold when the rumor is stored, not just when it was made; in between, the rumor sender may close the server's own rumor. That advances only the server's own entry of the state, which is why `Checked` is stable. Agreement needs `GoodTables` (the open row is never in an answer, because the ids of a sender have a largest one) and the rows to survive a restart (`INSERT OR IGNORE` of the first rumor). The module begins with the facts on tables: adding the next rumor of a sender, or closing the open one, keeps a table good, and says how its state changes. It goes on with one lemma per action.

*Causal broadcast.* `Implementation` in `RumorGossipProofs` states `ImplementsCausalBroadcast`. The lemma it turns on is `StateNamesReceived`: the state of a server, one id per sender, stands for exactly the rumors it has received, because their ids are an unbroken prefix. Hence the timestamp a rumor gets when it is closed is the past a `Broadcast` carries (`CloseIsBroadcast`), and a rumor that `Checked` lets through has its past in the table (`StoreIsDeliver`). No other step writes to a table, `Restart` included (`TableWrites`). One conjunct is added to `IInv`, for the set of ids `CausalBroadcast` is given: an open rumor with a message has an id below the bound.

*Message tables*, in `RumorMessagesProofs`, for any network, any messages with any dependencies and paths, and any number of crashes. `TablesKept` states `TablesAgree`. It needs to be known what the hub has done of a rumor (`Handling`): what is not left of it is stored, and what is left and lies on a shorter path than the one at hand is not, since the loop passes a message only when it cannot be handled. Otherwise `StoreRumor` could write a message to both tables.

`RumorsServedComplete` states `CompleteUnlessSentAgain`, in any network: whoever has stored a rumor has every message of it and serves them, unless some server has sent this rumor whole and then again with less. It needs no assumption on the network or on crashes. The invariant `Carried` (`CarriedInvariance`) says, of the rumors that were closed, that there is one of each (`SentOnce`); that every copy on its way, the rumor at hand (`Receiving`) and those in the tables (`Serving`) are `Sound`, that is, have all their messages unless the rumor was sent with less; and that a server which keeps a rumor for its next neighbour with less has told it before (`Retelling`). The last is what makes the exception no wider than the defect: the map is emptied only after the copy for the first neighbour was made from it, so the loss always begins with a second send of one server, and a rumor that was never sent twice in this way is complete everywhere.

`ProcessedAtOnce` states `NothingLeftUnprocessed`: without a crash, and while no rumor was sent with less, nothing is unprocessed once the rumor at hand is done, in any network. It assumes `Grounded`: no message needs itself through others, and what a message needs lies on a path that is not longer (an election needs its LAO, a vote its election). The invariant `Prompt`, which holds while this is so (`Uncrashed`), says that a rumor needs nothing that is neither in it nor in its past (`Covered`), since its server had handled what it put there, and that every server has what its messages need (`Settled`). The past of a rumor is stored before the rumor. So if anything of it were left when the loop over paths is done, one of the messages left would need none of the others, by `Grounded`; it could have been handled when its path came, and the loop passes only what cannot be (`NothingLeft`).

*The ring*, in `RumorSocketsProofs`, for any number of sockets, rumors and connections. `NotSentBack`, `CycleIsComplete` and `SentOnce` state `NeverBack`, `CycleTellsThoseThere` and `ToldOnce`. The invariant says how far a rumor is (`OnTheWay`): it has passed the positions from its start to where it is (`Straight`); or it came to the end when the ring had a certain size, and has passed those from its start to that end and those from the first one on (`Wrapped`); or it was told to all that were there, and goes on (`Around`). The ring grows at its end only, so that a server that connects changes none of the three. `SkipIsEnough` is why the code may skip the socket a rumor came from once and not again.

*The hub*, in `HubPipelineProofs`, for any finite sets of clients and servers, any capacity of their send channels and any number of messages and ticks. `NoPumpOutlives` states `NoPumpAfterShutdown`. Three more results have no run: `HandlersWaitForEver` (a handler that waits for `closing` while `Shutdown` holds it waits in every later state, and the shutdown stays where it is: the exception `HandlerWaits` of `ShutdownEnds` is not a delay but the end), `LockIsReleased` (a goroutine that waits for the lock of `Sockets` or for the rumor sender does not hold the lock, one that holds it writes to sockets and then unlocks, and two hold it only when both share it, so that no cycle of goroutines waits for one another and only a send channel that stays full can keep the lock) and `NothingRunsAfterStop` (when the process has stopped, no goroutine has anything left to do and nobody holds the lock). The invariant is about what goroutines have left to do, sequences of any length: `Locks` says that who holds the lock are those whose list ends with unlocking it, and that such a list has nothing but sends before (`Tidy`); `Phases`, that what a phase of the shutdown waited for stays as it was, because no socket comes back once accepting is over, and what has ended does nothing.

*Server connections*, in `ServerConnectionsProofs`, for any set of servers and any number of edits, failures and ticks. `RetriesUntilConnected` states `NothingLeftToRetry`. While a tick is worked off, each server visited is connected or the failure is noted; while an update is, the ticker runs.

*Elections*, in `ElectionProofs`, for any finite sets of servers, voters, options and ballots, and any number of messages, ends and crashes. `OnceInOrder` states `PhasesInOrder`: a server is set up, opens and ends the election once each, in that order. By itself this is not inductive: a message is checked when the hub takes it and is stored a step later, after it was broadcast. `Pending` says that it is still the next phase then, because the hub handles nothing else in between, and because votes may be stored meanwhile but are no phase. `LastPhase` finds the phase the election is in, which the code asks for as the largest time of storing. `SameResult` states `SameEndSameResult`, from `Counted`: the result of an open ballot is the tally of the votes that the end registers, whatever votes the server has. That is because an end with registered votes is only accepted if they are what the server counts itself (`ResultIsTally`).

`LastVotesCount` and `TypeCorrect` state `OnlyLastVotesCount` and `TypeOK`. They rest on `ValidVotesAre`, which says what the loop over the votes computes for any finite set of votes with different ids: of each voter the vote created last, and of several such votes the one with the smallest id (`Valid`). The loop is a fold, that is, a recursive function on subsets. `Valid`, which is written down without recursion, satisfies the equation of the fold (`UpdateIsValid`: reading one more vote), so that the fold is defined; and a smallest subset on which the two differ cannot exist (`SmallestSubset`). The number of all votes counted is a sum over the options, and is treated in the same way (`SumOfCounts`). A second invariant, `Casts` and `Results`, says that there is no vote on a server that was not cast, hence no two with one id, and that the result is that of the votes stored before the end.

*The network layer of the frontend*, in `Fe1NetworkProofs`, for any set of servers, any finite set of publications, and any limits of attempts, checks, rounds, connections and events. `TypeCorrect`, `Hope` and `Accepted` state `TypeOK`, `HopeOrDead` and `ResolvedMeansAccepted`, and follow from `Invariance`: every connection is `Good`, which has four parts beside types.

- `Assigned`: the calls a connection numbered have different ids, none of them zero, and the next id is the one after as many calls as were numbered. A connection numbers a call once, and `BoundsAssumption` says that there are more ids than calls: this is where it is needed, and without it an id could come again while its first request is pending.
- `Answered`: what is on the wire carries the id of the call it is about; an answer on the wire is about a call that the server at the other end accepted; so is a call that is resolved. Sending again adds packets with the ids the requests have, hence keeps it.
- `Hopeful`: `HopeOrDead` of one connection. It is kept by `OnClose` alone among the operations that leave a socket closed; all others leave it connecting or closing, or the connection dead.
- `Unasked`: no connection was asked for a call that has not begun, which gives `Assigned` the hypothesis that a call is numbered once.

There is a lemma for each operation on a connection (`SendNowKeeps`, `OnCloseKeeps`...), two that lift them to all connections or to one of them (`AllOf`, `OneOf`), and one per action.

*The web front-end*, in `Fe1AppProofs`, for any devices, scenarios, forms and services, and any number of messages and moves. `AppIsOK` is the inductive invariant `AppOK`, from which follow `StoresAreOK`, `AliasesAreRight`, `RollCallsAreWhatWasSaid`, `LatestVotesAreRegistered`, `ReactionsAreCountedOnce`, `ChirpsAreNewestFirst`, `OwnTransactionsAreChecked`, `LinksRestOnChallenges`, `MessagesAreAskedForOnce` and, with the lemmas about single steps, `DeletedChirpsStayDeleted`. The assumptions are `NoneAssumption` and `ScenariosAssumption`: the messages of a scenario are in an order in which the servers accept them. `AppOK` says that the log is `Ordered` (what a message names is before it) and of each device:

- `MsgsOK`: how stored, signed and unprocessed messages belong together;
- `Core`, one part per slice of the store (`EventsOK`, `VotesOK`, `RollCallsOK`, `SocialOK`, `CashesOK`, `LinksOK`, `TasksOK`): what the slice is, given the messages that were processed. The properties are these parts, read without the log. `CashesOK` says of the transactions a device knows that they are those of messages, and of each key that its balance is not more than the `Worth` of all outputs to it of the transactions noted for it (not that it is equal: who pays herself twice has a transaction noted twice, and one that spends spent coins sets a balance to zero that is not). What the wallet makes of the balance signs just these outputs, so it passes the check (`OwnTransactionChecked`). `LinksOK` says that the challenge a device keeps for a LAO is one the server gave that LAO; that a code it scanned has no challenge, or one given to the LAO that scanned it or to the LAO that showed it; that a result with a key is about a challenge with which a federation was started and expected as the server compares them, by the key of the organizer and the challenge (`Matches`), from whichever LAO it was started; and that what is linked was `Agreed`. A link is made of a code and a result with the same challenge, which need not be of the same federation. A challenge is given out once, hence to one LAO, and the server takes an expectation only from the LAO it gave the challenge to: the one that expected is the one or the other of the two that are linked (`LinkAgreed`);
- `AskedOK` and `SessionOK`: notifications and messages to witness; the wallet, the session and the LAO that is open.

A handler changes few slices and leaves the others alone (`Untouched`, `Spared`); one that gives its message back changes nothing (`Follows`). The watcher of unprocessed messages runs handlers as often as its list says, which is a function on the number of runs, and so are sums, the inputs and outputs of a transaction and the other loops (`LoopStep`): `Ingested` goes by induction over it, which is the smallest-counterexample argument on a set of numbers (`NatInduct`), and `LoopExists` says that such a function is defined. Every other step of a device is `Moved`: it brings nothing to the slices that handlers write, or empties them all. The log only grows, and what holds of a device with a log holds with a longer one (`StoreGrows`, `LogGrows`). The parts are stated so that they stay true when a message is handled twice, which the stale list of the watcher brings about: this is why a roll call is tied to the message that gave it its alias and not to the last one, and why a chirp may be listed twice. TLC checked `AppOK` on the scenarios before it was proved. `RollCallsAreWhatWasSaid` is therefore about `RollCallsAreAsSaid`, weaker than what the documents say and listed without a run: each state a roll call is shown in was given to it by a processed message of its own chain. The stronger `RollCallsFollowTheirMessages` does not hold (`early`), and `RollCallsKeepUp`, which does, is model-checked.

*Only model-checked:*

- liveness everywhere: temporal reasoning under fairness is out of reach of the prover, and with it `EventuallyEverywhere`, `EventuallyProcessed`, `NobodyBlocked`, `ShutdownEnds`, `LostIsUnsubscribed`, `EventuallyConnected`, `LoopEnds`, `EndSpreads` and `CallsSettle`;
- `RollCallsKeepUp`, a property of steps in which the watcher makes several runs: the proof would have to follow the stack of its lists;
- the refutations: `RumorsAreComplete`, `AllInputsAreUsed` and `RollCallsFollowTheirMessages` do not hold. All other safety properties that the runs check are proved, `NothingLeftUnprocessed` under `Grounded`.

## Findings

Three runs end in a violation of what the repository says; `PROJECT.json` quotes the lines.

- `relay`: the rumor kept for the next neighbour shares its map of messages with the rumor being handled, from which processed messages are deleted (`hrumor/rumor.go:146`). From the second neighbour on, a relayed rumor comes without the messages processed meanwhile, is stored as complete, and is not asked for again, although a rumor is what "a server propagates to all Servers in the network messages it encapsulates" with (`src/docs/protocol.md:972`).
- `cash`: the reducer of digital cash takes all coins of a payer for spent by each of its transactions ("we are sure that all inputs are used"), which a second payment made before the first came back does not do. Nobody refuses the second one, and balances are wrong from then on (`features/digital-cash/reducer/DigitalCashReducer.ts:121`).
- `early`: the ingestion watcher goes on with a stale list (`core/network/ingestion/Watcher.ts:32`) and hands the message that opens a roll call on again after the one that closes it; it is handled because it names the roll call by its id (`rollCall/network/RollCallHandler.ts:91`), and a closed roll call is shown open, which is not a step of its life (`src/docs/messageData.md:836`).

Noticed while modelling, present in the models, but without a run of its own.

*Server:*

- `IsValid` takes an absent entry for 0, so that a buffered rumor which depends on rumor 0 of a server never heard of counts as ready. It is taken out of the buffer, refused by the stricter `CheckRumor`, and lost (`mrumor/rumor.go:56`). Rumor states bring it back later.
- `Upsert` of a socket that is there already puts its id in the ring again (`state/sockets.go:105`), as a federation challenge does; servers that connect later are out of reach of `SendRumor` and `SendToRandom`, which choose among as many entries as there are sockets.
- The socket of a server that is gone stays in `Sockets`; its send channel fills up and who writes to it never returns, the hub included, so that reports of closed sockets are not processed (`network/socket/socket_impl.go:153`). This is the wait `SendWaits` of `HubPipeline`.
- `Shutdown` of a WebSocket server holds `closing` while it waits for its active handlers (`network/server.go:164`, `:169`), and each of them needs `closing` to go on (`:107`). A connection that is accepted when the shutdown begins makes both wait for ever; the comment above `Shutdown` says that it "signals the read and write pumps to close and waits for them to finish". `HandlersWaitForEver` proves that there is no way out; the context given to the HTTP server has no deadline.
- A connection that is lost after it was made is never dialled again (`cli/cli.go:226`): `connectedServers` is not reset. `EventuallyConnected` is about the first success.
- After a crash between storing a published message and adding it to the open rumor (`hpublish/publish.go:73`, `:91`) the message is in no rumor, and publishing it again is refused. `EventuallyProcessed` excludes it.
- A server with a vote that the organizer had not seen refuses the end for good (`helection/election.go:401`), while others accepted it; and a vote that arrives after the end at such a server is stored, although `src/docs/messageData.md` says "No new votes are accepted from now on." `EndSpreads` asks for the votes of all servers to be the registered ones.
- Votes and open messages are broadcast before they are stored (`helection/election.go:194`): after a crash in between a client knows a message its server does not.
- The heartbeat is sent with empty parameters (`hub/hub.go`, `sendHeartbeat`), so that it recovers nothing.
- An edit of the configuration file between its first reading and the start of the watcher is seen at the next edit only (`cli/cli.go:110`).

*Network layer of the frontend* (`core/network`):

- A retry timer that was armed before a connection was declared dead or disconnected makes it alive again (`NetworkConnection.ts:298`). The close event of a socket that was replaced while closing counts as a failed attempt of the next one.
- Two `connect` to one address before the first is made give two connections, and every call goes out twice (`NetworkManager.ts:130`).
- `isOnline` and `isFocused` are set only when they become false: coming back returns before (`NetworkManager.ts:47`), so that every later event of the kind reconnects again.
- A connection that recovered by its own retry does not run the reconnection handlers: its channels are not subscribed again.
- One server that fails makes the promise of the whole call fail. A publication sent again over a new socket is refused as known, and reported as an error, although the first copy was accepted.

*Features of the frontend* (`features`):

- The stale list of the watcher also lists a chirp twice (`ReturnScenario`); `ChirpsNewestFirst` allows it.
- Roll calls: a close that is handled before its LAO is known never becomes its last roll call; a close that leaves a user out keeps his token of the one before.
- Objects are compared by reference where their values are meant (`witness/WitnessHandler.ts`, checks of keys in lists), so that some conditions are never true after a restart.
- Elections: handlers ask neither for the sender nor for the status; of two votes with the same time the first received is kept.
- Social media: a reaction that comes before its chirp makes the list of top chirps throw; adding the chirp then resets its score; a chirp that was deleted before it arrived has the time of its deletion, so that it is out of order in the list that is commented "newest to oldest" (`SocialReducer.ts:18`), which is why `ChirpsNewestFirst` excludes it. A chirp that was deleted by another sender before it arrived is brought back by its message (`SocialReducer.ts:102`); a deletion by its own sender that came after the first one and before the chirp is ignored, so that the chirp is shown although its sender deleted it. The deletion of a reaction that comes before the reaction is lost.
- Digital cash: nobody checks that an output is spent once; who pays herself has the transaction listed twice.
- Linked organizations: the code that is shown may have an older challenge than the one that is expected; a scan of an organization that is linked already makes the effect throw; what was scanned is kept even when the server refuses the message that goes with it, and a challenge that is expected twice, of two organizations, links the one that was scanned first, whichever of them started (with three organizers); who organizes two LAOs may start from one a federation that is expected with the other, because the server compares keys and not LAOs (`hfederation/federation.go:368`), and the one that was expected is linked. Hence `LinkedByChallenge` does not say from which LAO the federation was started; results are looked at under the LAO that happens to be open; the tokens are sent after a fixed second, whether the other LAO was fetched or not.
- Witnessing: after a restart messages that were signed are asked for again, since the memory of the watcher is lost (the store keeps what is still to be witnessed).

## Limits of the models

- Signatures, hashes, encodings and the checks of the fields of single messages are taken as given, on both sides.
- `RumorGossip` leaves out what rumors carry and `RumorMessages` most of how they travel; the interface is causal order and eventual arrival, which the first shows and the second assumes. A rumor is assumed to hold fewer than ten messages that depend on one another per channel, the number of rounds after which the code gives up.
- `RumorGossip` has static links: a server that was dialled and crashes is connected again by those who dial it only if they restart, as in the code. The configuration allows two servers to list each other, and they then have two connections; the model has one.
- `RumorSockets` treats one call as atomic; the lock that makes it so is in `HubPipeline`, where the ring is a set.
- `HubPipeline` has one channel for subscriptions and no sockets dialled by the server itself, which differ in that nobody waits for them. The authentication server is left out.
- `ServerConnections` starts with the loop. `Election` has one question, and every voter is an attendee.
- `Fe1Network` has no clock: timers fire in any order, except where the code arms two of the same length one after the other. Messages on one socket are handled in any order, although a socket is first-in first-out; ids make the order matter little. There is one sending strategy, the one that is configured.
- `Fe1App` takes what `Fe1Network` shows as given: a device that is online receives what its channels hold, in any order and each message once (the message store drops copies), and a publication is accepted at once or not at all. Servers check messages against their schema, of which the model has what it asks of a transaction (`TransactionOK`): inputs, outputs, and no value below zero; the sums of values above 2^53, where numbers of the frontend become inexact, are not modelled. The servers are one log, which is what the gossip gives in the end; the order in which a device receives messages is what differs between servers. Token, vote and transaction ids are the things themselves. The time of a message is its place in the log; only the clock of a voter may be one behind, since `evoting` is the only feature that decides by the time of the device of another user.
- Between the moves of a scenario every interleaving is explored, but not every scenario has every kind of move: roll calls and elections do not interact except through attendees, nor do chirps, coins and federations.

## Not modelled and plan

Not modelled: the Scala backend and the Android frontend (other programs for the same protocol); schemas, cryptography, OpenID login, logging; the previous hub of the Go backend; tests, the demo and the end-to-end scripts; layout, wording and navigation of the screens of the frontend. Updates of a LAO (`update_properties`, `state`) have handlers on the frontend but no sender in the repository.

Next, in this order:

1. **LAO channel of the server**: create, open, reopen and close of roll calls with their chain of update ids, of which `Fe1App` has only what the server refuses; the subscribers added before the transaction (`hlao/lao.go:228`); the chain checked against the last message of the whole channel (`database/sqlite/lao.go:30`).
2. **Message tables, continued**: catchup, heartbeat with parameters and `get_messages_by_id` as actions of `RumorMessages`.
3. **Federation on the server**: the challenge with expiry, which is removed before what follows can fail (`hfederation/federation.go:373`), both LAOs and the dialled socket, feeding `Upsert` of `RumorSockets`; then `Matches` of `Fe1App` replaced by it.
4. **Queries, peers, greeting**: ids of pending queries are answered once; `greet_server` is sent before it is recorded as sent (`hgreetserver/greetserver.go:91`).
5. **Proofs**: the parts modelled by 1 to 4 with theirs.
