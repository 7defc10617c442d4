------------------------------- MODULE Fe1App -------------------------------
(***************************************************************************)
(* The web front-end: devices that run the application, each with its store, *)
(* and the log of the messages the servers accepted.                         *)
(*                                                                          *)
(* A device takes the messages of the channels it is subscribed to in any    *)
(* order: what a channel holds is fetched while new messages are broadcast,   *)
(* and several servers send both.  The user does what the screens offer.     *)
(* The servers are external: they refuse what src/be1-go and src/be2-scala   *)
(* refuse of what a device can send, and publish messages of their own.      *)
(***************************************************************************)
EXTENDS Fe1Ingestion

CONSTANTS Address,       \* where servers listen
          Scenarios,     \* what the devices start with, and how often each move is made
          Form,          \* what an organizer fills in for an election
          Amount,        \* numbers of coins
          Service        \* codes of services that ask for an authentication

VARIABLES store,         \* Device -> its redux store, and what its screens hold
          left           \* how often each move may still be made: a bound of the model

vars == <<log, store, left>>

\* The mnemonic of the n-th wallet a device was given.
Seed(d, n) == <<"seed", d, n>>

-----------------------------------------------------------------------------
(* A step of a device *)

Update(d, st) == store' = [store EXCEPT ![d] = Watchers(st)]
Spend(move) == left[move] > 0 /\ left' = [left EXCEPT ![move] = @ - 1]

Logged(kind) == {id \in DOMAIN log : log[id].kind = kind}
NextId == Len(log) + 1

-----------------------------------------------------------------------------
(* What the servers refuse.                                                  *)

\* The id a message of a roll call names is the last one of its chain.
Continues(m, id, kinds) ==
  /\ id \in DOMAIN log /\ log[id].kind \in kinds
  /\ \A other \in Logged("roll_call_open") \cup Logged("roll_call_reopen") : log[other].opens # id
  /\ \A other \in Logged("roll_call_close") : log[other].closes # id

\* The votes the server counts, which the message that ends an election repeats.
VotesInLog(e) ==
  FoldLeft(LAMBDA votes, id :
             IF log[id].kind = "cast_vote" /\ log[id].election = e
             THEN RegisterVote(votes, log[id].sender, RegisteredVote(log[id], id)) ELSE votes,
           NoFunction, [id \in DOMAIN log |-> id])

Phase(e) == {log[id].kind : id \in {i \in DOMAIN log :
               log[i].kind \in {"election_open", "election_end", "election_result"}
                 /\ LastPart(log[i].chan) = e}}

\* The messages about a roll call: each names one before it, up to the one that
\* creates it.
Names(m) == CASE m.kind \in {"roll_call_open", "roll_call_reopen"} -> m.opens
              [] m.kind = "roll_call_close" -> m.closes
              [] OTHER -> None
RollCallNamed(lg, x) ==
  LET named[id \in 1 .. Len(lg)] ==
        IF Names(lg[id]) \in 1 .. id - 1 THEN named[Names(lg[id])] ELSE id
  IN named[x]

\* Servers check messages against their schema: some inputs, and outputs whose values
\* are not negative.
TransactionOK(tx) ==
  /\ tx.inputs \in Seq(ToSet(tx.inputs)) \ {<<>>} /\ tx.outputs \in Seq(ToSet(tx.outputs)) \ {<<>>}
  /\ \A k \in DOMAIN tx.outputs : tx.outputs[k].value \in Nat

\* A federation that was started with a LAO is expected there: with the key of who
\* started it, and with the same challenge.  From which LAO it was started, and with
\* which one it is expected, is not compared.
Matches(lg, init, expect) ==
  /\ lg[init].kind = "federation_init" /\ lg[expect].kind = "federation_expect"
  /\ LaoOf(lg[expect]) = lg[init].lao /\ lg[expect].key = lg[init].sender
  /\ lg[init].challenge = lg[expect].challenge

\* What is in the log was refused by no server when it came, or a server has
\* made it.
MessageOK(lg, id) ==
  LET m == lg[id]
      before(x, kinds) == x \in 1 .. id - 1 /\ lg[x].kind \in kinds
  IN CASE m.kind = "roll_call_open" -> before(m.opens, {"roll_call_create"})
       [] m.kind = "roll_call_reopen" -> before(m.opens, {"roll_call_close"})
       [] m.kind = "roll_call_close" -> before(m.closes, {"roll_call_open", "roll_call_reopen"})
       [] m.kind = "cast_vote" -> m.at \in Nat
       [] m.kind = "chirp_delete" -> m.chirp \in 1 .. id - 1
       [] m.kind = "post_transaction" -> TransactionOK(m.transaction)
       [] m.kind = "challenge" ->
            \E r \in 1 .. id - 1 : /\ lg[r].kind = "challenge_request" /\ lg[r].chan = m.chan
                                  /\ m.challenge = <<"challenge", r>>
       [] m.kind = "federation_init" -> m.challenge # None
       [] m.kind = "federation_expect" ->
            \E c \in 1 .. id - 1 : /\ lg[c].kind = "challenge" /\ lg[c].chan = m.chan
                                  /\ lg[c].challenge = m.challenge
       [] m.kind = "federation_result" ->
            m.key # None => \E init, expect \in 1 .. id - 1 :
                              Matches(lg, init, expect) /\ lg[init].challenge = m.challenge
       [] OTHER -> TRUE
LogOK(lg) ==
  /\ lg \in Seq(ToSet(lg))
  /\ \A id \in DOMAIN lg :
       lg[id].kind \in RegisteredKind \cup {"lao_create"} /\ MessageOK(lg, id)

\* On the channel of a user for chirps no other user may write.  Who deletes a chirp
\* need not be who sent it, and the server does not look at what is deleted.
OwnsChannel(m) == LastPart(m.chan) = m.sender

ServerAccepts(m) ==
  CASE m.kind = "roll_call_open" -> Continues(m, m.opens, {"roll_call_create"})
    [] m.kind = "roll_call_reopen" -> Continues(m, m.opens, {"roll_call_close"})
    [] m.kind = "roll_call_close" -> Continues(m, m.closes, {"roll_call_open", "roll_call_reopen"})
    [] m.kind = "election_open" -> Phase(m.election) = {}
    [] m.kind = "cast_vote" -> Phase(m.election) = {"election_open"} /\ m.votes # {}
    [] m.kind = "election_end" ->
         /\ Phase(m.election) = {"election_open"}
         /\ m.registered = ComputeRegisteredVotesHash([votes |-> VotesInLog(m.election)])
    [] m.kind = "chirp_add" -> OwnsChannel(m)
    [] m.kind = "chirp_delete" -> OwnsChannel(m) /\ m.chirp \in DOMAIN log
    [] m.kind = "post_transaction" ->
         /\ TransactionOK(m.transaction)
         /\ \A id \in Logged("post_transaction") : log[id].transaction # m.transaction
    [] m.kind = "federation_expect" ->
         /\ \E c \in Logged("challenge") : log[c].chan = m.chan /\ log[c].challenge = m.challenge
         /\ \A r \in Logged("federation_result") : log[r].challenge # m.challenge
    [] OTHER -> TRUE

\* A message is published over an open connection; it is stored when it comes
\* back.
Publish(d, m) ==
  /\ store[d].online /\ m.sender # None /\ m.sender = SigningKey(store[d], m.kind)
  /\ ServerAccepts(m)
  /\ log' = Append(log, m)

Broadcast(m) == log' = Append(log, m) /\ UNCHANGED store

-----------------------------------------------------------------------------
(* Messages arrive.                                                          *)

\* Those that have signed the message: a greeting is signed by the organizer.
Signatures(m) ==
  IF m.kind = "lao_greet" THEN {{}, {m.frontend}} ELSE {{}}

ReceiveMessage(d, id) ==
  /\ log[id].chan \in store[d].subscribed
  /\ id \notin store[d].byId
  /\ log[id].kind = "lao_create" => store[d].current = None \/ id \notin DOMAIN store[d].laos
  /\ \E signatures \in Signatures(log[id]), a \in Address :
       Update(d, Receive(store[d], id, signatures, a))
  /\ UNCHANGED <<log, left>>

-----------------------------------------------------------------------------
(* What asynchronous functions go on with *)

TokenReady(d, task) ==
  /\ task.type = "token"
  /\ Update(d, AfterToken(store[d], task))
  /\ UNCHANGED <<log, left>>

LaoCaughtUpWith(d, task) ==
  /\ task.type = "connect" /\ task.lao \in DOMAIN store[d].laos
  /\ Update(d, AfterConnect(store[d], task))
  /\ UNCHANGED <<log, left>>

FetchLinked(d, task) ==
  /\ task.type = "fetch"
  /\ Update(d, FetchLinkedLao(store[d], task))
  /\ UNCHANGED <<log, left>>

\* Reading the last roll call of a LAO that has not come is an exception.
BroadcastTokens(d, task) ==
  /\ task.type = "broadcast"
  /\ IF CanBroadcastTokens(store[d], task.lao) /\ CurrentLao(store[d]) # None
     THEN Publish(d, TokensExchange(store[d], task.lao)) ELSE UNCHANGED log
  /\ Update(d, [store[d] EXCEPT !.tasks = @ \ {task}])
  /\ UNCHANGED left

PublishLater(d, task) ==
  /\ task.type = "publish" /\ Spend("witness")
  /\ Publish(d, task.message)
  /\ Update(d, [store[d] EXCEPT !.tasks = @ \ {task}])

RunTask(d, task) == \/ TokenReady(d, task) \/ LaoCaughtUpWith(d, task) \/ FetchLinked(d, task)
                    \/ BroadcastTokens(d, task) \/ PublishLater(d, task)

-----------------------------------------------------------------------------
(* The session *)

Become(d, move, st) == Spend(move) /\ Update(d, st) /\ UNCHANGED log

ChooseSeed(d) == /\ ~HasSeed(store[d])
                 /\ Become(d, "seed", SetWallet(store[d], Seed(d, store[d].keyPair)))
RestoreWallet(d) ==
  /\ ~HasSeed(store[d])
  /\ \E n \in 1 .. store[d].keyPair - 1 : Become(d, "seed", SetWallet(store[d], Seed(d, n)))
CreateLao(d, witnesses) ==
  /\ LaunchReady(store[d]) /\ Spend("lao")
  /\ log' = Append(log, CreateLaoMessage(store[d], NextId, witnesses))
  /\ Update(d, ConnectToLao(store[d], NextId))
ScanLao(d, l) == LaunchReady(store[d]) /\ Become(d, "scan", ConnectToLao(store[d], l))
PressLao(d, l) == /\ l \in HomeList(store[d])
                  /\ \/ Become(d, "press", ReconnectToLao(store[d], l))
                     \/ Become(d, "press", OpenLaoOffline(store[d], l))
LeaveLao(d) == LaoDrawer(store[d]) /\ Become(d, "leave", DisconnectFromLao(store[d]))
LoseConnection(d) == store[d].online /\ Become(d, "lose", LoseConnections(store[d]))
Reconnected(d) == /\ ~store[d].online /\ CurrentLao(store[d]) # None
                  /\ Become(d, "press", OnReconnected(store[d]))
ServerGivenUp(d) == store[d].current # None /\ Become(d, "lose", ConnectionDied(store[d]))
Restart(d) == Become(d, "restart", Ingest(Rehydrate(store[d])))
Logout(d) == LogoutReady(store[d]) /\ Become(d, "logout", ClearStorage(store[d]))

Session(d) ==
  \/ ChooseSeed(d) \/ RestoreWallet(d) \/ LeaveLao(d) \/ LoseConnection(d) \/ Reconnected(d) \/ ServerGivenUp(d)
  \/ Restart(d) \/ Logout(d)
  \/ \E witnesses \in {{}, {MyKey(store[d])}} : CreateLao(d, witnesses)
  \/ \E l \in Logged("lao_create") : ScanLao(d, l) \/ PressLao(d, l)

-----------------------------------------------------------------------------
(* What a user who has a LAO open does.                                      *)

Say(d, move, m) == Spend(move) /\ Publish(d, m) /\ UNCHANGED store

CreateRollCall(d) ==
  CanCreateRollCall(store[d]) /\ Say(d, "rollCall", CreateRollCallMessage(store[d]))
OpenRollCall(d, r) ==
  CanOpenRollCall(store[d], r) /\ Say(d, "rollCall", OpenRollCallMessage(store[d], r))
ReopenRollCall(d, r) ==
  CanReopenRollCall(store[d], r) /\ Say(d, "rollCall", ReopenRollCallMessage(store[d], r))
ScanAttendee(d, r, other) ==
  /\ CanScanAttendees(store[d], r)
  /\ \E token \in ShownToken(store[other], r) :
       /\ token \notin AllAttendees(store[d], r)
       /\ Become(d, "attendee", AddAttendeePopToken(store[d], r, token))
CloseRollCall(d, r) ==
  /\ CanScanAttendees(store[d], r) /\ Spend("rollCall")
  /\ Publish(d, CloseRollCallMessage(store[d], r))
  /\ Update(d, StopScanning(store[d], r))

RollCalls(d) ==
  \/ CreateRollCall(d)
  \/ \E r \in DOMAIN store[d].rollCalls :
       \/ OpenRollCall(d, r) \/ ReopenRollCall(d, r) \/ CloseRollCall(d, r)
       \/ \E other \in Device : ScanAttendee(d, r, other)

SetupElection(d, version, form) ==
  /\ CanCreateElection(store[d], form)
  /\ Say(d, "election", SetupElectionMessage(store[d], version, form))
OpenElection(d, e) ==
  CanOpenElection(store[d], e) /\ Say(d, "election", OpenElectionMessage(store[d], e))
\* A clock may be behind by one message.
CastVote(d, e, ballot, now) ==
  /\ CanCastVote(store[d], e)
  /\ Say(d, "vote", CastVoteMessage(store[d], e, ballot, now))
EndElection(d, e) ==
  CanTerminateElection(store[d], e) /\ Say(d, "election", EndElectionMessage(store[d], e))

Elections(d) ==
  \/ \E version \in ElectionVersion, form \in Form : SetupElection(d, version, form)
  \/ \E e \in DOMAIN store[d].elections :
       \/ OpenElection(d, e) \/ EndElection(d, e)
       \/ \E ballot \in Ballots(store[d], e), now \in {Len(log), NextId} :
            CastVote(d, e, ballot, now)

PostChirp(d, parent) == CanChirp(store[d]) /\ Say(d, "chirp", AddChirpMessage(store[d], parent))
RetractChirp(d, chirp) ==
  CanDeleteChirp(store[d], chirp) /\ Say(d, "chirp", DeleteChirpMessage(store[d], chirp))
React(d, chirp, codepoint) ==
  /\ CanReact(store[d], chirp) /\ store[d].online /\ Spend("react")
  /\ log' = log \o ReactionPressed(store[d], chirp, codepoint)
  /\ UNCHANGED store

SocialMedia(d) ==
  \/ PostChirp(d, None)
  \/ \E chirp \in Logged("chirp_add") :
       \/ RetractChirp(d, chirp)
       \/ \E codepoint \in Codepoint : React(d, chirp, codepoint)

IssueCoins(d, to, amount) ==
  CanIssue(store[d]) /\ Say(d, "coins", RequestCoinbaseTransaction(store[d], to, amount))
SendCoins(d, r, to, amount) ==
  /\ CanSend(store[d], r, amount)
  /\ Say(d, "coins", RequestSendTransaction(store[d], r, to, amount))

ScannedTokens(d) == UNION {CashCodes(store[other]) : other \in Device \ {d}}

DigitalCash(d) ==
  \E amount \in Amount :
    \/ /\ CashScreen(store[d])
       /\ \E to \in CoinbaseBeneficiaries(store[d]) \cup {{a} : a \in ScannedTokens(d)} :
            IssueCoins(d, to, amount)
    \/ \E r \in DOMAIN store[d].rollCalls :
         \E to \in Beneficiaries(store[d], r) \cup ScannedTokens(d) : SendCoins(d, r, to, amount)

-----------------------------------------------------------------------------
(* What organizers do with each other *)

AskChallenge(d) ==
  /\ CanAddLinkedOrganization(store[d])
  /\ Say(d, "federation", RequestChallenge(store[d]))
\* Each scans the code the other one shows.  Who answers keeps it even when the
\* server does not get, or refuses, the message.
ScanInitiator(d, other) ==
  LET code == InitiatorCode(store[other])
      expect == OnFederationExpect(store[d], code)
  IN /\ CanAddLinkedOrganization(store[d]) /\ CanAddLinkedOrganization(store[other])
     /\ WellFormedCode(code) /\ expect.ok
     /\ Spend("federation")
     /\ Publish(d, ExpectFederation(store[d], code)) \/ UNCHANGED log
     /\ Update(d, expect.st)
ScanResponder(d, other) ==
  /\ CanAddLinkedOrganization(store[d]) /\ CanAddLinkedOrganization(store[other])
  /\ \E code \in ResponderCodes(store[other]) \cup {InitiatorCode(store[other])} :
       /\ WellFormedCode(code) /\ OnInitiatorScan(store[d], code).ok
       /\ Become(d, "federation", OnInitiatorScan(store[d], code).st)
EnterResponder(d, other) ==
  /\ CanAddLinkedOrganization(store[d]) /\ CanAddLinkedOrganization(store[other])
  /\ \E code \in ResponderCodes(store[other]) :
       /\ CompleteInput(code, TRUE) /\ OnInitiatorScan(store[d], code).ok
       /\ Become(d, "federation", OnInitiatorScan(store[d], code).st)
StartFederation(d) ==
  LET scanned == ScannedOf(store[d], store[d].current)
  IN /\ CanAddLinkedOrganization(store[d]) /\ scanned # <<>>
     /\ Last(scanned).challenge # None
     /\ Say(d, "federation", InitFederation(store[d], Last(scanned)))
LinkScanned(d) ==
  /\ LinkOrganizations(store[d]) # store[d]
  /\ Update(d, LinkOrganizations(store[d]))
  /\ UNCHANGED <<log, left>>

Organizations(d) ==
  \/ AskChallenge(d) \/ StartFederation(d) \/ LinkScanned(d)
  \/ \E other \in Device \ {d} : ScanInitiator(d, other) \/ ScanResponder(d, other)
                                   \/ EnterResponder(d, other)

-----------------------------------------------------------------------------
(* Meetings, notifications, authentication *)

CreateMeeting(d, start, end) ==
  /\ CanCreateMeeting(store[d]) /\ ConfirmEvent(start, end, NextId)
  /\ Say(d, "meeting", CreateMeetingMessage(store[d], start, end, NextId))
Witness(d, n) == CanWitness(store[d], n) /\ Become(d, "notification", OnWitness(store[d], n))
Decline(d, n) == CanWitness(store[d], n) /\ Become(d, "notification", OnDecline(store[d], n))
Clear(d) == /\ ShownNotifications(store[d]) # {}
            /\ Become(d, "notification", ClearNotifications(store[d]))
Authenticate(d, code) ==
  CanAuthenticate(store[d], code) /\ Say(d, "popcha", PopchaAuthMessage(store[d], code))

Others(d) ==
  \/ CreateMeeting(d, Len(log), NextId) \/ Clear(d)
  \/ \E n \in ShownNotifications(store[d]) : Witness(d, n) \/ Decline(d, n)
  \/ \E code \in Service : Authenticate(d, code)

-----------------------------------------------------------------------------
(* What the servers say of their own accord.                                 *)

Greeting(l, a) ==
  /\ Spend("greet")
  /\ Broadcast([kind |-> "lao_greet", chan |-> LaoChannel(l), sender |-> BackendKey(a), lao |-> l,
                frontend |-> log[l].organizer, address |-> a])

GiveElectionKey(e, a) ==
  /\ log[e].version = "secret ballot" /\ Spend("server")
  /\ Broadcast([kind |-> "election_key", chan |-> ElectionChannel(LaoOf(log[e]), e),
                sender |-> BackendKey(a), election |-> e, key |-> <<"election key", e>>])

CountVotes(e, a) ==
  /\ Phase(e) = {"election_open", "election_end"} /\ Spend("server")
  /\ Broadcast([kind |-> "election_result", chan |-> ElectionChannel(LaoOf(log[e]), e),
                sender |-> BackendKey(a),
                questions |-> ComputeRegisteredVotesHash([votes |-> VotesInLog(e)])])

ChallengeFor(request, chan, a) ==
  [kind |-> "challenge", chan |-> chan, sender |-> BackendKey(a),
   challenge |-> <<"challenge", request>>]
GiveChallenge(id, a) ==
  /\ \A c \in Logged("challenge") : log[c].challenge # <<"challenge", id>>
  /\ Broadcast(ChallengeFor(id, log[id].chan, a))
  /\ UNCHANGED left

FederationResult(l, challenge, key, a) ==
  [kind |-> "federation_result", chan |-> FederationChannel(l), sender |-> BackendKey(a),
   challenge |-> challenge, key |-> key]
\* The challenge of a federation reaches the LAO it was started with: the newest one
\* that expects it gives its result, once, since the challenge is removed, for the LAO
\* where it was expected and for the one it was expected with.  The server of the
\* latter may refuse the result, or never get it.
Federate(init, a) ==
  LET c == log[init].challenge
      expecting == {e \in Logged("federation_expect") : Matches(log, init, e)}
      expect == Max(expecting)
      result(l) == FederationResult(l, c, log[expect].key, a)
  IN /\ expecting # {}
     /\ \A r \in Logged("federation_result") : log[r].challenge = c => log[r].key = None
     /\ log' \in {log \o <<result(log[init].lao)>>,
                  log \o <<result(log[init].lao), result(log[expect].lao)>>}
     /\ UNCHANGED <<store, left>>
\* A server that keeps the last expectation of a LAO only (be2-scala) says that it has
\* failed when its challenge is another one; the other server refuses this result.
Mismatch(init, a) ==
  LET expected == {e \in Logged("federation_expect") : LaoOf(log[e]) = log[init].lao}
      expect == Max(expected)
  IN /\ expected # {} /\ Spend("server")
     /\ log[expect].key = log[init].sender /\ log[expect].challenge # log[init].challenge
     /\ Broadcast(FederationResult(log[init].lao, log[expect].challenge, None, a))

MeetingState(id, a) ==
  /\ Spend("server")
  /\ Broadcast([kind |-> "meeting_state", chan |-> log[id].chan, sender |-> BackendKey(a),
                meeting |-> id, created |-> log[id].created, start |-> log[id].start,
                end |-> log[id].end, modified |-> NextId,
                signers |-> log[LaoOf(log[id])].witnesses])

Servers ==
  \E a \in Address :
    \/ \E l \in Logged("lao_create") : Greeting(l, a)
    \/ \E e \in Logged("election_setup") : GiveElectionKey(e, a) \/ CountVotes(e, a)
    \/ \E id \in Logged("challenge_request") : GiveChallenge(id, a)
    \/ \E init \in Logged("federation_init") : Federate(init, a) \/ Mismatch(init, a)
    \/ \E id \in Logged("meeting_create") : MeetingState(id, a)

-----------------------------------------------------------------------------
(* A scenario: the messages of the log, the wallets that have a seed, the LAO *)
(* each device has scanned, and the messages it has received, in order, with  *)
(* what they led to done.                                                     *)

GoOn(st, task) ==
  CASE task.type = "token" -> AfterToken(st, task)
    [] task.type = "connect" /\ task.lao \in DOMAIN st.laos -> AfterConnect(st, task)
    [] OTHER -> st
Tasks(st) ==
  LET list == SetToSeq(st.tasks)
  IN Repeat(Len(list), st, LAMBDA s, k : GoOn(s, list[k]))

Started(d, scenario, a) ==
  LET scanned == IF d \in DOMAIN scenario.lao
                 THEN ConnectToLao(SetWallet(InitialStore(d), Seed(d, 1)), scenario.lao[d])
                 ELSE InitialStore(d)
      received == AtKey(scenario.received, d, <<>>)
  IN Repeat(Len(received), scanned,
            LAMBDA st, k : Watchers(Tasks(Receive(st, received[k], {}, a))))

\* The messages of a scenario are in an order in which the servers accept them.
ASSUME ScenariosAssumption ==
  \A scenario \in Scenarios :
    /\ LogOK(scenario.log)
    /\ \A d \in Device : AtKey(scenario.received, d, <<>>) \in Seq(DOMAIN scenario.log)

Init ==
  \E scenario \in Scenarios :
    /\ log = scenario.log
    /\ left = scenario.left
    /\ \E a \in Address : store = [d \in Device |-> Started(d, scenario, a)]

Use(d) == \/ \E id \in DOMAIN log : ReceiveMessage(d, id)
          \/ \E task \in store[d].tasks : RunTask(d, task)
          \/ Session(d)
          \/ CurrentLao(store[d]) # None
               /\ (RollCalls(d) \/ Elections(d) \/ SocialMedia(d) \/ DigitalCash(d)
                     \/ Organizations(d) \/ Others(d))

Next == (\E d \in Device : Use(d)) \/ Servers

Spec == Init /\ [][Next]_vars

-----------------------------------------------------------------------------
(* Properties *)

Processed(st) == st.byId \ ToSet(st.unprocessed)

\* What is stored was accepted, and every event is a roll call, an election or a
\* meeting that is stored, too.
StoresOK ==
  \A d \in Device :
    LET st == store[d]
    IN /\ st.byId \subseteq DOMAIN log /\ DOMAIN st.signatures = st.byId
       /\ ToSet(st.unprocessed) \subseteq st.byId
       /\ st.current \in DOMAIN st.laos \cup {None}
       /\ DOMAIN st.events = DOMAIN st.rollCalls \cup DOMAIN st.elections \cup DOMAIN st.meetings
       /\ \A r \in DOMAIN st.rollCalls : /\ st.rollCalls[r].status \in RollCallStatus
                                         /\ WellFormedRollCall(st.rollCalls[r])
       /\ \A e \in DOMAIN st.elections : st.elections[e].status \in ElectionStatus

\* The index of aliases, by which messages find the roll call they are about, has
\* the alias of every roll call and no other: an alias a roll call had before
\* finds nothing (RollCallReducer).
AliasesNameRollCalls ==
  \A d \in Device :
    LET st == store[d]
    IN st.byAlias = [x \in {st.rollCalls[r].alias : r \in DOMAIN st.rollCalls} \ {None} |->
                       CHOOSE r \in DOMAIN st.rollCalls : st.rollCalls[r].alias = x]

\* A roll call is what the last processed message of its chain makes of it, as
\* docs/messageData.md says of the messages that open and close it: its status, and
\* those who attended.
StatusAfter(kind) == CASE kind = "roll_call_open" -> "opened"
                       [] kind = "roll_call_close" -> "closed"
                       [] kind = "roll_call_reopen" -> "reopened"
                       [] OTHER -> "created"
AttendeesAfter(id) ==
  CASE log[id].kind = "roll_call_close" -> log[id].attendees
    [] log[id].kind = "roll_call_reopen" -> log[log[id].opens].attendees
    [] OTHER -> {}
Updates(r, id) == Names(log[id]) # None /\ RollCallNamed(log, id) = r
ShowsTheLast(st, r) ==
  LET last == Max({id \in Processed(st) : id = r \/ Updates(r, id)})
  IN /\ st.rollCalls[r].status = StatusAfter(log[last].kind)
     /\ st.rollCalls[r].attendees = AttendeesAfter(last)

RollCallsFollowTheirMessages ==
  \A d \in Device : \A r \in DOMAIN store[d].rollCalls : ShowsTheLast(store[d], r)

\* A roll call is kept so by every step, in whatever order its messages come and
\* however many of them wait for each other: unless a message that had waited and
\* does not update it, such as the one that creates it, is handled in the same step,
\* which is what makes the watcher hand on messages again from a list that is stale.
Waiting(st) == ToSet(st.unprocessed)
HandlesOnlyUpdates(d, r) ==
  \A id \in Waiting(store[d]) \ Waiting(store'[d]) : Updates(r, id)
RollCallsKeepUp ==
  [][\A d \in {e \in Device : store'[e] # store[e]} : \A r \in DOMAIN store'[d].rollCalls :
       HandlesOnlyUpdates(d, r) /\ (r \in DOMAIN store[d].rollCalls => ShowsTheLast(store[d], r))
         => ShowsTheLast(store[d], r)']_vars

\* A roll call was given its state by a processed message of its own chain, the one
\* whose id is its alias: as it was created only while no other message about it was
\* processed, closed with the attendees of the message that closed it, reopened with
\* those of the one before.  And no message is processed before the one it names, in
\* whatever order they came and however often they are handled.
RollCallsAreAsSaid ==
  \A d \in Device :
    LET st == store[d]
    IN /\ \A id \in Processed(st) : Names(log[id]) # None => Names(log[id]) \in Processed(st)
       /\ \A r \in DOMAIN st.rollCalls :
            LET rc == st.rollCalls[r]
                x == rc.alias
                about == {id \in Processed(st) : RollCallNamed(log, id) = r}
            IN IF x = None
               THEN about = {r} /\ rc.status = "created" /\ rc.attendees = {}
               ELSE /\ x \in about
                    /\ rc.status = StatusAfter(log[x].kind)
                    /\ rc.status = "closed" => rc.attendees = log[x].attendees
                    /\ rc.status = "reopened" => rc.attendees = log[log[x].opens].attendees

\* Of the votes of a voter that were processed, one that no other is later than
\* is registered, in whatever order they came: with it the organizer proves what
\* was counted.
LatestVoteIsRegistered ==
  \A d \in Device : \A e \in DOMAIN store[d].elections :
    LET cast == {id \in Processed(store[d]) : log[id].kind = "cast_vote" /\ log[id].election = e}
        votes == store[d].elections[e].votes
    IN /\ DOMAIN votes = {log[id].sender : id \in cast}
       /\ \A id \in cast : votes[log[id].sender].at >= log[id].at

\* A chirp that is marked as deleted by its sender is never shown again, even when its
\* message comes after the one that deletes it, or is handled again.  One that another
\* sender deleted before it came is brought back by its message, under the name of its
\* sender: as this is not undone, at most once (SocialReducer).  Between the two the
\* deletion by its sender is ignored, so it marks nothing.
DeletedChirpStaysDeleted ==
  [][\A d \in Device : \A l \in DOMAIN store[d].social :
       LET old == SocialOf(store[d], l).byId
           new == SocialOf(store'[d], l).byId
       IN l \in DOMAIN store'[d].social =>
            \A c \in DOMAIN old : old[c].deleted =>
              /\ c \in DOMAIN new
              /\ \/ new[c].deleted
                 \/ old[c].sender # log[c].sender /\ new[c].sender = log[c].sender]_vars

\* Nobody's reaction of a kind is counted twice, however often the button was
\* pressed before the first came back, and what is counted is stored
\* (SocialReducer).
ReactionsCountOnce ==
  \A d \in Device : \A l \in DOMAIN store[d].social :
    LET st == store[d]
        social == SocialOf(st, l)
        senders(c, kind) == {social.reactions[r].sender : r \in
          {s \in social.reactionsOf[c] : social.reactions[s].codepoint = kind}}
    IN \A c \in DOMAIN social.reactionsOf :
         /\ social.reactionsOf[c] \subseteq DOMAIN social.reactions
         /\ \A kind \in Codepoint : ReactionCount(st, l, c, kind) = Cardinality(senders(c, kind))

\* The chirps that were processed are listed and no others, and the lists are from the
\* newest to the oldest, in whatever order chirps came, while none of them has the time
\* of its deletion: one its sender deleted before it came (SocialReducer).  (Not
\* each once: one that is handled again is listed again.)
NewestFirst(list) == \A i, j \in DOMAIN list : i < j => list[i] >= list[j]
ChirpsNewestFirst ==
  \A d \in Device :
    LET st == store[d]
        listed(l) == ToSet(SocialOf(st, l).order)
    IN /\ UNION {listed(l) : l \in DOMAIN st.social}
            = {id \in Processed(st) : log[id].kind = "chirp_add"}
       /\ \A l \in DOMAIN st.social :
            LET social == SocialOf(st, l)
            IN (\A c \in listed(l) : social.byId[c].time = c) =>
                 /\ NewestFirst(social.order)
                 /\ \A user \in DOMAIN social.byUser :
                      /\ NewestFirst(social.byUser[user])
                      /\ ToSet(social.byUser[user]) = {c \in listed(l) : log[c].sender = user}

\* What a wallet makes of its coins passes the check every device makes of a
\* transaction: the balance shown never exceeds the outputs that are signed.
OwnTransactionsAreValid ==
  \A d \in Device : \A l \in DOMAIN store[d].cash : \A key \in DOMAIN CashOf(store[d], l).balances :
    LET st == store[d]
        tx == CreateTransaction(st, l, key, key, Balance(st, l, key))
    IN tx.inputs # <<>> =>
         CheckTransactionValidity(tx, st.laos[l].organizer, TransactionsById(st, l))

\* When a transaction spends coins of a key, all outputs to that key of the
\* transactions before it are spent: this is what the reducer relies on when it
\* sets the balance of the key to zero (DigitalCashReducer).
AllInputsAreUsed ==
  \A d \in Device : \A l \in DOMAIN store[d].cash :
    LET known == TransactionsById(store[d], l)
        order == Transactions(store[d], l)
        spentBy(n) == UNION {ToSet(known[order[k]].inputs) : k \in 1 .. n}
    IN \A n \in DOMAIN order : ~IsCoinbase(known[order[n]]) =>
         \A k \in 1 .. n - 1 :
           ToSet(OutputsTo(known, order[k], known[order[n]].from)) \subseteq spentBy(n)

\* A LAO is linked to another one only with a challenge that the server of one of
\* the two gave out, and with which a federation was expected there and started by
\* the organizer who was expected.  (Not always from the LAO that is linked: who
\* organizes two may start it from either, and a challenge expected twice links the
\* one scanned first.)
LinkedByChallenge ==
  \A d \in Device : \A l \in DOMAIN store[d].linked : \A org \in LinkedOf(store[d], l) :
    \E init, expect \in DOMAIN log :
      /\ Matches(log, init, expect) /\ log[init].challenge = org.challenge
      /\ LaoOf(log[expect]) \in {l, org.lao}

\* Every message to witness is asked for by one notification, and every
\* notification is about a message to witness; the number of unread ones that is
\* shown is right.
AskedOnce ==
  \A d \in Device :
    LET st == store[d]
        kept == UNION {{l} \X DOMAIN st.notifications[l].byId : l \in DOMAIN st.notifications}
        about(p) == st.notifications[p[1]].byId[p[2]].message
    IN /\ {about(p) : p \in kept} = st.toWitness
       /\ \A p, q \in kept : about(p) = about(q) => p = q
       /\ \A l \in DOMAIN st.notifications :
            UnreadCount(st, l) = Cardinality({p \in kept : p[1] = l /\ ~st.notifications[l].byId[p[2]].read})
=============================================================================
