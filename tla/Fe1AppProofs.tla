---------------------------- MODULE Fe1AppProofs ----------------------------
(***************************************************************************)
(* What the stores of the devices hold whatever messages come, in whatever   *)
(* order, whatever the users do and however often the application is         *)
(* restarted: for any number of devices, messages, LAOs, events,             *)
(* notifications and moves.                                                  *)
(*                                                                           *)
(* AppOK is inductive.  Of the log it says that no message names a later     *)
(* one; of a store, StoreOK relates the slices the handlers write to the     *)
(* messages that were processed, AskedOK relates the notifications to the    *)
(* messages to witness, and SessionOK is about the LAO that is open.         *)
(* Handlers are treated first: each leaves most slices alone (Untouched),    *)
(* and keeps EventsOK, VotesOK, RollCallsOK and SocialOK when its message is *)
(* added to those that were processed; so does the watcher that handles them *)
(* again and again (Ingested).  Everything else a device does leaves what    *)
(* was processed as it is (Moved).                                           *)
(***************************************************************************)
EXTENDS Fe1App, SequenceTheorems, FiniteSetTheorems, WellFoundedInduction, TLAPS

-----------------------------------------------------------------------------
(* Loops.  A loop of the model is a function that Repeat chooses, and tlapm  *)
(* cannot take its step as a parameter: LoopStep names the steps of the      *)
(* loops there are, and every loop is one of them.                           *)

\* What holds of 0 and of the next of every number it holds of, holds of all.
LEMMA NatInduct ==
  ASSUME NEW Q, 0 \in Q, \A n \in Nat : n \in Q => n + 1 \in Q
  PROVE  \A n \in Nat : n \in Q
<1> SUFFICES ASSUME Nat \ Q # {} PROVE FALSE
  OBVIOUS
<1>1. PICK x \in Nat \ Q : ~ \E y \in Nat \ Q : <<y, x>> \in OpToRel(<, Nat)
  BY WFMin, NatLessThanWellFounded
<1>2. x # 0
  OBVIOUS
<1>3. x - 1 \in Nat /\ <<x - 1, x>> \in OpToRel(<, Nat)
  BY <1>2 DEF OpToRel
<1>4. x - 1 \in Q
  BY <1>1, <1>3
<1>5. (x - 1) + 1 \in Q
  BY <1>3, <1>4
<1>6. (x - 1) + 1 = x
  OBVIOUS
<1> QED  BY <1>5, <1>6

GreetStep(ready, s, k) == IF k \in ready THEN StoreBackendAndConnectToPeers(s, k, log[k]) ELSE s
AskStep(mine, s, k) == IF k \in mine THEN AfterMessageProcessing(s, k) ELSE s

\* The k-th step of each of the loops, from s.
LoopStep(loop, s, k) ==
  CASE loop.of = "greet" -> GreetStep(loop.ready, s, k)
    [] loop.of = "ask" -> AskStep(loop.mine, s, k)
    [] loop.of = "link" -> MatchResult(loop.captured, loop.lao, s, loop.results[k])
    [] loop.of = "scanned" -> IF loop.old[k].lao = loop.lao THEN s ELSE Append(s, loop.old[k])
    [] loop.of = "tasks" -> GoOn(s, loop.list[k])
    [] loop.of = "start" -> Watchers(Tasks(Receive(s, loop.received[k], {}, loop.address)))
    [] loop.of = "ingest" -> HandleNext(s, k)
    [] loop.of = "total" -> s + loop.values[k]
    [] loop.of = "spend" -> SpendInput(s, loop.tx.from, loop.tx.inputs[k], loop.id)
    [] loop.of = "receive" -> ReceiveOutput(s, loop.tx.outputs[k], loop.id)
    [] loop.of = "mine" -> IF loop.outputs[k].to = loop.key THEN Append(s, Input(loop.id, k)) ELSE s
    [] loop.of = "inputs" -> s \o OutputsTo(loop.known, loop.ids[k], loop.key)

\* What there is after each of the n steps of a loop.
IsLoop(f, loop, first, n) ==
  f = [k \in 0 .. n |-> IF k = 0 THEN first ELSE LoopStep(loop, f[k - 1], k)]

\* Whatever the steps do, there is such a function: what Repeat chooses has the
\* values of a loop.
LEMMA LoopExists ==
  ASSUME NEW loop, NEW first, NEW n \in Nat
  PROVE  \E f : IsLoop(f, loop, first, n)
<1> DEFINE Q == {m \in Nat : \E f : IsLoop(f, loop, first, m)}
<1>1. 0 \in Q
  <2> DEFINE f == [k \in 0 .. 0 |-> first]
  <2>1. IsLoop(f, loop, first, 0)
    BY DEF IsLoop
  <2> QED  BY <2>1
<1>2. ASSUME NEW m \in Nat, m \in Q PROVE m + 1 \in Q
  <2>1. PICK f : IsLoop(f, loop, first, m)
    BY <1>2
  <2> DEFINE g == [k \in 0 .. m + 1 |-> IF k <= m THEN f[k] ELSE LoopStep(loop, f[m], k)]
  <2>2. ASSUME NEW k \in 0 .. m + 1
        PROVE  g[k] = IF k = 0 THEN first ELSE LoopStep(loop, g[k - 1], k)
    <3>1. CASE k <= m
      <4>1. g[k] = f[k] /\ k \in 0 .. m /\ (k # 0 => g[k - 1] = f[k - 1])
        BY <3>1
      <4> QED  BY <2>1, <4>1 DEF IsLoop
    <3>2. CASE k = m + 1
      <4>1. k # 0 /\ k - 1 = m /\ g[k - 1] = f[m] /\ g[k] = LoopStep(loop, f[m], k)
        BY <3>2
      <4> QED  BY <4>1
    <3> QED  BY <3>1, <3>2
  <2>3. IsLoop(g, loop, first, m + 1)
    BY <2>2 DEF IsLoop
  <2>4. \E h : IsLoop(h, loop, first, m + 1)
    BY <2>3
  <2> QED  BY <2>4
<1>3. n \in Q
  BY <1>1, <1>2, NatInduct
<1> QED  BY <1>3

\* A loop begins with what is there first, and goes on step by step.
LEMMA LoopFacts ==
  ASSUME NEW f, NEW loop, NEW first, NEW n \in Nat, IsLoop(f, loop, first, n)
  PROVE  f[0] = first /\ \A k \in 0 .. n - 1 : f[k + 1] = LoopStep(loop, f[k], k + 1)
<1>1. \A k \in 0 .. n : f[k] = IF k = 0 THEN first ELSE LoopStep(loop, f[k - 1], k)
  BY DEF IsLoop
<1>2. ASSUME NEW k \in 0 .. n - 1 PROVE f[k + 1] = LoopStep(loop, f[k], k + 1)
  <2>1. k + 1 \in 0 .. n /\ k + 1 # 0 /\ (k + 1) - 1 = k
    OBVIOUS
  <2>2. f[k + 1] = LoopStep(loop, f[(k + 1) - 1], k + 1)
    BY <1>1, <2>1
  <2> QED  BY <2>1, <2>2
<1> QED  BY <1>1, <1>2

\* What a loop keeps holds at its end.
LEMMA LoopKeeps ==
  ASSUME NEW n \in Nat, NEW Q, 0 \in Q, \A k \in 0 .. n - 1 : k \in Q => k + 1 \in Q
  PROVE  n \in Q
<1> DEFINE R == {k \in Nat : k <= n => k \in Q}
<1>1. 0 \in R /\ \A k \in Nat : k \in R => k + 1 \in R
  OBVIOUS
<1>2. n \in R
  <2> HIDE DEF R
  <2> QED  BY <1>1, NatInduct
<1> QED  BY <1>2

\* The run of the watcher of messages, as Ingest takes it.
Ran(st) ==
  CHOOSE g : g = [k \in 0 .. (Len(st.unprocessed) * (Len(st.unprocessed) + 1)) \div 2 |->
                    IF k = 0 THEN [st |-> st, list |-> st.unprocessed]
                    ELSE HandleNext(g[k - 1], k)]

\* Its steps are those of HandleNext.
LEMMA IngestRuns ==
  ASSUME NEW st, Len(st.unprocessed) \in Nat
  PROVE  LET steps == (Len(st.unprocessed) * (Len(st.unprocessed) + 1)) \div 2
         IN  /\ steps \in Nat
             /\ Ran(st)[0] = [st |-> st, list |-> st.unprocessed]
             /\ \A k \in 1 .. steps : Ran(st)[k] = HandleNext(Ran(st)[k - 1], k)
             /\ Ingest(st) = Ran(st)[steps].st
<1> DEFINE n == Len(st.unprocessed)
           steps == (n * (n + 1)) \div 2
           loop == [of |-> "ingest"]
           first == [st |-> st, list |-> st.unprocessed]
           Body(g) == [k \in 0 .. steps |-> IF k = 0 THEN first ELSE HandleNext(g[k - 1], k)]
<1>1. steps \in Nat
  <2>1. \A x \in Nat : x \div 2 \in Nat
    OBVIOUS
  <2>2. n * (n + 1) \in Nat
    OBVIOUS
  <2> QED  BY <2>1, <2>2
<1>2. Ingest(st) = Ran(st)[steps].st
  BY DEF Ingest, Repeat, Ran
<1>3. Ran(st) = CHOOSE g : g = Body(g)
  BY DEF Ran
<1> HIDE DEF steps, first
<1>4. PICK f : IsLoop(f, loop, first, steps)
  BY <1>1, LoopExists
<1>5. f = Body(f)
  BY <1>4 DEF IsLoop, LoopStep
<1>6. Ran(st) = Body(Ran(st))
  <2>1. \E g : g = Body(g)
    BY <1>5
  <2> HIDE DEF Body
  <2> QED  BY <1>3, <2>1
<1>7. Ran(st)[0] = first
  BY <1>1, <1>6
<1>8. ASSUME NEW k \in 1 .. steps PROVE Ran(st)[k] = HandleNext(Ran(st)[k - 1], k)
  BY <1>1, <1>6
<1> QED  BY <1>1, <1>2, <1>7, <1>8 DEF steps, first
-----------------------------------------------------------------------------
(* What the handlers leave alone                                             *)

Slices ==
  {"dev", "keyPair", "seed", "laos", "current", "connected", "servers", "greets", "byId",
   "unprocessed", "signatures", "events", "rollCalls", "byAlias", "meetings", "elections",
   "electionKeys", "toWitness", "notifications", "watched", "postponed", "social", "cash",
   "challenge", "results", "scanned", "linked", "linkedLaos", "scanning", "tasks", "online",
   "subscribed"}

IsList(s) == s \in Seq(ToSet(s))

\* A server gave this challenge to a LAO.
Issued(lg, l, c) ==
  \E x \in DOMAIN lg : lg[x].kind = "challenge" /\ LaoOf(lg[x]) = l /\ lg[x].challenge = c
\* A federation was started and expected with this challenge, by who was expected.
Federated(lg, c) ==
  \E init, expect \in DOMAIN lg : Matches(lg, init, expect) /\ lg[init].challenge = c
\* What is kept of a code that was scanned has no challenge, that of the LAO
\* that scanned, or that of the LAO that showed it.
FromCode(lg, l, org) ==
  org.challenge = None \/ Issued(lg, l, org.challenge) \/ Issued(lg, org.lao, org.challenge)
\* Two organizations were linked as they may be.
Agreed(lg, l, org) ==
  \E init, expect \in DOMAIN lg :
    /\ Matches(lg, init, expect) /\ lg[init].challenge = org.challenge
    /\ LaoOf(lg[expect]) \in {l, org.lao}

\* Challenges, codes, results and links of a store, each of them for a LAO.
ChallengesOK(lg, challenge) == \A l \in DOMAIN challenge : Issued(lg, l, challenge[l])
ScannedOK(lg, scanned) ==
  \A l \in DOMAIN scanned :
    IsList(scanned[l]) /\ \A org \in ToSet(scanned[l]) : FromCode(lg, l, org)
AnswersOK(lg, results) ==
  \A l \in DOMAIN results :
    /\ IsList(results[l])
    /\ \A result \in ToSet(results[l]) : result.key # None => Federated(lg, result.challenge)
LinkedOK(lg, linked) == \A l \in DOMAIN linked : \A org \in linked[l] : Agreed(lg, l, org)
LinksOK(lg, st) ==
  /\ ChallengesOK(lg, st.challenge) /\ ScannedOK(lg, st.scanned)
  /\ AnswersOK(lg, st.results) /\ LinkedOK(lg, st.linked)
\* The slices of the feature are those there were.
SameLinks(s, t) ==
  /\ t.challenge = s.challenge /\ t.scanned = s.scanned
  /\ t.results = s.results /\ t.linked = s.linked

\* What waits to be published are signatures of witnesses.
TasksOK(st) == /\ IsFiniteSet(st.tasks)
               /\ \A task \in st.tasks : task.type = "publish" => task.message.kind = "witness"

RollCallKind == {"roll_call_create", "roll_call_open", "roll_call_close", "roll_call_reopen"}
ElectionKind == {"election_setup", "election_open", "cast_vote", "election_end", "election_result"}
MeetingKind == {"meeting_create", "meeting_state"}
SocialKind == {"chirp_add", "chirp_delete", "reaction_add", "reaction_delete"}

\* Only the slices that are named differ.
Only(st, t, changed) == DOMAIN t = Slices /\ \A f \in Slices \ changed : t[f] = st[f]

\* What no handler of a kind of message writes: the reducers of ingestion, of
\* roll calls, of elections, of meetings, of events, of social media, and so
\* on, write their own slices.
Spared(kind) ==
  {"byId", "unprocessed", "signatures", "current", "notifications", "toWitness"}
    \cup (IF kind \in RollCallKind THEN {} ELSE {"rollCalls", "byAlias"})
    \cup (IF kind \in ElectionKind THEN {} ELSE {"elections"})
    \cup (IF kind \in MeetingKind THEN {} ELSE {"meetings"})
    \cup (IF kind \in RollCallKind \cup ElectionKind \cup MeetingKind THEN {} ELSE {"events"})
    \cup (IF kind \in SocialKind THEN {} ELSE {"social"})
    \cup (IF kind = "federation_result" THEN {} ELSE {"results"})
    \cup (IF kind = "challenge" THEN {} ELSE {"challenge"})
    \cup {"scanned", "linked"}
    \cup (IF kind = "roll_call_close" THEN {} ELSE {"tasks"})
    \cup (IF kind = "post_transaction" THEN {} ELSE {"cash"})

\* The reducer of events.
LEMMA EventFrame ==
  ASSUME NEW st, DOMAIN st = Slices, NEW id, NEW event
  PROVE  /\ Only(st, AddEvent(st, id, event).st, {"events"})
         /\ Only(st, UpdateEvent(st, id, event).st, {"events"})
BY DEF Only, Slices, AddEvent, UpdateEvent, Handled, NotHandled

\* Noting a channel changes no LAO but its channels.
LEMMA SubscribeFrame ==
  ASSUME NEW st, DOMAIN st = Slices, NEW l, NEW channels
  PROVE  LET t == SubscribeToChannels(st, l, channels)
         IN  Only(st, t, {"laos", "subscribed"}) /\ DOMAIN t.laos = DOMAIN st.laos
BY DEF Only, Slices, SubscribeToChannels, AddSubscribedChannels, Subscribe

\* The handlers, feature by feature.
LEMMA LaoFrame ==
  ASSUME NEW st, DOMAIN st = Slices, NEW m, NEW id
  PROVE  Only(st, HandleLaoGreet(st, m, id).st, {"greets", "servers"})
BY DEF Only, Slices, Handled, NotHandled, HandleLaoGreet, StoreBackendAndConnectToPeers,
  AddUnhandledGreetLaoMessage, HandleGreetLaoMessage, AddServer

LEMMA RollCallFrame ==
  ASSUME NEW st, DOMAIN st = Slices, NEW m, NEW id
  PROVE  /\ Only(st, HandleRollCallCreate(st, m, id).st, {"rollCalls", "events"})
         /\ Only(st, HandleRollCallOpen(st, m, id).st, {"rollCalls", "byAlias", "events"})
         /\ Only(st, HandleRollCallReopen(st, m, id).st, {"rollCalls", "byAlias", "events"})
         /\ Only(st, HandleRollCallClose(st, m, id).st, {"rollCalls", "byAlias", "events", "tasks"})
<1>1. Only(st, HandleRollCallCreate(st, m, id).st, {"rollCalls", "events"})
  BY DEF Only, Slices, Handled, NotHandled, HandleRollCallCreate, AddRollCallEvent, AddEvent
<1>2. ASSUME NEW r, NEW rc
      PROVE  Only(st, UpdateRollCallEvent(st, r, rc).st, {"rollCalls", "byAlias", "events"})
  BY DEF Only, Slices, Handled, NotHandled, UpdateRollCallEvent, UpdateRollCall, UpdateEvent
<1>3. Only(st, st, {"rollCalls", "byAlias", "events"})
  BY DEF Only
<1>4. Only(st, HandleRollCallOpen(st, m, id).st, {"rollCalls", "byAlias", "events"})
  BY <1>2, <1>3 DEF HandleRollCallOpen, NotHandled
<1>5. Only(st, HandleRollCallReopen(st, m, id).st, {"rollCalls", "byAlias", "events"})
  BY <1>2, <1>3 DEF HandleRollCallReopen, NotHandled
<1>6. Only(st, HandleRollCallClose(st, m, id).st, {"rollCalls", "byAlias", "events", "tasks"})
  BY <1>2, <1>3 DEF HandleRollCallClose, Only, Slices, Handled, NotHandled, Later
<1> QED  BY <1>1, <1>4, <1>5, <1>6

LEMMA ElectionFrame ==
  ASSUME NEW st, DOMAIN st = Slices, NEW m, NEW id
  PROVE  /\ Only(st, HandleElectionKey(st, m, id).st, {"electionKeys"})
         /\ Only(st, HandleElectionSetup(st, m, id).st, {"laos", "subscribed", "elections", "events"})
         /\ DOMAIN HandleElectionSetup(st, m, id).st.laos = DOMAIN st.laos
         /\ Only(st, HandleElectionOpen(st, m, id).st, {"elections", "events"})
         /\ Only(st, HandleCastVote(st, m, id).st, {"elections", "events"})
         /\ Only(st, HandleElectionEnd(st, m, id).st, {"elections", "events"})
         /\ Only(st, HandleElectionResult(st, m, id).st, {"elections", "events"})
<1>1. Only(st, HandleElectionKey(st, m, id).st, {"electionKeys"})
  BY DEF Only, Slices, Handled, NotHandled, HandleElectionKey, AddElectionKey
<1>2. ASSUME NEW e, NEW election
      PROVE  Only(st, UpdateElectionEvent(st, e, election).st, {"elections", "events"})
  BY DEF Only, Slices, Handled, NotHandled, UpdateElectionEvent, UpdateElection, UpdateEvent
<1>3. Only(st, st, {"elections", "events"})
  BY DEF Only
<1>4. /\ Only(st, HandleElectionOpen(st, m, id).st, {"elections", "events"})
      /\ Only(st, HandleElectionEnd(st, m, id).st, {"elections", "events"})
  BY <1>2, <1>3 DEF HandleElectionOpen, HandleElectionEnd, NotHandled
<1>5. Only(st, HandleCastVote(st, m, id).st, {"elections", "events"})
  BY <1>2, <1>3 DEF HandleCastVote, NotHandled
<1>6. Only(st, HandleElectionResult(st, m, id).st, {"elections", "events"})
  BY <1>2, <1>3 DEF HandleElectionResult, NotHandled
<1>7. /\ Only(st, HandleElectionSetup(st, m, id).st, {"laos", "subscribed", "elections", "events"})
      /\ DOMAIN HandleElectionSetup(st, m, id).st.laos = DOMAIN st.laos
  <2> DEFINE s == SubscribeToChannel(st, LaoOf(m), ElectionChannel(LaoOf(m), id))
  <2>1. Only(st, s, {"laos", "subscribed"}) /\ DOMAIN s.laos = DOMAIN st.laos
    BY SubscribeFrame DEF SubscribeToChannel
  <2>2. DOMAIN s = Slices
    BY <2>1 DEF Only
  <2> HIDE DEF s
  <2>3. Only(s, AddElectionEvent(s, id, NewElection(m)).st, {"elections", "events"})
    BY <2>2 DEF Only, Slices, Handled, NotHandled, AddElectionEvent, AddElection, AddEvent
  <2>4. HandleElectionSetup(st, m, id) = AddElectionEvent(s, id, NewElection(m))
    BY DEF HandleElectionSetup, s
  <2> QED  BY <2>1, <2>3, <2>4 DEF Only, Slices
<1> QED  BY <1>1, <1>4, <1>5, <1>6, <1>7

LEMMA SocialFrame ==
  ASSUME NEW st, DOMAIN st = Slices, NEW m, NEW id
  PROVE  /\ Only(st, HandleAddChirp(st, m, id).st, {"social"})
         /\ Only(st, HandleDeleteChirp(st, m, id).st, {"social"})
         /\ Only(st, HandleAddReaction(st, m, id).st, {"social"})
         /\ Only(st, HandleDeleteReaction(st, m, id).st, {"social"})
<1>1. ASSUME NEW l, NEW social  PROVE Only(st, SetSocial(st, l, social), {"social"})
  BY DEF Only, Slices, SetSocial
<1>2. Only(st, st, {"social"})
  BY DEF Only
<1>3. Only(st, HandleAddChirp(st, m, id).st, {"social"})
  BY <1>1, <1>2 DEF HandleAddChirp, InCurrentLao, AddChirp, Handled, NotHandled
<1>4. Only(st, HandleDeleteChirp(st, m, id).st, {"social"})
  BY <1>1, <1>2 DEF HandleDeleteChirp, InCurrentLao, DeleteChirp, Handled, NotHandled
<1>5. Only(st, HandleAddReaction(st, m, id).st, {"social"})
  BY <1>1, <1>2 DEF HandleAddReaction, InCurrentLao, AddReaction, Handled, NotHandled
<1>6. Only(st, HandleDeleteReaction(st, m, id).st, {"social"})
  BY <1>1, <1>2 DEF HandleDeleteReaction, InCurrentLao, DeleteReaction, Handled, NotHandled
<1> QED  BY <1>3, <1>4, <1>5, <1>6

LEMMA CashFrame ==
  ASSUME NEW st, DOMAIN st = Slices, NEW m, NEW id
  PROVE  Only(st, HandleTransactionPost(st, m, id).st, {"cash"})
BY DEF Only, Slices, Handled, NotHandled, HandleTransactionPost, AddTransaction

LEMMA OrganizationsFrame ==
  ASSUME NEW st, DOMAIN st = Slices, NEW m, NEW id
  PROVE  /\ Only(st, HandleChallenge(st, m, id).st, {"challenge"})
         /\ HandleChallengeRequest(st, m, id).st = st
         /\ HandleFederationInit(st, m, id).st = st
         /\ HandleFederationExpect(st, m, id).st = st
         /\ Only(st, HandleFederationResult(st, m, id).st, {"results"})
         /\ Only(st, HandleTokensExchange(st, m, id).st, {"laos", "subscribed", "linkedLaos"})
         /\ DOMAIN HandleTokensExchange(st, m, id).st.laos = DOMAIN st.laos
<1>1. Only(st, HandleChallenge(st, m, id).st, {"challenge"})
  BY DEF Only, Slices, HandleChallenge, SetChallenge, Handled
<1>2. /\ HandleChallengeRequest(st, m, id).st = st
      /\ HandleFederationInit(st, m, id).st = st
      /\ HandleFederationExpect(st, m, id).st = st
  BY DEF HandleChallengeRequest, HandleFederationInit, HandleFederationExpect, InCurrentLao,
    Handled, NotHandled
<1>3. Only(st, HandleFederationResult(st, m, id).st, {"results"})
  BY DEF Only, Slices, HandleFederationResult, AddReceivedChallenge, InCurrentLao, Handled,
    NotHandled
<1>4. /\ Only(st, HandleTokensExchange(st, m, id).st, {"laos", "subscribed", "linkedLaos"})
      /\ DOMAIN HandleTokensExchange(st, m, id).st.laos = DOMAIN st.laos
  <2> DEFINE s == AddLinkedLaoId(st, st.current, m.lao)
             channels == {UserSocialChannel(m.lao, t) : t \in m.tokens} \cup {ReactionChannel(m.lao)}
             u == SubscribeToChannels(s, m.lao, channels)
  <2>1. Only(st, s, {"linkedLaos"})
    BY DEF Only, Slices, AddLinkedLaoId
  <2>2. DOMAIN s = Slices /\ s.laos = st.laos
    BY <2>1 DEF Only, Slices
  <2>3. Only(s, u, {"laos", "subscribed"}) /\ DOMAIN u.laos = DOMAIN s.laos
    BY <2>2, SubscribeFrame
  <2>4. HandleTokensExchange(st, m, id).st \in {st, u}
    BY DEF HandleTokensExchange, InCurrentLao, Handled, NotHandled
  <2> HIDE DEF s, u
  <2> QED  BY <2>1, <2>2, <2>3, <2>4 DEF Only
<1> QED  BY <1>1, <1>2, <1>3, <1>4

LEMMA MeetingFrame ==
  ASSUME NEW st, DOMAIN st = Slices, NEW m, NEW id
  PROVE  /\ Only(st, HandleMeetingCreate(st, m, id).st, {"meetings", "events"})
         /\ Only(st, HandleMeetingState(st, m, id).st, {"meetings", "events"})
BY DEF Only, Slices, Handled, NotHandled, HandleMeetingCreate, HandleMeetingState,
  AddMeetingEvent, UpdateMeetingEvent, AddMeeting, UpdateMeeting, AddEvent, UpdateEvent

\* Whatever the message, its handler writes only the slices of its kind.
LEMMA HandlerFrame ==
  ASSUME NEW st, DOMAIN st = Slices, NEW id, log[id].kind \in RegisteredKind
  PROVE  LET t == HandleMessage(st, id).st
         IN  /\ Only(st, t, Slices \ Spared(log[id].kind))
             /\ DOMAIN t.laos = DOMAIN st.laos
<1> DEFINE m == log[id]
           t == HandleMessage(st, id).st
           Good(u) == Only(st, u, Slices \ Spared(m.kind)) /\ DOMAIN u.laos = DOMAIN st.laos
<1>a. Good(st)
  BY DEF Only
<1>b. ASSUME NEW u, NEW changed, Only(st, u, changed), changed \cap Spared(m.kind) = {},
             "laos" \in changed => DOMAIN u.laos = DOMAIN st.laos
      PROVE  Good(u)
  BY <1>b DEF Only, Slices
<1>1. CASE m.kind = "lao_greet"
  <2>1. t = HandleLaoGreet(st, m, id).st
    BY <1>1 DEF HandleMessage
  <2>2. {"greets", "servers"} \cap Spared(m.kind) = {}
    BY <1>1 DEF Spared, RollCallKind, ElectionKind, MeetingKind, SocialKind
  <2> QED  BY <1>b, <2>1, <2>2, LaoFrame
<1>2. CASE m.kind = "roll_call_create"
  <2>1. t = HandleRollCallCreate(st, m, id).st
    BY <1>2 DEF HandleMessage
  <2>2. {"rollCalls", "events"} \cap Spared(m.kind) = {}
    BY <1>2 DEF Spared, RollCallKind, ElectionKind, MeetingKind, SocialKind
  <2> QED  BY <1>b, <2>1, <2>2, RollCallFrame
<1>3. CASE m.kind = "roll_call_open"
  <2>1. t = HandleRollCallOpen(st, m, id).st
    BY <1>3 DEF HandleMessage
  <2>2. {"rollCalls", "byAlias", "events"} \cap Spared(m.kind) = {}
    BY <1>3 DEF Spared, RollCallKind, ElectionKind, MeetingKind, SocialKind
  <2> QED  BY <1>b, <2>1, <2>2, RollCallFrame
<1>4. CASE m.kind = "roll_call_reopen"
  <2>1. t = HandleRollCallReopen(st, m, id).st
    BY <1>4 DEF HandleMessage
  <2>2. {"rollCalls", "byAlias", "events"} \cap Spared(m.kind) = {}
    BY <1>4 DEF Spared, RollCallKind, ElectionKind, MeetingKind, SocialKind
  <2> QED  BY <1>b, <2>1, <2>2, RollCallFrame
<1>5. CASE m.kind = "roll_call_close"
  <2>1. t = HandleRollCallClose(st, m, id).st
    BY <1>5 DEF HandleMessage
  <2>2. {"rollCalls", "byAlias", "events", "tasks"} \cap Spared(m.kind) = {}
    BY <1>5 DEF Spared, RollCallKind, ElectionKind, MeetingKind, SocialKind
  <2> QED  BY <1>b, <2>1, <2>2, RollCallFrame
<1>6. CASE m.kind = "election_key"
  <2>1. t = HandleElectionKey(st, m, id).st
    BY <1>6 DEF HandleMessage
  <2>2. {"electionKeys"} \cap Spared(m.kind) = {}
    BY <1>6 DEF Spared, RollCallKind, ElectionKind, MeetingKind, SocialKind
  <2> QED  BY <1>b, <2>1, <2>2, ElectionFrame
<1>7. CASE m.kind = "election_setup"
  <2>1. t = HandleElectionSetup(st, m, id).st
    BY <1>7 DEF HandleMessage
  <2>2. {"laos", "subscribed", "elections", "events"} \cap Spared(m.kind) = {}
    BY <1>7 DEF Spared, RollCallKind, ElectionKind, MeetingKind, SocialKind
  <2> QED  BY <1>b, <2>1, <2>2, ElectionFrame
<1>8. CASE m.kind = "election_open"
  <2>1. t = HandleElectionOpen(st, m, id).st
    BY <1>8 DEF HandleMessage
  <2>2. {"elections", "events"} \cap Spared(m.kind) = {}
    BY <1>8 DEF Spared, RollCallKind, ElectionKind, MeetingKind, SocialKind
  <2> QED  BY <1>b, <2>1, <2>2, ElectionFrame
<1>9. CASE m.kind = "cast_vote"
  <2>1. t = HandleCastVote(st, m, id).st
    BY <1>9 DEF HandleMessage
  <2>2. {"elections", "events"} \cap Spared(m.kind) = {}
    BY <1>9 DEF Spared, RollCallKind, ElectionKind, MeetingKind, SocialKind
  <2> QED  BY <1>b, <2>1, <2>2, ElectionFrame
<1>10. CASE m.kind = "election_end"
  <2>1. t = HandleElectionEnd(st, m, id).st
    BY <1>10 DEF HandleMessage
  <2>2. {"elections", "events"} \cap Spared(m.kind) = {}
    BY <1>10 DEF Spared, RollCallKind, ElectionKind, MeetingKind, SocialKind
  <2> QED  BY <1>b, <2>1, <2>2, ElectionFrame
<1>11. CASE m.kind = "election_result"
  <2>1. t = HandleElectionResult(st, m, id).st
    BY <1>11 DEF HandleMessage
  <2>2. {"elections", "events"} \cap Spared(m.kind) = {}
    BY <1>11 DEF Spared, RollCallKind, ElectionKind, MeetingKind, SocialKind
  <2> QED  BY <1>b, <2>1, <2>2, ElectionFrame
<1>12. CASE m.kind = "chirp_add"
  <2>1. t = HandleAddChirp(st, m, id).st
    BY <1>12 DEF HandleMessage
  <2>2. {"social"} \cap Spared(m.kind) = {}
    BY <1>12 DEF Spared, RollCallKind, ElectionKind, MeetingKind, SocialKind
  <2> QED  BY <1>b, <2>1, <2>2, SocialFrame
<1>13. CASE m.kind = "chirp_delete"
  <2>1. t = HandleDeleteChirp(st, m, id).st
    BY <1>13 DEF HandleMessage
  <2>2. {"social"} \cap Spared(m.kind) = {}
    BY <1>13 DEF Spared, RollCallKind, ElectionKind, MeetingKind, SocialKind
  <2> QED  BY <1>b, <2>1, <2>2, SocialFrame
<1>14. CASE m.kind = "reaction_add"
  <2>1. t = HandleAddReaction(st, m, id).st
    BY <1>14 DEF HandleMessage
  <2>2. {"social"} \cap Spared(m.kind) = {}
    BY <1>14 DEF Spared, RollCallKind, ElectionKind, MeetingKind, SocialKind
  <2> QED  BY <1>b, <2>1, <2>2, SocialFrame
<1>15. CASE m.kind = "reaction_delete"
  <2>1. t = HandleDeleteReaction(st, m, id).st
    BY <1>15 DEF HandleMessage
  <2>2. {"social"} \cap Spared(m.kind) = {}
    BY <1>15 DEF Spared, RollCallKind, ElectionKind, MeetingKind, SocialKind
  <2> QED  BY <1>b, <2>1, <2>2, SocialFrame
<1>16. CASE m.kind = "post_transaction"
  <2>1. t = HandleTransactionPost(st, m, id).st
    BY <1>16 DEF HandleMessage
  <2>2. {"cash"} \cap Spared(m.kind) = {}
    BY <1>16 DEF Spared, RollCallKind, ElectionKind, MeetingKind, SocialKind
  <2> QED  BY <1>b, <2>1, <2>2, CashFrame
<1>17. CASE m.kind = "challenge"
  <2>1. t = HandleChallenge(st, m, id).st
    BY <1>17 DEF HandleMessage
  <2>2. {"challenge"} \cap Spared(m.kind) = {}
    BY <1>17 DEF Spared, RollCallKind, ElectionKind, MeetingKind, SocialKind
  <2> QED  BY <1>b, <2>1, <2>2, OrganizationsFrame
<1>18. CASE m.kind = "federation_result"
  <2>1. t = HandleFederationResult(st, m, id).st
    BY <1>18 DEF HandleMessage
  <2>2. {"results"} \cap Spared(m.kind) = {}
    BY <1>18 DEF Spared, RollCallKind, ElectionKind, MeetingKind, SocialKind
  <2> QED  BY <1>b, <2>1, <2>2, OrganizationsFrame
<1>19. CASE m.kind = "tokens_exchange"
  <2>1. t = HandleTokensExchange(st, m, id).st
    BY <1>19 DEF HandleMessage
  <2>2. {"laos", "subscribed", "linkedLaos"} \cap Spared(m.kind) = {}
    BY <1>19 DEF Spared, RollCallKind, ElectionKind, MeetingKind, SocialKind
  <2> QED  BY <1>b, <2>1, <2>2, OrganizationsFrame
<1>20. CASE m.kind = "meeting_create"
  <2>1. t = HandleMeetingCreate(st, m, id).st
    BY <1>20 DEF HandleMessage
  <2>2. {"meetings", "events"} \cap Spared(m.kind) = {}
    BY <1>20 DEF Spared, RollCallKind, ElectionKind, MeetingKind, SocialKind
  <2> QED  BY <1>b, <2>1, <2>2, MeetingFrame
<1>21. CASE m.kind = "meeting_state"
  <2>1. t = HandleMeetingState(st, m, id).st
    BY <1>21 DEF HandleMessage
  <2>2. {"meetings", "events"} \cap Spared(m.kind) = {}
    BY <1>21 DEF Spared, RollCallKind, ElectionKind, MeetingKind, SocialKind
  <2> QED  BY <1>b, <2>1, <2>2, MeetingFrame
<1>22. CASE m.kind \in {"lao_update", "lao_state", "chirp_notify_add", "chirp_notify_delete",
                  "challenge_request", "federation_init", "federation_expect", "witness",
                  "popcha_auth"}
  <2>1. t = st
    BY <1>22, OrganizationsFrame DEF HandleMessage, HandleNotifyAddChirp, HandleNotifyDeleteChirp,
      HandleWitnessMessage, HandlePopchaAuth, IsSameObject, Handled, NotHandled
  <2> QED  BY <1>a, <2>1
<1> QED  BY <1>1, <1>2, <1>3, <1>4, <1>5, <1>6, <1>7, <1>8, <1>9, <1>10, <1>11, <1>12,
    <1>13, <1>14, <1>15, <1>16, <1>17, <1>18, <1>19, <1>20, <1>21, <1>22
    DEF RegisteredKind

-----------------------------------------------------------------------------
(* Messages and events.  lg is the log and done the messages a store has     *)
(* processed: both grow, and each part of the invariant is about one log and *)
(* one set.                                                                  *)

\* What is stored was accepted; what is not processed is stored and listed
\* once.
MsgsOK(lg, st) ==
  /\ DOMAIN st = Slices
  /\ st.byId \subseteq DOMAIN lg
  /\ \A id \in st.byId : lg[id].kind # "lao_create"
  /\ st.unprocessed \in Seq(st.byId)
  /\ \A i, j \in DOMAIN st.unprocessed : i # j => st.unprocessed[i] # st.unprocessed[j]
  /\ DOMAIN st.signatures = st.byId

OfKind(lg, done, kind) == {id \in done : lg[id].kind = kind}

\* The roll calls, elections and meetings of a store are those whose creation
\* it has processed, and it has an event for each and for nothing else.
EventsOK(lg, st, done) ==
  /\ DOMAIN st.rollCalls = OfKind(lg, done, "roll_call_create")
  /\ DOMAIN st.elections = OfKind(lg, done, "election_setup")
  /\ DOMAIN st.meetings = OfKind(lg, done, "meeting_create")
  /\ DOMAIN st.events = DOMAIN st.rollCalls \cup DOMAIN st.elections \cup DOMAIN st.meetings

\* What is processed after a message was handled.
Done(result, done, id) == IF result.ok THEN done \cup {id} ELSE done

\* The slices the invariant is about that differ are among those that are
\* named.
LEMMA OnlySays ==
  ASSUME NEW st, NEW t, NEW changed, Only(st, t, changed)
  PROVE  /\ DOMAIN t = Slices
         /\ "byId" \notin changed => t.byId = st.byId
         /\ "unprocessed" \notin changed => t.unprocessed = st.unprocessed
         /\ "signatures" \notin changed => t.signatures = st.signatures
         /\ "current" \notin changed => t.current = st.current
         /\ "laos" \notin changed => t.laos = st.laos
         /\ "notifications" \notin changed => t.notifications = st.notifications
         /\ "toWitness" \notin changed => t.toWitness = st.toWitness
         /\ "events" \notin changed => t.events = st.events
         /\ "rollCalls" \notin changed => t.rollCalls = st.rollCalls
         /\ "byAlias" \notin changed => t.byAlias = st.byAlias
         /\ "elections" \notin changed => t.elections = st.elections
         /\ "meetings" \notin changed => t.meetings = st.meetings
         /\ "social" \notin changed => t.social = st.social
         /\ "challenge" \notin changed => t.challenge = st.challenge
         /\ "scanned" \notin changed => t.scanned = st.scanned
         /\ "results" \notin changed => t.results = st.results
         /\ "linked" \notin changed => t.linked = st.linked
         /\ "tasks" \notin changed => t.tasks = st.tasks
         /\ "cash" \notin changed => t.cash = st.cash
BY DEF Only, Slices

\* The frame of a handler, slice by slice.
LEMMA Untouched ==
  ASSUME NEW st, DOMAIN st = Slices, NEW id, log[id].kind \in RegisteredKind
  PROVE  LET t == HandleMessage(st, id).st
             kind == log[id].kind
         IN  /\ DOMAIN t = Slices
             /\ t.byId = st.byId /\ t.unprocessed = st.unprocessed
             /\ t.signatures = st.signatures
             /\ t.current = st.current /\ DOMAIN t.laos = DOMAIN st.laos
             /\ t.notifications = st.notifications /\ t.toWitness = st.toWitness
             /\ kind \notin RollCallKind =>
                  t.rollCalls = st.rollCalls /\ t.byAlias = st.byAlias
             /\ kind \notin ElectionKind => t.elections = st.elections
             /\ kind \notin MeetingKind => t.meetings = st.meetings
             /\ kind \notin RollCallKind \cup ElectionKind \cup MeetingKind => t.events = st.events
             /\ kind \notin SocialKind => t.social = st.social
             /\ t.scanned = st.scanned /\ t.linked = st.linked
             /\ kind # "challenge" => t.challenge = st.challenge
             /\ kind # "federation_result" => t.results = st.results
             /\ kind # "roll_call_close" => t.tasks = st.tasks
             /\ kind # "post_transaction" => t.cash = st.cash
<1> DEFINE t == HandleMessage(st, id).st
           changed == Slices \ Spared(log[id].kind)
<1>1. Only(st, t, changed) /\ DOMAIN t.laos = DOMAIN st.laos
  BY HandlerFrame
<1> HIDE DEF t
<1>2. \A f \in Spared(log[id].kind) : f \notin changed
  OBVIOUS
<1> HIDE DEF changed
<1>3. /\ "byId" \notin changed /\ "unprocessed" \notin changed /\ "signatures" \notin changed
      /\ "current" \notin changed /\ "notifications" \notin changed /\ "toWitness" \notin changed
      /\ log[id].kind \notin RollCallKind => "rollCalls" \notin changed /\ "byAlias" \notin changed
      /\ log[id].kind \notin ElectionKind => "elections" \notin changed
      /\ log[id].kind \notin MeetingKind => "meetings" \notin changed
      /\ log[id].kind \notin RollCallKind \cup ElectionKind \cup MeetingKind => "events" \notin changed
      /\ log[id].kind \notin SocialKind => "social" \notin changed
      /\ "scanned" \notin changed /\ "linked" \notin changed
      /\ log[id].kind # "challenge" => "challenge" \notin changed
      /\ log[id].kind # "federation_result" => "results" \notin changed
      /\ log[id].kind # "roll_call_close" => "tasks" \notin changed
      /\ log[id].kind # "post_transaction" => "cash" \notin changed
  BY <1>2 DEF Spared
<1>4. /\ DOMAIN t = Slices
      /\ t.byId = st.byId /\ t.unprocessed = st.unprocessed /\ t.signatures = st.signatures
      /\ t.current = st.current /\ t.notifications = st.notifications /\ t.toWitness = st.toWitness
      /\ t.scanned = st.scanned /\ t.linked = st.linked
  BY <1>1, <1>3, OnlySays
<1> QED  BY <1>1, <1>3, <1>4, OnlySays DEF t

\* No handler breaks EventsOK: one that adds a roll call, an election or a
\* meeting adds its event, one that updates either fails before or finds both.
LEMMA EventsHandled ==
  ASSUME NEW st, NEW done, NEW id, DOMAIN st = Slices, log[id].kind \in RegisteredKind,
         EventsOK(log, st, done)
  PROVE  LET result == HandleMessage(st, id)
         IN  EventsOK(log, result.st, Done(result, done, id))
<1> DEFINE m == log[id]
           result == HandleMessage(st, id)
<1>1. CASE m.kind \notin RollCallKind \cup ElectionKind \cup MeetingKind
  BY <1>1, Untouched DEF EventsOK, OfKind, Done, RollCallKind, ElectionKind, MeetingKind
<1>2. CASE m.kind = "roll_call_create"
  <2>1. result = HandleRollCallCreate(st, m, id)
    BY <1>2 DEF HandleMessage
  <2> QED
    BY <1>2, <2>1 DEF EventsOK, OfKind, Done, HandleRollCallCreate, AddRollCallEvent, AddEvent, Handled,
      NotHandled, Put, Slices
<1>3. CASE m.kind = "election_setup"
  <2> DEFINE s == SubscribeToChannel(st, LaoOf(m), ElectionChannel(LaoOf(m), id))
  <2>1. result = AddElectionEvent(s, id, NewElection(m))
    BY <1>3 DEF HandleMessage, HandleElectionSetup
  <2>2. Only(st, s, {"laos", "subscribed"})
    BY SubscribeFrame DEF SubscribeToChannel
  <2> HIDE DEF s
  <2>3. EventsOK(log, s, done) /\ DOMAIN s = Slices
    BY <2>2, OnlySays DEF EventsOK
  <2> QED
    BY <1>3, <2>1, <2>3 DEF EventsOK, OfKind, Done, AddElectionEvent, AddElection, AddEvent, Handled,
      NotHandled, Put, Slices
<1>4. CASE m.kind = "meeting_create"
  <2>1. result = HandleMeetingCreate(st, m, id)
    BY <1>4 DEF HandleMessage
  <2> QED
    BY <1>4, <2>1 DEF EventsOK, OfKind, Done, HandleMeetingCreate, AddMeetingEvent, AddMeeting, AddEvent,
      Handled, NotHandled, Put, Slices
<1>5. CASE m.kind \in RollCallKind \ {"roll_call_create"}
  <2>1. ASSUME NEW r, NEW rc
        PROVE  LET u == UpdateRollCallEvent(st, r, rc).st
               IN  /\ DOMAIN u.rollCalls = DOMAIN st.rollCalls
                   /\ DOMAIN u.events = DOMAIN st.events
    BY DEF UpdateRollCallEvent, UpdateRollCall, UpdateEvent, Handled, NotHandled, Put, Slices
  <2>2. /\ DOMAIN result.st.rollCalls = DOMAIN st.rollCalls
        /\ DOMAIN result.st.events = DOMAIN st.events
    <3>1. CASE m.kind = "roll_call_open"
      BY <2>1, <3>1 DEF HandleMessage, HandleRollCallOpen, NotHandled
    <3>2. CASE m.kind = "roll_call_reopen"
      BY <2>1, <3>2 DEF HandleMessage, HandleRollCallReopen, NotHandled
    <3>3. CASE m.kind = "roll_call_close"
      <4>1. result = HandleRollCallClose(st, m, id)
        BY <3>3 DEF HandleMessage
      <4> DEFINE r == GetRollCallById(st, m.closes)
                 rc == [st.rollCalls[r] EXCEPT !.alias = id, !.closedAt = id, !.status = "closed",
                                               !.attendees = m.attendees]
                 u == UpdateRollCallEvent(st, r, rc).st
      <4>2. DOMAIN u = Slices
        BY DEF UpdateRollCallEvent, UpdateRollCall, UpdateEvent, Handled, NotHandled, Slices
      <4>3. \/ result.st \in {st, u}
            \/ \E task : result.st = Later(u, task)
        BY <4>1 DEF HandleRollCallClose, NotHandled, Handled
      <4>4. \A task : Later(u, task).rollCalls = u.rollCalls /\ Later(u, task).events = u.events
        BY <4>2 DEF Later, Slices
      <4>5. DOMAIN u.rollCalls = DOMAIN st.rollCalls /\ DOMAIN u.events = DOMAIN st.events
        BY <2>1
      <4> HIDE DEF u
      <4> QED  BY <4>3, <4>4, <4>5
    <3> QED  BY <1>5, <3>1, <3>2, <3>3 DEF RollCallKind
  <2> QED  BY <1>5, <2>2, Untouched DEF EventsOK, OfKind, Done, RollCallKind, ElectionKind, MeetingKind
<1>6. CASE m.kind \in ElectionKind \ {"election_setup"}
  <2>1. ASSUME NEW e, NEW election
        PROVE  LET u == UpdateElectionEvent(st, e, election).st
               IN  /\ DOMAIN u.elections = DOMAIN st.elections
                   /\ DOMAIN u.events = DOMAIN st.events
    BY DEF UpdateElectionEvent, UpdateElection, UpdateEvent, Handled, NotHandled, Put, Slices
  <2>2. /\ DOMAIN result.st.elections = DOMAIN st.elections
        /\ DOMAIN result.st.events = DOMAIN st.events
    BY <1>6, <2>1, ZenonT(40) DEF HandleMessage, HandleElectionOpen, HandleCastVote,
      HandleElectionEnd, HandleElectionResult, NotHandled, ElectionKind
  <2> QED  BY <1>6, <2>2, Untouched DEF EventsOK, OfKind, Done, RollCallKind, ElectionKind, MeetingKind
<1>7. CASE m.kind = "meeting_state"
  <2>1. result = HandleMeetingState(st, m, id)
    BY <1>7 DEF HandleMessage
  <2>2. /\ DOMAIN result.st.meetings = DOMAIN st.meetings
        /\ DOMAIN result.st.events = DOMAIN st.events
    BY <2>1 DEF HandleMeetingState, UpdateMeetingEvent, UpdateMeeting, UpdateEvent, Handled,
      NotHandled, Put, Slices
  <2> QED  BY <1>7, <2>2, Untouched DEF EventsOK, OfKind, Done, RollCallKind, ElectionKind, MeetingKind
<1> QED  BY <1>1, <1>2, <1>3, <1>4, <1>5, <1>6, <1>7 DEF RollCallKind, ElectionKind, MeetingKind

-----------------------------------------------------------------------------
(* Elections                                                                 *)

Cast(lg, done, e) == {id \in done : lg[id].kind = "cast_vote" /\ lg[id].election = e}

ElectionFields == {"lao", "version", "questions", "status", "votes", "result"}

\* Of the votes of a voter that were processed, one that no other is later than
\* is registered.
ElectionOK(lg, election, cast) ==
  /\ DOMAIN election = ElectionFields
  /\ election.status \in ElectionStatus
  /\ DOMAIN election.votes = {lg[id].sender : id \in cast}
  /\ \A voter \in DOMAIN election.votes : election.votes[voter].at \in Nat
  /\ \A id \in cast : election.votes[lg[id].sender].at >= lg[id].at

VotesOK(lg, st, done) ==
  /\ \A e \in DOMAIN st.elections : ElectionOK(lg, st.elections[e], Cast(lg, done, e))
  /\ \A id \in done : lg[id].kind = "cast_vote" =>
       lg[id].election \in DOMAIN st.elections /\ lg[id].at \in Nat

\* A vote replaces an earlier one and no later one.
LEMMA VoteRegistered ==
  ASSUME NEW votes, NEW voter, NEW vote, vote.at \in Nat,
         \A v \in DOMAIN votes : votes[v].at \in Nat
  PROVE  LET new == RegisterVote(votes, voter, vote)
         IN  /\ DOMAIN new = DOMAIN votes \cup {voter}
             /\ \A v \in DOMAIN new : new[v].at \in Nat
             /\ \A v \in DOMAIN votes : new[v].at >= votes[v].at
             /\ new[voter].at >= vote.at
BY DEF RegisterVote, Put

\* No handler breaks VotesOK: a vote for an election that has not come is not
\* taken as processed.
LEMMA VotesHandled ==
  ASSUME NEW st, NEW done, NEW id \in DOMAIN log, DOMAIN st = Slices, log[id].kind \in RegisteredKind,
         EventsOK(log, st, done), VotesOK(log, st, done), MessageOK(log, id)
  PROVE  LET result == HandleMessage(st, id)
         IN  VotesOK(log, result.st, Done(result, done, id))
<1> DEFINE m == log[id]
           result == HandleMessage(st, id)
<1>1. CASE m.kind \notin ElectionKind
  <2>1. result.st.elections = st.elections
    BY <1>1, Untouched
  <2>2. \A e : Cast(log, Done(result, done, id), e) = Cast(log, done, e)
    BY <1>1 DEF Cast, Done, ElectionKind
  <2> QED  BY <1>1, <2>1, <2>2 DEF VotesOK, Done, ElectionKind
<1>2. CASE m.kind = "election_setup"
  <2> DEFINE s == SubscribeToChannel(st, LaoOf(m), ElectionChannel(LaoOf(m), id))
  <2>1. result = AddElectionEvent(s, id, NewElection(m))
    BY <1>2 DEF HandleMessage, HandleElectionSetup
  <2>2. Only(st, s, {"laos", "subscribed"})
    BY SubscribeFrame DEF SubscribeToChannel
  <2> HIDE DEF s
  <2>3. s.elections = st.elections /\ DOMAIN s = Slices
    BY <2>2, OnlySays
  <2>4. \A e : Cast(log, Done(result, done, id), e) = Cast(log, done, e)
    BY <1>2 DEF Cast, Done
  <2>5. CASE id \in DOMAIN st.elections
    <3>1. result.st.elections = st.elections
      BY <2>1, <2>3, <2>5 DEF AddElectionEvent, AddElection, NotHandled
    <3> QED  BY <1>2, <2>4, <3>1 DEF VotesOK, Done
  <2>6. CASE id \notin DOMAIN st.elections
    <3>1. result.st.elections = Put(st.elections, id, NewElection(m))
      BY <2>1, <2>3, <2>6 DEF AddElectionEvent, AddElection, AddEvent, Handled, NotHandled, Slices
    <3>2. Cast(log, done, id) = {}
      BY <2>6 DEF VotesOK, Cast
    <3>3. ElectionOK(log, NewElection(m), {})
      BY DEF ElectionOK, NewElection, ElectionFields, ElectionStatus, NoFunction
    <3>4. ASSUME NEW e \in DOMAIN result.st.elections
          PROVE  ElectionOK(log, result.st.elections[e], Cast(log, done, e))
      BY <3>1, <3>2, <3>3 DEF VotesOK, Put
    <3>5. DOMAIN st.elections \subseteq DOMAIN result.st.elections
      BY <3>1 DEF Put
    <3> QED  BY <1>2, <2>4, <3>4, <3>5 DEF VotesOK, Done
  <2> QED  BY <2>5, <2>6
<1>3. ASSUME NEW e \in DOMAIN st.elections, NEW election
      PROVE  LET u == UpdateElectionEvent(st, e, election)
             IN  u.ok /\ u.st.elections = [st.elections EXCEPT ![e] = election]
  BY DEF EventsOK, UpdateElectionEvent, UpdateElection, UpdateEvent, Handled, NotHandled, Slices
<1>4. CASE m.kind \in {"election_open", "election_end", "election_result"}
  <2>1. \A e : Cast(log, Done(result, done, id), e) = Cast(log, done, e)
    BY <1>4 DEF Cast, Done
  <2> DEFINE SameVotes(new, old) ==
               DOMAIN new = ElectionFields /\ new.votes = old.votes /\ new.status \in ElectionStatus
  <2>2. \/ result.st.elections = st.elections
        \/ \E e \in DOMAIN st.elections : \E new :
             /\ result.st.elections = [st.elections EXCEPT ![e] = new]
             /\ SameVotes(new, st.elections[e])
    <3>1. CASE m.kind = "election_open"
      <4> DEFINE e == m.election
                 new == [st.elections[e] EXCEPT !.status = "opened"]
      <4>1. result = HandleElectionOpen(st, m, id)
        BY <3>1 DEF HandleMessage
      <4>2. CASE result.st = st
        BY <4>2
      <4>3. CASE result.st # st
        <5>1. e \in DOMAIN st.elections
          BY <4>1, <4>3 DEF HandleElectionOpen, NotHandled
        <5>2. DOMAIN st.elections[e] = ElectionFields
          BY <5>1 DEF VotesOK, ElectionOK
        <5>3. SameVotes(new, st.elections[e])
          BY <5>2 DEF ElectionFields, ElectionStatus
        <5>4. result.st.elections = [st.elections EXCEPT ![e] = new]
          BY <1>3, <4>1, <4>3, <5>1 DEF HandleElectionOpen, NotHandled
        <5> HIDE DEF new
        <5> QED  BY <5>1, <5>3, <5>4
      <4> QED  BY <4>2, <4>3
    <3>2. CASE m.kind = "election_end"
      <4> DEFINE e == m.election
                 new == [st.elections[e] EXCEPT !.status = "terminated"]
      <4>1. result = HandleElectionEnd(st, m, id)
        BY <3>2 DEF HandleMessage
      <4>2. CASE result.st = st
        BY <4>2
      <4>3. CASE result.st # st
        <5>1. e \in DOMAIN st.elections
          BY <4>1, <4>3 DEF HandleElectionEnd, NotHandled
        <5>2. DOMAIN st.elections[e] = ElectionFields
          BY <5>1 DEF VotesOK, ElectionOK
        <5>3. SameVotes(new, st.elections[e])
          BY <5>2 DEF ElectionFields, ElectionStatus
        <5>4. result.st.elections = [st.elections EXCEPT ![e] = new]
          BY <1>3, <4>1, <4>3, <5>1 DEF HandleElectionEnd, NotHandled
        <5> HIDE DEF new
        <5> QED  BY <5>1, <5>3, <5>4
      <4> QED  BY <4>2, <4>3
    <3>3. CASE m.kind = "election_result"
      <4> DEFINE e == LastPart(m.chan)
                 new == [st.elections[e] EXCEPT !.result = m.questions, !.status = "result"]
      <4>1. result = HandleElectionResult(st, m, id)
        BY <3>3 DEF HandleMessage
      <4>2. CASE result.st = st
        BY <4>2
      <4>3. CASE result.st # st
        <5>1. e \in DOMAIN st.elections
          BY <4>1, <4>3 DEF HandleElectionResult, NotHandled
        <5>2. DOMAIN st.elections[e] = ElectionFields
          BY <5>1 DEF VotesOK, ElectionOK
        <5>3. SameVotes(new, st.elections[e])
          BY <5>2 DEF ElectionFields, ElectionStatus
        <5>4. result.st.elections = [st.elections EXCEPT ![e] = new]
          BY <1>3, <4>1, <4>3, <5>1 DEF HandleElectionResult, NotHandled
        <5> HIDE DEF new
        <5> QED  BY <5>1, <5>3, <5>4
      <4> QED  BY <4>2, <4>3
    <3> QED  BY <1>4, <3>1, <3>2, <3>3
  <2>3. ASSUME NEW e \in DOMAIN st.elections
        PROVE  /\ e \in DOMAIN result.st.elections
               /\ ElectionOK(log, result.st.elections[e], Cast(log, done, e))
    <3>1. CASE result.st.elections = st.elections
      BY <3>1 DEF VotesOK
    <3>2. ASSUME NEW x \in DOMAIN st.elections, NEW new,
                 result.st.elections = [st.elections EXCEPT ![x] = new],
                 SameVotes(new, st.elections[x])
          PROVE  /\ e \in DOMAIN result.st.elections
                 /\ ElectionOK(log, result.st.elections[e], Cast(log, done, e))
      BY <3>2 DEF VotesOK, ElectionOK
    <3> QED  BY <2>2, <3>1, <3>2
  <2>4. DOMAIN result.st.elections = DOMAIN st.elections
    BY <2>2
  <2> QED  BY <1>4, <2>1, <2>3, <2>4 DEF VotesOK, Done
<1>5. CASE m.kind = "cast_vote"
  <2>1. result = HandleCastVote(st, m, id) /\ m.at \in Nat
    BY <1>5 DEF HandleMessage, MessageOK
  <2>2. CASE m.election \notin DOMAIN st.elections
    BY <2>1, <2>2 DEF HandleCastVote, NotHandled, Done
  <2>3. CASE m.election \in DOMAIN st.elections
    <3> DEFINE e == m.election
               old == st.elections[e]
               votes == RegisterVote(old.votes, m.sender, RegisteredVote(m, id))
               new == [old EXCEPT !.votes = votes]
    <3>1. result.ok /\ result.st.elections = [st.elections EXCEPT ![e] = new]
      BY <1>3, <2>1, <2>3 DEF HandleCastVote
    <3>2. Cast(log, done \cup {id}, e) = Cast(log, done, e) \cup {id}
      BY <1>5 DEF Cast
    <3>3. \A other : other # e => Cast(log, done \cup {id}, other) = Cast(log, done, other)
      BY DEF Cast
    <3>4. ElectionOK(log, old, Cast(log, done, e))
      BY <2>3 DEF VotesOK
    <3>5. RegisteredVote(m, id).at = m.at
      BY DEF RegisteredVote
    <3>6. /\ DOMAIN votes = DOMAIN old.votes \cup {m.sender}
          /\ \A v \in DOMAIN votes : votes[v].at \in Nat
          /\ \A v \in DOMAIN old.votes : votes[v].at >= old.votes[v].at
          /\ votes[m.sender].at >= m.at
      BY <2>1, <3>4, <3>5, VoteRegistered DEF ElectionOK
    <3>7. /\ DOMAIN new = ElectionFields /\ new.votes = votes /\ new.status = old.status
      BY <3>4 DEF ElectionOK, ElectionFields
    <3> HIDE DEF votes, new
    <3>8. ElectionOK(log, new, Cast(log, done, e) \cup {id})
      <4>1. DOMAIN new.votes = {log[i].sender : i \in Cast(log, done, e) \cup {id}}
        BY <3>4, <3>6, <3>7 DEF ElectionOK
      <4>2. ASSUME NEW i \in Cast(log, done, e) \cup {id}
            PROVE  new.votes[log[i].sender].at >= log[i].at
        <5>1. CASE i = id
          BY <3>6, <3>7, <5>1
        <5>2. CASE i \in Cast(log, done, e)
          <6>1. /\ log[i].sender \in DOMAIN old.votes
                /\ old.votes[log[i].sender].at \in Nat /\ old.votes[log[i].sender].at >= log[i].at
            BY <3>4, <5>2 DEF ElectionOK
          <6>2. log[i].at \in Nat
            BY <5>2 DEF VotesOK, Cast
          <6>3. votes[log[i].sender].at \in Nat /\ votes[log[i].sender].at >= old.votes[log[i].sender].at
            BY <3>6, <6>1
          <6> QED  BY <3>7, <6>1, <6>2, <6>3
        <5> QED  BY <5>1, <5>2
      <4> QED  BY <3>4, <3>6, <3>7, <4>1, <4>2 DEF ElectionOK
    <3>9. DOMAIN result.st.elections = DOMAIN st.elections
      BY <3>1
    <3>10. ASSUME NEW x \in DOMAIN result.st.elections
           PROVE  ElectionOK(log, result.st.elections[x], Cast(log, done \cup {id}, x))
      BY <3>1, <3>2, <3>3, <3>8 DEF VotesOK
    <3> QED  BY <1>5, <2>1, <2>3, <3>1, <3>9, <3>10 DEF VotesOK, Done
  <2> QED  BY <2>2, <2>3
<1> QED  BY <1>1, <1>2, <1>4, <1>5 DEF ElectionKind

-----------------------------------------------------------------------------
(* Roll calls                                                                *)

\* The roll call a message is about: the message itself, or the one that the
\* message it names is about.
LEMMA NamedRec ==
  ASSUME NEW lg, Len(lg) \in Nat, NEW x \in 1 .. Len(lg)
  PROVE  RollCallNamed(lg, x)
           = IF Names(lg[x]) \in 1 .. x - 1 THEN RollCallNamed(lg, Names(lg[x])) ELSE x
<1> DEFINE n == Len(lg)
           Body(m, g) == [id \in 1 .. m |->
                            IF Names(lg[id]) \in 1 .. id - 1 THEN g[Names(lg[id])] ELSE id]
           Q == {m \in Nat : \E g : g = Body(m, g)}
<1>1. 0 \in Q
  <2>1. Body(0, <<>>) = Body(0, Body(0, <<>>))
    OBVIOUS
  <2> QED  BY <2>1
<1>2. ASSUME NEW m \in Nat, m \in Q PROVE m + 1 \in Q
  <2>1. PICK g : g = Body(m, g)
    BY <1>2
  <2> DEFINE h == Body(m + 1, g)
  <2>2. ASSUME NEW id \in 1 .. m  PROVE h[id] = g[id]
    <3>1. id \in 1 .. m + 1
      OBVIOUS
    <3>2. g[id] = Body(m, g)[id]
      BY <2>1
    <3> QED  BY <3>1, <3>2
  <2>3. ASSUME NEW id \in 1 .. m + 1
        PROVE  h[id] = IF Names(lg[id]) \in 1 .. id - 1 THEN h[Names(lg[id])] ELSE id
    <3>1. Names(lg[id]) \in 1 .. id - 1 => Names(lg[id]) \in 1 .. m
      OBVIOUS
    <3>2. Names(lg[id]) \in 1 .. id - 1 => h[Names(lg[id])] = g[Names(lg[id])]
      BY <2>2, <3>1
    <3> QED  BY <3>2
  <2>4. h = [id \in 1 .. m + 1 |-> h[id]]
    OBVIOUS
  <2> HIDE DEF h
  <2>5. h = Body(m + 1, h)
    BY <2>3, <2>4
  <2> QED  BY <2>5
<1>3. n \in Q
  <2> HIDE DEF Q, n
  <2> QED  BY <1>1, <1>2, NatInduct DEF n
<1> DEFINE named == CHOOSE g : g = Body(n, g)
<1>4. named = Body(n, named)
  <2>1. \E g : g = Body(n, g)
    BY <1>3
  <2> HIDE DEF Body
  <2> QED  BY <2>1
<1>5. \A y : RollCallNamed(lg, y) = named[y]
  BY DEF RollCallNamed
<1> HIDE DEF named
<1>6. Names(lg[x]) \in 1 .. x - 1 => Names(lg[x]) \in 1 .. n
  OBVIOUS
<1>7. named[x] = IF Names(lg[x]) \in 1 .. x - 1 THEN named[Names(lg[x])] ELSE x
  BY <1>4
<1> QED  BY <1>5, <1>7

\* A log with what was accepted later.
Grown(lg, longer) ==
  /\ Len(lg) \in Nat /\ Len(longer) \in Nat /\ Len(lg) <= Len(longer)
  /\ DOMAIN lg = 1 .. Len(lg) /\ DOMAIN longer = 1 .. Len(longer)
  /\ \A id \in DOMAIN lg : longer[id] = lg[id]

\* What a message is about does not change when the log grows.
LEMMA NamedAlike ==
  ASSUME NEW lg, NEW longer, Grown(lg, longer)
  PROVE  \A x \in DOMAIN lg : RollCallNamed(longer, x) = RollCallNamed(lg, x)
<1> DEFINE Same(x) == RollCallNamed(longer, x) = RollCallNamed(lg, x)
           Q == {m \in Nat : \A x \in 1 .. m : x \in DOMAIN lg => Same(x)}
<1>1. 0 \in Q
  OBVIOUS
<1>2. ASSUME NEW m \in Nat, m \in Q PROVE m + 1 \in Q
  <2> HIDE DEF Same
  <2> SUFFICES ASSUME m + 1 \in DOMAIN lg PROVE Same(m + 1)
    BY <1>2
  <2> DEFINE x == m + 1
             named == Names(lg[x])
  <2>1. x \in 1 .. Len(lg) /\ x \in 1 .. Len(longer) /\ longer[x] = lg[x]
    BY DEF Grown
  <2>2. RollCallNamed(lg, x) = IF named \in 1 .. x - 1 THEN RollCallNamed(lg, named) ELSE x
    BY <2>1, NamedRec DEF Grown
  <2>3. RollCallNamed(longer, x) = IF named \in 1 .. x - 1 THEN RollCallNamed(longer, named) ELSE x
    BY <2>1, NamedRec DEF Grown
  <2>4. named \in 1 .. x - 1 => Same(named)
    BY <1>2, <2>1 DEF Grown
  <2> QED  BY <2>2, <2>3, <2>4 DEF Same
<1>3. ASSUME NEW x \in DOMAIN lg  PROVE Same(x)
  <2> HIDE DEF Same
  <2>1. Len(lg) \in Q
    <3> HIDE DEF Q
    <3> QED  BY <1>1, <1>2, NatInduct DEF Grown
  <2>2. x \in 1 .. Len(lg)
    BY DEF Grown
  <2> QED  BY <2>1, <2>2
<1> QED  BY <1>3

RollCallFields == {"lao", "status", "alias", "openedAt", "closedAt", "attendees"}

\* The messages about a roll call that were processed.
About(lg, done, r) == {id \in done : RollCallNamed(lg, id) = r}

\* A roll call is what the message that gave it its alias makes of it.
RollCallOK(lg, r, rc, done) ==
  /\ DOMAIN rc = RollCallFields
  /\ rc.status \in RollCallStatus /\ WellFormedRollCall(rc)
  /\ rc.alias = None => /\ About(lg, done, r) = {r}
                        /\ rc.status = "created" /\ rc.attendees = {}
  /\ rc.alias # None =>
       /\ rc.alias \in About(lg, done, r)
       /\ lg[rc.alias].kind \in RollCallKind \ {"roll_call_create"}
       /\ rc.status = StatusAfter(lg[rc.alias].kind)
       /\ rc.status = "closed" => rc.attendees = lg[rc.alias].attendees
       /\ rc.status = "reopened" => rc.attendees = lg[lg[rc.alias].opens].attendees

\* The index has the alias of every roll call, and no two have the same.
AliasesOK(rollCalls, byAlias) ==
  /\ byAlias = [x \in {rollCalls[r].alias : r \in DOMAIN rollCalls} \ {None} |-> byAlias[x]]
  /\ \A r \in DOMAIN rollCalls :
       rollCalls[r].alias # None => byAlias[rollCalls[r].alias] = r

\* What a message that was processed names was processed before it.
NamesOK(lg, done) ==
  \A id \in done : /\ RollCallNamed(lg, id) \in done
                   /\ Names(lg[id]) # None => Names(lg[id]) \in done

RollCallsOK(lg, st, done) ==
  /\ \A r \in DOMAIN st.rollCalls : RollCallOK(lg, r, st.rollCalls[r], done)
  /\ AliasesOK(st.rollCalls, st.byAlias)
  /\ NamesOK(lg, done)

\* A message that creates a roll call is about itself.
LEMMA NamedByNobody ==
  ASSUME Len(log) \in Nat, NEW id \in 1 .. Len(log),
         log[id].kind \notin RollCallKind \ {"roll_call_create"}
  PROVE  Names(log[id]) = None /\ RollCallNamed(log, id) = id
<1>1. Names(log[id]) = None
  BY DEF Names, RollCallKind
<1>2. None \notin 1 .. id - 1
  BY NoneAssumption
<1> QED  BY <1>1, <1>2, NamedRec

\* Where GetRollCallById finds a roll call, it is the one the message is about:
\* it finds it by the last alias, or by its own id while it has none.
LEMMA FindsNamed ==
  ASSUME NEW st, NEW done, NEW x, EventsOK(log, st, done), RollCallsOK(log, st, done),
         Len(log) \in Nat, done \subseteq 1 .. Len(log), GetRollCallById(st, x) # None
  PROVE  LET r == GetRollCallById(st, x)
         IN  /\ r \in DOMAIN st.rollCalls /\ x \in done /\ RollCallNamed(log, x) = r
             /\ log[x].kind # "roll_call_create" => st.rollCalls[r].alias = x
<1>1. CASE x \in DOMAIN st.byAlias
  <2>1. PICK r \in DOMAIN st.rollCalls : st.rollCalls[r].alias = x /\ x # None
    BY <1>1 DEF RollCallsOK, AliasesOK
  <2>2. st.byAlias[x] = r
    BY <2>1 DEF RollCallsOK, AliasesOK
  <2>3. x \in About(log, done, r)
    BY <2>1 DEF RollCallsOK, RollCallOK
  <2> QED  BY <1>1, <2>1, <2>2, <2>3 DEF GetRollCallById, About
<1>2. CASE x \notin DOMAIN st.byAlias
  <2>1. x \in DOMAIN st.rollCalls /\ GetRollCallById(st, x) = x
    BY <1>2 DEF GetRollCallById
  <2>2. x \in done /\ log[x].kind = "roll_call_create"
    BY <2>1 DEF EventsOK, OfKind
  <2> QED  BY <2>1, <2>2, NamedByNobody
<1> QED  BY <1>1, <1>2

\* A message that names one about a roll call is about this roll call, too.
LEMMA NextInChain ==
  ASSUME NEW st, NEW done, NEW id \in 1 .. Len(log), DOMAIN st = Slices,
         EventsOK(log, st, done), RollCallsOK(log, st, done), Len(log) \in Nat,
         done \subseteq 1 .. Len(log), NEW r \in DOMAIN st.rollCalls, NEW rc,
         log[id].kind \in RollCallKind \ {"roll_call_create"},
         Names(log[id]) \in done, Names(log[id]) \in 1 .. id - 1,
         RollCallNamed(log, Names(log[id])) = r,
         RollCallNamed(log, id) = r => RollCallOK(log, r, rc, done \cup {id}), rc.alias = id
  PROVE  LET u == UpdateRollCallEvent(st, r, rc)
         IN  u.ok /\ RollCallsOK(log, u.st, done \cup {id})
<1> DEFINE u == UpdateRollCallEvent(st, r, rc)
           now == done \cup {id}
           old == st.rollCalls[r].alias
<1>1. RollCallNamed(log, id) = r /\ id # None
  BY NamedRec, NoneAssumption
<1>2. r \in DOMAIN st.events
  BY DEF EventsOK
<1>3. /\ u.ok
      /\ u.st.rollCalls = [st.rollCalls EXCEPT ![r] = rc]
      /\ u.st.byAlias = Put(IF old = None THEN st.byAlias ELSE Drop(st.byAlias, old), id, r)
  BY <1>2 DEF UpdateRollCallEvent, UpdateRollCall, UpdateEvent, Handled, NotHandled, Slices
<1> HIDE DEF u
<1>4. ASSUME NEW q \in DOMAIN st.rollCalls, q # r
      PROVE  RollCallOK(log, q, st.rollCalls[q], now)
  <2>1. About(log, now, q) = About(log, done, q)
    BY <1>1, <1>4 DEF About
  <2> QED  BY <2>1 DEF RollCallsOK, RollCallOK
<1>5. \A q \in DOMAIN u.st.rollCalls : RollCallOK(log, q, u.st.rollCalls[q], now)
  BY <1>1, <1>3, <1>4
<1>6. ASSUME NEW q \in DOMAIN st.rollCalls, q # r
      PROVE  st.rollCalls[q].alias # id /\ (st.rollCalls[q].alias # None => st.rollCalls[q].alias # old)
  <2>1. st.rollCalls[q].alias # None => RollCallNamed(log, st.rollCalls[q].alias) = q
    BY DEF RollCallsOK, RollCallOK, About
  <2>2. old # None => RollCallNamed(log, old) = r
    BY DEF RollCallsOK, RollCallOK, About
  <2> QED  BY <1>1, <1>6, <2>1, <2>2
<1>7. AliasesOK(u.st.rollCalls, u.st.byAlias)
  <2> DEFINE aliases(f) == {f[q].alias : q \in DOMAIN f} \ {None}
  <2>1. DOMAIN st.byAlias = aliases(st.rollCalls)
    BY DEF RollCallsOK, AliasesOK
  <2>2. aliases(u.st.rollCalls) = (aliases(st.rollCalls) \ {old}) \cup {id}
    <3>1. DOMAIN u.st.rollCalls = DOMAIN st.rollCalls /\ u.st.rollCalls[r].alias = id
      BY <1>3
    <3>2. \A q \in DOMAIN st.rollCalls : q # r => u.st.rollCalls[q].alias = st.rollCalls[q].alias
      BY <1>3
    <3>3. aliases(u.st.rollCalls)
            = ({st.rollCalls[q].alias : q \in DOMAIN st.rollCalls \ {r}} \ {None}) \cup {id}
      BY <1>1, <3>1, <3>2
    <3>4. {st.rollCalls[q].alias : q \in DOMAIN st.rollCalls \ {r}} \ {None}
            = aliases(st.rollCalls) \ {old}
      BY <1>6
    <3> QED  BY <3>3, <3>4
  <2>3. DOMAIN u.st.byAlias = aliases(u.st.rollCalls)
    BY <1>1, <1>3, <2>1, <2>2 DEF Put, Drop
  <2>4. u.st.byAlias = [x \in DOMAIN u.st.byAlias |-> u.st.byAlias[x]]
    BY <1>3 DEF Put
  <2>5. ASSUME NEW q \in DOMAIN u.st.rollCalls, u.st.rollCalls[q].alias # None
        PROVE  u.st.byAlias[u.st.rollCalls[q].alias] = q
    <3>1. CASE q = r
      BY <1>3, <3>1 DEF Put
    <3>2. CASE q # r
      <4>1. q \in DOMAIN st.rollCalls /\ u.st.rollCalls[q].alias = st.rollCalls[q].alias
        BY <1>3, <3>2
      <4>2. st.byAlias[st.rollCalls[q].alias] = q /\ st.rollCalls[q].alias \in DOMAIN st.byAlias
        BY <2>1, <2>5, <4>1 DEF RollCallsOK, AliasesOK
      <4> QED  BY <1>3, <1>6, <2>5, <3>2, <4>1, <4>2 DEF Put, Drop
    <3> QED  BY <3>1, <3>2
  <2> QED  BY <2>3, <2>4, <2>5 DEF AliasesOK
<1>8. NamesOK(log, now)
  BY <1>1 DEF RollCallsOK, NamesOK, EventsOK, OfKind
<1> QED  BY <1>3, <1>5, <1>7, <1>8 DEF RollCallsOK, u

\* No handler breaks RollCallsOK. The hard case is a message that comes before
\* the one it names, or is handled again after a later one: it finds no roll
\* call, and is not taken as processed.
LEMMA RollCallsHandled ==
  ASSUME NEW st, NEW done, NEW id \in 1 .. Len(log), DOMAIN st = Slices,
         log[id].kind \in RegisteredKind, MessageOK(log, id), Len(log) \in Nat,
         done \subseteq 1 .. Len(log), EventsOK(log, st, done), RollCallsOK(log, st, done)
  PROVE  LET result == HandleMessage(st, id)
         IN  RollCallsOK(log, result.st, Done(result, done, id))
<1> DEFINE m == log[id]
           result == HandleMessage(st, id)
           now == done \cup {id}
<1>0. id # None /\ id \in Nat
  BY NoneAssumption
<1>a. ASSUME m.kind \notin RollCallKind \ {"roll_call_create"}, NEW r \in DOMAIN st.rollCalls, r # id
      PROVE  RollCallOK(log, r, st.rollCalls[r], now)
  <2>1. About(log, now, r) = About(log, done, r)
    BY <1>a, NamedByNobody DEF About
  <2> QED  BY <2>1 DEF RollCallsOK, RollCallOK
<1>b. ASSUME m.kind \notin RollCallKind \ {"roll_call_create"}
      PROVE  NamesOK(log, now)
  BY <1>b, NamedByNobody DEF RollCallsOK, NamesOK
<1>c. ASSUME NEW t, t.rollCalls = st.rollCalls, t.byAlias = st.byAlias
      PROVE  RollCallsOK(log, t, done)
  BY <1>c DEF RollCallsOK
<1>1. CASE m.kind \notin RollCallKind
  <2>1. result.st.rollCalls = st.rollCalls /\ result.st.byAlias = st.byAlias
    BY <1>1, Untouched
  <2> HIDE DEF result
  <2>2. \A r \in DOMAIN st.rollCalls : r # id
    BY <1>1 DEF EventsOK, OfKind, RollCallKind
  <2>3. AliasesOK(result.st.rollCalls, result.st.byAlias)
    BY <2>1 DEF RollCallsOK
  <2>4. m.kind \notin RollCallKind \ {"roll_call_create"}
    BY <1>1
  <2>5. RollCallsOK(log, result.st, now)
    BY <1>a, <1>b, <2>1, <2>2, <2>3, <2>4 DEF RollCallsOK
  <2> QED  BY <1>c, <2>1, <2>5 DEF Done, result
<1>2. CASE m.kind = "roll_call_create"
  <2>1. result = AddRollCallEvent(st, id, NewRollCall(m))
    BY <1>2 DEF HandleMessage, HandleRollCallCreate
  <2>2. CASE id \in DOMAIN st.rollCalls
    <3>1. result = NotHandled(st)
      BY <2>1, <2>2 DEF AddRollCallEvent
    <3> QED  BY <1>c, <3>1 DEF NotHandled, Done
  <2>3. CASE id \notin DOMAIN st.rollCalls
    <3>1. id \notin DOMAIN st.events /\ id \notin done
      <4>1. id \notin done
        BY <1>2, <2>3 DEF EventsOK, OfKind
      <4> QED  BY <4>1 DEF EventsOK, OfKind
    <3>2. /\ result.ok /\ result.st.byAlias = st.byAlias
          /\ result.st.rollCalls = Put(st.rollCalls, id, NewRollCall(m))
      <4> DEFINE s == [st EXCEPT !.rollCalls = Put(@, id, NewRollCall(m))]
      <4>1. /\ s.rollCalls = Put(st.rollCalls, id, NewRollCall(m))
            /\ s.events = st.events /\ s.byAlias = st.byAlias /\ DOMAIN s = Slices
        BY DEF Slices
      <4>2. result = AddEvent(s, id, EventOfRollCall(NewRollCall(m)))
        BY <2>1, <2>3 DEF AddRollCallEvent
      <4> HIDE DEF s, result
      <4> QED  BY <3>1, <4>1, <4>2 DEF AddEvent, Handled, Slices
    <3> HIDE DEF result
    <3>3. m.kind \notin RollCallKind \ {"roll_call_create"}
      BY <1>2
    <3>4. RollCallNamed(log, id) = id
      BY <3>3, NamedByNobody
    <3>5. About(log, now, id) = {id}
      BY <3>1, <3>4 DEF About, RollCallsOK, NamesOK
    <3>6. RollCallOK(log, id, NewRollCall(m), now)
      BY <3>5 DEF RollCallOK, NewRollCall, RollCallFields, RollCallStatus, WellFormedRollCall
    <3>7. \A r \in DOMAIN result.st.rollCalls : RollCallOK(log, r, result.st.rollCalls[r], now)
      BY <1>a, <3>2, <3>3, <3>6 DEF Put
    <3>8. AliasesOK(result.st.rollCalls, result.st.byAlias)
      <4>1. NewRollCall(m).alias = None
        BY DEF NewRollCall
      <4>2. {result.st.rollCalls[r].alias : r \in DOMAIN result.st.rollCalls} \ {None}
              = {st.rollCalls[r].alias : r \in DOMAIN st.rollCalls} \ {None}
        BY <2>3, <3>2, <4>1 DEF Put
      <4> QED  BY <3>2, <4>1, <4>2 DEF RollCallsOK, AliasesOK, Put
    <3> QED  BY <1>b, <3>2, <3>3, <3>7, <3>8 DEF RollCallsOK, Done, result
  <2> QED  BY <2>2, <2>3
<1>3. CASE m.kind = "roll_call_open"
  <2> DEFINE r == GetRollCallById(st, m.opens)
             rc == [st.rollCalls[r] EXCEPT !.alias = id, !.openedAt = id, !.status = "opened"]
  <2>1. result = HandleRollCallOpen(st, m, id)
    BY <1>3 DEF HandleMessage
  <2>2. CASE r = None
    BY <1>c, <2>1, <2>2 DEF HandleRollCallOpen, NotHandled, Done
  <2>3. CASE r # None
    <3>1. /\ r \in DOMAIN st.rollCalls /\ m.opens \in done
          /\ RollCallNamed(log, m.opens) = r
      BY <2>3, FindsNamed
    <3>2. m.opens \in 1 .. id - 1 /\ Names(m) = m.opens
      BY <1>3 DEF MessageOK, Names
    <3> HIDE DEF r
    <3>3. result = UpdateRollCallEvent(st, r, rc)
      BY <2>1, <2>3 DEF HandleRollCallOpen, r
    <3>4. DOMAIN st.rollCalls[r] = RollCallFields
      BY <3>1 DEF RollCallsOK, RollCallOK
    <3>5. ASSUME RollCallNamed(log, id) = r PROVE RollCallOK(log, r, rc, now)
      <4>1. id \in About(log, now, r)
        BY <3>5 DEF About
      <4>2. /\ DOMAIN rc = RollCallFields /\ rc.alias = id /\ rc.openedAt = id /\ rc.status = "opened"
        BY <3>4 DEF RollCallFields
      <4> HIDE DEF rc
      <4>3. StatusAfter(m.kind) = "opened" /\ m.kind \in RollCallKind \ {"roll_call_create"}
        BY <1>3 DEF StatusAfter, RollCallKind
      <4> QED  BY <1>0, <4>1, <4>2, <4>3 DEF RollCallOK, RollCallStatus, WellFormedRollCall
    <3>6. rc.alias = id
      BY <3>4 DEF RollCallFields
    <3>7. m.kind \in RollCallKind \ {"roll_call_create"}
      BY <1>3 DEF RollCallKind
    <3> HIDE DEF rc
    <3>8. LET u == UpdateRollCallEvent(st, r, rc)
          IN  u.ok /\ RollCallsOK(log, u.st, now)
      BY <3>1, <3>2, <3>5, <3>6, <3>7, NextInChain
    <3> QED  BY <3>3, <3>8 DEF Done
  <2> QED  BY <2>2, <2>3
<1>4. CASE m.kind = "roll_call_reopen"
  <2> DEFINE r == GetRollCallById(st, m.opens)
             rc == [st.rollCalls[r] EXCEPT !.alias = id, !.openedAt = id, !.closedAt = None,
                                           !.status = "reopened"]
  <2>1. result = HandleRollCallReopen(st, m, id)
    BY <1>4 DEF HandleMessage
  <2>2. CASE r = None \/ st.rollCalls[r].status # "closed"
    BY <1>c, <2>1, <2>2 DEF HandleRollCallReopen, NotHandled, Done
  <2>3. CASE ~(r = None \/ st.rollCalls[r].status # "closed")
    <3>2. m.opens \in 1 .. id - 1 /\ Names(m) = m.opens /\ log[m.opens].kind = "roll_call_close"
      BY <1>4 DEF MessageOK, Names
    <3>1. /\ r \in DOMAIN st.rollCalls /\ m.opens \in done
          /\ RollCallNamed(log, m.opens) = r /\ st.rollCalls[r].alias = m.opens
      BY <2>3, <3>2, FindsNamed
    <3> HIDE DEF r
    <3>3. result = UpdateRollCallEvent(st, r, rc)
      BY <2>1, <2>3 DEF HandleRollCallReopen, r
    <3>4. /\ DOMAIN st.rollCalls[r] = RollCallFields
          /\ st.rollCalls[r].attendees = log[m.opens].attendees
      BY <1>0, <2>3, <3>1, <3>2, NoneAssumption DEF RollCallsOK, RollCallOK
    <3>5. ASSUME RollCallNamed(log, id) = r PROVE RollCallOK(log, r, rc, now)
      <4>1. id \in About(log, now, r)
        BY <3>5 DEF About
      <4>2. /\ DOMAIN rc = RollCallFields /\ rc.alias = id /\ rc.openedAt = id /\ rc.status = "reopened"
            /\ rc.attendees = log[m.opens].attendees
        BY <3>4 DEF RollCallFields
      <4> HIDE DEF rc
      <4>3. StatusAfter(m.kind) = "reopened" /\ m.kind \in RollCallKind \ {"roll_call_create"}
        BY <1>4 DEF StatusAfter, RollCallKind
      <4> QED  BY <1>0, <4>1, <4>2, <4>3 DEF RollCallOK, RollCallStatus, WellFormedRollCall
    <3>6. rc.alias = id
      BY <3>4 DEF RollCallFields
    <3>7. m.kind \in RollCallKind \ {"roll_call_create"}
      BY <1>4 DEF RollCallKind
    <3> HIDE DEF rc
    <3>8. LET u == UpdateRollCallEvent(st, r, rc)
          IN  u.ok /\ RollCallsOK(log, u.st, now)
      BY <3>1, <3>2, <3>5, <3>6, <3>7, NextInChain
    <3> QED  BY <3>3, <3>8 DEF Done
  <2> QED  BY <2>2, <2>3
<1>5. CASE m.kind = "roll_call_close"
  <2> DEFINE r == GetRollCallById(st, m.closes)
             rc == [st.rollCalls[r] EXCEPT !.alias = id, !.closedAt = id, !.status = "closed",
                                           !.attendees = m.attendees]
             u == UpdateRollCallEvent(st, r, rc)
  <2>1. result = HandleRollCallClose(st, m, id)
    BY <1>5 DEF HandleMessage
  <2>2. CASE r = None
    BY <1>c, <2>1, <2>2 DEF HandleRollCallClose, NotHandled, Done
  <2>3. CASE r # None
    <3>2. /\ m.closes \in 1 .. id - 1 /\ Names(m) = m.closes
          /\ log[m.closes].kind \in {"roll_call_open", "roll_call_reopen"}
      BY <1>5 DEF MessageOK, Names
    <3>1. /\ r \in DOMAIN st.rollCalls /\ m.closes \in done
          /\ RollCallNamed(log, m.closes) = r /\ st.rollCalls[r].alias = m.closes
      BY <2>3, <3>2, FindsNamed
    <3>a. \/ result = u
          \/ u.ok /\ \E task : result = Handled(Later(u.st, task))
      BY <2>1, <2>3 DEF HandleRollCallClose
    <3> HIDE DEF r
    <3>4. /\ DOMAIN st.rollCalls[r] = RollCallFields
          /\ st.rollCalls[r].openedAt # None
      BY <1>0, <3>1, <3>2, NoneAssumption DEF RollCallsOK, RollCallOK, WellFormedRollCall, StatusAfter
    <3>5. ASSUME RollCallNamed(log, id) = r PROVE RollCallOK(log, r, rc, now)
      <4>1. id \in About(log, now, r)
        BY <3>5 DEF About
      <4>2. /\ DOMAIN rc = RollCallFields /\ rc.alias = id /\ rc.closedAt = id /\ rc.status = "closed"
            /\ rc.attendees = m.attendees /\ rc.openedAt # None
        BY <3>4 DEF RollCallFields
      <4> HIDE DEF rc
      <4>3. StatusAfter(m.kind) = "closed" /\ m.kind \in RollCallKind \ {"roll_call_create"}
        BY <1>5 DEF StatusAfter, RollCallKind
      <4> QED  BY <1>0, <4>1, <4>2, <4>3 DEF RollCallOK, RollCallStatus, WellFormedRollCall
    <3>6. rc.alias = id
      BY <3>4 DEF RollCallFields
    <3>7. m.kind \in RollCallKind \ {"roll_call_create"}
      BY <1>5 DEF RollCallKind
    <3>b. DOMAIN u.st = Slices
      BY DEF UpdateRollCallEvent, UpdateRollCall, UpdateEvent, Handled, NotHandled, Slices
    <3> HIDE DEF rc
    <3>8. u.ok /\ RollCallsOK(log, u.st, now)
      BY <3>1, <3>2, <3>5, <3>6, <3>7, NextInChain
    <3> HIDE DEF u, result
    <3>9. ASSUME NEW task, result = Handled(Later(u.st, task))
          PROVE  result.ok /\ RollCallsOK(log, result.st, now)
      <4>1. /\ result.ok /\ result.st.rollCalls = u.st.rollCalls
            /\ result.st.byAlias = u.st.byAlias
        BY <3>9, <3>b DEF Handled, Later, Slices
      <4> QED  BY <3>8, <4>1 DEF RollCallsOK
    <3> QED  BY <3>8, <3>9, <3>a DEF Done, result
  <2> QED  BY <2>2, <2>3
<1> QED  BY <1>1, <1>2, <1>3, <1>4, <1>5 DEF RollCallKind

-----------------------------------------------------------------------------
(* Where a chirp is inserted                                                 *)

LEMMA Middle ==
  ASSUME NEW lo \in Nat, NEW hi \in Nat, lo < hi
  PROVE  LET mid == (lo + hi) \div 2 IN mid \in Nat /\ lo <= mid /\ mid < hi
OBVIOUS

\* The search for the place of a chirp, from and to two places.
Halves(n, newer, g) ==
  [p \in (0 .. n) \X (0 .. n) |->
     LET lo == p[1]
         hi == p[2]
         mid == (lo + hi) \div 2
     IN IF lo >= hi THEN lo
        ELSE IF mid + 1 \in newer THEN g[<<mid + 1, hi>>] ELSE g[<<lo, mid>>]]

\* The recursion is well founded, since the places come nearer: a function with
\* its values exists.
LEMMA SearchRec ==
  ASSUME NEW n \in Nat, NEW newer
  PROVE  \E g : g = Halves(n, newer, g)
<1> DEFINE P == (0 .. n) \X (0 .. n)
           Near(k) == {p \in P : p[2] - p[1] <= k}
           Val(g, p) ==
             LET lo == p[1]
                 hi == p[2]
                 mid == (lo + hi) \div 2
             IN IF lo >= hi THEN lo
                ELSE IF mid + 1 \in newer THEN g[<<mid + 1, hi>>] ELSE g[<<lo, mid>>]
           Q == {k \in Nat : \E g : g = [p \in Near(k) |-> Val(g, p)]}
<1>1. 0 \in Q
  <2> DEFINE g == [p \in Near(0) |-> p[1]]
  <2>1. \A p \in Near(0) : Val(g, p) = p[1]
    OBVIOUS
  <2>2. g = [p \in Near(0) |-> Val(g, p)]
    BY <2>1
  <2> QED  BY <2>2
<1>2. ASSUME NEW k \in Nat, NEW p \in Near(k + 1), p[1] < p[2]
      PROVE  LET mid == (p[1] + p[2]) \div 2
             IN  <<mid + 1, p[2]>> \in Near(k) /\ <<p[1], mid>> \in Near(k)
  <2> DEFINE mid == (p[1] + p[2]) \div 2
  <2>1. p[1] \in 0 .. n /\ p[2] \in 0 .. n /\ p[2] - p[1] <= k + 1
    OBVIOUS
  <2>2. mid \in Nat /\ p[1] <= mid /\ mid < p[2]
    BY <1>2, <2>1, Middle
  <2> HIDE DEF mid
  <2>3. <<mid + 1, p[2]>> \in P /\ <<p[1], mid>> \in P
    BY <2>1, <2>2
  <2> QED  BY <2>1, <2>2, <2>3 DEF mid
<1>3. ASSUME NEW k \in Nat, k \in Q PROVE k + 1 \in Q
  <2>1. PICK g : g = [p \in Near(k) |-> Val(g, p)]
    BY <1>3
  <2> DEFINE h == [p \in Near(k + 1) |-> Val(g, p)]
  <2> HIDE DEF Near
  <2>2. Near(k) \subseteq Near(k + 1)
    BY DEF Near
  <2>3. \A p \in Near(k) : h[p] = g[p]
    BY <2>1, <2>2
  <2>4. ASSUME NEW p \in Near(k + 1) PROVE Val(h, p) = Val(g, p)
    <3>1. CASE p[1] >= p[2]
      BY <3>1
    <3>2. CASE ~(p[1] >= p[2])
      <4> DEFINE mid == (p[1] + p[2]) \div 2
      <4>0. p[1] < p[2]
        BY <3>2 DEF Near
      <4>1. <<mid + 1, p[2]>> \in Near(k) /\ <<p[1], mid>> \in Near(k)
        BY <1>2, <4>0
      <4>2. h[<<mid + 1, p[2]>>] = g[<<mid + 1, p[2]>>] /\ h[<<p[1], mid>>] = g[<<p[1], mid>>]
        BY <2>3, <4>1
      <4> HIDE DEF h, mid
      <4>3. \A f : Val(f, p) = IF mid + 1 \in newer THEN f[<<mid + 1, p[2]>>] ELSE f[<<p[1], mid>>]
        BY <3>2 DEF mid
      <4> HIDE DEF Val
      <4> QED  BY <4>2, <4>3
    <3> QED  BY <3>1, <3>2
  <2> HIDE DEF Val
  <2>5. h = [p \in Near(k + 1) |-> Val(h, p)]
    BY <2>4
  <2> HIDE DEF h
  <2>6. \E f : f = [p \in Near(k + 1) |-> Val(f, p)]
    BY <2>5
  <2> QED  BY <2>6
<1>4. n \in Q
  <2> HIDE DEF Q
  <2> QED  BY <1>1, <1>3, NatInduct
<1>5. Near(n) = P
  OBVIOUS
<1>6. \E g : g = [p \in P |-> Val(g, p)]
  <2> HIDE DEF Val, P
  <2> QED  BY <1>4, <1>5
<1>7. \A g : Halves(n, newer, g) = [p \in P |-> Val(g, p)]
  BY DEF Halves
<1> HIDE DEF Val, P
<1>8. PICK g : g = [p \in P |-> Val(g, p)]
  BY <1>6
<1> QED  BY <1>7, <1>8

\* In a list from the newest to the oldest, what is before the place found is
\* newer and what is behind is not.
LEMMA InsertIdx ==
  ASSUME NEW S, NEW list \in Seq(S), NEW byId, NEW time \in Nat,
         \A j \in 1 .. Len(list) : byId[list[j]].time \in Nat
  PROVE  LET at == FindInsertIdx(list, byId, time)
         IN  /\ at \in 0 .. Len(list)
             /\ (\A i, j \in 1 .. Len(list) : i < j => byId[list[i]].time >= byId[list[j]].time) =>
                  /\ \A j \in 1 .. at : byId[list[j]].time > time
                  /\ \A j \in at + 1 .. Len(list) : byId[list[j]].time <= time
<1> DEFINE n == Len(list)
           P == (0 .. n) \X (0 .. n)
           T(j) == byId[list[j]].time
           newer == {j \in 1 .. n : T(j) > time}
           Body(g) == Halves(n, newer, g)
           Code(g) == [p \in P |->
               LET lo == p[1]
                   hi == p[2]
                   mid == (lo + hi) \div 2
               IN IF lo >= hi THEN lo
                  ELSE IF T(mid + 1) > time THEN g[<<mid + 1, hi>>] ELSE g[<<lo, mid>>]]
           search == CHOOSE g : g = Code(g)
           Sorted == \A i, j \in 1 .. n : i < j => T(i) >= T(j)
           Splits(lo, hi) == Sorted => /\ \A j \in 1 .. lo : T(j) > time
                                       /\ \A j \in hi + 1 .. n : T(j) <= time
<1>1. n \in Nat
  OBVIOUS
<1>2. ASSUME NEW p \in P, p[1] < p[2]
      PROVE  (p[1] + p[2]) \div 2 \in p[1] .. p[2] - 1
  <2>1. p[1] \in Nat /\ p[2] \in Nat
    OBVIOUS
  <2> QED  BY <1>2, <2>1, Middle
<1>3. \A g : Body(g) = Code(g)
  <2> SUFFICES ASSUME NEW g, NEW p \in P PROVE Body(g)[p] = Code(g)[p]
    BY DEF Halves
  <2>1. CASE p[1] >= p[2]
    BY <2>1 DEF Halves
  <2>2. CASE ~(p[1] >= p[2])
    <3> DEFINE mid == (p[1] + p[2]) \div 2
    <3>1. mid + 1 \in 1 .. n
      BY <1>1, <1>2, <2>2
    <3>2. mid + 1 \in newer <=> T(mid + 1) > time
      BY <3>1
    <3> HIDE DEF newer, T
    <3> QED  BY <2>2, <3>2 DEF Halves
  <2> QED  BY <2>1, <2>2
<1>4. search = Body(search)
  <2>1. \E g : g = Body(g)
    BY <1>1, SearchRec
  <2>2. \E g : g = Code(g)
    <3> HIDE DEF Body, Code
    <3> QED  BY <1>3, <2>1
  <2>3. search = Code(search)
    <3> HIDE DEF Code
    <3> QED  BY <2>2
  <2> HIDE DEF search, Code, Body
  <2> QED  BY <1>3, <2>3
<1>5. FindInsertIdx(list, byId, time) = search[<<0, n>>]
  BY DEF FindInsertIdx
<1> HIDE DEF search
<1>6. ASSUME NEW p \in P
      PROVE  LET mid == (p[1] + p[2]) \div 2
             IN  search[p] = IF p[1] >= p[2] THEN p[1]
                             ELSE IF mid + 1 \in newer THEN search[<<mid + 1, p[2]>>]
                             ELSE search[<<p[1], mid>>]
  <2>1. search[p] = Body(search)[p]
    <3> HIDE DEF Body
    <3> QED  BY <1>4
  <2> HIDE DEF newer
  <2> QED  BY <2>1 DEF Halves
<1> DEFINE Good(p) == search[p] \in 0 .. n /\ Splits(search[p], search[p])
           Q == {k \in Nat : \A p \in P :
                   p[1] <= p[2] /\ p[2] - p[1] <= k /\ Splits(p[1], p[2]) => Good(p)}
<1>7. ASSUME NEW p \in P, p[1] = p[2], Splits(p[1], p[2]) PROVE Good(p)
  <2>1. search[p] = p[1] /\ p[1] \in 0 .. n
    <3>1. p[1] \in 0 .. n /\ p[1] >= p[2]
      BY <1>1, <1>7
    <3> HIDE DEF newer, n, P
    <3> QED  BY <1>6, <3>1
  <2> HIDE DEF Splits
  <2> QED  BY <1>7, <2>1
<1>8. 0 \in Q
  <2> HIDE DEF Good, Splits
  <2> QED  BY <1>7
<1>9. ASSUME NEW k \in Nat, k \in Q PROVE k + 1 \in Q
  <2> SUFFICES ASSUME NEW p \in P, p[1] <= p[2], p[2] - p[1] <= k + 1, Splits(p[1], p[2])
               PROVE  Good(p)
    OBVIOUS
  <2>1. CASE p[1] = p[2]
    BY <1>7, <2>1
  <2>2. CASE p[1] < p[2]
    <3> DEFINE mid == (p[1] + p[2]) \div 2
               q == IF mid + 1 \in newer THEN <<mid + 1, p[2]>> ELSE <<p[1], mid>>
    <3>0. p[1] \in 0 .. n /\ p[2] \in 0 .. n
      OBVIOUS
    <3>1. mid \in p[1] .. p[2] - 1
      BY <1>2, <2>2
    <3>2. search[p] = search[q]
      <4> HIDE DEF newer
      <4>1. ~(p[1] >= p[2])
        BY <2>2, <3>0
      <4> QED  BY <1>6, <4>1
    <3> HIDE DEF mid
    <3>3. q \in P /\ q[1] <= q[2] /\ q[2] - q[1] <= k
      <4>1. <<mid + 1, p[2]>> \in P /\ <<p[1], mid>> \in P
        BY <3>0, <3>1
      <4>2. mid + 1 <= p[2] /\ p[2] - (mid + 1) <= k /\ p[1] <= mid /\ mid - p[1] <= k
        BY <3>0, <3>1
      <4> HIDE DEF newer, P
      <4> QED  BY <4>1, <4>2
    <3>4. Splits(q[1], q[2])
      <4> SUFFICES ASSUME Sorted
                   PROVE  /\ \A j \in 1 .. q[1] : T(j) > time
                          /\ \A j \in q[2] + 1 .. n : T(j) <= time
        OBVIOUS
      <4>0. mid + 1 \in 1 .. n /\ mid \in Nat
        BY <3>0, <3>1
      <4>1. CASE mid + 1 \in newer
        <5>1. q[1] = mid + 1 /\ q[2] = p[2] /\ T(mid + 1) > time
          BY <4>1
        <5>2. ASSUME NEW j \in 1 .. mid + 1 PROVE T(j) > time
          <6>1. j \in 1 .. n /\ T(j) \in Nat /\ T(mid + 1) \in Nat
            BY <4>0
          <6>2. T(j) >= T(mid + 1)
            BY <4>0, <6>1
          <6> QED  BY <5>1, <6>1, <6>2
        <5>3. \A j \in p[2] + 1 .. n : T(j) <= time
          OBVIOUS
        <5> HIDE DEF T, q
        <5> QED  BY <5>1, <5>2, <5>3
      <4>2. CASE mid + 1 \notin newer
        <5>1. q[1] = p[1] /\ q[2] = mid /\ T(mid + 1) \in Nat /\ T(mid + 1) <= time
          BY <4>0, <4>2
        <5>2. ASSUME NEW j \in mid + 1 .. n PROVE T(j) <= time
          <6>1. j \in 1 .. n /\ T(j) \in Nat
            BY <4>0
          <6>2. T(mid + 1) >= T(j)
            BY <4>0, <5>1, <6>1
          <6> QED  BY <5>1, <6>1, <6>2
        <5>3. \A j \in 1 .. p[1] : T(j) > time
          OBVIOUS
        <5> HIDE DEF T, q
        <5> QED  BY <5>1, <5>2, <5>3
      <4> QED  BY <4>1, <4>2
    <3>5. Good(q)
      <4> HIDE DEF Good, Splits, q
      <4> QED  BY <1>9, <3>3, <3>4
    <3> HIDE DEF q, Splits
    <3> QED  BY <3>2, <3>5
  <2> QED  BY <2>1, <2>2
<1>10. n \in Q
  <2> HIDE DEF Q
  <2> QED  BY <1>1, <1>8, <1>9, NatInduct
<1>11. <<0, n>> \in P /\ Splits(0, n)
  BY <1>1
<1>12. Good(<<0, n>>)
  <2> HIDE DEF Good, Splits
  <2> QED  BY <1>1, <1>10, <1>11
<1> QED  BY <1>5, <1>12

IsInsertion(new, list, at, e) ==
  /\ Len(new) = Len(list) + 1
  /\ \A i \in 1 .. Len(list) + 1 : new[i] = IF i < at + 1 THEN list[i]
                                            ELSE IF i = at + 1 THEN e ELSE list[i - 1]

\* The list with one more element at a place.
LEMMA InsertedAt ==
  ASSUME NEW S, NEW list \in Seq(S), NEW e \in S, NEW at \in 0 .. Len(list)
  PROVE  InsertAt(list, at + 1, e) \in Seq(S) /\ IsInsertion(InsertAt(list, at + 1, e), list, at, e)
<1> DEFINE n == Len(list)
           front == SubSeq(list, 1, at)
           back == SubSeq(list, at + 1, n)
           one == <<e>>
           new == InsertAt(list, at + 1, e)
<1>1. n \in Nat /\ at \in Nat /\ at <= n /\ \A i \in 1 .. n : list[i] \in S
  OBVIOUS
<1>2. front \in Seq(S) /\ Len(front) = at /\ \A i \in 1 .. at : front[i] = list[i]
  <2>1. \A i \in 1 .. at : list[i] \in S
    BY <1>1
  <2>2. /\ SubSeq(list, 1, at) \in Seq(S)
        /\ Len(SubSeq(list, 1, at)) = IF 1 <= at THEN at - 1 + 1 ELSE 0
        /\ \A i \in 1 .. at - 1 + 1 : SubSeq(list, 1, at)[i] = list[1 + i - 1]
    BY <1>1, <2>1, SubSeqProperties
  <2> HIDE DEF n
  <2> QED  BY <1>1, <2>2
<1>3. back \in Seq(S) /\ Len(back) = n - at /\ \A i \in 1 .. n - at : back[i] = list[at + i]
  <2>1. \A i \in at + 1 .. n : list[i] \in S
    BY <1>1
  <2>2. /\ back \in Seq(S)
        /\ Len(back) = IF at + 1 <= n THEN n - (at + 1) + 1 ELSE 0
        /\ \A i \in 1 .. n - (at + 1) + 1 : back[i] = list[at + 1 + i - 1]
    <3> HIDE DEF n
    <3> QED  BY <1>1, <2>1, SubSeqProperties
  <2> HIDE DEF n, back
  <2>3. Len(back) = n - at
    BY <1>1, <2>2
  <2>4. ASSUME NEW i \in 1 .. n - at  PROVE back[i] = list[at + i]
    <3>1. i \in 1 .. n - (at + 1) + 1 /\ at + 1 + i - 1 = at + i
      BY <1>1
    <3> QED  BY <2>2, <3>1
  <2> QED  BY <2>2, <2>3, <2>4
<1>4. one \in Seq(S) /\ Len(one) = 1 /\ one[1] = e
  OBVIOUS
<1>5. (at + 1) - 1 = at
  OBVIOUS
<1>6. new = (front \o one) \o back
  BY <1>5 DEF InsertAt
<1> HIDE DEF front, back, one, n, new
<1>7. /\ front \o one \in Seq(S) /\ Len(front \o one) = at + 1
      /\ \A i \in 1 .. at + 1 : (front \o one)[i] = IF i <= at THEN front[i] ELSE one[i - at]
  <2>1. /\ front \o one \in Seq(S)
        /\ Len(front \o one) = Len(front) + Len(one)
        /\ \A i \in 1 .. Len(front) + Len(one) :
             (front \o one)[i] = IF i <= Len(front) THEN front[i] ELSE one[i - Len(front)]
    BY <1>2, <1>4, ConcatProperties, Zenon
  <2> QED  BY <1>1, <1>2, <1>4, <2>1
<1>8. /\ new \in Seq(S) /\ Len(new) = (at + 1) + (n - at)
      /\ \A i \in 1 .. (at + 1) + (n - at) :
           new[i] = IF i <= at + 1 THEN (front \o one)[i] ELSE back[i - (at + 1)]
  <2> DEFINE start == front \o one
  <2>1. /\ start \o back \in Seq(S)
        /\ Len(start \o back) = Len(start) + Len(back)
        /\ \A i \in 1 .. Len(start) + Len(back) :
             (start \o back)[i] = IF i <= Len(start) THEN start[i] ELSE back[i - Len(start)]
    BY <1>3, <1>7, ConcatProperties, Zenon
  <2>2. new = start \o back
    BY <1>6
  <2> HIDE DEF start
  <2>3. Len(start) = at + 1 /\ Len(back) = n - at
    BY <1>3, <1>7 DEF start
  <2> QED  BY <2>1, <2>2, <2>3 DEF start
<1>9. (at + 1) + (n - at) = n + 1
  BY <1>1
<1>10. ASSUME NEW i \in 1 .. n + 1
       PROVE  new[i] = IF i < at + 1 THEN list[i]
                       ELSE IF i = at + 1 THEN e ELSE list[i - 1]
  <2>1. CASE i <= at
    BY <1>1, <1>2, <1>7, <1>8, <1>9, <2>1
  <2>2. CASE i = at + 1
    <3>1. i - at = 1 /\ i \in 1 .. at + 1 /\ ~(i <= at) /\ i <= at + 1
      BY <1>1, <2>2
    <3> QED  BY <1>4, <1>7, <1>8, <1>9, <2>2, <3>1, SMTT(30)
  <2>3. CASE i > at + 1
    <3>1. i - (at + 1) \in 1 .. n - at /\ at + (i - (at + 1)) = i - 1 /\ ~(i <= at + 1)
      BY <1>1, <2>3
    <3> QED  BY <1>1, <1>3, <1>8, <1>9, <2>3, <3>1
  <2> QED  BY <1>1, <2>1, <2>2, <2>3
<1> QED  BY <1>8, <1>9, <1>10 DEF n, new, IsInsertion

\* The times of chirps, and whether those of some are the times of their messages.
Timed(byId) == \A c \in DOMAIN byId : byId[c].time \in Nat
OnTime(S, byId) == \A c \in S : byId[c].time = c

\* A list from the newest to the oldest stays one.
LEMMA Inserted ==
  ASSUME NEW byId, NEW list \in Seq(DOMAIN byId), NEW id \in DOMAIN byId, id \in Nat, Timed(byId)
  PROVE  LET new == Insert(list, byId, id, id)
         IN  /\ new \in Seq(DOMAIN byId)
             /\ ToSet(new) = ToSet(list) \cup {id}
             /\ OnTime(ToSet(list), byId) /\ NewestFirst(list) => NewestFirst(new)
<1> DEFINE time == id
           at == FindInsertIdx(list, byId, time)
           n == Len(list)
           new == Insert(list, byId, id, time)
<1>1. n \in Nat /\ DOMAIN list = 1 .. n /\ \A j \in 1 .. n : list[j] \in DOMAIN byId
  OBVIOUS
<1>2. /\ at \in 0 .. n
      /\ (\A i, j \in 1 .. n : i < j => byId[list[i]].time >= byId[list[j]].time) =>
           /\ \A j \in 1 .. at : byId[list[j]].time > time
           /\ \A j \in at + 1 .. n : byId[list[j]].time <= time
  <2>1. \A j \in 1 .. n : byId[list[j]].time \in Nat
    BY <1>1 DEF Timed
  <2> QED  BY <2>1, InsertIdx
<1> HIDE DEF at, n
<1>3. new = [i \in 1 .. n + 1 |-> IF i < at + 1 THEN list[i]
                                  ELSE IF i = at + 1 THEN id ELSE list[i - 1]]
  <2>1. new = InsertAt(list, at + 1, id)
    BY DEF Insert, at
  <2>2. at \in 0 .. Len(list)
    BY <1>2 DEF n
  <2>3. /\ new \in Seq(DOMAIN byId) /\ Len(new) = n + 1
        /\ \A i \in 1 .. n + 1 : new[i] = IF i < at + 1 THEN list[i]
                                           ELSE IF i = at + 1 THEN id ELSE list[i - 1]
    <3> DEFINE S == DOMAIN byId
    <3>1. list \in Seq(S) /\ id \in S
      OBVIOUS
    <3> HIDE DEF S, new
    <3>2. InsertAt(list, at + 1, id) \in Seq(S) /\ IsInsertion(InsertAt(list, at + 1, id), list, at, id)
      BY <2>2, <3>1, InsertedAt
    <3> QED  BY <2>1, <3>2 DEF n, S, IsInsertion
  <2> HIDE DEF new
  <2>4. new = [i \in 1 .. n + 1 |-> new[i]]
    BY <1>1, <2>3
  <2> QED  BY <2>3, <2>4
<1> HIDE DEF new
<1>4. DOMAIN new = 1 .. n + 1 /\ new[at + 1] = id
  BY <1>1, <1>2, <1>3
<1>5. ASSUME NEW i \in 1 .. n + 1, i # at + 1
      PROVE  \/ i \in 1 .. at /\ i \in 1 .. n /\ new[i] = list[i]
             \/ i > at + 1 /\ i - 1 \in at + 1 .. n /\ i - 1 \in 1 .. n /\ new[i] = list[i - 1]
  BY <1>1, <1>2, <1>3, <1>5
<1>6. new \in Seq(DOMAIN byId)
  <2>1. \A i \in 1 .. n + 1 : new[i] \in DOMAIN byId
    BY <1>1, <1>4, <1>5
  <2>2. new \in [1 .. n + 1 -> DOMAIN byId]
    BY <1>3, <2>1
  <2> QED  BY <1>1, <2>2
<1>7. ToSet(new) = ToSet(list) \cup {id}
  <2>1. ASSUME NEW j \in 1 .. n PROVE \E i \in 1 .. n + 1 : new[i] = list[j]
    <3>1. CASE j <= at
      BY <1>1, <1>2, <1>3, <3>1
    <3>2. CASE j > at
      <4>1. j + 1 \in 1 .. n + 1 /\ new[j + 1] = list[j]
        BY <1>1, <1>2, <1>3, <3>2
      <4> QED  BY <4>1
    <3> QED  BY <1>1, <1>2, <3>1, <3>2
  <2>2. at + 1 \in 1 .. n + 1
    BY <1>1, <1>2
  <2>3. \A i \in 1 .. n + 1 : new[i] = id \/ \E j \in 1 .. n : new[i] = list[j]
    BY <1>4, <1>5
  <2>4. ToSet(new) = {new[i] : i \in 1 .. n + 1} /\ ToSet(list) = {list[j] : j \in 1 .. n}
    BY <1>1, <1>4 DEF ToSet
  <2> QED  BY <1>4, <2>1, <2>2, <2>3, <2>4
<1>8. ASSUME OnTime(ToSet(list), byId), NewestFirst(list)
      PROVE  NewestFirst(new)
  <2>1. \A j \in 1 .. n : list[j] \in Nat /\ byId[list[j]].time = list[j]
    <3>1. \A j \in 1 .. n : list[j] \in ToSet(list)
      BY <1>1 DEF ToSet
    <3> QED  BY <1>1, <1>8, <3>1 DEF OnTime, Timed
  <2>2. \A i, j \in 1 .. n : i < j => list[i] >= list[j]
    BY <1>1, <1>8 DEF NewestFirst
  <2>3. /\ \A j \in 1 .. n : j <= at => list[j] >= id
        /\ \A j \in at + 1 .. n : list[j] <= id
    BY <1>1, <1>2, <1>8, <2>1, <2>2
  <2>4. id \in Nat
    OBVIOUS
  <2> SUFFICES ASSUME NEW i \in 1 .. n + 1, NEW j \in 1 .. n + 1, i < j
               PROVE  new[i] >= new[j]
    BY <1>4 DEF NewestFirst
  <2>5. CASE i = at + 1
    <3>1. j # at + 1 /\ j > at + 1
      BY <2>5, <1>1, <1>2
    <3>2. j - 1 \in at + 1 .. n /\ new[j] = list[j - 1]
      BY <1>5, <3>1, <1>1, <1>2
    <3> QED  BY <1>4, <2>1, <2>3, <2>4, <2>5, <3>2, <1>1, <1>2
  <2>6. CASE j = at + 1
    <3>1. i \in 1 .. at /\ i \in 1 .. n /\ new[i] = list[i]
      BY <1>5, <2>6, <1>1, <1>2
    <3>2. i <= at
      BY <3>1, <1>1, <1>2
    <3> QED  BY <1>4, <2>1, <2>3, <2>4, <2>6, <3>1, <3>2
  <2>7. CASE i # at + 1 /\ j # at + 1
    <3>1. \/ i \in 1 .. at /\ i \in 1 .. n /\ new[i] = list[i]
          \/ i > at + 1 /\ i - 1 \in at + 1 .. n /\ i - 1 \in 1 .. n /\ new[i] = list[i - 1]
      BY <1>5, <2>7
    <3>2. \/ j \in 1 .. at /\ j \in 1 .. n /\ new[j] = list[j]
          \/ j > at + 1 /\ j - 1 \in at + 1 .. n /\ j - 1 \in 1 .. n /\ new[j] = list[j - 1]
      BY <1>5, <2>7
    <3>3. CASE i \in 1 .. at /\ j > at + 1
      <4>1. i \in 1 .. n /\ j - 1 \in 1 .. n /\ i < j - 1 /\ new[i] = list[i] /\ new[j] = list[j - 1]
        BY <1>1, <1>2, <3>1, <3>2, <3>3
      <4> QED  BY <2>2, <4>1
    <3>4. CASE i \in 1 .. at /\ j \in 1 .. at
      <4>1. i \in 1 .. n /\ j \in 1 .. n /\ new[i] = list[i] /\ new[j] = list[j]
        BY <1>1, <1>2, <3>1, <3>2, <3>4
      <4> QED  BY <2>2, <4>1
    <3>5. CASE i > at + 1
      <4>1. /\ i - 1 \in 1 .. n /\ j - 1 \in 1 .. n /\ i - 1 < j - 1
            /\ new[i] = list[i - 1] /\ new[j] = list[j - 1]
        BY <1>1, <1>2, <3>1, <3>2, <3>5
      <4> QED  BY <2>2, <4>1
    <3> QED  BY <3>1, <3>2, <3>3, <3>4, <3>5
  <2> QED  BY <2>5, <2>6, <2>7
<1> QED  BY <1>6, <1>7, <1>8 DEF new

-----------------------------------------------------------------------------
(* Social media                                                              *)

SocialFields == {"order", "byId", "byUser", "scores", "reactionsOf", "reactions"}

\* The chirps of a LAO: those that are listed are kept under the sender of their
\* message; the list of each user is what the list of all has of the user; both are
\* from the newest to the oldest while no chirp of them has the time of its deletion.
ChirpsOK(lg, social) ==
  /\ \A c \in DOMAIN social.byId : c \in DOMAIN lg /\ social.byId[c].time \in Nat
  /\ social.order \in Seq(DOMAIN social.byId)
  /\ \A c \in ToSet(social.order) : social.byId[c].sender = lg[c].sender
  /\ \A user \in DOMAIN social.byUser :
       /\ social.byUser[user] \in Seq(DOMAIN social.byId)
       /\ ToSet(social.byUser[user]) = {c \in ToSet(social.order) : lg[c].sender = user}
  /\ \A c \in ToSet(social.order) : lg[c].sender \in DOMAIN social.byUser
  /\ OnTime(ToSet(social.order), social.byId) =>
       /\ NewestFirst(social.order)
       /\ \A user \in DOMAIN social.byUser : NewestFirst(social.byUser[user])

\* The reactions of a LAO: each is listed at its chirp, and no two of one
\* sender are of one kind there.
ReactionsOK(lg, social) ==
  /\ \A r \in DOMAIN social.reactions :
       /\ r \in DOMAIN lg /\ social.reactions[r] = Reaction(r, lg[r])
       /\ lg[r].chirp \in DOMAIN social.reactionsOf
       /\ r \in social.reactionsOf[lg[r].chirp]
  /\ \A c \in DOMAIN social.reactionsOf :
       /\ social.reactionsOf[c] \subseteq DOMAIN social.reactions
       /\ IsFiniteSet(social.reactionsOf[c])
       /\ \A r \in social.reactionsOf[c] : lg[r].chirp = c
       /\ \A r, s \in social.reactionsOf[c] :
            lg[r].sender = lg[s].sender /\ lg[r].codepoint = lg[s].codepoint => r = s

LaoSocialOK(lg, social) ==
  DOMAIN social = SocialFields /\ ChirpsOK(lg, social) /\ ReactionsOK(lg, social)

SocialOK(lg, st, done) ==
  /\ \A l \in DOMAIN st.social : LaoSocialOK(lg, st.social[l])
  /\ UNION {ToSet(st.social[l].order) : l \in DOMAIN st.social} = OfKind(lg, done, "chirp_add")

\* A chirp that is deleted stays so, unless it was not deleted by its sender and has
\* come from its sender now.  What is kept under its sender stays so.
StayDeleted(old, new) ==
  \A c \in DOMAIN old :
    /\ c \in DOMAIN new
    /\ old[c].sender = log[c].sender =>
         new[c].sender = log[c].sender /\ (old[c].deleted => new[c].deleted)
    /\ old[c].deleted => new[c].deleted \/ new[c].sender = log[c].sender

\* Nothing was said in a LAO yet.
LEMMA EmptyIsOK ==
  /\ DOMAIN EmptyByLaoState = SocialFields
  /\ ChirpsOK(log, EmptyByLaoState) /\ ReactionsOK(log, EmptyByLaoState)
<1>1. /\ DOMAIN EmptyByLaoState = SocialFields
      /\ EmptyByLaoState.order = <<>> /\ DOMAIN EmptyByLaoState.byId = {}
      /\ DOMAIN EmptyByLaoState.byUser = {} /\ DOMAIN EmptyByLaoState.reactions = {}
      /\ DOMAIN EmptyByLaoState.reactionsOf = {}
  BY DEF EmptyByLaoState, SocialFields, NoFunction
<1>2. ToSet(<<>>) = {} /\ NewestFirst(<<>>)
  BY DEF ToSet, NewestFirst
<1>3. ChirpsOK(log, EmptyByLaoState)
  BY <1>1, <1>2 DEF ChirpsOK
<1>4. ReactionsOK(log, EmptyByLaoState)
  BY <1>1 DEF ReactionsOK
<1> QED  BY <1>1, <1>3, <1>4

\* What adding a chirp makes of the slice of a LAO.
IsAdded(old, id, chirp, new) ==
  LET known == id \in DOMAIN old.byId /\ old.byId[id].sender = chirp.sender
      byId == IF known THEN old.byId ELSE Put(old.byId, id, chirp)
      mine == IF chirp.sender \in DOMAIN old.byUser THEN old.byUser[chirp.sender] ELSE <<>>
  IN  /\ new.byId = byId
      /\ new.order = Insert(old.order, byId, id, id)
      /\ new.byUser = Put(old.byUser, chirp.sender, Insert(mine, byId, id, id))

\* A chirp is listed where it belongs, whether or not it was deleted before it
\* came.
LEMMA ChirpAdded ==
  ASSUME NEW old, NEW id \in DOMAIN log, id \in Nat, ChirpsOK(log, old),
         NEW chirp, chirp.sender = log[id].sender, chirp.time = id, NEW new,
         IsAdded(old, id, chirp, new)
  PROVE  /\ ChirpsOK(log, new) /\ ToSet(new.order) = ToSet(old.order) \cup {id}
         /\ StayDeleted(old.byId, new.byId)
<1> DEFINE user == chirp.sender
           mine == IF user \in DOMAIN old.byUser THEN old.byUser[user] ELSE <<>>
<1>1. /\ DOMAIN new.byId = DOMAIN old.byId \cup {id}
      /\ \A c \in DOMAIN old.byId : c # id => new.byId[c] = old.byId[c]
      /\ id \in DOMAIN old.byId /\ old.byId[id].sender = log[id].sender =>
           new.byId[id] = old.byId[id]
      /\ new.byId[id].sender = log[id].sender
      /\ new.byId[id] = chirp \/ (id \in DOMAIN old.byId /\ new.byId[id] = old.byId[id])
      /\ new.order = Insert(old.order, new.byId, id, id)
      /\ new.byUser = Put(old.byUser, user, Insert(mine, new.byId, id, id))
  BY DEF Put, IsAdded
<1>2. \A c \in DOMAIN new.byId : c \in DOMAIN log /\ new.byId[c].time \in Nat
  BY <1>1 DEF ChirpsOK
<1>b. \A c \in ToSet(old.order) : c \in DOMAIN old.byId /\ new.byId[c] = old.byId[c]
  <2>1. \A c \in ToSet(old.order) : c \in DOMAIN old.byId /\ old.byId[c].sender = log[c].sender
    BY DEF ChirpsOK, ToSet
  <2> QED  BY <1>1, <2>1
<1>3. old.order \in Seq(DOMAIN new.byId) /\ mine \in Seq(DOMAIN new.byId)
  <2>1. old.order \in Seq(DOMAIN old.byId) /\ mine \in Seq(DOMAIN old.byId)
    <3>1. \A S : <<>> \in Seq(S)
      BY EmptySeq
    <3> QED  BY <3>1 DEF ChirpsOK
  <2> DEFINE S == DOMAIN old.byId
             T == DOMAIN new.byId
  <2>2. S \subseteq T
    BY <1>1
  <2> HIDE DEF S, T, mine
  <2> QED  BY <2>1, <2>2, SeqMonotonic DEF S, T
<1>a. ASSUME NEW list \in Seq(DOMAIN new.byId)
      PROVE  LET longer == Insert(list, new.byId, id, id)
             IN  /\ longer \in Seq(DOMAIN new.byId)
                 /\ ToSet(longer) = ToSet(list) \cup {id}
                 /\ OnTime(ToSet(list), new.byId) /\ NewestFirst(list) => NewestFirst(longer)
  <2> DEFINE byId == new.byId
  <2>1. id \in DOMAIN byId /\ list \in Seq(DOMAIN byId) /\ Timed(byId)
    BY <1>1, <1>2 DEF Timed
  <2> HIDE DEF byId
  <2>2. LET longer == Insert(list, byId, id, id)
        IN  /\ longer \in Seq(DOMAIN byId)
            /\ ToSet(longer) = ToSet(list) \cup {id}
            /\ OnTime(ToSet(list), byId) /\ NewestFirst(list) => NewestFirst(longer)
    BY <2>1, Inserted
  <2> QED  BY <2>2 DEF byId
<1>4. /\ new.order \in Seq(DOMAIN new.byId)
      /\ ToSet(new.order) = ToSet(old.order) \cup {id}
      /\ OnTime(ToSet(old.order), new.byId) /\ NewestFirst(old.order) => NewestFirst(new.order)
  BY <1>1, <1>3, <1>a
<1>5. LET list == Insert(mine, new.byId, id, id)
      IN /\ list \in Seq(DOMAIN new.byId)
         /\ ToSet(list) = ToSet(mine) \cup {id}
         /\ OnTime(ToSet(mine), new.byId) /\ NewestFirst(mine) => NewestFirst(list)
  BY <1>3, <1>a
<1>6. ToSet(mine) = {c \in ToSet(old.order) : log[c].sender = user}
  <2>1. CASE user \in DOMAIN old.byUser
    BY <2>1 DEF ChirpsOK
  <2>2. CASE user \notin DOMAIN old.byUser
    <3>1. ToSet(<<>>) = {}
      BY DEF ToSet
    <3> QED  BY <2>2, <3>1 DEF ChirpsOK
  <2> QED  BY <2>1, <2>2
<1>7. OnTime(ToSet(new.order), new.byId) =>
        /\ OnTime(ToSet(old.order), old.byId) /\ OnTime(ToSet(old.order), new.byId)
        /\ OnTime(ToSet(mine), new.byId)
  <2>1. ToSet(mine) \subseteq ToSet(old.order) /\ ToSet(old.order) \subseteq ToSet(new.order)
    BY <1>4, <1>6
  <2> HIDE DEF mine
  <2> QED  BY <1>b, <2>1 DEF OnTime
<1>8. OnTime(ToSet(old.order), old.byId) => NewestFirst(mine)
  <2>1. NewestFirst(<<>>)
    BY DEF NewestFirst
  <2> QED  BY <2>1 DEF ChirpsOK
<1> DEFINE list == Insert(mine, new.byId, id, id)
<1>9. DOMAIN new.byUser = DOMAIN old.byUser \cup {user}
  BY <1>1 DEF Put
<1>10. new.byUser[user] = list /\ \A u \in DOMAIN old.byUser : u # user => new.byUser[u] = old.byUser[u]
  BY <1>1 DEF Put
<1> HIDE DEF mine, list
<1>11. ASSUME NEW u \in DOMAIN new.byUser
       PROVE  /\ new.byUser[u] \in Seq(DOMAIN new.byId)
              /\ ToSet(new.byUser[u]) = {c \in ToSet(new.order) : log[c].sender = u}
              /\ OnTime(ToSet(new.order), new.byId) => NewestFirst(new.byUser[u])
  <2>1. CASE u = user
    <3>1. {c \in ToSet(new.order) : log[c].sender = user}
            = {c \in ToSet(old.order) : log[c].sender = user} \cup {id}
      BY <1>4
    <3> QED  BY <1>5, <1>6, <1>7, <1>8, <1>10, <2>1, <3>1 DEF list
  <2>2. CASE u # user
    <3>1. u \in DOMAIN old.byUser /\ new.byUser[u] = old.byUser[u]
      BY <1>9, <1>10, <2>2
    <3>2. new.byUser[u] \in Seq(DOMAIN old.byId) /\ DOMAIN old.byId \subseteq DOMAIN new.byId
      BY <1>1, <3>1 DEF ChirpsOK
    <3>3. new.byUser[u] \in Seq(DOMAIN new.byId)
      BY <3>2, SeqMonotonic
    <3>4. {c \in ToSet(new.order) : log[c].sender = u} = {c \in ToSet(old.order) : log[c].sender = u}
      BY <1>4, <2>2
    <3> QED  BY <1>7, <3>1, <3>3, <3>4 DEF ChirpsOK
  <2> QED  BY <2>1, <2>2
<1>12. \A c \in ToSet(new.order) : log[c].sender \in DOMAIN new.byUser
  BY <1>4, <1>9 DEF ChirpsOK
<1>c. \A c \in ToSet(new.order) : new.byId[c].sender = log[c].sender
  BY <1>1, <1>4, <1>b DEF ChirpsOK
<1>13. ChirpsOK(log, new)
  BY <1>2, <1>4, <1>7, <1>11, <1>12, <1>c DEF ChirpsOK
<1>14. StayDeleted(old.byId, new.byId)
  BY <1>1 DEF StayDeleted
<1> QED  BY <1>4, <1>13, <1>14

\* A chirp that is deleted stays where it is listed; one that has not come is
\* noted, and not listed.
LEMMA ChirpDeleted ==
  ASSUME NEW old, NEW id \in Nat, ChirpsOK(log, old), NEW c \in DOMAIN log, NEW sender,
         c \in DOMAIN old.byId => old.byId[c].sender = sender, c \in 1 .. id - 1, NEW new,
         LET deleted == [sender |-> sender,
                         time |-> IF c \in DOMAIN old.byId THEN old.byId[c].time ELSE id,
                         parent |-> None, deleted |-> TRUE]
         IN  new.byId = Put(old.byId, c, deleted),
         new.order = old.order, new.byUser = old.byUser
  PROVE  ChirpsOK(log, new) /\ StayDeleted(old.byId, new.byId)
<1>1. /\ DOMAIN new.byId = DOMAIN old.byId \cup {c}
      /\ \A x \in DOMAIN old.byId : x # c => new.byId[x] = old.byId[x]
      /\ new.byId[c].sender = sender /\ new.byId[c].deleted = TRUE
      /\ new.byId[c].time = IF c \in DOMAIN old.byId THEN old.byId[c].time ELSE id
  BY DEF Put
<1>2. \A x \in DOMAIN new.byId : x \in DOMAIN log /\ new.byId[x].time \in Nat
  BY <1>1 DEF ChirpsOK
<1>a. \A x \in ToSet(old.order) : /\ x \in DOMAIN old.byId
                                  /\ new.byId[x].sender = log[x].sender
                                  /\ new.byId[x].time = old.byId[x].time
  <2>1. \A x \in ToSet(old.order) : x \in DOMAIN old.byId /\ old.byId[x].sender = log[x].sender
    BY DEF ChirpsOK, ToSet
  <2> QED  BY <1>1, <2>1
<1>3. OnTime(ToSet(new.order), new.byId) => OnTime(ToSet(old.order), old.byId)
  BY <1>a DEF OnTime
<1>4. \A list : list \in Seq(DOMAIN old.byId) => list \in Seq(DOMAIN new.byId)
  BY <1>1, SeqMonotonic
<1>5. ChirpsOK(log, new)
  BY <1>2, <1>3, <1>4, <1>a DEF ChirpsOK
<1>6. StayDeleted(old.byId, new.byId)
  BY <1>1 DEF StayDeleted
<1> QED  BY <1>5, <1>6

\* A reaction replaces the one of the same sender and kind.
LEMMA ReactionAdded ==
  ASSUME NEW old, NEW id \in DOMAIN log, ReactionsOK(log, old), NEW new,
         LET m == log[id]
             others == ReactionsOf(old, m.chirp)
         IN  /\ ~\E r \in others : /\ old.reactions[r].sender = m.sender
                                   /\ old.reactions[r].codepoint = m.codepoint
             /\ new.reactionsOf = Put(old.reactionsOf, m.chirp, others \cup {id})
             /\ new.reactions = Put(old.reactions, id, Reaction(id, m))
  PROVE  ReactionsOK(log, new)
<1> DEFINE m == log[id]
           others == ReactionsOf(old, m.chirp)
<1>1. /\ others \subseteq DOMAIN old.reactions /\ IsFiniteSet(others)
      /\ \A r \in others : log[r].chirp = m.chirp
      /\ \A r, s \in others : log[r].sender = log[s].sender /\ log[r].codepoint = log[s].codepoint => r = s
  BY FS_EmptySet DEF ReactionsOK, ReactionsOf
<1>2. \A r \in DOMAIN old.reactions : /\ old.reactions[r].sender = log[r].sender
                                      /\ old.reactions[r].codepoint = log[r].codepoint
  <2>1. \A r \in DOMAIN old.reactions : old.reactions[r] = Reaction(r, log[r])
    BY DEF ReactionsOK
  <2>2. \A r, x : Reaction(r, x).sender = x.sender /\ Reaction(r, x).codepoint = x.codepoint
    BY DEF Reaction
  <2> QED  BY <2>1, <2>2
<1>3. \A r \in others : ~(log[r].sender = m.sender /\ log[r].codepoint = m.codepoint)
  BY <1>1, <1>2
<1>4. \A r \in DOMAIN old.reactions : log[r].chirp = m.chirp => r \in others
  BY DEF ReactionsOK, ReactionsOf
<1>5. /\ DOMAIN new.reactionsOf = DOMAIN old.reactionsOf \cup {m.chirp}
      /\ new.reactionsOf[m.chirp] = others \cup {id}
      /\ \A c \in DOMAIN old.reactionsOf : c # m.chirp => new.reactionsOf[c] = old.reactionsOf[c]
      /\ DOMAIN new.reactions = DOMAIN old.reactions \cup {id}
      /\ new.reactions[id] = Reaction(id, m)
      /\ \A r \in DOMAIN old.reactions : r # id => new.reactions[r] = old.reactions[r]
  BY DEF Put
<1> HIDE DEF others
<1>6. ASSUME NEW r \in DOMAIN new.reactions
      PROVE  /\ r \in DOMAIN log /\ new.reactions[r] = Reaction(r, log[r])
             /\ log[r].chirp \in DOMAIN new.reactionsOf
             /\ r \in new.reactionsOf[log[r].chirp]
  <2>1. CASE r = id
    BY <1>5, <2>1
  <2>2. CASE r # id
    <3>1. /\ r \in DOMAIN old.reactions /\ r \in DOMAIN log /\ new.reactions[r] = Reaction(r, log[r])
          /\ log[r].chirp \in DOMAIN old.reactionsOf /\ r \in old.reactionsOf[log[r].chirp]
      BY <1>5, <2>2 DEF ReactionsOK
    <3> QED  BY <1>4, <1>5, <3>1
  <2> QED  BY <2>1, <2>2
<1>7. ASSUME NEW c \in DOMAIN new.reactionsOf
      PROVE  /\ new.reactionsOf[c] \subseteq DOMAIN new.reactions
             /\ IsFiniteSet(new.reactionsOf[c])
             /\ \A r \in new.reactionsOf[c] : log[r].chirp = c
             /\ \A r, s \in new.reactionsOf[c] :
                  log[r].sender = log[s].sender /\ log[r].codepoint = log[s].codepoint => r = s
  <2>1. CASE c = m.chirp
    <3>1. IsFiniteSet(others \cup {id})
      BY <1>1, FS_AddElement
    <3> QED  BY <1>1, <1>3, <1>5, <2>1, <3>1
  <2>2. CASE c # m.chirp
    BY <1>5, <2>2 DEF ReactionsOK
  <2> QED  BY <2>1, <2>2
<1> QED  BY <1>6, <1>7 DEF ReactionsOK

\* A reaction that is taken back is gone from its chirp, too.
LEMMA ReactionDeleted ==
  ASSUME NEW old, ReactionsOK(log, old), NEW id \in DOMAIN old.reactions, NEW new,
         new.reactions = Drop(old.reactions, id),
         new.reactionsOf = [old.reactionsOf EXCEPT ![old.reactions[id].chirp] = @ \ {id}]
  PROVE  ReactionsOK(log, new)
<1> DEFINE chirp == log[id].chirp
<1>1. old.reactions[id].chirp = chirp /\ chirp \in DOMAIN old.reactionsOf
  <2>1. old.reactions[id] = Reaction(id, log[id]) /\ chirp \in DOMAIN old.reactionsOf
    BY DEF ReactionsOK
  <2>2. Reaction(id, log[id]).chirp = chirp
    BY DEF Reaction
  <2> QED  BY <2>1, <2>2
<1>2. /\ DOMAIN new.reactionsOf = DOMAIN old.reactionsOf
      /\ new.reactionsOf[chirp] = old.reactionsOf[chirp] \ {id}
      /\ \A c \in DOMAIN old.reactionsOf : c # chirp => new.reactionsOf[c] = old.reactionsOf[c]
      /\ DOMAIN new.reactions = DOMAIN old.reactions \ {id}
      /\ \A r \in DOMAIN new.reactions : new.reactions[r] = old.reactions[r]
  BY <1>1 DEF Drop
<1>3. ASSUME NEW r \in DOMAIN new.reactions
      PROVE  /\ r \in DOMAIN log /\ new.reactions[r] = Reaction(r, log[r])
             /\ log[r].chirp \in DOMAIN new.reactionsOf
             /\ r \in new.reactionsOf[log[r].chirp]
  BY <1>2 DEF ReactionsOK
<1>4. ASSUME NEW c \in DOMAIN new.reactionsOf
      PROVE  /\ new.reactionsOf[c] \subseteq DOMAIN new.reactions
             /\ IsFiniteSet(new.reactionsOf[c])
             /\ \A r \in new.reactionsOf[c] : log[r].chirp = c
             /\ \A r, s \in new.reactionsOf[c] :
                  log[r].sender = log[s].sender /\ log[r].codepoint = log[s].codepoint => r = s
  <2>1. CASE c = chirp
    <3>1. IsFiniteSet(old.reactionsOf[chirp])
      BY <1>1 DEF ReactionsOK
    <3>2. IsFiniteSet(old.reactionsOf[chirp] \ {id})
      BY <3>1, FS_RemoveElement
    <3> QED  BY <1>1, <1>2, <2>1, <3>2 DEF ReactionsOK
  <2>2. CASE c # chirp
    <3>1. c \in DOMAIN old.reactionsOf /\ new.reactionsOf[c] = old.reactionsOf[c]
      BY <1>2, <2>2
    <3>2. \A r \in old.reactionsOf[c] : r # id
      BY <2>2, <3>1 DEF ReactionsOK
    <3> QED  BY <1>2, <3>1, <3>2 DEF ReactionsOK
  <2> QED  BY <2>1, <2>2
<1> QED  BY <1>3, <1>4 DEF ReactionsOK

\* Chirps that were deleted stay so in every LAO.
SocialKept(st, t) ==
  \A l \in DOMAIN st.social :
    l \in DOMAIN t.social /\ StayDeleted(st.social[l].byId, t.social[l].byId)

\* A handler changes what was said in one LAO.
LEMMA OneLaoChanged ==
  ASSUME NEW st, NEW done, NEW now, NEW l, NEW new, NEW added, DOMAIN st = Slices, SocialOK(log, st, done),
         LaoSocialOK(log, new),
         ToSet(new.order) = ToSet(SocialOf(st, l).order) \cup added,
         StayDeleted(SocialOf(st, l).byId, new.byId),
         OfKind(log, now, "chirp_add") = OfKind(log, done, "chirp_add") \cup added
  PROVE  LET t == SetSocial(st, l, new) IN SocialOK(log, t, now) /\ SocialKept(st, t)
<1> DEFINE t == SetSocial(st, l, new)
           listed(x) == ToSet(SocialOf(st, x).order)
<1>1. /\ DOMAIN t.social = DOMAIN st.social \cup {l}
      /\ t.social[l] = new /\ \A x \in DOMAIN st.social : x # l => t.social[x] = st.social[x]
  BY DEF SetSocial, Put, Slices
<1>2. \A x \in DOMAIN st.social : SocialOf(st, x) = st.social[x]
  BY DEF SocialOf
<1>3. ToSet(SocialOf(st, l).order) = IF l \in DOMAIN st.social THEN ToSet(st.social[l].order) ELSE {}
  BY DEF SocialOf, EmptyByLaoState, ToSet
<1> HIDE DEF t
<1>4. UNION {ToSet(t.social[x].order) : x \in DOMAIN t.social}
        = (UNION {ToSet(st.social[x].order) : x \in DOMAIN st.social}) \cup added
  <2>1. ToSet(t.social[l].order)
          = (IF l \in DOMAIN st.social THEN ToSet(st.social[l].order) ELSE {}) \cup added
    BY <1>1, <1>3
  <2>2. \A x \in DOMAIN st.social : x # l => ToSet(t.social[x].order) = ToSet(st.social[x].order)
    BY <1>1
  <2> DEFINE a(x) == ToSet(t.social[x].order)
             b(x) == ToSet(st.social[x].order)
  <2>3. /\ a(l) = (IF l \in DOMAIN st.social THEN b(l) ELSE {}) \cup added
        /\ \A x \in DOMAIN st.social : x # l => a(x) = b(x)
    BY <2>1, <2>2
  <2> HIDE DEF a, b
  <2>4. UNION {a(x) : x \in DOMAIN t.social} = (UNION {b(x) : x \in DOMAIN st.social}) \cup added
    BY <1>1, <2>3
  <2> QED  BY <2>4 DEF a, b
<1>5. SocialOK(log, t, now)
  BY <1>1, <1>4 DEF SocialOK
<1>6. SocialKept(st, t)
  BY <1>1, <1>2 DEF SocialKept, StayDeleted
<1> QED  BY <1>5, <1>6 DEF t

\* No handler breaks SocialOK, and none brings a chirp back.
LEMMA SocialHandled ==
  ASSUME NEW st, NEW done, NEW id \in 1 .. Len(log), DOMAIN st = Slices, Len(log) \in Nat,
         DOMAIN log = 1 .. Len(log), log[id].kind \in RegisteredKind, MessageOK(log, id),
         SocialOK(log, st, done)
  PROVE  LET result == HandleMessage(st, id)
         IN  SocialOK(log, result.st, Done(result, done, id)) /\ SocialKept(st, result.st)
<1> DEFINE m == log[id]
           result == HandleMessage(st, id)
           now == done \cup {id}
           l == st.current
           old == SocialOf(st, l)
<1>0. id \in Nat /\ id \in DOMAIN log
  OBVIOUS
<1>a. SocialKept(st, st)
  BY DEF SocialKept, StayDeleted
<1>b. m.kind # "chirp_add" => \A s : s \in {done, now} =>
                             OfKind(log, s, "chirp_add") = OfKind(log, done, "chirp_add")
  BY DEF OfKind
<1>c. DOMAIN old = SocialFields /\ ChirpsOK(log, old) /\ ReactionsOK(log, old) /\ LaoSocialOK(log, old)
  <2>1. CASE l \in DOMAIN st.social
    BY <2>1 DEF SocialOf, SocialOK, LaoSocialOK
  <2>2. CASE l \notin DOMAIN st.social
    BY <2>2, EmptyIsOK DEF SocialOf, LaoSocialOK
  <2> QED  BY <2>1, <2>2
<1>d. StayDeleted(old.byId, old.byId)
  BY DEF StayDeleted
<1>e. ASSUME m.kind # "chirp_add", result.st.social = st.social
      PROVE  SocialOK(log, result.st, Done(result, done, id)) /\ SocialKept(st, result.st)
  <2>1. Done(result, done, id) \in {done, now}
    BY DEF Done
  <2> HIDE DEF result
  <2>2. SocialKept(st, result.st)
    BY <1>a, <1>e DEF SocialKept
  <2> QED  BY <1>b, <1>e, <2>1, <2>2 DEF SocialOK
<1>f. ASSUME m.kind # "chirp_add", NEW new, result = Handled(SetSocial(st, l, new)),
             LaoSocialOK(log, new), new.order = old.order, StayDeleted(old.byId, new.byId)
      PROVE  SocialOK(log, result.st, Done(result, done, id)) /\ SocialKept(st, result.st)
  <2>1. Done(result, done, id) = now /\ result.st = SetSocial(st, l, new)
    BY <1>f DEF Done, Handled
  <2>2. OfKind(log, now, "chirp_add") = OfKind(log, done, "chirp_add") \cup {}
    BY <1>b, <1>f
  <2>3. ToSet(new.order) = ToSet(old.order) \cup {}
    BY <1>f
  <2>4. SocialOK(log, SetSocial(st, l, new), now) /\ SocialKept(st, SetSocial(st, l, new))
    BY <1>f, <2>2, <2>3, OneLaoChanged
  <2> HIDE DEF result
  <2> QED  BY <2>1, <2>4
<1>1. CASE m.kind \notin SocialKind
  <2>1. result.st.social = st.social
    BY <1>1, Untouched
  <2> QED  BY <1>1, <1>e, <2>1 DEF SocialKind
<1>2. CASE CurrentLao(st) = None /\ m.kind \in SocialKind
  <2>1. result = NotHandled(st)
    BY <1>2 DEF SocialKind, HandleMessage, HandleAddChirp, HandleDeleteChirp, HandleAddReaction,
      HandleDeleteReaction, InCurrentLao
  <2> QED  BY <1>a, <2>1 DEF NotHandled, Done
<1>3. CASE CurrentLao(st) # None /\ m.kind = "chirp_add"
  <2> DEFINE chirp == Chirp(id, m)
             known == id \in DOMAIN old.byId /\ old.byId[id].sender = chirp.sender
             byId == IF known THEN old.byId ELSE Put(old.byId, id, chirp)
             mine == IF chirp.sender \in DOMAIN old.byUser THEN old.byUser[chirp.sender] ELSE <<>>
             new == [old EXCEPT
                       !.byId = byId, !.scores = Put(@, id, 0),
                       !.order = Insert(@, byId, id, chirp.time),
                       !.byUser = Put(@, chirp.sender, Insert(mine, byId, id, chirp.time))]
  <2>1. result = Handled(AddChirp(st, l, id, chirp))
    BY <1>3 DEF HandleMessage, HandleAddChirp, InCurrentLao
  <2>2. chirp.sender = m.sender /\ chirp.time = id
    BY DEF Chirp
  <2>3. AddChirp(st, l, id, chirp) = SetSocial(st, l, new)
    BY DEF AddChirp
  <2> HIDE DEF chirp
  <2>4. /\ DOMAIN new = SocialFields /\ new.byId = byId
        /\ new.order = Insert(old.order, byId, id, id)
        /\ new.byUser = Put(old.byUser, chirp.sender, Insert(mine, byId, id, id))
        /\ new.reactionsOf = old.reactionsOf /\ new.reactions = old.reactions
    <3> HIDE DEF byId, mine, old
    <3> QED  BY <1>c, <2>2 DEF SocialFields
  <2> HIDE DEF new
  <2>5. /\ ChirpsOK(log, new) /\ ToSet(new.order) = ToSet(old.order) \cup {id}
        /\ StayDeleted(old.byId, new.byId)
    <3>1. IsAdded(old, id, chirp, new)
      <4> HIDE DEF old
      <4> QED  BY <2>4 DEF IsAdded
    <3> HIDE DEF old
    <3> QED  BY <1>0, <1>c, <2>2, <3>1, ChirpAdded
  <2>6. LaoSocialOK(log, new)
    BY <1>c, <2>4, <2>5 DEF ReactionsOK, LaoSocialOK
  <2>7. OfKind(log, now, "chirp_add") = OfKind(log, done, "chirp_add") \cup {id}
    BY <1>3 DEF OfKind
  <2>8. Done(result, done, id) = now /\ result.st = SetSocial(st, l, new)
    BY <2>1, <2>3 DEF Done, Handled
  <2>9. SocialOK(log, SetSocial(st, l, new), now) /\ SocialKept(st, SetSocial(st, l, new))
    BY <2>5, <2>6, <2>7, OneLaoChanged
  <2> QED  BY <2>8, <2>9
<1>4. CASE CurrentLao(st) # None /\ m.kind = "chirp_delete"
  <2> DEFINE c == m.chirp
             deleted == [sender |-> m.sender,
                         time |-> IF c \in DOMAIN old.byId THEN old.byId[c].time ELSE id,
                         parent |-> None, deleted |-> TRUE]
             new == [old EXCEPT !.byId = Put(@, c, deleted)]
  <2>1. result = Handled(DeleteChirp(st, l, c, m.sender, id))
    BY <1>4 DEF HandleMessage, HandleDeleteChirp, InCurrentLao
  <2>2. c \in 1 .. id - 1 /\ c \in DOMAIN log
    BY <1>4 DEF MessageOK
  <2>a. ASSUME c \in DOMAIN old.byId, old.byId[c].sender # m.sender
        PROVE  SocialOK(log, result.st, Done(result, done, id)) /\ SocialKept(st, result.st)
    <3>1. result = Handled(SetSocial(st, l, old))
      BY <2>1, <2>a DEF DeleteChirp
    <3>2. m.kind # "chirp_add"
      BY <1>4
    <3> HIDE DEF old, result
    <3> QED  BY <1>c, <1>d, <1>f, <3>1, <3>2
  <2>3. SUFFICES ASSUME ~(c \in DOMAIN old.byId /\ old.byId[c].sender # m.sender)
                 PROVE  SocialOK(log, result.st, Done(result, done, id)) /\ SocialKept(st, result.st)
    BY <2>a
  <2>4. DeleteChirp(st, l, c, m.sender, id) = SetSocial(st, l, new)
    BY <2>3 DEF DeleteChirp
  <2>5. /\ DOMAIN new = SocialFields /\ new.byId = Put(old.byId, c, deleted)
        /\ new.order = old.order /\ new.byUser = old.byUser
        /\ new.reactionsOf = old.reactionsOf /\ new.reactions = old.reactions
    <3> HIDE DEF old, deleted
    <3> QED  BY <1>c DEF SocialFields
  <2> HIDE DEF new
  <2>6. ChirpsOK(log, new) /\ StayDeleted(old.byId, new.byId)
    <3> HIDE DEF old
    <3> QED  BY <1>0, <1>c, <2>2, <2>3, <2>5, ChirpDeleted
  <2>7. LaoSocialOK(log, new)
    BY <1>c, <2>5, <2>6 DEF ReactionsOK, LaoSocialOK
  <2>8. result = Handled(SetSocial(st, l, new))
    BY <2>1, <2>4
  <2>9. m.kind # "chirp_add"
    BY <1>4
  <2> QED  BY <1>f, <2>5, <2>6, <2>7, <2>8, <2>9
<1>5. CASE CurrentLao(st) # None /\ m.kind = "reaction_add"
  <2> DEFINE reaction == Reaction(id, m)
             others == ReactionsOf(old, m.chirp)
             duplicate == \E r \in others : /\ old.reactions[r].sender = m.sender
                                            /\ old.reactions[r].codepoint = m.codepoint
             score == ScoreOf(old, m.chirp) + ScoreByCodePoint(m.codepoint)
             new == [old EXCEPT !.reactionsOf = Put(@, m.chirp, others \cup {id}),
                                !.reactions = Put(@, id, reaction),
                                !.scores = Put(@, m.chirp, score)]
  <2>1. result = Handled(AddReaction(st, l, id, reaction))
    BY <1>5 DEF HandleMessage, HandleAddReaction, InCurrentLao
  <2>2. reaction.sender = m.sender /\ reaction.codepoint = m.codepoint /\ reaction.chirp = m.chirp
    BY DEF Reaction
  <2>3. AddReaction(st, l, id, reaction) = SetSocial(st, l, IF duplicate THEN old ELSE new)
    <3> HIDE DEF reaction
    <3> QED  BY <2>2 DEF AddReaction
  <2>9. m.kind # "chirp_add"
    BY <1>5
  <2>4. CASE duplicate
    <3>1. result = Handled(SetSocial(st, l, old))
      BY <2>1, <2>3, <2>4
    <3> QED  BY <1>c, <1>d, <1>f, <2>9, <3>1
  <2>5. CASE ~duplicate
    <3>1. /\ DOMAIN new = SocialFields /\ new.byId = old.byId
          /\ new.order = old.order /\ new.byUser = old.byUser
          /\ new.reactionsOf = Put(old.reactionsOf, m.chirp, others \cup {id})
          /\ new.reactions = Put(old.reactions, id, Reaction(id, m))
      <4> HIDE DEF old, others, score
      <4> QED  BY <1>c DEF SocialFields
    <3>2. result = Handled(SetSocial(st, l, new))
      BY <2>1, <2>3, <2>5
    <3> HIDE DEF new
    <3>3. ReactionsOK(log, new)
      <4> HIDE DEF old
      <4> QED  BY <1>0, <1>c, <2>5, <3>1, ReactionAdded
    <3>4. LaoSocialOK(log, new)
      BY <1>c, <3>1, <3>3 DEF ChirpsOK, LaoSocialOK
    <3> QED  BY <1>d, <1>f, <2>9, <3>1, <3>2, <3>3, <3>4
  <2> QED  BY <2>4, <2>5
<1>6. CASE CurrentLao(st) # None /\ m.kind = "reaction_delete"
  <2> DEFINE x == m.reaction
             reaction == old.reactions[x]
             new == [old EXCEPT !.reactions = Drop(@, x),
                                !.reactionsOf[reaction.chirp] = @ \ {x},
                                !.scores[reaction.chirp] = @ - ScoreByCodePoint(reaction.codepoint)]
  <2>1. result = Handled(DeleteReaction(st, l, x))
    BY <1>6 DEF HandleMessage, HandleDeleteReaction, InCurrentLao
  <2>2. DeleteReaction(st, l, x) = SetSocial(st, l, IF x \notin DOMAIN old.reactions THEN old ELSE new)
    BY DEF DeleteReaction
  <2>9. m.kind # "chirp_add"
    BY <1>6
  <2>4. CASE x \notin DOMAIN old.reactions
    <3>1. result = Handled(SetSocial(st, l, old))
      BY <2>1, <2>2, <2>4
    <3> QED  BY <1>c, <1>d, <1>f, <2>9, <3>1
  <2>5. CASE x \in DOMAIN old.reactions
    <3>1. /\ DOMAIN new = SocialFields /\ new.byId = old.byId
          /\ new.order = old.order /\ new.byUser = old.byUser
          /\ new.reactionsOf = [old.reactionsOf EXCEPT ![old.reactions[x].chirp] = @ \ {x}]
          /\ new.reactions = Drop(old.reactions, x)
      <4> HIDE DEF old, x
      <4> QED  BY <1>c DEF SocialFields
    <3>2. result = Handled(SetSocial(st, l, new))
      BY <2>1, <2>2, <2>5
    <3> HIDE DEF new
    <3>3. ReactionsOK(log, new)
      <4> HIDE DEF old
      <4> QED  BY <1>c, <2>5, <3>1, ReactionDeleted
    <3>4. LaoSocialOK(log, new)
      BY <1>c, <3>1, <3>3 DEF ChirpsOK, LaoSocialOK
    <3> QED  BY <1>d, <1>f, <2>9, <3>1, <3>2, <3>3, <3>4
  <2> QED  BY <2>4, <2>5
<1> QED  BY <1>1, <1>2, <1>3, <1>4, <1>5, <1>6 DEF SocialKind

-----------------------------------------------------------------------------
(* Lists                                                                     *)

\* The least number of a set.
LEMMA LeastOf ==
  ASSUME NEW S, S \subseteq Nat, S # {}
  PROVE  Min(S) \in S /\ \A y \in S : Min(S) <= y
<1>1. PICK x \in S : ~ \E y \in S : <<y, x>> \in OpToRel(<, Nat)
  BY WFMin, NatLessThanWellFounded
<1>2. \A y \in S : x <= y
  BY <1>1 DEF OpToRel
<1> QED  BY <1>2 DEF Min

\* A list without one of its places.
LEMMA RemovedAt ==
  ASSUME NEW S, NEW s \in Seq(S), NEW k \in 1 .. Len(s)
  PROVE  /\ RemoveAt(s, k) \in Seq(S) /\ Len(RemoveAt(s, k)) = Len(s) - 1
         /\ \A i \in 1 .. Len(s) - 1 : RemoveAt(s, k)[i] = IF i < k THEN s[i] ELSE s[i + 1]
<1> DEFINE n == Len(s)
           front == SubSeq(s, 1, k - 1)
           back == SubSeq(s, k + 1, n)
           new == RemoveAt(s, k)
<1>1. n \in Nat /\ k \in Nat /\ 1 <= k /\ k <= n /\ \A i \in 1 .. n : s[i] \in S
  OBVIOUS
<1>2. front \in Seq(S) /\ Len(front) = k - 1 /\ \A i \in 1 .. k - 1 : front[i] = s[i]
  <2>1. \A i \in 1 .. k - 1 : s[i] \in S
    BY <1>1
  <2>2. /\ front \in Seq(S)
        /\ Len(front) = IF 1 <= k - 1 THEN (k - 1) - 1 + 1 ELSE 0
        /\ \A i \in 1 .. (k - 1) - 1 + 1 : front[i] = s[1 + i - 1]
    BY <1>1, <2>1, SubSeqProperties
  <2> HIDE DEF n, front
  <2> QED  BY <1>1, <2>2
<1>3. back \in Seq(S) /\ Len(back) = n - k /\ \A i \in 1 .. n - k : back[i] = s[k + i]
  <2>1. \A i \in k + 1 .. n : s[i] \in S
    BY <1>1
  <2>2. /\ back \in Seq(S)
        /\ Len(back) = IF k + 1 <= n THEN n - (k + 1) + 1 ELSE 0
        /\ \A i \in 1 .. n - (k + 1) + 1 : back[i] = s[k + 1 + i - 1]
    <3> HIDE DEF n
    <3> QED  BY <1>1, <2>1, SubSeqProperties
  <2> HIDE DEF n, back
  <2>3. Len(back) = n - k
    BY <1>1, <2>2
  <2>4. ASSUME NEW i \in 1 .. n - k  PROVE back[i] = s[k + i]
    <3>1. i \in 1 .. n - (k + 1) + 1 /\ k + 1 + i - 1 = k + i
      BY <1>1
    <3> QED  BY <2>2, <3>1
  <2> QED  BY <2>2, <2>3, <2>4
<1>4. new = front \o back
  BY DEF RemoveAt
<1> HIDE DEF n, front, back, new
<1>5. /\ new \in Seq(S) /\ Len(new) = Len(front) + Len(back)
      /\ \A i \in 1 .. Len(front) + Len(back) :
           new[i] = IF i <= Len(front) THEN front[i] ELSE back[i - Len(front)]
  BY <1>2, <1>3, <1>4, ConcatProperties, Zenon
<1>6. Len(new) = n - 1
  BY <1>1, <1>2, <1>3, <1>5
<1>7. ASSUME NEW i \in 1 .. n - 1  PROVE new[i] = IF i < k THEN s[i] ELSE s[i + 1]
  <2>1. i \in 1 .. Len(front) + Len(back)
    BY <1>1, <1>2, <1>3
  <2>2. CASE i < k
    <3>1. i <= Len(front) /\ i \in 1 .. k - 1
      BY <1>1, <1>2, <2>2
    <3> QED  BY <1>2, <1>5, <2>1, <2>2, <3>1
  <2>3. CASE ~(i < k)
    <3>1. /\ ~(i <= Len(front)) /\ i - Len(front) \in 1 .. n - k
          /\ k + (i - Len(front)) = i + 1
      BY <1>1, <1>2, <2>3
    <3> QED  BY <1>3, <1>5, <2>1, <2>3, <3>1
  <2> QED  BY <2>2, <2>3
<1> QED  BY <1>5, <1>6, <1>7 DEF n, new

Distinct(s) == \A i, j \in DOMAIN s : i # j => s[i] # s[j]

\* A list that has everything once, without one element.
LEMMA Removed ==
  ASSUME NEW S, NEW s \in Seq(S), Distinct(s), NEW e
  PROVE  LET t == RemoveFirst(s, e)
         IN  t \in Seq(S) /\ Distinct(t) /\ ToSet(t) = ToSet(s) \ {e}
<1> DEFINE t == RemoveFirst(s, e)
<1>0. Len(s) \in Nat /\ DOMAIN s = 1 .. Len(s)
  OBVIOUS
<1>1. CASE ~\E i \in 1 .. Len(s) : s[i] = e
  <2>1. t = s
    BY <1>1 DEF RemoveFirst
  <2>2. e \notin ToSet(s)
    BY <1>0, <1>1 DEF ToSet
  <2> QED  BY <2>1, <2>2
<1>2. CASE \E i \in 1 .. Len(s) : s[i] = e
  <2> DEFINE I == {i \in 1 .. Len(s) : s[i] = e}
             k == Min(I)
  <2>1. t = RemoveAt(s, k)
    BY <1>2 DEF RemoveFirst, SelectInSeq
  <2>2. k \in I
    <3>1. I \subseteq Nat /\ I # {}
      BY <1>2
    <3> HIDE DEF I
    <3> QED  BY <3>1, LeastOf
  <2> HIDE DEF k
  <2>3. k \in 1 .. Len(s) /\ s[k] = e
    BY <2>2
  <2> HIDE DEF t
  <2>4. /\ t \in Seq(S) /\ Len(t) = Len(s) - 1
        /\ \A i \in 1 .. Len(s) - 1 : t[i] = IF i < k THEN s[i] ELSE s[i + 1]
    BY <2>1, <2>3, RemovedAt
  <2>5. DOMAIN t = 1 .. Len(s) - 1
    BY <2>4
  <2>6. Distinct(t)
    <3> SUFFICES ASSUME NEW i \in 1 .. Len(s) - 1, NEW j \in 1 .. Len(s) - 1, i # j
                 PROVE  t[i] # t[j]
      BY <2>5 DEF Distinct
    <3> DEFINE p(x) == IF x < k THEN x ELSE x + 1
    <3>1. p(i) \in DOMAIN s /\ p(j) \in DOMAIN s /\ p(i) # p(j) /\ t[i] = s[p(i)] /\ t[j] = s[p(j)]
      BY <1>0, <2>3, <2>4
    <3> HIDE DEF p
    <3> QED  BY <3>1 DEF Distinct
  <2>7. ToSet(t) = ToSet(s) \ {e}
    <3>1. ASSUME NEW i \in 1 .. Len(s) - 1 PROVE t[i] \in ToSet(s) /\ t[i] # e
      <4> DEFINE p == IF i < k THEN i ELSE i + 1
      <4>1. p \in DOMAIN s /\ p # k /\ t[i] = s[p] /\ k \in DOMAIN s
        BY <1>0, <2>3, <2>4
      <4> HIDE DEF p
      <4> QED  BY <2>3, <4>1 DEF Distinct, ToSet
    <3>2. ASSUME NEW j \in 1 .. Len(s), s[j] # e PROVE \E i \in 1 .. Len(s) - 1 : t[i] = s[j]
      <4>0. j # k
        BY <2>3, <3>2
      <4>1. CASE j < k
        BY <1>0, <2>3, <2>4, <4>1
      <4>2. CASE j > k
        <5>1. j - 1 \in 1 .. Len(s) - 1 /\ t[j - 1] = s[j]
          BY <1>0, <2>3, <2>4, <4>2
        <5> QED  BY <5>1
      <4> QED  BY <1>0, <2>3, <4>0, <4>1, <4>2
    <3>3. ToSet(t) = {t[i] : i \in 1 .. Len(s) - 1}
      BY <2>5 DEF ToSet
    <3>4. \A x \in ToSet(s) : \E j \in 1 .. Len(s) : s[j] = x
      BY <1>0 DEF ToSet
    <3> QED  BY <3>1, <3>2, <3>3, <3>4
  <2> QED  BY <2>4, <2>6, <2>7 DEF t
<1> QED  BY <1>1, <1>2

\* What is a list.
LEMMA Lists ==
  /\ IsList(<<>>)
  /\ \A S : \A s \in Seq(S) : IsList(s)
  /\ \A s, e : IsList(s) => IsList(Append(s, e))
<1>1. ASSUME NEW S, NEW s \in Seq(S) PROVE IsList(s)
  <2>1. Len(s) \in Nat /\ DOMAIN s = 1 .. Len(s) /\ s = [i \in 1 .. Len(s) |-> s[i]]
    OBVIOUS
  <2>2. \A i \in 1 .. Len(s) : s[i] \in ToSet(s)
    BY <2>1 DEF ToSet
  <2>3. s \in [1 .. Len(s) -> ToSet(s)]
    BY <2>1, <2>2
  <2> QED  BY <2>1, <2>3 DEF IsList
<1>2. IsList(<<>>)
  <2>1. <<>> \in Seq({})
    OBVIOUS
  <2> QED  BY <1>1, <2>1
<1>3. ASSUME NEW s, NEW e, IsList(s) PROVE IsList(Append(s, e))
  <2>1. s \in Seq(ToSet(s) \cup {e})
    BY <1>3, SeqMonotonic DEF IsList
  <2>2. Append(s, e) \in Seq(ToSet(s) \cup {e})
    BY <2>1
  <2> QED  BY <1>1, <2>2
<1> QED  BY <1>1, <1>2, <1>3

-----------------------------------------------------------------------------
(* Digital cash.  The balance of a token is kept beside the transactions it  *)
(* has outputs of, and what the wallet signs is looked up in them: a balance *)
(* is never more than those outputs are worth.                               *)

\* The sum of a list, as a loop.
LEMMA TotalLoop ==
  ASSUME NEW values, Len(values) \in Nat
  PROVE  \E f : /\ f[0] = 0 /\ \A k \in 0 .. Len(values) - 1 : f[k + 1] = f[k] + values[k + 1]
                /\ Total(values) = f[Len(values)]
<1> DEFINE n == Len(values)
           loop == [of |-> "total", values |-> values]
           Body(g) == [k \in 0 .. n |-> IF k = 0 THEN 0 ELSE g[k - 1] + values[k]]
           after == CHOOSE g : g = Body(g)
<1>1. Total(values) = after[n]
  BY DEF Total, Repeat
<1>2. \A s, k : LoopStep(loop, s, k) = s + values[k]
  BY DEF LoopStep
<1> HIDE DEF loop
<1>3. \A g : IsLoop(g, loop, 0, n) <=> g = Body(g)
  BY <1>2 DEF IsLoop
<1>4. IsLoop(after, loop, 0, n)
  <2>1. \E g : g = Body(g)
    BY <1>3, LoopExists
  <2> HIDE DEF Body
  <2> QED  BY <1>3, <2>1
<1> HIDE DEF after
<1>5. after[0] = 0 /\ \A k \in 0 .. n - 1 : after[k + 1] = after[k] + values[k + 1]
  BY <1>2, <1>4, LoopFacts
<1> QED  BY <1>1, <1>5

\* What a transaction takes, and what it gives.
Debited(c, tx, id) ==
  Repeat(Len(tx.inputs), c, LAMBDA s, k : SpendInput(s, tx.from, tx.inputs[k], id))

Credited(c, tx, id) ==
  Repeat(Len(tx.outputs), c, LAMBDA s, k : ReceiveOutput(s, tx.outputs[k], id))

\* Its inputs are taken one after the other, and so are its outputs.
LEMMA SpendLoop ==
  ASSUME NEW first, NEW tx, NEW id, Len(tx.inputs) \in Nat
  PROVE  \E f : /\ f[0] = first
                /\ \A k \in 0 .. Len(tx.inputs) - 1 :
                     f[k + 1] = SpendInput(f[k], tx.from, tx.inputs[k + 1], id)
                /\ f[Len(tx.inputs)] = Debited(first, tx, id)
<1> DEFINE n == Len(tx.inputs)
           loop == [of |-> "spend", tx |-> tx, id |-> id]
           Body(g) == [k \in 0 .. n |-> IF k = 0 THEN first
                                        ELSE SpendInput(g[k - 1], tx.from, tx.inputs[k], id)]
           after == CHOOSE g : g = Body(g)
<1>1. Debited(first, tx, id) = after[n]
  BY DEF Debited, Repeat
<1>2. \A s, k : LoopStep(loop, s, k) = SpendInput(s, tx.from, tx.inputs[k], id)
  BY DEF LoopStep
<1> HIDE DEF loop
<1>3. \A g : IsLoop(g, loop, first, n) <=> g = Body(g)
  BY <1>2 DEF IsLoop
<1>4. IsLoop(after, loop, first, n)
  <2>1. \E g : g = Body(g)
    BY <1>3, LoopExists
  <2> HIDE DEF Body
  <2> QED  BY <1>3, <2>1
<1> HIDE DEF after
<1>5. /\ after[0] = first
      /\ \A k \in 0 .. n - 1 : after[k + 1] = SpendInput(after[k], tx.from, tx.inputs[k + 1], id)
  BY <1>2, <1>4, LoopFacts
<1> QED  BY <1>1, <1>5

LEMMA ReceiveLoop ==
  ASSUME NEW first, NEW tx, NEW id, Len(tx.outputs) \in Nat
  PROVE  \E f : /\ f[0] = first
                /\ \A k \in 0 .. Len(tx.outputs) - 1 :
                     f[k + 1] = ReceiveOutput(f[k], tx.outputs[k + 1], id)
                /\ f[Len(tx.outputs)] = Credited(first, tx, id)
<1> DEFINE n == Len(tx.outputs)
           loop == [of |-> "receive", tx |-> tx, id |-> id]
           Body(g) == [k \in 0 .. n |-> IF k = 0 THEN first
                                        ELSE ReceiveOutput(g[k - 1], tx.outputs[k], id)]
           after == CHOOSE g : g = Body(g)
<1>1. Credited(first, tx, id) = after[n]
  BY DEF Credited, Repeat
<1>2. \A s, k : LoopStep(loop, s, k) = ReceiveOutput(s, tx.outputs[k], id)
  BY DEF LoopStep
<1> HIDE DEF loop
<1>3. \A g : IsLoop(g, loop, first, n) <=> g = Body(g)
  BY <1>2 DEF IsLoop
<1>4. IsLoop(after, loop, first, n)
  <2>1. \E g : g = Body(g)
    BY <1>3, LoopExists
  <2> HIDE DEF Body
  <2> QED  BY <1>3, <2>1
<1> HIDE DEF after
<1>5. /\ after[0] = first
      /\ \A k \in 0 .. n - 1 : after[k + 1] = ReceiveOutput(after[k], tx.outputs[k + 1], id)
  BY <1>2, <1>4, LoopFacts
<1> QED  BY <1>1, <1>5

\* The outputs of a transaction that go to a key, as a loop.
LEMMA MineLoop ==
  ASSUME NEW known, NEW id, NEW key, Len(known[id].outputs) \in Nat
  PROVE  \E f : /\ f[0] = <<>>
                /\ \A k \in 0 .. Len(known[id].outputs) - 1 :
                     f[k + 1] = IF known[id].outputs[k + 1].to = key
                                THEN Append(f[k], Input(id, k + 1)) ELSE f[k]
                /\ f[Len(known[id].outputs)] = OutputsTo(known, id, key)
<1> DEFINE outputs == known[id].outputs
           n == Len(outputs)
           loop == [of |-> "mine", outputs |-> outputs, id |-> id, key |-> key]
           Body(g) == [k \in 0 .. n |-> IF k = 0 THEN <<>>
                         ELSE IF outputs[k].to = key THEN Append(g[k - 1], Input(id, k)) ELSE g[k - 1]]
           after == CHOOSE g : g = Body(g)
<1>1. OutputsTo(known, id, key) = after[n]
  BY DEF OutputsTo, Repeat
<1>2. \A s, k : LoopStep(loop, s, k) = IF outputs[k].to = key THEN Append(s, Input(id, k)) ELSE s
  BY DEF LoopStep
<1> HIDE DEF loop
<1>3. \A g : IsLoop(g, loop, <<>>, n) <=> g = Body(g)
  BY <1>2 DEF IsLoop
<1>4. IsLoop(after, loop, <<>>, n)
  <2>1. \E g : g = Body(g)
    BY <1>3, LoopExists
  <2> HIDE DEF Body
  <2> QED  BY <1>3, <2>1
<1> HIDE DEF after
<1>5. /\ after[0] = <<>>
      /\ \A k \in 0 .. n - 1 :
           after[k + 1] = IF outputs[k + 1].to = key THEN Append(after[k], Input(id, k + 1)) ELSE after[k]
  <2> HIDE DEF outputs, n
  <2>1. after[0] = <<>> /\ \A k \in 0 .. n - 1 : after[k + 1] = LoopStep(loop, after[k], k + 1)
    BY <1>4, LoopFacts DEF n
  <2> QED  BY <1>2, <2>1, Zenon
<1> QED  BY <1>1, <1>5

\* All outputs of these transactions to a key, as inputs of another.
InputsOf(known, ids, key) ==
  Repeat(Len(ids), <<>>, LAMBDA inputs, k : inputs \o OutputsTo(known, ids[k], key))

\* As a loop.
LEMMA InputsLoop ==
  ASSUME NEW known, NEW ids, NEW key, Len(ids) \in Nat
  PROVE  \E f : /\ f[0] = <<>>
                /\ \A k \in 0 .. Len(ids) - 1 : f[k + 1] = f[k] \o OutputsTo(known, ids[k + 1], key)
                /\ f[Len(ids)] = InputsOf(known, ids, key)
<1> DEFINE n == Len(ids)
           loop == [of |-> "inputs", known |-> known, ids |-> ids, key |-> key]
           Body(g) == [k \in 0 .. n |-> IF k = 0 THEN <<>>
                                        ELSE g[k - 1] \o OutputsTo(known, ids[k], key)]
           after == CHOOSE g : g = Body(g)
<1>1. InputsOf(known, ids, key) = after[n]
  BY DEF InputsOf, Repeat
<1>2. \A s, k : LoopStep(loop, s, k) = s \o OutputsTo(known, ids[k], key)
  BY DEF LoopStep
<1> HIDE DEF loop
<1>3. \A g : IsLoop(g, loop, <<>>, n) <=> g = Body(g)
  BY <1>2 DEF IsLoop
<1>4. IsLoop(after, loop, <<>>, n)
  <2>1. \E g : g = Body(g)
    BY <1>3, LoopExists
  <2> HIDE DEF Body
  <2> QED  BY <1>3, <2>1
<1> HIDE DEF after
<1>5. /\ after[0] = <<>>
      /\ \A k \in 0 .. n - 1 : after[k + 1] = after[k] \o OutputsTo(known, ids[k + 1], key)
  <2>1. after[0] = <<>> /\ \A k \in 0 .. n - 1 : after[k + 1] = LoopStep(loop, after[k], k + 1)
    BY <1>4, LoopFacts
  <2> QED  BY <1>2, <2>1, Zenon
<1> QED  BY <1>1, <1>5

\* No amount is more than the sum of a list it is in.
LEMMA TotalFacts ==
  ASSUME NEW values \in Seq(Nat)
  PROVE  Total(values) \in Nat /\ \A i \in 1 .. Len(values) : values[i] <= Total(values)
<1> DEFINE n == Len(values)
<1>1. n \in Nat /\ \A i \in 1 .. n : values[i] \in Nat
  OBVIOUS
<1>2. PICK f : /\ f[0] = 0 /\ \A k \in 0 .. n - 1 : f[k + 1] = f[k] + values[k + 1]
               /\ Total(values) = f[n]
  BY <1>1, TotalLoop
<1> HIDE DEF n
<1> DEFINE Q == {k \in 0 .. n : f[k] \in Nat /\ \A i \in 1 .. k : values[i] <= f[k]}
<1>3. 0 \in Q
  BY <1>1, <1>2
<1>4. ASSUME NEW k \in 0 .. n - 1, k \in Q PROVE k + 1 \in Q
  <2>1. k + 1 \in 1 .. n /\ k \in Nat /\ f[k] \in Nat /\ \A i \in 1 .. k : values[i] <= f[k]
    BY <1>1, <1>4
  <2>2. values[k + 1] \in Nat /\ f[k + 1] = f[k] + values[k + 1]
    BY <1>1, <1>2, <2>1
  <2>3. ASSUME NEW i \in 1 .. k + 1 PROVE values[i] <= f[k + 1]
    <3>1. i = k + 1 \/ i \in 1 .. k
      BY <2>1
    <3>2. i \in 1 .. n
      BY <2>1, <1>1
    <3> QED  BY <1>1, <2>1, <2>2, <3>1, <3>2
  <2> QED  BY <1>1, <2>1, <2>2, <2>3
<1>5. n \in Q
  <2> HIDE DEF Q
  <2> QED  BY <1>1, <1>3, <1>4, LoopKeeps
<1> QED  BY <1>2, <1>5 DEF n

\* The sum of no amounts is 0.
LEMMA TotalOfNone == Total(<<>>) = 0
<1>1. Len(<<>>) = 0
  OBVIOUS
<1> QED  BY <1>1, TotalLoop

\* The sums of two lists make that of both.
LEMMA TotalOfBoth ==
  ASSUME NEW s \in Seq(Nat), NEW t \in Seq(Nat)
  PROVE  Total(s \o t) = Total(s) + Total(t)
<1> DEFINE n == Len(s)
           m == Len(t)
           both == s \o t
<1>1. n \in Nat /\ m \in Nat
  OBVIOUS
<1>2. /\ Len(both) = n + m
      /\ \A i \in 1 .. n + m : both[i] = IF i <= n THEN s[i] ELSE t[i - n]
  BY ConcatProperties
<1>3. PICK f : /\ f[0] = 0 /\ \A k \in 0 .. n + m - 1 : f[k + 1] = f[k] + both[k + 1]
               /\ Total(both) = f[n + m]
  <2>1. Len(both) \in Nat /\ Len(both) = n + m
    BY <1>1, <1>2
  <2> HIDE DEF both, n, m
  <2>2. PICK f : /\ f[0] = 0 /\ \A k \in 0 .. Len(both) - 1 : f[k + 1] = f[k] + both[k + 1]
                 /\ Total(both) = f[Len(both)]
    BY <2>1, TotalLoop
  <2>3. /\ f[0] = 0 /\ \A k \in 0 .. n + m - 1 : f[k + 1] = f[k] + both[k + 1]
        /\ Total(both) = f[n + m]
    BY <1>1, <2>1, <2>2
  <2> QED  BY <2>3
<1>4. PICK g : /\ g[0] = 0 /\ \A k \in 0 .. n - 1 : g[k + 1] = g[k] + s[k + 1]
               /\ Total(s) = g[n]
  BY <1>1, TotalLoop
<1>5. PICK h : /\ h[0] = 0 /\ \A k \in 0 .. m - 1 : h[k + 1] = h[k] + t[k + 1]
               /\ Total(t) = h[m]
  BY <1>1, TotalLoop
<1>a. (\A i \in 1 .. n : s[i] \in Nat) /\ \A i \in 1 .. m : t[i] \in Nat
  OBVIOUS
<1> HIDE DEF n, m, both
<1> DEFINE Q == {k \in 0 .. n : f[k] = g[k] /\ g[k] \in Nat}
<1>6. 0 \in Q
  BY <1>1, <1>3, <1>4
<1>7. ASSUME NEW k \in 0 .. n - 1, k \in Q PROVE k + 1 \in Q
  <2>1. k \in 0 .. n + m - 1 /\ k + 1 \in 1 .. n + m /\ k + 1 <= n /\ k + 1 \in 1 .. n
    BY <1>1
  <2>2. f[k + 1] = g[k + 1]
    BY <1>2, <1>3, <1>4, <1>7, <2>1
  <2>3. g[k + 1] \in Nat
    <3>1. g[k] \in Nat /\ s[k + 1] \in Nat
      BY <1>7, <1>a, <2>1
    <3>2. g[k + 1] = g[k] + s[k + 1]
      BY <1>4
    <3> QED  BY <3>1, <3>2
  <2> QED  BY <1>1, <2>1, <2>2, <2>3
<1>8. n \in Q
  <2> HIDE DEF Q
  <2> QED  BY <1>1, <1>6, <1>7, LoopKeeps
<1> DEFINE R == {k \in 0 .. m : f[n + k] = g[n] + h[k] /\ h[k] \in Nat}
<1>9. 0 \in R
  BY <1>1, <1>5, <1>8
<1>10. ASSUME NEW k \in 0 .. m - 1, k \in R PROVE k + 1 \in R
  <2>1. /\ n + k \in 0 .. n + m - 1 /\ (n + k) + 1 \in 1 .. n + m /\ ~((n + k) + 1 <= n)
        /\ ((n + k) + 1) - n = k + 1 /\ k + 1 \in 1 .. m /\ n + (k + 1) = (n + k) + 1
    BY <1>1
  <2>2. both[(n + k) + 1] = t[k + 1] /\ t[k + 1] \in Nat
    BY <1>2, <1>a, <2>1
  <2>3. f[(n + k) + 1] = f[n + k] + t[k + 1]
    BY <1>3, <2>1, <2>2
  <2>4. h[k + 1] = h[k] + t[k + 1] /\ h[k] \in Nat /\ f[n + k] = g[n] + h[k] /\ g[n] \in Nat
    BY <1>5, <1>8, <1>10
  <2>5. f[n + (k + 1)] = g[n] + h[k + 1] /\ h[k + 1] \in Nat
    BY <2>1, <2>2, <2>3, <2>4
  <2> QED  BY <1>1, <2>1, <2>5
<1>11. m \in R
  <2> HIDE DEF R
  <2> QED  BY <1>1, <1>9, <1>10, LoopKeeps
<1> QED  BY <1>3, <1>4, <1>5, <1>11 DEF both

\* The outputs to a key.
Spendable(known, key) ==
  {x \in (DOMAIN known) \X Nat : /\ x[2] \in DOMAIN known[x[1]].outputs
                               /\ known[x[1]].outputs[x[2]].to = key}

\* The outputs of a transaction are a list of amounts, for whom each is.
OutputsOK(tx) == IsList(tx.outputs) /\ \A k \in DOMAIN tx.outputs : tx.outputs[k].value \in Nat

\* The inputs made of a transaction are its outputs to the key, and all of
\* them.
LEMMA Mine ==
  ASSUME NEW known, NEW id \in DOMAIN known, OutputsOK(known[id]), NEW key
  PROVE  LET mine == OutputsTo(known, id, key)
         IN  /\ mine \in Seq(Spendable(known, key))
             /\ \A k \in DOMAIN known[id].outputs : known[id].outputs[k].to = key =>
                  \E i \in 1 .. Len(mine) : mine[i] = Input(id, k)
<1> DEFINE outputs == known[id].outputs
           n == Len(outputs)
           S == Spendable(known, key)
<1>1. n \in Nat /\ DOMAIN outputs = 1 .. n
  BY DEF OutputsOK, IsList
<1>2. PICK f : /\ f[0] = <<>>
               /\ \A k \in 0 .. n - 1 :
                    f[k + 1] = IF outputs[k + 1].to = key THEN Append(f[k], Input(id, k + 1)) ELSE f[k]
               /\ f[n] = OutputsTo(known, id, key)
  BY <1>1, MineLoop
<1>3. ASSUME NEW k \in 1 .. n, outputs[k].to = key PROVE Input(id, k) \in S
  <2>a. k \in Nat
    BY <1>1
  <2>b. Input(id, k) = <<id, k>>
    BY DEF Input
  <2>1. Input(id, k)[1] = id /\ Input(id, k)[2] = k /\ Input(id, k) \in (DOMAIN known) \X Nat
    BY <2>a, <2>b
  <2> HIDE DEF n
  <2> QED  BY <1>1, <1>3, <2>1 DEF Spendable
<1> HIDE DEF n, S, outputs
<1> DEFINE Has(s, k) == \E i \in 1 .. Len(s) : s[i] = Input(id, k)
           Q == {j \in 0 .. n : /\ f[j] \in Seq(S)
                                /\ \A k \in 1 .. j : outputs[k].to = key => Has(f[j], k)}
<1>4. 0 \in Q
  <2>1. f[0] \in Seq(S)
    BY <1>2, EmptySeq, Zenon
  <2>2. 0 \in 0 .. n /\ 1 .. 0 = {}
    BY <1>1
  <2> HIDE DEF Has
  <2> QED  BY <2>1, <2>2
<1>5. ASSUME NEW j \in 0 .. n - 1, j \in Q PROVE j + 1 \in Q
  <2>1. j + 1 \in 1 .. n /\ f[j] \in Seq(S) /\ \A k \in 1 .. j : outputs[k].to = key => Has(f[j], k)
    BY <1>1, <1>5
  <2>2. f[j + 1] = IF outputs[j + 1].to = key THEN Append(f[j], Input(id, j + 1)) ELSE f[j]
    BY <1>2
  <2> DEFINE x == Input(id, j + 1)
  <2>3. CASE outputs[j + 1].to = key
    <3>1. x \in S
      BY <1>3, <2>1, <2>3
    <3> HIDE DEF x
    <3>2. /\ Append(f[j], x) \in Seq(S) /\ Len(Append(f[j], x)) = Len(f[j]) + 1
          /\ \A i \in 1 .. Len(f[j]) : Append(f[j], x)[i] = f[j][i]
          /\ Append(f[j], x)[Len(f[j]) + 1] = x
      BY <2>1, <3>1, AppendProperties
    <3>3. f[j + 1] = Append(f[j], x) /\ Len(f[j]) \in Nat
      BY <2>1, <2>2, <2>3 DEF x
    <3>4. ASSUME NEW k \in 1 .. j + 1, outputs[k].to = key PROVE Has(f[j + 1], k)
      <4>1. CASE k = j + 1
        <5>1. Len(f[j]) + 1 \in 1 .. Len(f[j + 1]) /\ f[j + 1][Len(f[j]) + 1] = Input(id, k)
          BY <3>2, <3>3, <4>1 DEF x
        <5> QED  BY <5>1
      <4>2. CASE k \in 1 .. j
        <5>1. PICK i \in 1 .. Len(f[j]) : f[j][i] = Input(id, k)
          BY <2>1, <3>4, <4>2
        <5>2. i \in 1 .. Len(f[j + 1]) /\ f[j + 1][i] = Input(id, k)
          BY <3>2, <3>3, <5>1
        <5> QED  BY <5>2
      <4> QED  BY <1>1, <4>1, <4>2
    <3>5. f[j + 1] \in Seq(S) /\ j + 1 \in 0 .. n
      BY <1>1, <2>1, <3>2, <3>3
    <3> HIDE DEF Has
    <3> QED  BY <3>4, <3>5
  <2>4. CASE outputs[j + 1].to # key
    <3>1. f[j + 1] = f[j]
      BY <2>2, <2>4
    <3>2. \A k \in 1 .. j + 1 : outputs[k].to = key => k \in 1 .. j
      BY <1>1, <2>4
    <3> HIDE DEF Has
    <3> QED  BY <1>1, <2>1, <3>1, <3>2
  <2> QED  BY <2>3, <2>4
<1>6. n \in Q
  <2> HIDE DEF Q
  <2> QED  BY <1>1, <1>4, <1>5, LoopKeeps
<1> QED  BY <1>1, <1>2, <1>6 DEF S, outputs

AllOutputsOK(known) == \A id \in DOMAIN known : OutputsOK(known[id])

\* One more transaction adds its outputs to the inputs.
LEMMA InputsAppended ==
  ASSUME NEW known, NEW key, AllOutputsOK(known), NEW ids \in Seq(DOMAIN known)
  PROVE  /\ InputsOf(known, ids, key) \in Seq(Spendable(known, key))
         /\ \A id \in DOMAIN known :
              InputsOf(known, Append(ids, id), key) = InputsOf(known, ids, key) \o OutputsTo(known, id, key)
<1> DEFINE n == Len(ids)
           S == Spendable(known, key)
<1>1. n \in Nat /\ \A k \in 1 .. n : ids[k] \in DOMAIN known
  OBVIOUS
<1>2. PICK f : /\ f[0] = <<>>
               /\ \A k \in 0 .. n - 1 : f[k + 1] = f[k] \o OutputsTo(known, ids[k + 1], key)
               /\ f[n] = InputsOf(known, ids, key)
  BY <1>1, InputsLoop
<1>3. \A id \in DOMAIN known : OutputsTo(known, id, key) \in Seq(S)
  BY Mine DEF AllOutputsOK
<1>4. InputsOf(known, ids, key) \in Seq(S)
  <2> HIDE DEF n, S
  <2> DEFINE Q == {k \in 0 .. n : f[k] \in Seq(S)}
  <2>1. 0 \in Q
    <3>1. f[0] \in Seq(S)
      BY <1>2, EmptySeq, Zenon
    <3> QED  BY <1>1, <3>1
  <2>2. ASSUME NEW k \in 0 .. n - 1, k \in Q PROVE k + 1 \in Q
    <3>1. k + 1 \in 1 .. n /\ f[k] \in Seq(S)
      BY <1>1, <2>2
    <3>2. OutputsTo(known, ids[k + 1], key) \in Seq(S)
      BY <1>1, <1>3, <3>1
    <3>3. f[k] \o OutputsTo(known, ids[k + 1], key) \in Seq(S)
      BY <3>1, <3>2, ConcatProperties
    <3>4. f[k + 1] = f[k] \o OutputsTo(known, ids[k + 1], key)
      BY <1>2
    <3>5. f[k + 1] \in Seq(S) /\ k + 1 \in 0 .. n
      BY <1>1, <3>1, <3>3, <3>4
    <3> QED  BY <3>5
  <2>3. n \in Q
    <3> HIDE DEF Q
    <3> QED  BY <1>1, <2>1, <2>2, LoopKeeps
  <2> QED  BY <1>2, <2>3
<1>5. ASSUME NEW id \in DOMAIN known
      PROVE  InputsOf(known, Append(ids, id), key) = InputsOf(known, ids, key) \o OutputsTo(known, id, key)
  <2> DEFINE more == Append(ids, id)
  <2>1. /\ Len(more) = n + 1 /\ more[n + 1] = id
        /\ \A k \in 1 .. n : more[k] = ids[k]
    BY AppendProperties
  <2>2. PICK g : /\ g[0] = <<>>
                 /\ \A k \in 0 .. (n + 1) - 1 : g[k + 1] = g[k] \o OutputsTo(known, more[k + 1], key)
                 /\ g[n + 1] = InputsOf(known, more, key)
    <3>1. Len(more) \in Nat /\ Len(more) = n + 1
      BY <1>1, <2>1
    <3> HIDE DEF more, n
    <3>2. PICK g : /\ g[0] = <<>>
                   /\ \A k \in 0 .. Len(more) - 1 : g[k + 1] = g[k] \o OutputsTo(known, more[k + 1], key)
                   /\ g[Len(more)] = InputsOf(known, more, key)
      BY <3>1, InputsLoop
    <3> QED  BY <3>1, <3>2, Zenon
  <2> HIDE DEF n, more
  <2> DEFINE Q == {k \in 0 .. n : g[k] = f[k]}
  <2>3. 0 \in Q
    BY <1>1, <1>2, <2>2
  <2>4. ASSUME NEW k \in 0 .. n - 1, k \in Q PROVE k + 1 \in Q
    <3>1. k + 1 \in 1 .. n /\ k \in 0 .. (n + 1) - 1 /\ g[k] = f[k] /\ k + 1 \in 0 .. n
      BY <1>1, <2>4
    <3>2. more[k + 1] = ids[k + 1]
      BY <2>1, <3>1
    <3> QED  BY <1>2, <2>2, <3>1, <3>2
  <2>5. n \in Q
    <3> HIDE DEF Q
    <3> QED  BY <1>1, <2>3, <2>4, LoopKeeps
  <2>6. n \in 0 .. (n + 1) - 1
    BY <1>1
  <2>7. g[n + 1] = g[n] \o OutputsTo(known, more[n + 1], key)
    BY <2>2, <2>6
  <2> QED  BY <1>2, <2>1, <2>2, <2>5, <2>7 DEF more
<1> QED  BY <1>4, <1>5

\* What inputs are worth.
Values(known, inputs) == [k \in DOMAIN inputs |-> InputOutput(known, inputs[k]).value]

\* What all outputs of these transactions to a key are worth.
Worth(known, ids, key) == TotalInput(known, InputsOf(known, ids, key))

\* They are amounts, and those of two lists follow each other.
LEMMA ValuesFacts ==
  ASSUME NEW known, AllOutputsOK(known), NEW key, NEW s \in Seq(Spendable(known, key))
  PROVE  /\ Values(known, s) \in Seq(Nat) /\ Len(Values(known, s)) = Len(s)
         /\ \A t \in Seq(Spendable(known, key)) :
              Values(known, s \o t) = Values(known, s) \o Values(known, t)
<1> DEFINE S == Spendable(known, key)
           worth(x) == InputOutput(known, x).value
<1>1. ASSUME NEW x \in S PROVE worth(x) \in Nat
  <2>1. x[1] \in DOMAIN known /\ x[2] \in DOMAIN known[x[1]].outputs
    BY DEF Spendable
  <2>2. OutputsOK(known[x[1]])
    BY <2>1 DEF AllOutputsOK
  <2> QED  BY <2>1, <2>2 DEF OutputsOK, InputOutput
<1>2. ASSUME NEW t \in Seq(S)
      PROVE  /\ Values(known, t) \in Seq(Nat) /\ Len(Values(known, t)) = Len(t)
             /\ Values(known, t) = [k \in 1 .. Len(t) |-> worth(t[k])]
  <2>1. Len(t) \in Nat /\ DOMAIN t = 1 .. Len(t) /\ \A k \in 1 .. Len(t) : t[k] \in S
    OBVIOUS
  <2> HIDE DEF S
  <2>2. Values(known, t) = [k \in 1 .. Len(t) |-> worth(t[k])]
    BY <2>1 DEF Values
  <2> HIDE DEF worth
  <2>3. \A k \in 1 .. Len(t) : worth(t[k]) \in Nat
    BY <1>1, <2>1
  <2> QED  BY <2>1, <2>2, <2>3
<1>3. ASSUME NEW t \in Seq(S)
      PROVE  Values(known, s \o t) = Values(known, s) \o Values(known, t)
  <2> DEFINE n == Len(s)
             m == Len(t)
             both == s \o t
             v == Values(known, s)
             w == Values(known, t)
             u == Values(known, both)
  <2>1. /\ both \in Seq(S) /\ Len(both) = n + m
        /\ \A k \in 1 .. n + m : both[k] = IF k <= n THEN s[k] ELSE t[k - n]
    BY ConcatProperties
  <2>2. n \in Nat /\ m \in Nat
    OBVIOUS
  <2>3. /\ v \in Seq(Nat) /\ Len(v) = n /\ v = [k \in 1 .. n |-> worth(s[k])]
        /\ w \in Seq(Nat) /\ Len(w) = m /\ w = [k \in 1 .. m |-> worth(t[k])]
    BY <1>2
  <2>4. u \in Seq(Nat) /\ u = [k \in 1 .. n + m |-> worth(both[k])]
    <3> HIDE DEF both, n, m
    <3> QED  BY <1>2, <2>1
  <2> HIDE DEF v, w, u, n, m, both, worth
  <2>5. /\ v \o w \in Seq(Nat) /\ Len(v \o w) = n + m
        /\ \A k \in 1 .. n + m : (v \o w)[k] = IF k <= n THEN v[k] ELSE w[k - n]
    <3>1. v \in Seq(Nat) /\ w \in Seq(Nat) /\ Len(v) = n /\ Len(w) = m
      BY <2>3
    <3>2. /\ v \o w \in Seq(Nat) /\ Len(v \o w) = Len(v) + Len(w)
          /\ \A k \in 1 .. Len(v) + Len(w) :
               (v \o w)[k] = IF k <= Len(v) THEN v[k] ELSE w[k - Len(v)]
      BY <3>1, ConcatProperties
    <3> QED  BY <3>1, <3>2, Zenon
  <2>6. ASSUME NEW k \in 1 .. n + m PROVE u[k] = (v \o w)[k]
    <3>1. CASE k <= n
      <4>1. k \in 1 .. n
        BY <2>2, <3>1
      <4>2. u[k] = worth(s[k])
        BY <2>1, <2>4, <3>1
      <4>3. v[k] = worth(s[k])
        BY <2>3, <4>1
      <4>4. (v \o w)[k] = v[k]
        BY <2>5, <3>1
      <4> QED  BY <4>2, <4>3, <4>4
    <3>2. CASE ~(k <= n)
      <4>1. k - n \in 1 .. m
        BY <2>2, <3>2
      <4>2. u[k] = worth(t[k - n])
        BY <2>1, <2>4, <3>2
      <4>3. w[k - n] = worth(t[k - n])
        BY <2>3, <4>1
      <4>4. (v \o w)[k] = w[k - n]
        BY <2>5, <3>2
      <4> QED  BY <4>2, <4>3, <4>4
    <3> QED  BY <3>1, <3>2
  <2>7. u = v \o w
    <3>1. Len(u) = n + m /\ n + m \in Nat
      BY <2>2, <2>4
    <3> QED  BY <2>4, <2>5, <2>6, <3>1, SeqEqual
  <2> QED  BY <2>7 DEF u, v, w, both
<1> QED  BY <1>2, <1>3

\* One more transaction makes it more by at least any of its outputs to the
\* key.
LEMMA WorthFacts ==
  ASSUME NEW known, AllOutputsOK(known), NEW key, NEW ids \in Seq(DOMAIN known)
  PROVE  /\ Worth(known, ids, key) \in Nat
         /\ \A id \in DOMAIN known : \A k \in DOMAIN known[id].outputs :
              known[id].outputs[k].to = key =>
                Worth(known, ids, key) + known[id].outputs[k].value <= Worth(known, Append(ids, id), key)
<1> DEFINE S == Spendable(known, key)
           old == InputsOf(known, ids, key)
           total == Worth(known, ids, key)
<1>1. old \in Seq(S)
  BY InputsAppended
<1>2. Values(known, old) \in Seq(Nat) /\ total = Total(Values(known, old))
  BY <1>1, ValuesFacts DEF Worth, TotalInput, Values
<1>3. total \in Nat
  <2> HIDE DEF total
  <2> QED  BY <1>2, TotalFacts
<1>4. ASSUME NEW id \in DOMAIN known, NEW k \in DOMAIN known[id].outputs,
             known[id].outputs[k].to = key
      PROVE  total + known[id].outputs[k].value <= Worth(known, Append(ids, id), key)
  <2> DEFINE mine == OutputsTo(known, id, key)
             values == Values(known, mine)
             value == known[id].outputs[k].value
             more == Worth(known, Append(ids, id), key)
  <2>1. /\ mine \in Seq(S)
        /\ \E i \in 1 .. Len(mine) : mine[i] = Input(id, k)
    BY <1>4, Mine DEF AllOutputsOK
  <2>2. values \in Seq(Nat) /\ Len(values) = Len(mine)
    BY <2>1, ValuesFacts
  <2>3. \E i \in 1 .. Len(values) : values[i] = value
    <3>1. PICK i \in 1 .. Len(mine) : mine[i] = Input(id, k)
      BY <2>1
    <3>2. values[i] = InputOutput(known, Input(id, k)).value
      BY <2>1, <3>1 DEF Values
    <3>3. InputOutput(known, Input(id, k)).value = value
      BY DEF InputOutput, Input
    <3> HIDE DEF values, mine
    <3> QED  BY <2>2, <3>1, <3>2, <3>3
  <2>4. InputsOf(known, Append(ids, id), key) = old \o mine
    BY InputsAppended
  <2>5. more = Total(Values(known, old) \o values)
    <3>1. Values(known, old \o mine) = Values(known, old) \o values
      BY <1>1, <2>1, ValuesFacts
    <3> QED  BY <2>4, <3>1 DEF Worth, TotalInput, Values
  <2> HIDE DEF more, values, mine, total, value
  <2>6. more = total + Total(values)
    BY <1>2, <2>2, <2>5, TotalOfBoth
  <2>7. Total(values) \in Nat /\ \A i \in 1 .. Len(values) : values[i] <= Total(values)
    BY <2>2, TotalFacts
  <2>8. PICK i \in 1 .. Len(values) : values[i] = value
    BY <2>3
  <2>9. value <= Total(values) /\ value \in Nat
    BY <2>2, <2>7, <2>8
  <2> QED  BY <1>3, <2>6, <2>7, <2>9 DEF total, more, value
<1> QED  BY <1>3, <1>4

\* No transaction is worth nothing.
LEMMA WorthOfNone ==
  ASSUME NEW known, NEW key
  PROVE  Worth(known, <<>>, key) = 0
<1>1. Len(<<>>) = 0
  OBVIOUS
<1>2. InputsOf(known, <<>>, key) = <<>>
  <2> DEFINE none == <<>>
  <2>1. Len(none) \in Nat /\ Len(none) = 0
    BY <1>1
  <2> HIDE DEF none
  <2>2. PICK f : /\ f[0] = <<>>
                 /\ \A k \in 0 .. Len(none) - 1 : f[k + 1] = f[k] \o OutputsTo(known, none[k + 1], key)
                 /\ f[Len(none)] = InputsOf(known, none, key)
    BY <2>1, InputsLoop, ZenonT(40)
  <2> QED  BY <2>1, <2>2 DEF none
<1>3. Values(known, <<>>) = <<>>
  BY DEF Values
<1> QED  BY <1>2, <1>3, TotalOfNone DEF Worth, TotalInput, Values

\* The outputs to a key, of a list of outputs.
OutputsOf(outputs, id, key) ==
  Repeat(Len(outputs), <<>>,
         LAMBDA mine, k : IF outputs[k].to = key THEN Append(mine, Input(id, k)) ELSE mine)

\* What other transactions come does not matter.
LEMMA WorthAlike ==
  ASSUME NEW known, AllOutputsOK(known), NEW key, NEW ids \in Seq(DOMAIN known),
         NEW new, \A id \in DOMAIN known : new[id] = known[id]
  PROVE  Worth(new, ids, key) = Worth(known, ids, key)
<1> DEFINE n == Len(ids)
           S == Spendable(known, key)
           inputs == InputsOf(known, ids, key)
<1>1. n \in Nat /\ \A k \in 1 .. n : ids[k] \in DOMAIN known
  OBVIOUS
<1>2. \A id \in DOMAIN known : OutputsTo(new, id, key) = OutputsTo(known, id, key)
  <2>1. \A k, id : OutputsTo(k, id, key) = OutputsOf(k[id].outputs, id, key)
    BY DEF OutputsTo, OutputsOf
  <2> QED  BY <2>1
<1>3. PICK f : /\ f[0] = <<>>
               /\ \A k \in 0 .. n - 1 : f[k + 1] = f[k] \o OutputsTo(known, ids[k + 1], key)
               /\ f[n] = inputs
  BY <1>1, InputsLoop
<1>4. PICK g : /\ g[0] = <<>>
               /\ \A k \in 0 .. n - 1 : g[k + 1] = g[k] \o OutputsTo(new, ids[k + 1], key)
               /\ g[n] = InputsOf(new, ids, key)
  BY <1>1, InputsLoop
<1> HIDE DEF n, inputs
<1> DEFINE Q == {k \in 0 .. n : g[k] = f[k]}
<1>5. 0 \in Q
  BY <1>1, <1>3, <1>4
<1>6. ASSUME NEW k \in 0 .. n - 1, k \in Q PROVE k + 1 \in Q
  <2>1. k + 1 \in 1 .. n /\ g[k] = f[k] /\ k + 1 \in 0 .. n
    BY <1>1, <1>6
  <2>2. OutputsTo(new, ids[k + 1], key) = OutputsTo(known, ids[k + 1], key)
    BY <1>1, <1>2, <2>1
  <2> QED  BY <1>3, <1>4, <2>1, <2>2
<1>7. n \in Q
  <2> HIDE DEF Q
  <2> QED  BY <1>1, <1>5, <1>6, LoopKeeps
<1>8. InputsOf(new, ids, key) = inputs
  BY <1>3, <1>4, <1>7
<1>9. inputs \in Seq(S)
  BY InputsAppended DEF inputs
<1>10. Values(new, inputs) = Values(known, inputs)
  <2>1. \A k \in DOMAIN inputs : inputs[k] \in S
    BY <1>9
  <2>2. \A x \in S : InputOutput(new, x).value = InputOutput(known, x).value
    BY DEF Spendable, InputOutput
  <2> HIDE DEF S
  <2> QED  BY <2>1, <2>2 DEF Values
<1> QED  BY <1>8, <1>10 DEF Worth, TotalInput, Values, inputs

CashFields == {"known", "balances", "outOf", "history", "order"}

\* No balance is more than what the outputs noted for the key are worth.
PursesOK(known, balances, outOf) ==
  /\ DOMAIN outOf = DOMAIN balances
  /\ \A key \in DOMAIN balances :
       /\ balances[key] \in Nat /\ outOf[key] \in Seq(DOMAIN known)
       /\ balances[key] <= Worth(known, outOf[key], key)

\* The slice of a LAO.
Solvent(c) ==
  DOMAIN c = CashFields /\ AllOutputsOK(c.known) /\ PursesOK(c.known, c.balances, c.outOf)

\* An input of a key leaves it neither a balance nor outputs.
LEMMA InputSpent ==
  ASSUME NEW c, Solvent(c), NEW key, NEW input, NEW id
  PROVE  LET t == SpendInput(c, key, input, id)
         IN  Solvent(t) /\ t.known = c.known
<1> DEFINE t == SpendInput(c, key, input, id)
           known == c.known
<1>1. /\ DOMAIN t = CashFields /\ t.known = known
      /\ input = Coinbase => t.balances = c.balances /\ t.outOf = c.outOf
      /\ input # Coinbase => t.balances = Put(c.balances, key, 0) /\ t.outOf = Put(c.outOf, key, <<>>)
  BY DEF SpendInput, Solvent, CashFields
<1> HIDE DEF t
<1>2. CASE input = Coinbase
  BY <1>1, <1>2 DEF Solvent, t
<1>3. CASE input # Coinbase
  <2>1. <<>> \in Seq(DOMAIN known)
    BY EmptySeq
  <2>2. Worth(known, <<>>, key) = 0
    BY WorthOfNone
  <2> DEFINE none == <<>>
  <2>3. none \in Seq(DOMAIN known) /\ Worth(known, none, key) = 0
    BY <2>1, <2>2
  <2>4. t.balances = Put(c.balances, key, 0) /\ t.outOf = Put(c.outOf, key, none)
    BY <1>1, <1>3
  <2> HIDE DEF none, known
  <2>5. PursesOK(known, c.balances, c.outOf)
    BY DEF Solvent, known
  <2>6. DOMAIN t.outOf = DOMAIN t.balances
    BY <2>4, <2>5 DEF PursesOK, Put
  <2>7. ASSUME NEW k \in DOMAIN t.balances
        PROVE  /\ t.balances[k] \in Nat /\ t.outOf[k] \in Seq(DOMAIN known)
               /\ t.balances[k] <= Worth(known, t.outOf[k], k)
    <3>1. CASE k = key
      <4>1. t.balances[k] = 0 /\ t.outOf[k] = none
        BY <2>4, <3>1 DEF Put
      <4> QED  BY <2>3, <3>1, <4>1
    <3>2. CASE k # key
      <4>1. k \in DOMAIN c.balances /\ t.balances[k] = c.balances[k] /\ t.outOf[k] = c.outOf[k]
        BY <2>4, <2>5, <3>2 DEF Put, PursesOK
      <4> QED  BY <2>5, <4>1 DEF PursesOK
    <3> QED  BY <3>1, <3>2
  <2>8. PursesOK(t.known, t.balances, t.outOf)
    BY <1>1, <2>6, <2>7 DEF PursesOK, known
  <2> QED  BY <1>1, <2>8 DEF Solvent, known, t
<1> QED  BY <1>1, <1>2, <1>3 DEF t

\* An output adds to a balance what it adds to the outputs of its key, at
\* least.
LEMMA OutputReceived ==
  ASSUME NEW c, Solvent(c), NEW id \in DOMAIN c.known, NEW k \in DOMAIN c.known[id].outputs
  PROVE  LET t == ReceiveOutput(c, c.known[id].outputs[k], id)
         IN  Solvent(t) /\ t.known = c.known
<1> DEFINE out == c.known[id].outputs[k]
           key == out.to
           t == ReceiveOutput(c, out, id)
           known == c.known
           had == AtKey(c.balances, key, 0)
           before == AtKey(c.outOf, key, <<>>)
<1>1. /\ DOMAIN t = CashFields /\ t.known = known
      /\ t.balances = Put(c.balances, key, had + out.value)
      /\ t.outOf = Put(c.outOf, key, Append(before, id))
  BY DEF ReceiveOutput, Solvent, CashFields
<1>2. AllOutputsOK(known) /\ PursesOK(known, c.balances, c.outOf) /\ id \in DOMAIN known
  BY DEF Solvent
<1>3. out.value \in Nat
  BY <1>2 DEF AllOutputsOK, OutputsOK
<1>4. had \in Nat /\ before \in Seq(DOMAIN known) /\ had <= Worth(known, before, key)
  <2>1. CASE key \in DOMAIN c.balances
    <3>1. had = c.balances[key] /\ before = c.outOf[key]
      BY <1>2, <2>1 DEF AtKey, PursesOK
    <3> HIDE DEF had, before, known, key
    <3> QED  BY <1>2, <2>1, <3>1 DEF PursesOK
  <2>2. CASE key \notin DOMAIN c.balances
    <3> DEFINE none == <<>>
    <3>1. had = 0 /\ before = none
      BY <1>2, <2>2 DEF AtKey, PursesOK
    <3>2. none \in Seq(DOMAIN known) /\ Worth(known, none, key) = 0
      BY EmptySeq, WorthOfNone
    <3> HIDE DEF had, before, known, key, none
    <3> QED  BY <3>1, <3>2
  <2> QED  BY <2>1, <2>2
<1>5. Worth(known, before, key) + out.value <= Worth(known, Append(before, id), key)
  <2>1. \A i \in DOMAIN known : \A j \in DOMAIN known[i].outputs :
          known[i].outputs[j].to = key =>
            Worth(known, before, key) + known[i].outputs[j].value <= Worth(known, Append(before, i), key)
    <3> HIDE DEF known, before, key
    <3> QED  BY <1>2, <1>4, WorthFacts
  <2> QED  BY <2>1
<1>6. Worth(known, before, key) \in Nat /\ Worth(known, Append(before, id), key) \in Nat
      /\ Append(before, id) \in Seq(DOMAIN known)
  <2> HIDE DEF known, before, key
  <2>1. Append(before, id) \in Seq(DOMAIN known)
    BY <1>2, <1>4, AppendProperties
  <2> QED  BY <1>2, <1>4, <2>1, WorthFacts
<1> DEFINE worth == out.value
           more == Append(before, id)
           after == had + worth
<1>7. after \in Nat /\ after <= Worth(known, more, key)
  <2>1. /\ had \in Nat /\ worth \in Nat /\ had <= Worth(known, before, key)
        /\ Worth(known, before, key) \in Nat /\ Worth(known, more, key) \in Nat
        /\ Worth(known, before, key) + worth <= Worth(known, more, key)
    BY <1>3, <1>4, <1>5, <1>6
  <2> HIDE DEF had, worth, more, before, known, key
  <2> QED  BY <2>1
<1>8. more \in Seq(DOMAIN known)
  BY <1>6
<1>9. t.balances = Put(c.balances, key, after) /\ t.outOf = Put(c.outOf, key, more)
  BY <1>1
<1> HIDE DEF t, known, more, after, key
<1>10. DOMAIN t.outOf = DOMAIN t.balances
  BY <1>2, <1>9 DEF PursesOK, Put
<1>11. ASSUME NEW x \in DOMAIN t.balances
       PROVE  /\ t.balances[x] \in Nat /\ t.outOf[x] \in Seq(DOMAIN known)
              /\ t.balances[x] <= Worth(known, t.outOf[x], x)
  <2>1. CASE x = key
    <3>1. t.balances[x] = after /\ t.outOf[x] = more
      BY <1>9, <2>1 DEF Put
    <3> QED  BY <1>7, <1>8, <2>1, <3>1
  <2>2. CASE x # key
    <3>1. x \in DOMAIN c.balances /\ t.balances[x] = c.balances[x] /\ t.outOf[x] = c.outOf[x]
      BY <1>2, <1>9, <2>2 DEF Put, PursesOK
    <3> QED  BY <1>2, <3>1 DEF PursesOK
  <2> QED  BY <2>1, <2>2
<1>12. PursesOK(t.known, t.balances, t.outOf)
  BY <1>1, <1>10, <1>11 DEF PursesOK
<1> QED  BY <1>1, <1>2, <1>12 DEF Solvent, t, known

\* A transaction that is noted changes no balance.
LEMMA TransactionKnown ==
  ASSUME NEW c, Solvent(c), NEW id, NEW tx, OutputsOK(tx), id \in DOMAIN c.known => c.known[id] = tx
  PROVE  LET t == [c EXCEPT !.known = Put(@, id, tx), !.order = Append(@, id)]
         IN  Solvent(t) /\ t.known = Put(c.known, id, tx)
<1> DEFINE t == [c EXCEPT !.known = Put(@, id, tx), !.order = Append(@, id)]
           known == c.known
           new == Put(known, id, tx)
<1>1. DOMAIN t = CashFields /\ t.known = new /\ t.balances = c.balances /\ t.outOf = c.outOf
  BY DEF Solvent, CashFields
<1> HIDE DEF t
<1>2. AllOutputsOK(known) /\ PursesOK(known, c.balances, c.outOf)
  BY DEF Solvent
<1>3. DOMAIN new = DOMAIN known \cup {id} /\ \A x \in DOMAIN known : new[x] = known[x]
  BY DEF Put
<1>4. AllOutputsOK(new)
  BY <1>2 DEF AllOutputsOK, Put
<1> HIDE DEF new, known
<1>5. ASSUME NEW key \in DOMAIN c.balances
      PROVE  /\ c.outOf[key] \in Seq(DOMAIN new)
             /\ Worth(new, c.outOf[key], key) = Worth(known, c.outOf[key], key)
  <2>1. c.outOf[key] \in Seq(DOMAIN known)
    BY <1>2 DEF PursesOK
  <2>2. c.outOf[key] \in Seq(DOMAIN new)
    BY <1>3, <2>1, SeqMonotonic
  <2> QED  BY <1>2, <1>3, <2>1, <2>2, WorthAlike
<1>6. PursesOK(new, c.balances, c.outOf)
  BY <1>2, <1>5 DEF PursesOK
<1> QED  BY <1>1, <1>4, <1>6 DEF Solvent, t, new, known

\* The transactions a store knows are those of messages that were accepted.
KnownOK(lg, known) ==
  \A id \in DOMAIN known : /\ id \in DOMAIN lg /\ lg[id].kind = "post_transaction"
                           /\ known[id] = lg[id].transaction
CashOK(lg, c) == KnownOK(lg, c.known) /\ Solvent(c)
CashesOK(lg, st) == \A l \in DOMAIN st.cash : CashOK(lg, st.cash[l])

\* A transaction that is handled keeps both.
LEMMA TransactionAdded ==
  ASSUME NEW c, CashOK(log, c), NEW id \in DOMAIN log, log[id].kind = "post_transaction",
         TransactionOK(log[id].transaction)
  PROVE  LET tx == log[id].transaction
             added == [c EXCEPT !.known = Put(@, id, tx), !.order = Append(@, id)]
         IN  CashOK(log, Credited(Debited(added, tx, id), tx, id))
<1> DEFINE tx == log[id].transaction
           added == [c EXCEPT !.known = Put(@, id, tx), !.order = Append(@, id)]
           spent == Debited(added, tx, id)
           received == Credited(spent, tx, id)
           known == Put(c.known, id, tx)
           n == Len(tx.inputs)
           m == Len(tx.outputs)
<1>1. n \in Nat /\ m \in Nat /\ DOMAIN tx.outputs = 1 .. m /\ OutputsOK(tx)
  <2>1. /\ tx.inputs \in Seq(ToSet(tx.inputs)) /\ tx.outputs \in Seq(ToSet(tx.outputs))
        /\ \A k \in DOMAIN tx.outputs : tx.outputs[k].value \in Nat
    BY DEF TransactionOK
  <2> HIDE DEF tx
  <2> QED  BY <2>1 DEF OutputsOK, IsList
<1>2. KnownOK(log, known)
  BY DEF CashOK, KnownOK, Put
<1>3. Solvent(added) /\ added.known = known
  <2>1. Solvent(c) /\ (id \in DOMAIN c.known => c.known[id] = tx)
    BY DEF CashOK, KnownOK
  <2> HIDE DEF tx
  <2> QED  BY <1>1, <2>1, TransactionKnown
<1>4. id \in DOMAIN known /\ known[id] = tx
  BY DEF Put
<1>5. PICK f : /\ f[0] = added
               /\ \A k \in 0 .. n - 1 : f[k + 1] = SpendInput(f[k], tx.from, tx.inputs[k + 1], id)
               /\ f[n] = spent
  <2> HIDE DEF added, tx
  <2> QED  BY <1>1, SpendLoop
<1> HIDE DEF spent
<1>6. PICK g : /\ g[0] = spent
               /\ \A k \in 0 .. m - 1 : g[k + 1] = ReceiveOutput(g[k], tx.outputs[k + 1], id)
               /\ g[m] = received
  <2> HIDE DEF tx
  <2> QED  BY <1>1, ReceiveLoop
<1> HIDE DEF added, tx, n, m, known, received
<1> DEFINE Q == {k \in 0 .. n : Solvent(f[k]) /\ f[k].known = known}
           R == {k \in 0 .. m : Solvent(g[k]) /\ g[k].known = known}
<1>7. n \in Q
  <2>1. 0 \in Q
    BY <1>1, <1>3, <1>5
  <2>2. ASSUME NEW k \in 0 .. n - 1, k \in Q PROVE k + 1 \in Q
    <3>1. Solvent(f[k]) /\ f[k].known = known /\ k + 1 \in 0 .. n
      BY <1>1, <2>2
    <3>2. /\ Solvent(SpendInput(f[k], tx.from, tx.inputs[k + 1], id))
          /\ SpendInput(f[k], tx.from, tx.inputs[k + 1], id).known = known
      BY <3>1, InputSpent
    <3> QED  BY <1>5, <3>1, <3>2
  <2> HIDE DEF Q
  <2> QED  BY <1>1, <2>1, <2>2, LoopKeeps
<1>8. m \in R
  <2>1. 0 \in R
    BY <1>1, <1>5, <1>6, <1>7
  <2>2. ASSUME NEW k \in 0 .. m - 1, k \in R PROVE k + 1 \in R
    <3>1. Solvent(g[k]) /\ g[k].known = known /\ k + 1 \in 0 .. m /\ k + 1 \in DOMAIN tx.outputs
      BY <1>1, <2>2
    <3>2. /\ Solvent(ReceiveOutput(g[k], tx.outputs[k + 1], id))
          /\ ReceiveOutput(g[k], tx.outputs[k + 1], id).known = known
      BY <1>4, <3>1, OutputReceived
    <3> QED  BY <1>6, <3>1, <3>2
  <2> HIDE DEF R
  <2> QED  BY <1>1, <2>1, <2>2, LoopKeeps
<1>9. CashOK(log, received)
  BY <1>2, <1>6, <1>8 DEF CashOK
<1> QED  BY <1>9 DEF received, spent, added, tx

\* So does a LAO without transactions.
LEMMA NoCashYet == CashOK(log, EmptyCash)
BY DEF CashOK, KnownOK, Solvent, EmptyCash, NoFunction, CashFields, AllOutputsOK, PursesOK

\* No handler breaks CashesOK: transactions that the servers accepted have
\* lists of amounts.
LEMMA CashHandled ==
  ASSUME NEW st, DOMAIN st = Slices, NEW id \in DOMAIN log, log[id].kind \in RegisteredKind,
         MessageOK(log, id), CashesOK(log, st)
  PROVE  CashesOK(log, HandleMessage(st, id).st)
<1> DEFINE m == log[id]
           t == HandleMessage(st, id).st
<1>1. CASE m.kind # "post_transaction"
  BY <1>1, Untouched DEF CashesOK
<1>2. CASE m.kind = "post_transaction"
  <2> DEFINE l == LaoOf(m)
             tx == m.transaction
             old == CashOf(st, l)
             added == [old EXCEPT !.known = Put(@, id, tx), !.order = Append(@, id)]
             new == Credited(Debited(added, tx, id), tx, id)
  <2>1. t = st \/ t = AddTransaction(st, l, id, tx)
    BY <1>2 DEF HandleMessage, HandleTransactionPost, Handled, NotHandled
  <2>2. CashOK(log, old)
    BY NoCashYet DEF CashOf, CashesOK
  <2>3. TransactionOK(tx)
    BY <1>2 DEF MessageOK
  <2>4. CashOK(log, new)
    <3> HIDE DEF old
    <3> QED  BY <1>2, <2>2, <2>3, TransactionAdded
  <2>5. AddTransaction(st, l, id, tx) = [st EXCEPT !.cash = Put(@, l, new)]
    BY DEF AddTransaction, Debited, Credited
  <2> HIDE DEF new, l
  <2>6. AddTransaction(st, l, id, tx).cash = Put(st.cash, l, new)
    BY <2>5 DEF Slices
  <2> HIDE DEF t
  <2>7. ASSUME t = AddTransaction(st, l, id, tx) PROVE CashesOK(log, t)
    <3>1. t.cash = Put(st.cash, l, new)
      BY <2>6, <2>7
    <3> QED  BY <2>4, <3>1 DEF CashesOK, Put
  <2> QED  BY <2>1, <2>7 DEF t
<1> QED  BY <1>1, <1>2

\* What the wallet makes of all coins of a key passes the check of the handler.
LEMMA OwnTransactionChecked ==
  ASSUME NEW st, NEW l \in DOMAIN st.cash, Solvent(st.cash[l]),
         NEW key \in DOMAIN st.cash[l].balances, NEW organizer
  PROVE  LET tx == CreateTransaction(st, l, key, key, Balance(st, l, key))
         IN  tx.inputs # <<>> => CheckTransactionValidity(tx, organizer, TransactionsById(st, l))
<1> DEFINE c == st.cash[l]
           known == c.known
           balance == c.balances[key]
           ids == c.outOf[key]
           inputs == InputsOf(known, ids, key)
           tx == CreateTransaction(st, l, key, key, Balance(st, l, key))
           outputs == <<Output(key, balance)>>
           S == Spendable(known, key)
<1>1. AllOutputsOK(known) /\ PursesOK(known, c.balances, c.outOf)
  BY DEF Solvent
<1>2. /\ balance \in Nat /\ ids \in Seq(DOMAIN known) /\ key \in DOMAIN c.outOf
      /\ balance <= Worth(known, ids, key)
  BY <1>1 DEF PursesOK
<1>3. /\ TransactionsById(st, l) = known /\ Balance(st, l, key) = balance
      /\ TransactionsByOutPublicKey(st, l, key) = ids
  BY <1>2 DEF TransactionsById, Balance, TransactionsByOutPublicKey, CashOf, AtKey
<1>4. GetInputsInToSign(st, l, key) = inputs
  <2>1. GetInputsInToSign(st, l, key)
          = InputsOf(TransactionsById(st, l), TransactionsByOutPublicKey(st, l, key), key)
    BY DEF GetInputsInToSign, InputsOf
  <2> QED  BY <1>3, <2>1
<1> HIDE DEF c, known, balance, ids, inputs, S
<1>5. tx.from = key /\ tx.inputs = inputs /\ tx.outputs = outputs
  <2> DEFINE none == <<>>
             paid == Balance(st, l, key)
             change == IF paid > paid THEN <<Output(key, paid - paid)>> ELSE none
  <2>1. tx = Transaction(key, GetInputsInToSign(st, l, key), <<Output(key, paid)>> \o change)
    BY DEF CreateTransaction
  <2>2. change = none
    <3> HIDE DEF none
    <3> QED  BY <1>2, <1>3
  <2>3. outputs \o none = outputs
    OBVIOUS
  <2> HIDE DEF none, change, tx
  <2>4. tx = Transaction(key, inputs, outputs)
    BY <1>3, <1>4, <2>1, <2>2, <2>3
  <2> QED  BY <2>4 DEF Transaction, tx
<1>6. inputs \in Seq(S)
  BY <1>1, <1>2, InputsAppended DEF inputs, S
<1>7. \A i \in DOMAIN inputs : inputs[i] \in S
  BY <1>6
<1>8. ASSUME NEW x \in S PROVE InputIsValid(known, key, x) /\ x # Coinbase
  <2>1. /\ x[1] \in DOMAIN known /\ x[2] \in DOMAIN known[x[1]].outputs
        /\ known[x[1]].outputs[x[2]].to = key
    BY DEF S, Spendable
  <2>2. IsList(known[x[1]].outputs)
    BY <1>1, <2>1 DEF AllOutputsOK, OutputsOK
  <2>3. 0 \notin DOMAIN known[x[1]].outputs
    BY <2>2 DEF IsList
  <2> QED  BY <2>1, <2>3 DEF InputIsValid, InputOutput, Coinbase
<1>9. TotalOutput(tx) <= TotalInput(known, inputs)
  <2> DEFINE values == [k \in DOMAIN outputs |-> outputs[k].value]
  <2>1. Len(values) = 1 /\ Len(values) \in Nat /\ values[1] = balance
    BY DEF Output
  <2>2. TotalOutput(tx) = Total(values)
    BY <1>5 DEF TotalOutput
  <2> HIDE DEF values
  <2>3. PICK f : /\ f[0] = 0 /\ \A k \in 0 .. Len(values) - 1 : f[k + 1] = f[k] + values[k + 1]
                 /\ Total(values) = f[Len(values)]
    BY <2>1, TotalLoop
  <2>4. Total(values) = balance
    BY <1>2, <2>1, <2>3
  <2> QED  BY <1>2, <2>2, <2>4 DEF Worth, inputs
<1>10. ASSUME inputs # <<>> PROVE 1 \in DOMAIN inputs
  BY <1>6, <1>10
<1>11. ASSUME inputs # <<>> PROVE CheckTransactionValidity(tx, organizer, known)
  <2>1. ~IsCoinbase(tx)
    BY <1>5, <1>7, <1>8, <1>10, <1>11 DEF IsCoinbase
  <2> HIDE DEF tx
  <2> QED  BY <1>5, <1>7, <1>8, <1>9, <2>1 DEF CheckTransactionValidity
<1> QED  BY <1>3, <1>5, <1>11


-----------------------------------------------------------------------------
(* Ingestion                                                                 *)

\* What the handlers keep, for a set of messages that were processed.
Core(lg, st, done) ==
  /\ EventsOK(lg, st, done) /\ VotesOK(lg, st, done) /\ RollCallsOK(lg, st, done)
  /\ SocialOK(lg, st, done) /\ LinksOK(lg, st) /\ TasksOK(st) /\ CashesOK(lg, st)

\* A log in an order in which the servers accept its messages.
Ordered(lg) == Len(lg) \in Nat /\ DOMAIN lg = 1 .. Len(lg) /\ LogOK(lg)

\* A list with one more element.
LEMMA ListAppended ==
  ASSUME NEW s, NEW e, IsList(s)
  PROVE  IsList(Append(s, e)) /\ ToSet(Append(s, e)) = ToSet(s) \cup {e}
<1> DEFINE n == Len(s)
           t == Append(s, e)
<1>1. s \in Seq(ToSet(s) \cup {e}) /\ e \in ToSet(s) \cup {e}
  BY SeqMonotonic DEF IsList
<1>2. /\ t \in Seq(ToSet(s) \cup {e}) /\ Len(t) = n + 1 /\ t[n + 1] = e
      /\ \A i \in 1 .. n : t[i] = s[i]
  BY <1>1, AppendProperties
<1>3. n \in Nat /\ DOMAIN s = 1 .. n /\ DOMAIN t = 1 .. n + 1 /\ 1 .. n + 1 = (1 .. n) \cup {n + 1}
  BY <1>1, <1>2
<1>4. ToSet(t) = {t[i] : i \in (1 .. n) \cup {n + 1}} /\ ToSet(s) = {s[i] : i \in 1 .. n}
  BY <1>3 DEF ToSet
<1> HIDE DEF n, t
<1>5. ToSet(t) = ToSet(s) \cup {e}
  BY <1>2, <1>4
<1> QED  BY <1>5, Lists DEF t

\* A challenge is the one the server has sent, and a result with a key is
\* appended only when the two servers have met.
LEMMA LinksHandled ==
  ASSUME NEW st, NEW id \in DOMAIN log, DOMAIN st = Slices, log[id].kind \in RegisteredKind,
         Ordered(log), LinksOK(log, st)
  PROVE  LinksOK(log, HandleMessage(st, id).st)
<1> DEFINE m == log[id]
           t == HandleMessage(st, id).st
<1>0. t.scanned = st.scanned /\ t.linked = st.linked
  BY Untouched
<1>1. CASE m.kind \notin {"challenge", "federation_result"}
  BY <1>1, Untouched DEF LinksOK
<1>2. CASE m.kind = "challenge"
  <2>1. t = SetChallenge(st, LaoOf(m), m.challenge)
    BY <1>2 DEF HandleMessage, HandleChallenge, Handled
  <2>2. t.challenge = Put(st.challenge, LaoOf(m), m.challenge) /\ t.results = st.results
    BY <2>1 DEF SetChallenge, Slices
  <2>3. Issued(log, LaoOf(m), m.challenge)
    BY <1>2 DEF Issued
  <2> HIDE DEF t
  <2>4. ChallengesOK(log, t.challenge)
    BY <2>2, <2>3 DEF ChallengesOK, LinksOK, Put
  <2> QED  BY <1>0, <2>2, <2>4 DEF LinksOK, t
<1>3. CASE m.kind = "federation_result"
  <2> DEFINE l == st.current
             result == Result(m.challenge, m.key)
             old == ResultsOf(st, l)
  <2>1. t = st \/ t = AddReceivedChallenge(st, l, result)
    BY <1>3 DEF HandleMessage, HandleFederationResult, InCurrentLao, Handled, NotHandled
  <2>2. ASSUME t = AddReceivedChallenge(st, l, result) PROVE LinksOK(log, t)
    <3>1. IsList(old) /\ \A r \in ToSet(old) : r.key # None => Federated(log, r.challenge)
      <4>1. IsList(<<>>) /\ ToSet(<<>>) = {}
        BY Lists DEF ToSet
      <4> QED  BY <4>1 DEF ResultsOf, AtKey, LinksOK, AnswersOK
    <3>2. result.key # None => Federated(log, result.challenge)
      <4>1. MessageOK(log, id) /\ DOMAIN log = 1 .. Len(log) /\ Len(log) \in Nat /\ id \in 1 .. Len(log)
        BY DEF Ordered, LogOK
      <4>2. m.key # None => \E init, expect \in 1 .. id - 1 :
                              Matches(log, init, expect) /\ log[init].challenge = m.challenge
        BY <1>3, <4>1 DEF MessageOK
      <4>3. result.key = m.key /\ result.challenge = m.challenge
        BY DEF Result
      <4>4. 1 .. id - 1 \subseteq DOMAIN log
        BY <4>1
      <4> QED  BY <4>2, <4>3, <4>4 DEF Federated
    <3>3. IsList(Append(old, result)) /\ ToSet(Append(old, result)) = ToSet(old) \cup {result}
      BY <3>1, ListAppended
    <3>4. t.challenge = st.challenge
      BY <1>3, Untouched
    <3> HIDE DEF result
    <3>5. PICK new : new \in {old, Append(old, result)} /\ t.results = Put(st.results, l, new)
      BY <2>2 DEF AddReceivedChallenge, Slices
    <3> HIDE DEF t, old
    <3>6. IsList(new) /\ \A r \in ToSet(new) : r.key # None => Federated(log, r.challenge)
      BY <3>1, <3>2, <3>3, <3>5
    <3>7. AnswersOK(log, t.results)
      BY <3>5, <3>6 DEF AnswersOK, LinksOK, Put
    <3> QED  BY <1>0, <3>4, <3>7 DEF LinksOK, t
  <2> QED  BY <2>1, <2>2
<1> QED  BY <1>1, <1>2, <1>3

\* Closing a roll call waits for a token.
LEMMA TasksHandled ==
  ASSUME NEW st, NEW id, DOMAIN st = Slices, log[id].kind \in RegisteredKind, TasksOK(st)
  PROVE  TasksOK(HandleMessage(st, id).st)
<1> DEFINE m == log[id]
           t == HandleMessage(st, id).st
<1>1. CASE m.kind # "roll_call_close"
  BY <1>1, Untouched DEF TasksOK
<1>2. CASE m.kind = "roll_call_close"
  <2> DEFINE r == GetRollCallById(st, m.closes)
             rc == [st.rollCalls[r] EXCEPT !.alias = id, !.closedAt = id, !.status = "closed",
                                           !.attendees = m.attendees]
             u == UpdateRollCallEvent(st, r, rc).st
             token == GenerateToken(st, r)
             task == [type |-> "token", lao |-> LaoOf(m), rollCall |-> r,
                      hasToken |-> ContainsToken(rc, token), attendees |-> rc.attendees]
  <2>1. DOMAIN u = Slices /\ u.tasks = st.tasks
    BY DEF UpdateRollCallEvent, UpdateRollCall, UpdateEvent, Handled, NotHandled, Slices
  <2>2. t \in {st, u, Later(u, task)}
    <3>1. HandleMessage(st, id) = HandleRollCallClose(st, m, id)
      BY <1>2 DEF HandleMessage
    <3> HIDE DEF r
    <3> QED  BY <3>1 DEF HandleRollCallClose, Handled, NotHandled, r
  <2> HIDE DEF u
  <2>3. Later(u, task).tasks = st.tasks \cup {task}
    BY <2>1 DEF Later, Slices
  <2>4. task.type # "publish"
    OBVIOUS
  <2> HIDE DEF task
  <2>5. t.tasks \subseteq st.tasks \cup {task} /\ IsFiniteSet(t.tasks)
    <3>1. IsFiniteSet(st.tasks \cup {task}) /\ IsFiniteSet(st.tasks)
      BY FS_AddElement DEF TasksOK
    <3> QED  BY <2>1, <2>2, <2>3, <3>1
  <2> QED
    <3> HIDE DEF t
    <3>1. TasksOK(t)
      BY <2>4, <2>5 DEF TasksOK
    <3> QED  BY <3>1 DEF t
<1> QED  BY <1>1, <1>2

\* The parts together: no handler breaks Core.
LEMMA CoreHandled ==
  ASSUME NEW st, NEW done, NEW id \in st.byId, Ordered(log), MsgsOK(log, st),
         done \subseteq DOMAIN log, Core(log, st, done)
  PROVE  LET result == HandleMessage(st, id)
         IN  /\ Core(log, result.st, Done(result, done, id))
             /\ SocialKept(st, result.st)
<1>1. id \in 1 .. Len(log) /\ DOMAIN st = Slices /\ Len(log) \in Nat /\ DOMAIN log = 1 .. Len(log)
  BY DEF MsgsOK, Ordered
<1>2. log[id].kind \in RegisteredKind /\ MessageOK(log, id)
  BY <1>1 DEF MsgsOK, Ordered, LogOK
<1>3. done \subseteq 1 .. Len(log)
  BY <1>1
<1> QED
  BY <1>1, <1>2, <1>3, EventsHandled, VotesHandled, RollCallsHandled, SocialHandled, LinksHandled,
    TasksHandled, CashHandled DEF Core

\* What is processed is what is stored and not in the list of what is not.
StoreOK(lg, st) == MsgsOK(lg, st) /\ Core(lg, st, Processed(st))

\* What handling messages leaves as it was.
Follows(st, t) ==
  /\ t.byId = st.byId /\ t.current = st.current /\ DOMAIN t.laos = DOMAIN st.laos
  /\ t.notifications = st.notifications /\ t.toWitness = st.toWitness
  /\ SocialKept(st, t)

\* SocialKept is reflexive and transitive.
LEMMA KeptStaysKept ==
  ASSUME NEW r, NEW s, NEW t
  PROVE  /\ SocialKept(r, r)
         /\ SocialKept(r, s) /\ SocialKept(s, t) => SocialKept(r, t)
BY DEF SocialKept, StayDeleted

\* In a run of the watcher the store is right after every handler, and what the
\* loops have before them is stored. It need not be unprocessed: a nested loop
\* may have handled it.
RunOK(st, run) == StoreOK(log, run.st) /\ run.list \in Seq(st.byId) /\ Follows(st, run.st)

\* A step of a run, whether the message is handled for the first time or again.
LEMMA HandledNext ==
  ASSUME NEW st, NEW run, NEW k, Ordered(log), RunOK(st, run)
  PROVE  RunOK(st, HandleNext(run, k))
<1> DEFINE id == Head(run.list)
           result == HandleMessage(run.st, id)
           done == Processed(run.st)
           processed == ProcessMessages(result.st, id)
           nested == IF processed.unprocessed = result.st.unprocessed THEN <<>>
                     ELSE processed.unprocessed
<1>1. CASE run.list = <<>>
  BY <1>1 DEF HandleNext
<1>2. CASE run.list # <<>>
  <2>1. id \in st.byId /\ Tail(run.list) \in Seq(st.byId)
    BY <1>2, HeadTailProperties DEF RunOK
  <2>2. id \in run.st.byId /\ done \subseteq DOMAIN log /\ MsgsOK(log, run.st)
    BY <2>1 DEF RunOK, Follows, StoreOK, MsgsOK, Processed
  <2>3. Core(log, result.st, Done(result, done, id)) /\ SocialKept(run.st, result.st)
    BY <2>2, CoreHandled DEF RunOK, StoreOK
  <2>4. log[id].kind \in RegisteredKind /\ DOMAIN run.st = Slices
    BY <2>2 DEF MsgsOK, Ordered, LogOK
  <2>5. /\ DOMAIN result.st = Slices
        /\ result.st.byId = run.st.byId /\ result.st.unprocessed = run.st.unprocessed
        /\ result.st.signatures = run.st.signatures
        /\ result.st.current = run.st.current /\ DOMAIN result.st.laos = DOMAIN run.st.laos
        /\ result.st.notifications = run.st.notifications /\ result.st.toWitness = run.st.toWitness
    BY <2>4, Untouched
  <2> HIDE DEF id, result, done
  <2>6. MsgsOK(log, result.st) /\ Follows(st, result.st)
    BY <2>2, <2>3, <2>5, KeptStaysKept DEF MsgsOK, RunOK, Follows
  <2>7. CASE ~result.ok
    <3>1. HandleNext(run, k) = [st |-> result.st, list |-> Tail(run.list)]
      BY <1>2, <2>7 DEF HandleNext, id, result
    <3>2. Done(result, done, id) = Processed(result.st)
      BY <2>5, <2>7 DEF Done, Processed, done
    <3> QED  BY <2>1, <2>3, <2>6, <3>1, <3>2 DEF RunOK, StoreOK
  <2>8. CASE result.ok
    <3>1. HandleNext(run, k) = [st |-> processed, list |-> nested \o Tail(run.list)]
      BY <1>2, <2>8 DEF HandleNext, id, result
    <3> DEFINE waiting == RemoveFirst(result.st.unprocessed, id)
    <3>2. Only(result.st, processed, {"unprocessed"}) /\ processed.unprocessed = waiting
      BY <2>5 DEF ProcessMessages, Only, Slices
    <3> HIDE DEF processed
    <3>3. /\ DOMAIN processed = Slices
          /\ processed.byId = result.st.byId /\ processed.signatures = result.st.signatures
          /\ processed.current = result.st.current /\ processed.laos = result.st.laos
          /\ processed.notifications = result.st.notifications
          /\ processed.toWitness = result.st.toWitness /\ processed.events = result.st.events
          /\ processed.rollCalls = result.st.rollCalls /\ processed.byAlias = result.st.byAlias
          /\ processed.elections = result.st.elections /\ processed.meetings = result.st.meetings
          /\ processed.social = result.st.social /\ SameLinks(result.st, processed)
          /\ processed.tasks = result.st.tasks /\ processed.cash = result.st.cash
      BY <3>2, OnlySays DEF SameLinks
    <3>4. /\ waiting \in Seq(result.st.byId) /\ Distinct(waiting)
          /\ ToSet(waiting) = ToSet(result.st.unprocessed) \ {id}
      <4>1. result.st.unprocessed \in Seq(result.st.byId) /\ Distinct(result.st.unprocessed)
        BY <2>6 DEF MsgsOK, Distinct
      <4> QED  BY <4>1, Removed
    <3>5. MsgsOK(log, processed)
      BY <2>6, <3>2, <3>3, <3>4 DEF MsgsOK, Distinct
    <3>6. Done(result, done, id) = Processed(processed)
      BY <2>2, <2>5, <2>8, <3>2, <3>3, <3>4 DEF Done, Processed, done
    <3>7. Core(log, processed, Processed(processed))
      <4>1. Core(log, result.st, Processed(processed))
        BY <2>3, <3>6
      <4> HIDE DEF waiting
      <4>2. /\ EventsOK(log, processed, Processed(processed))
            /\ VotesOK(log, processed, Processed(processed))
        BY <3>3, <4>1 DEF Core, EventsOK, VotesOK
      <4>3. RollCallsOK(log, processed, Processed(processed))
        BY <3>3, <4>1 DEF Core, RollCallsOK
      <4>4. SocialOK(log, processed, Processed(processed)) /\ LinksOK(log, processed) /\ TasksOK(processed)
        BY <3>3, <4>1 DEF Core, SocialOK, LinksOK, SameLinks, TasksOK
      <4>5. CashesOK(log, processed)
        BY <3>3, <4>1 DEF Core, CashesOK
      <4> QED  BY <4>2, <4>3, <4>4, <4>5 DEF Core
    <3>8. Follows(st, processed)
      BY <2>6, <3>3 DEF Follows, SocialKept
    <3>9. nested \o Tail(run.list) \in Seq(st.byId)
      <4>1. processed.unprocessed \in Seq(st.byId)
        BY <3>5, <3>8 DEF MsgsOK, Follows
      <4>2. <<>> \in Seq(st.byId)
        BY EmptySeq
      <4>3. nested \in Seq(st.byId)
        BY <4>1, <4>2
      <4> HIDE DEF nested
      <4> QED  BY <2>1, <4>3, ConcatProperties
    <3> QED  BY <3>1, <3>5, <3>7, <3>8, <3>9 DEF RunOK, StoreOK
  <2> QED  BY <2>7, <2>8
<1> QED  BY <1>1, <1>2

\* The watcher of messages keeps StoreOK.
LEMMA Ingested ==
  ASSUME NEW st, Ordered(log), StoreOK(log, st)
  PROVE  StoreOK(log, Ingest(st)) /\ Follows(st, Ingest(st))
<1> DEFINE n == Len(st.unprocessed)
           steps == (n * (n + 1)) \div 2
           run == Ran(st)
           Q == {k \in Nat : k <= steps => RunOK(st, run[k])}
<1>1. /\ steps \in Nat
      /\ run[0] = [st |-> st, list |-> st.unprocessed]
      /\ \A k \in 1 .. steps : run[k] = HandleNext(run[k - 1], k)
      /\ Ingest(st) = run[steps].st
  <2>1. Len(st.unprocessed) \in Nat
    BY DEF StoreOK, MsgsOK
  <2> QED  BY <2>1, IngestRuns
<1> HIDE DEF steps, run
<1>2. 0 \in Q
  <2>1. Follows(st, st) /\ st.unprocessed \in Seq(st.byId)
    BY KeptStaysKept DEF Follows, StoreOK, MsgsOK
  <2> QED  BY <1>1, <2>1 DEF RunOK
<1>3. ASSUME NEW k \in Nat, k \in Q PROVE k + 1 \in Q
  <2> SUFFICES ASSUME k + 1 <= steps PROVE RunOK(st, run[k + 1])
    OBVIOUS
  <2>1. RunOK(st, run[k]) /\ k + 1 \in 1 .. steps /\ (k + 1) - 1 = k
    BY <1>1, <1>3
  <2>2. run[k + 1] = HandleNext(run[k], k + 1)
    BY <1>1, <2>1
  <2> QED  BY <2>1, <2>2, HandledNext
<1>4. steps \in Q
  <2> HIDE DEF Q
  <2> QED  BY <1>1, <1>2, <1>3, NatInduct
<1> QED  BY <1>1, <1>4 DEF RunOK

-----------------------------------------------------------------------------
(* A device.  What the invariant says of a store, and what everything but    *)
(* the handlers of messages leaves as it is.                                 *)

\* The notifications of a LAO have numbers below the next one, and are unread
\* or read.
NoticesOK(n) ==
  /\ DOMAIN n = {"byId", "unread", "read", "next"}
  /\ n.next \in Nat /\ DOMAIN n.byId \subseteq 0 .. n.next - 1
  /\ \A k \in DOMAIN n.byId :
       DOMAIN n.byId[k] = {"message", "read"} /\ n.byId[k].read \in BOOLEAN
  /\ n.unread = {k \in DOMAIN n.byId : ~n.byId[k].read}
  /\ n.read = {k \in DOMAIN n.byId : n.byId[k].read}

\* The notifications of all LAOs and the messages to witness are one to one.
AskedOK(st) ==
  LET said(l, k) == st.notifications[l].byId[k].message
  IN /\ \A l \in DOMAIN st.notifications : NoticesOK(st.notifications[l])
     /\ \A l \in DOMAIN st.notifications : \A k \in DOMAIN st.notifications[l].byId :
          said(l, k) \in st.toWitness
     /\ \A x \in st.toWitness :
          \E l \in DOMAIN st.notifications : \E k \in DOMAIN st.notifications[l].byId : said(l, k) = x
     /\ \A l, j \in DOMAIN st.notifications :
          \A k \in DOMAIN st.notifications[l].byId, i \in DOMAIN st.notifications[j].byId :
            said(l, k) = said(j, i) => l = j /\ k = i

SessionOK(st) == st.current \in DOMAIN st.laos \cup {None}

DeviceOK(lg, st) == StoreOK(lg, st) /\ AskedOK(st) /\ SessionOK(st)

\* The inductive invariant.
AppOK == /\ Ordered(log)
         /\ DOMAIN store = Device
         /\ \A d \in Device : DeviceOK(log, store[d])

\* The slices the handlers of messages are about are those there were.
Moved(st, t) ==
  /\ DOMAIN t = Slices
  /\ t.byId = st.byId /\ t.unprocessed = st.unprocessed /\ t.signatures = st.signatures
  /\ t.events = st.events /\ t.rollCalls = st.rollCalls /\ t.byAlias = st.byAlias
  /\ t.meetings = st.meetings /\ t.elections = st.elections /\ t.social = st.social
  /\ t.cash = st.cash /\ LinksOK(log, t) /\ TasksOK(t) /\ AskedOK(t) /\ SessionOK(t)

\* Such a step keeps the invariant of a device.
LEMMA DeviceMoved ==
  ASSUME NEW st, NEW t, DeviceOK(log, st), Moved(st, t)
  PROVE  DeviceOK(log, t) /\ SocialKept(st, t)
<1>1. Processed(t) = Processed(st)
  BY DEF Moved, Processed
<1>2. MsgsOK(log, t)
  BY DEF DeviceOK, StoreOK, MsgsOK, Moved
<1>3. EventsOK(log, t, Processed(t)) /\ VotesOK(log, t, Processed(t))
  BY <1>1 DEF DeviceOK, StoreOK, Core, EventsOK, VotesOK, Moved
<1>4. RollCallsOK(log, t, Processed(t)) /\ SocialOK(log, t, Processed(t)) /\ CashesOK(log, t)
  BY <1>1 DEF DeviceOK, StoreOK, Core, RollCallsOK, SocialOK, CashesOK, Moved
<1>5. SocialKept(st, t)
  BY DEF Moved, SocialKept, StayDeleted
<1> QED  BY <1>2, <1>3, <1>4, <1>5 DEF DeviceOK, StoreOK, Core, Moved

\* Moved is reflexive on what is right, and transitive.
LEMMA NotMoved ==
  ASSUME NEW st, DeviceOK(log, st)
  PROVE  Moved(st, st)
BY DEF Moved, DeviceOK, StoreOK, MsgsOK, Core

LEMMA MovedOn ==
  ASSUME NEW r, NEW s, NEW t, Moved(r, s), Moved(s, t)
  PROVE  Moved(r, t)
BY DEF Moved

\* Slices the invariant is not about.
Harmless == {"dev", "keyPair", "seed", "laos", "current", "connected", "servers", "greets",
             "electionKeys", "watched", "postponed", "linkedLaos", "scanning", "online", "subscribed"}

\* A step that changes only such slices.
LEMMA MovedBy ==
  ASSUME NEW st, NEW t, NEW changed, DeviceOK(log, st), Only(st, t, changed),
         changed \subseteq Harmless,
         SessionOK(t)
  PROVE  Moved(st, t)
<1>1. /\ DOMAIN t = Slices
      /\ t.byId = st.byId /\ t.unprocessed = st.unprocessed /\ t.signatures = st.signatures
      /\ t.events = st.events /\ t.rollCalls = st.rollCalls /\ t.byAlias = st.byAlias
      /\ t.meetings = st.meetings /\ t.elections = st.elections /\ t.social = st.social
      /\ SameLinks(st, t) /\ t.tasks = st.tasks /\ t.cash = st.cash
      /\ t.notifications = st.notifications /\ t.toWitness = st.toWitness
  BY OnlySays DEF Harmless, SameLinks
<1> QED  BY <1>1 DEF Moved, DeviceOK, StoreOK, Core, LinksOK, SameLinks, TasksOK, AskedOK

\* The invariant of a store does not depend on what is accepted later.
LEMMA StoreGrows ==
  ASSUME NEW lg, NEW longer, Ordered(lg), Grown(lg, longer), NEW st,
         StoreOK(lg, st)
  PROVE  StoreOK(longer, st)
<1> DEFINE done == Processed(st)
<1>1. \A id \in DOMAIN lg : id \in DOMAIN longer /\ longer[id] = lg[id]
  BY DEF Grown
<1>2. done \subseteq DOMAIN lg /\ st.byId \subseteq DOMAIN lg
  BY DEF StoreOK, MsgsOK, Processed
<1>3. \A x \in DOMAIN lg : RollCallNamed(longer, x) = RollCallNamed(lg, x)
  BY NamedAlike
<1>4. MsgsOK(longer, st)
  BY <1>1, <1>2 DEF StoreOK, MsgsOK
<1> HIDE DEF done
<1>5. \A kind : OfKind(longer, done, kind) = OfKind(lg, done, kind)
  BY <1>1, <1>2 DEF OfKind
<1>6. EventsOK(longer, st, done)
  BY <1>5 DEF StoreOK, Core, EventsOK, done
<1>7. VotesOK(longer, st, done)
  <2>1. ASSUME NEW e PROVE Cast(longer, done, e) = Cast(lg, done, e)
    BY <1>1, <1>2 DEF Cast
  <2>2. ASSUME NEW e \in DOMAIN st.elections
        PROVE  ElectionOK(longer, st.elections[e], Cast(longer, done, e))
    <3>1. Cast(lg, done, e) \subseteq DOMAIN lg
      BY <1>2 DEF Cast
    <3>2. ElectionOK(lg, st.elections[e], Cast(lg, done, e))
      BY DEF StoreOK, Core, VotesOK, done
    <3>3. {longer[id].sender : id \in Cast(lg, done, e)} = {lg[id].sender : id \in Cast(lg, done, e)}
      BY <1>1, <3>1
    <3>4. \A id \in Cast(lg, done, e) : longer[id] = lg[id]
      BY <1>1, <3>1
    <3> QED  BY <2>1, <3>2, <3>3, <3>4 DEF ElectionOK
  <2>3. \A id \in done : longer[id].kind = "cast_vote" =>
          longer[id].election \in DOMAIN st.elections /\ longer[id].at \in Nat
    BY <1>1, <1>2 DEF StoreOK, Core, VotesOK, done
  <2> QED  BY <2>2, <2>3 DEF VotesOK
<1>8. RollCallsOK(longer, st, done)
  <2>1. NamesOK(lg, done) /\ AliasesOK(st.rollCalls, st.byAlias)
    BY DEF StoreOK, Core, RollCallsOK, done
  <2>2. NamesOK(longer, done)
    BY <1>1, <1>2, <1>3, <2>1 DEF NamesOK
  <2>3. ASSUME NEW r \in DOMAIN st.rollCalls
        PROVE  RollCallOK(longer, r, st.rollCalls[r], done)
    <3> DEFINE rc == st.rollCalls[r]
    <3>1. RollCallOK(lg, r, rc, done)
      BY DEF StoreOK, Core, RollCallsOK, done
    <3>2. About(longer, done, r) = About(lg, done, r)
      BY <1>2, <1>3 DEF About
    <3>3. rc.alias # None => rc.alias \in DOMAIN lg /\ rc.alias \in done
      BY <1>2, <3>1 DEF RollCallOK, About
    <3>4. rc.alias # None => longer[rc.alias] = lg[rc.alias]
      BY <1>1, <3>3
    <3>5. rc.alias # None /\ rc.status = "reopened" => longer[lg[rc.alias].opens] = lg[lg[rc.alias].opens]
      <4> SUFFICES ASSUME rc.alias # None, rc.status = "reopened"
                   PROVE  longer[lg[rc.alias].opens] = lg[lg[rc.alias].opens]
        OBVIOUS
      <4>1. lg[rc.alias].kind \in RollCallKind \ {"roll_call_create"}
            /\ "reopened" = StatusAfter(lg[rc.alias].kind)
        BY <3>1 DEF RollCallOK
      <4>2. rc.alias \in DOMAIN lg /\ lg[rc.alias].kind = "roll_call_reopen"
        BY <3>3, <4>1 DEF StatusAfter, RollCallKind
      <4>3. lg[rc.alias].opens \in 1 .. rc.alias - 1 /\ rc.alias \in 1 .. Len(lg) /\ Len(lg) \in Nat
        BY <4>2 DEF Ordered, LogOK, MessageOK
      <4>4. lg[rc.alias].opens \in DOMAIN lg
        BY <4>3 DEF Ordered
      <4> QED  BY <1>1, <4>4
    <3> HIDE DEF rc
    <3> QED  BY <3>1, <3>2, <3>4, <3>5 DEF RollCallOK, rc
  <2> QED  BY <2>1, <2>2, <2>3 DEF RollCallsOK
<1>9. SocialOK(longer, st, done)
  <2>1. ASSUME NEW l \in DOMAIN st.social PROVE LaoSocialOK(longer, st.social[l])
    <3> DEFINE social == st.social[l]
    <3>1. LaoSocialOK(lg, social)
      BY DEF StoreOK, Core, SocialOK
    <3> HIDE DEF social
    <3>2. ChirpsOK(lg, social) /\ ReactionsOK(lg, social) /\ DOMAIN social = SocialFields
      BY <3>1 DEF LaoSocialOK
    <3>3. ToSet(social.order) \subseteq DOMAIN lg
      <4>1. social.order \in Seq(DOMAIN social.byId) /\ DOMAIN social.byId \subseteq DOMAIN lg
        BY <3>2 DEF ChirpsOK
      <4>2. \A i \in DOMAIN social.order : social.order[i] \in DOMAIN social.byId
        BY <4>1
      <4> QED  BY <4>1, <4>2 DEF ToSet
    <3>4. ChirpsOK(longer, social)
      <4>1. /\ \A c \in DOMAIN social.byId : c \in DOMAIN longer /\ social.byId[c].time \in Nat
            /\ \A c \in ToSet(social.order) : social.byId[c].sender = longer[c].sender
        BY <1>1, <3>2, <3>3 DEF ChirpsOK
      <4>2. \A user : {c \in ToSet(social.order) : longer[c].sender = user}
                        = {c \in ToSet(social.order) : lg[c].sender = user}
        BY <1>1, <3>3
      <4>3. \A c \in ToSet(social.order) : longer[c].sender \in DOMAIN social.byUser
        BY <1>1, <3>2, <3>3 DEF ChirpsOK
      <4> QED  BY <3>2, <4>1, <4>2, <4>3 DEF ChirpsOK
    <3>5. ReactionsOK(longer, social)
      <4>1. DOMAIN social.reactions \subseteq DOMAIN lg
        BY <3>2 DEF ReactionsOK
      <4>2. \A c \in DOMAIN social.reactionsOf : social.reactionsOf[c] \subseteq DOMAIN lg
        BY <3>2, <4>1 DEF ReactionsOK
      <4>3. \A r \in DOMAIN social.reactions : longer[r] = lg[r] /\ r \in DOMAIN longer
        BY <1>1, <4>1
      <4>4. \A c \in DOMAIN social.reactionsOf : \A r \in social.reactionsOf[c] : longer[r] = lg[r]
        BY <1>1, <4>2
      <4> QED  BY <3>2, <4>3, <4>4 DEF ReactionsOK
    <3> QED  BY <3>2, <3>4, <3>5 DEF LaoSocialOK, social
  <2>2. UNION {ToSet(st.social[l].order) : l \in DOMAIN st.social} = OfKind(lg, done, "chirp_add")
    BY DEF StoreOK, Core, SocialOK, done
  <2> QED  BY <1>5, <2>1, <2>2 DEF SocialOK
<1>10. LinksOK(longer, st) /\ TasksOK(st)
  <2>1. LinksOK(lg, st) /\ TasksOK(st)
    BY DEF StoreOK, Core
  <2>2. /\ \A l, c : Issued(lg, l, c) => Issued(longer, l, c)
        /\ \A c : Federated(lg, c) => Federated(longer, c)
        /\ \A l, org : Agreed(lg, l, org) => Agreed(longer, l, org)
    BY <1>1 DEF Issued, Federated, Agreed, Matches
  <2>3. \A l, org : FromCode(lg, l, org) => FromCode(longer, l, org)
    BY <2>2 DEF FromCode
  <2>4. ChallengesOK(longer, st.challenge) /\ ScannedOK(longer, st.scanned)
    BY <2>1, <2>2, <2>3 DEF LinksOK, ChallengesOK, ScannedOK
  <2>5. AnswersOK(longer, st.results) /\ LinkedOK(longer, st.linked)
    BY <2>1, <2>2 DEF LinksOK, AnswersOK, LinkedOK
  <2> QED  BY <2>1, <2>4, <2>5 DEF LinksOK
<1>11. CashesOK(longer, st)
  BY <1>1 DEF StoreOK, Core, CashesOK, CashOK, KnownOK
<1> QED  BY <1>4, <1>6, <1>7, <1>8, <1>9, <1>10, <1>11 DEF StoreOK, Core, done

\* The elements of a finite set, as a list.
LEMMA Listed ==
  ASSUME NEW S, IsFiniteSet(S)
  PROVE  SetToSeq(S) \in Seq(S)
<1> DEFINE n == Cardinality(S)
<1>1. n \in Nat /\ ExistsBijection(1 .. n, S)
  BY FS_CardinalityType
<1>2. \E f \in [1 .. n -> S] : IsInjective(f)
  BY <1>1 DEF ExistsBijection, Bijection, Injection
<1>3. SetToSeq(S) \in [1 .. n -> S]
  BY <1>2 DEF SetToSeq
<1> HIDE DEF n
<1> QED  BY <1>1, <1>3

\* A list without the result about a challenge.
Without(s, c) == RemoveFirstMatch(s, LAMBDA r : r.challenge = c)

\* It is a list of some of the others.
LEMMA MatchRemoved ==
  ASSUME NEW s, IsList(s), NEW c
  PROVE  IsList(Without(s, c)) /\ ToSet(Without(s, c)) \subseteq ToSet(s)
<1> DEFINE new == Without(s, c)
<1>0. s \in Seq(ToSet(s)) /\ Len(s) \in Nat
  BY DEF IsList
<1>1. CASE ~\E i \in 1 .. Len(s) : s[i].challenge = c
  BY <1>1 DEF Without, RemoveFirstMatch
<1>2. CASE \E i \in 1 .. Len(s) : s[i].challenge = c
  <2> DEFINE I == {i \in 1 .. Len(s) : s[i].challenge = c}
             k == Min(I)
  <2>1. new = RemoveAt(s, k)
    BY <1>2 DEF Without, RemoveFirstMatch, SelectInSeq
  <2>2. I \subseteq Nat /\ I # {} /\ I \subseteq 1 .. Len(s)
    BY <1>2
  <2> HIDE DEF I
  <2>3. k \in 1 .. Len(s)
    BY <2>2, LeastOf
  <2> HIDE DEF k, new
  <2>4. new \in Seq(ToSet(s))
    BY <1>0, <2>1, <2>3, RemovedAt
  <2>5. \A i \in DOMAIN new : new[i] \in ToSet(s)
    BY <2>4
  <2>6. ToSet(new) \subseteq ToSet(s)
    BY <2>5 DEF ToSet
  <2> QED  BY <2>4, <2>6, Lists DEF new
<1> QED  BY <1>1, <1>2

-----------------------------------------------------------------------------
(* The watchers                                                              *)

\* Greetings are tried again.
LEMMA Greeted ==
  ASSUME NEW st, Len(log) \in Nat, DeviceOK(log, st)
  PROVE  Moved(st, GreetWatcher(st))
<1> DEFINE n == Len(log)
           signers == UnhandledGreetSignatures(st)
           ready == {id \in DOMAIN signers : /\ LaoOf(log[id]) \in DOMAIN st.laos
                                             /\ st.laos[LaoOf(log[id])].organizer \in signers[id]}
           loop == [of |-> "greet", ready |-> ready]
           Body(g) == [k \in 0 .. n |-> IF k = 0 THEN st
                         ELSE IF k \in ready THEN StoreBackendAndConnectToPeers(g[k - 1], k, log[k])
                         ELSE g[k - 1]]
           after == CHOOSE g : g = Body(g)
<1>1. CASE CurrentLao(st) = None
  BY <1>1, NotMoved DEF GreetWatcher
<1>2. CASE CurrentLao(st) # None
  <2>1. GreetWatcher(st) = after[n]
    BY <1>2 DEF GreetWatcher, Repeat
  <2> HIDE DEF ready
  <2>2. \A s, k : LoopStep(loop, s, k) =
          IF k \in ready THEN StoreBackendAndConnectToPeers(s, k, log[k]) ELSE s
    BY DEF LoopStep, GreetStep
  <2> HIDE DEF loop
  <2>3. \A g : IsLoop(g, loop, st, n) <=> g = Body(g)
    BY <2>2 DEF IsLoop
  <2>4. IsLoop(after, loop, st, n)
    <3>1. \E g : g = Body(g)
      BY <2>3, LoopExists
    <3> HIDE DEF Body
    <3> QED  BY <2>3, <3>1
  <2> HIDE DEF after
  <2> DEFINE Q == {k \in 0 .. n : Only(st, after[k], {"servers", "greets"})}
  <2>5. after[0] = st /\ \A k \in 0 .. n - 1 : after[k + 1] = GreetStep(ready, after[k], k + 1)
    BY <2>2, <2>4, LoopFacts DEF GreetStep
  <2>6. 0 \in Q
    BY <2>5 DEF Only, DeviceOK, StoreOK, MsgsOK
  <2>7. ASSUME NEW k \in 0 .. n - 1, k \in Q PROVE k + 1 \in Q
    <3>1. Only(st, after[k], {"servers", "greets"}) /\ k + 1 \in 0 .. n
      BY <2>7
    <3>2. after[k + 1] = GreetStep(ready, after[k], k + 1)
      BY <2>5
    <3>3. Only(st, GreetStep(ready, after[k], k + 1), {"servers", "greets"})
      BY <3>1 DEF GreetStep, StoreBackendAndConnectToPeers, AddServer, HandleGreetLaoMessage, Handled,
        NotHandled, Only, Slices
    <3> QED  BY <3>1, <3>2, <3>3
  <2>8. n \in Q
    <3> HIDE DEF Q
    <3> QED  BY <2>6, <2>7, LoopKeeps
  <2>9. Only(st, GreetWatcher(st), {"servers", "greets"})
    BY <2>1, <2>8
  <2>10. SessionOK(GreetWatcher(st))
    BY <2>9, OnlySays DEF SessionOK, DeviceOK
  <2> QED  BY <2>9, <2>10, MovedBy DEF Harmless
<1> QED  BY <1>1, <1>2

\* A notification gets a number none had.
LEMMA NoticeAdded ==
  ASSUME NEW old, NEW id, NoticesOK(old)
  PROVE  LET new == [byId |-> Put(old.byId, old.next, [message |-> id, read |-> FALSE]),
                     unread |-> old.unread \cup {old.next}, read |-> old.read,
                     next |-> old.next + 1]
         IN  /\ NoticesOK(new)
             /\ DOMAIN new.byId = DOMAIN old.byId \cup {old.next} /\ old.next \notin DOMAIN old.byId
             /\ \A k \in DOMAIN old.byId : new.byId[k] = old.byId[k]
             /\ new.byId[old.next].message = id
<1> DEFINE byId == Put(old.byId, old.next, [message |-> id, read |-> FALSE])
<1>1. old.next \notin DOMAIN old.byId /\ old.next \in Nat
  BY DEF NoticesOK
<1>2. /\ DOMAIN byId = DOMAIN old.byId \cup {old.next}
      /\ \A k \in DOMAIN old.byId : byId[k] = old.byId[k]
      /\ DOMAIN byId[old.next] = {"message", "read"}
      /\ byId[old.next].message = id /\ byId[old.next].read = FALSE
  BY <1>1 DEF Put
<1> DEFINE new == [byId |-> byId, unread |-> old.unread \cup {old.next}, read |-> old.read,
                   next |-> old.next + 1]
<1> HIDE DEF byId
<1>3. DOMAIN byId \subseteq 0 .. (old.next + 1) - 1
  BY <1>1, <1>2 DEF NoticesOK
<1>4. /\ old.unread \cup {old.next} = {k \in DOMAIN byId : ~byId[k].read}
      /\ old.read = {k \in DOMAIN byId : byId[k].read}
  BY <1>1, <1>2 DEF NoticesOK
<1>5. \A k \in DOMAIN byId : DOMAIN byId[k] = {"message", "read"} /\ byId[k].read \in BOOLEAN
  BY <1>2 DEF NoticesOK
<1>6. NoticesOK(new)
  BY <1>1, <1>3, <1>4, <1>5 DEF NoticesOK
<1>7. new.byId = byId
  OBVIOUS
<1> HIDE DEF new
<1> QED  BY <1>1, <1>2, <1>6, <1>7 DEF new, byId

\* A LAO nobody was asked in has no notifications.
LEMMA NobodyAsked ==
  NoticesOK(NoNotifications) /\ DOMAIN NoNotifications.byId = {}
BY DEF NoticesOK, NoNotifications, NoFunction

\* A message that is asked for was not, and is asked for by one notification.
LEMMA AskedFor ==
  ASSUME NEW st, NEW id, AskedOK(st), DOMAIN st = Slices, id \notin st.toWitness, NEW l
  PROVE  LET t == AddNotification(AddMessageToWitness(st, id), l, id)
         IN  AskedOK(t) /\ Only(st, t, {"notifications", "toWitness"})
<1> DEFINE t == AddNotification(AddMessageToWitness(st, id), l, id)
           old == NotificationsOf(st, l)
           new == [byId |-> Put(old.byId, old.next, [message |-> id, read |-> FALSE]),
                   unread |-> old.unread \cup {old.next}, read |-> old.read, next |-> old.next + 1]
           said(j, k) == st.notifications[j].byId[k].message
           says(j, k) == t.notifications[j].byId[k].message
<1>1. /\ t.notifications = Put(st.notifications, l, new) /\ t.toWitness = st.toWitness \cup {id}
      /\ Only(st, t, {"notifications", "toWitness"})
  BY DEF AddNotification, AddMessageToWitness, NotificationsOf, Only, Slices
<1>2. NoticesOK(old)
  BY NobodyAsked DEF AskedOK, NotificationsOf
<1>3. /\ NoticesOK(new)
      /\ DOMAIN new.byId = DOMAIN old.byId \cup {old.next} /\ old.next \notin DOMAIN old.byId
      /\ \A k \in DOMAIN old.byId : new.byId[k] = old.byId[k]
      /\ new.byId[old.next].message = id
  BY <1>2, NoticeAdded
<1>4. /\ l \in DOMAIN st.notifications => old = st.notifications[l]
      /\ l \notin DOMAIN st.notifications => DOMAIN old.byId = {}
  BY NobodyAsked DEF NotificationsOf
<1> HIDE DEF t, new, old
<1>5. /\ DOMAIN t.notifications = DOMAIN st.notifications \cup {l} /\ t.notifications[l] = new
      /\ \A j \in DOMAIN st.notifications : j # l => t.notifications[j] = st.notifications[j]
  BY <1>1 DEF Put
<1>6. \A j \in DOMAIN t.notifications : NoticesOK(t.notifications[j])
  BY <1>3, <1>5 DEF AskedOK
<1>7. ASSUME NEW j \in DOMAIN t.notifications, NEW k \in DOMAIN t.notifications[j].byId
      PROVE  \/ j = l /\ k = old.next /\ says(j, k) = id
             \/ /\ j \in DOMAIN st.notifications /\ k \in DOMAIN st.notifications[j].byId
                /\ says(j, k) = said(j, k) /\ said(j, k) \in st.toWitness
  BY <1>3, <1>4, <1>5 DEF AskedOK
<1>8. ASSUME NEW j \in DOMAIN st.notifications, NEW k \in DOMAIN st.notifications[j].byId
      PROVE  /\ j \in DOMAIN t.notifications /\ k \in DOMAIN t.notifications[j].byId
             /\ says(j, k) = said(j, k)
  BY <1>3, <1>4, <1>5
<1>9. /\ l \in DOMAIN t.notifications /\ old.next \in DOMAIN t.notifications[l].byId
      /\ says(l, old.next) = id
  BY <1>3, <1>5
<1>10. \A x \in t.toWitness :
         \E j \in DOMAIN t.notifications : \E k \in DOMAIN t.notifications[j].byId : says(j, k) = x
  <2> SUFFICES ASSUME NEW x \in st.toWitness
               PROVE  \E j \in DOMAIN t.notifications :
                        \E k \in DOMAIN t.notifications[j].byId : says(j, k) = x
    BY <1>1, <1>9
  <2>1. PICK j \in DOMAIN st.notifications : \E k \in DOMAIN st.notifications[j].byId : said(j, k) = x
    BY DEF AskedOK
  <2> QED  BY <1>8, <2>1
<1>11. \A j, q \in DOMAIN t.notifications :
         \A k \in DOMAIN t.notifications[j].byId, i \in DOMAIN t.notifications[q].byId :
           says(j, k) = says(q, i) => j = q /\ k = i
  <2> SUFFICES ASSUME NEW j \in DOMAIN t.notifications, NEW q \in DOMAIN t.notifications,
                      NEW k \in DOMAIN t.notifications[j].byId,
                      NEW i \in DOMAIN t.notifications[q].byId, says(j, k) = says(q, i)
               PROVE  j = q /\ k = i
    OBVIOUS
  <2> QED  BY <1>7 DEF AskedOK
<1>12. \A j \in DOMAIN t.notifications : \A k \in DOMAIN t.notifications[j].byId :
         says(j, k) \in t.toWitness
  BY <1>1, <1>7
<1>13. AskedOK(t)
  BY <1>6, <1>10, <1>11, <1>12 DEF AskedOK
<1> QED  BY <1>1, <1>13 DEF t

\* Something is put off.
LEMMA TaskAdded ==
  ASSUME NEW r, NEW s, NEW task, Moved(r, s), task.type = "publish" => task.message.kind = "witness"
  PROVE  Moved(r, Later(s, task))
<1> DEFINE t == Later(s, task)
<1>1. t.tasks = s.tasks \cup {task} /\ Only(s, t, {"tasks"})
  BY DEF Moved, Later, Only, Slices
<1>2. TasksOK(t)
  BY <1>1, FS_AddElement DEF TasksOK, Moved
<1> HIDE DEF t
<1>3. /\ DOMAIN t = Slices
      /\ t.byId = s.byId /\ t.unprocessed = s.unprocessed /\ t.signatures = s.signatures
      /\ t.events = s.events /\ t.rollCalls = s.rollCalls /\ t.byAlias = s.byAlias
      /\ t.meetings = s.meetings /\ t.elections = s.elections /\ t.social = s.social /\ t.cash = s.cash
      /\ SameLinks(s, t) /\ t.notifications = s.notifications /\ t.toWitness = s.toWitness
      /\ t.current = s.current /\ t.laos = s.laos
  BY <1>1, OnlySays DEF SameLinks
<1>4. LinksOK(log, t) /\ AskedOK(t) /\ SessionOK(t)
  BY <1>3 DEF Moved, LinksOK, SameLinks, AskedOK, SessionOK
<1> QED  BY <1>2, <1>3, <1>4 DEF Moved, t

\* A message was processed: the user is asked, or a signature is published.
LEMMA MessageAsked ==
  ASSUME NEW r, NEW s, NEW id, Moved(r, s)
  PROVE  Moved(r, AfterMessageProcessing(s, id))
<1> DEFINE t == AfterMessageProcessing(s, id)
           asked == AddNotification(AddMessageToWitness(s, id), s.current, id)
           task == [type |-> "publish", message |-> WitnessMessage(s, id)]
<1>1. t = s \/ t = Later(s, task) \/ (t = asked /\ id \notin s.toWitness)
  BY DEF AfterMessageProcessing, IsMessageToWitness
<1>2. Moved(r, Later(s, task))
  <2>1. task.message.kind = "witness"
    BY DEF WitnessMessage
  <2> HIDE DEF task
  <2> QED  BY <2>1, TaskAdded
<1>3. ASSUME id \notin s.toWitness PROVE Moved(r, asked)
  <2>1. AskedOK(asked) /\ Only(s, asked, {"notifications", "toWitness"})
    BY <1>3, AskedFor DEF Moved
  <2> HIDE DEF asked
  <2>2. /\ DOMAIN asked = Slices
        /\ asked.byId = s.byId /\ asked.unprocessed = s.unprocessed /\ asked.signatures = s.signatures
        /\ asked.events = s.events /\ asked.rollCalls = s.rollCalls /\ asked.byAlias = s.byAlias
        /\ asked.meetings = s.meetings /\ asked.elections = s.elections /\ asked.social = s.social /\ asked.cash = s.cash
        /\ SameLinks(s, asked) /\ asked.tasks = s.tasks
        /\ asked.current = s.current /\ asked.laos = s.laos
    BY <2>1, OnlySays DEF SameLinks
  <2>3. LinksOK(log, asked) /\ TasksOK(asked) /\ SessionOK(asked)
    BY <2>2 DEF Moved, LinksOK, SameLinks, TasksOK, SessionOK
  <2> QED  BY <2>1, <2>2, <2>3 DEF Moved
<1> HIDE DEF asked, task
<1> QED  BY <1>1, <1>2, <1>3

\* The watcher of messages to witness.
LEMMA Watched ==
  ASSUME NEW st, Len(log) \in Nat, DeviceOK(log, st)
  PROVE  Moved(st, WitnessWatcher(st))
<1> DEFINE n == Len(log)
           waiting == ToSet(st.unprocessed)
           new == {id \in st.byId \ waiting : id \notin st.watched.all \/ id \in st.watched.waiting}
           again == IF st.current = st.watched.lao THEN {}
                    ELSE {id \in st.postponed : LaoOf(log[id]) = st.current}
           mine == {id \in new : LaoOf(log[id]) = st.current} \cup again
           watching == [st EXCEPT
             !.watched = [lao |-> st.current, all |-> st.byId, waiting |-> waiting],
             !.postponed = (@ \ again) \cup (new \ mine)]
           loop == [of |-> "ask", mine |-> mine]
           Body(g) == [k \in 0 .. n |-> IF k = 0 THEN watching
                         ELSE IF k \in mine THEN AfterMessageProcessing(g[k - 1], k)
                         ELSE g[k - 1]]
           after == CHOOSE g : g = Body(g)
<1>1. WitnessWatcher(st) = st \/ WitnessWatcher(st) = after[n]
  BY DEF WitnessWatcher, Repeat
<1>2. Moved(st, watching)
  <2>1. Only(st, watching, {"watched", "postponed"})
    BY DEF Only, Slices, DeviceOK, StoreOK, MsgsOK
  <2> HIDE DEF watching
  <2>2. SessionOK(watching)
    BY <2>1, OnlySays DEF SessionOK, DeviceOK
  <2> QED  BY <2>1, <2>2, MovedBy DEF Harmless
<1> HIDE DEF mine, watching
<1>3. \A s, k : LoopStep(loop, s, k) = IF k \in mine THEN AfterMessageProcessing(s, k) ELSE s
  BY DEF LoopStep, AskStep
<1> HIDE DEF loop
<1>4. \A g : IsLoop(g, loop, watching, n) <=> g = Body(g)
  BY <1>3 DEF IsLoop
<1>5. IsLoop(after, loop, watching, n)
  <2>1. \E g : g = Body(g)
    BY <1>4, LoopExists
  <2> HIDE DEF Body
  <2> QED  BY <1>4, <2>1
<1> HIDE DEF after
<1> DEFINE Q == {k \in 0 .. n : Moved(st, after[k])}
<1>6. after[0] = watching /\ \A k \in 0 .. n - 1 : after[k + 1] = LoopStep(loop, after[k], k + 1)
  BY <1>5, LoopFacts
<1>7. 0 \in Q
  BY <1>2, <1>6
<1>8. ASSUME NEW k \in 0 .. n - 1, k \in Q PROVE k + 1 \in Q
  <2>1. Moved(st, after[k]) /\ k + 1 \in 0 .. n
    BY <1>8
  <2>2. Moved(st, AfterMessageProcessing(after[k], k + 1))
    BY <2>1, MessageAsked
  <2> QED  BY <1>3, <1>6, <2>1, <2>2
<1>9. n \in Q
  <2> HIDE DEF Q
  <2> QED  BY <1>7, <1>8, LoopKeeps
<1> QED  BY <1>1, <1>9, NotMoved

\* Both watchers.
LEMMA WatchersMoved ==
  ASSUME NEW st, Len(log) \in Nat, DeviceOK(log, st)
  PROVE  Moved(st, Watchers(st))
<1>1. Moved(st, GreetWatcher(st))
  BY Greeted
<1>2. DeviceOK(log, GreetWatcher(st))
  BY <1>1, DeviceMoved
<1>3. Moved(GreetWatcher(st), WitnessWatcher(GreetWatcher(st)))
  BY <1>2, Watched
<1> QED  BY <1>1, <1>3, MovedOn DEF Watchers

-----------------------------------------------------------------------------
(* Messages arrive                                                           *)

\* Handling messages does not concern notifications or the session.
LEMMA DeviceIngested ==
  ASSUME NEW st, Ordered(log), DeviceOK(log, st)
  PROVE  DeviceOK(log, Ingest(st)) /\ SocialKept(st, Ingest(st))
<1> DEFINE t == Ingest(st)
<1>1. StoreOK(log, t) /\ Follows(st, t)
  BY Ingested DEF DeviceOK
<1> HIDE DEF t
<1>2. AskedOK(t) /\ SessionOK(t)
  BY <1>1 DEF Follows, DeviceOK, AskedOK, SessionOK
<1> QED  BY <1>1, <1>2 DEF DeviceOK, Follows, t

\* A message is stored before it is handled.
LEMMA MessageAdded ==
  ASSUME NEW st, NEW id \in DOMAIN log, DeviceOK(log, st), log[id].kind # "lao_create",
         NEW signatures
  PROVE  LET added == AddMessages(st, id, signatures)
         IN  DeviceOK(log, added) /\ SocialKept(st, added)
<1> DEFINE t == AddMessages(st, id, signatures)
<1>1. CASE id \in st.byId
  BY <1>1, NotMoved, DeviceMoved DEF AddMessages
<1>2. CASE id \notin st.byId
  <2>1. MsgsOK(log, st) /\ DOMAIN st = Slices
    BY DEF DeviceOK, StoreOK, MsgsOK
  <2>2. /\ Only(st, t, {"byId", "unprocessed", "signatures"})
        /\ t.byId = st.byId \cup {id} /\ t.unprocessed = Append(st.unprocessed, id)
        /\ t.signatures = Put(st.signatures, id, signatures)
    BY <1>2, <2>1 DEF AddMessages, Only, Slices
  <2> HIDE DEF t
  <2>3. /\ DOMAIN t = Slices
        /\ t.events = st.events /\ t.rollCalls = st.rollCalls /\ t.byAlias = st.byAlias
        /\ t.meetings = st.meetings /\ t.elections = st.elections /\ t.social = st.social /\ t.cash = st.cash
        /\ SameLinks(st, t) /\ t.tasks = st.tasks
        /\ t.notifications = st.notifications /\ t.toWitness = st.toWitness
        /\ t.current = st.current /\ t.laos = st.laos
    BY <2>2, OnlySays DEF SameLinks
  <2>4. /\ t.unprocessed \in Seq(t.byId)
        /\ \A i, j \in DOMAIN t.unprocessed : i # j => t.unprocessed[i] # t.unprocessed[j]
        /\ ToSet(t.unprocessed) = ToSet(st.unprocessed) \cup {id}
    <3> DEFINE old == st.unprocessed
               n == Len(old)
    <3>1. old \in Seq(st.byId)
      BY <2>1 DEF MsgsOK
    <3>2. old \in Seq(t.byId) /\ id \in t.byId
      BY <2>2, <3>1, SeqMonotonic
    <3>3. /\ t.unprocessed \in Seq(t.byId) /\ Len(t.unprocessed) = n + 1
          /\ \A i \in 1 .. n : t.unprocessed[i] = old[i]
          /\ t.unprocessed[n + 1] = id
      BY <2>2, <3>2, AppendProperties
    <3>4. n \in Nat /\ DOMAIN old = 1 .. n /\ DOMAIN t.unprocessed = 1 .. n + 1
      BY <3>2, <3>3
    <3>5. \A i \in 1 .. n : old[i] \in st.byId
      BY <3>1
    <3>6. \A i, j \in 1 .. n : i # j => old[i] # old[j]
      BY <2>1, <3>4 DEF MsgsOK
    <3> HIDE DEF old, n
    <3>7. \A i, j \in 1 .. n + 1 : i # j => t.unprocessed[i] # t.unprocessed[j]
      BY <1>2, <3>3, <3>4, <3>5, <3>6
    <3>8. ToSet(t.unprocessed) = ToSet(old) \cup {id}
      <4>1. ToSet(t.unprocessed) = {t.unprocessed[i] : i \in 1 .. n + 1}
        BY <3>4 DEF ToSet
      <4>2. ToSet(old) = {old[i] : i \in 1 .. n}
        BY <3>4 DEF ToSet
      <4>3. 1 .. n + 1 = (1 .. n) \cup {n + 1}
        BY <3>4
      <4> QED  BY <3>3, <4>1, <4>2, <4>3
    <3> QED  BY <3>3, <3>4, <3>7, <3>8 DEF old
  <2>5. MsgsOK(log, t)
    <3>1. DOMAIN t.signatures = t.byId
      BY <2>1, <2>2 DEF Put, MsgsOK
    <3>2. t.byId \subseteq DOMAIN log /\ \A x \in t.byId : log[x].kind # "lao_create"
      BY <2>1, <2>2 DEF MsgsOK
    <3> QED  BY <2>3, <2>4, <3>1, <3>2 DEF MsgsOK
  <2>6. Processed(t) = Processed(st)
    BY <1>2, <2>2, <2>4 DEF Processed
  <2>7. EventsOK(log, t, Processed(t)) /\ VotesOK(log, t, Processed(t))
    BY <2>3, <2>6 DEF DeviceOK, StoreOK, Core, EventsOK, VotesOK
  <2>8. RollCallsOK(log, t, Processed(t)) /\ SocialOK(log, t, Processed(t)) /\ CashesOK(log, t)
    BY <2>3, <2>6 DEF DeviceOK, StoreOK, Core, RollCallsOK, SocialOK, CashesOK
  <2>9. LinksOK(log, t) /\ TasksOK(t) /\ AskedOK(t) /\ SessionOK(t)
    BY <2>3 DEF DeviceOK, StoreOK, Core, LinksOK, SameLinks, TasksOK, AskedOK, SessionOK
  <2>10. SocialKept(st, t)
    BY <2>3 DEF SocialKept, StayDeleted
  <2> QED  BY <2>5, <2>7, <2>8, <2>9, <2>10 DEF DeviceOK, StoreOK, Core, t
<1> QED  BY <1>1, <1>2

\* A LAO is opened only when it is known.
LEMMA CurrentSet ==
  ASSUME NEW st, DeviceOK(log, st), NEW l, NEW lao, NEW connected
  PROVE  Moved(st, SetCurrentLao(st, l, lao, connected))
<1> DEFINE t == SetCurrentLao(st, l, lao, connected)
<1>1. DOMAIN st = Slices /\ st.current \in DOMAIN st.laos \cup {None}
  BY DEF DeviceOK, StoreOK, MsgsOK, SessionOK
<1>2. Only(st, t, {"laos", "current", "connected"})
  BY <1>1 DEF SetCurrentLao, AddLao, Only, Slices
<1>3. t.current \in DOMAIN t.laos \cup {None}
  BY <1>1 DEF SetCurrentLao, AddLao, Put, Slices
<1> HIDE DEF t
<1> QED  BY <1>2, <1>3, MovedBy DEF Harmless, SessionOK, t

\* A message arrives: it is dropped, opens a LAO, or is stored and handled.
LEMMA Received ==
  ASSUME NEW st, NEW id \in DOMAIN log, Ordered(log), DeviceOK(log, st),
         NEW signatures, NEW address
  PROVE  LET t == Receive(st, id, signatures, address)
         IN  DeviceOK(log, t) /\ SocialKept(st, t)
<1> DEFINE m == log[id]
           added == AddMessages(st, id, signatures)
           t == Receive(st, id, signatures, address)
<1>1. CASE t = st
  BY <1>1, NotMoved, DeviceMoved
<1>2. CASE m.kind = "lao_create" /\ t = HandleLaoCreate(st, m, id, address)
  BY <1>2, CurrentSet, DeviceMoved DEF HandleLaoCreate
<1>3. CASE m.kind # "lao_create" /\ t = Ingest(added)
  <2>1. DeviceOK(log, added) /\ SocialKept(st, added)
    BY <1>3, MessageAdded
  <2> HIDE DEF added
  <2>2. DeviceOK(log, Ingest(added)) /\ SocialKept(added, Ingest(added))
    BY <2>1, DeviceIngested
  <2> QED  BY <1>3, <2>1, <2>2, KeptStaysKept
<1>4. \/ t = st
      \/ m.kind = "lao_create" /\ t = HandleLaoCreate(st, m, id, address)
      \/ m.kind # "lao_create" /\ t = Ingest(added)
  BY DEF Receive
<1> HIDE DEF t, added
<1> QED  BY <1>1, <1>2, <1>3, <1>4 DEF t

-----------------------------------------------------------------------------
(* Asynchronous functions go on                                              *)

\* One more step that changes only harmless slices.
LEMMA MovedFurther ==
  ASSUME NEW r, NEW s, NEW t, NEW changed, Moved(r, s), Only(s, t, changed), changed \subseteq Harmless,
         SessionOK(t)
  PROVE  Moved(r, t)
<1>1. /\ DOMAIN t = Slices
      /\ t.byId = s.byId /\ t.unprocessed = s.unprocessed /\ t.signatures = s.signatures
      /\ t.events = s.events /\ t.rollCalls = s.rollCalls /\ t.byAlias = s.byAlias
      /\ t.meetings = s.meetings /\ t.elections = s.elections /\ t.social = s.social /\ t.cash = s.cash
      /\ SameLinks(s, t) /\ t.tasks = s.tasks
      /\ t.notifications = s.notifications /\ t.toWitness = s.toWitness
  BY OnlySays DEF Harmless, SameLinks
<1> QED  BY <1>1 DEF Moved, LinksOK, SameLinks, TasksOK, AskedOK

\* What was put off is begun.
LEMMA TaskDropped ==
  ASSUME NEW r, NEW s, NEW task, Moved(r, s)
  PROVE  Moved(r, [s EXCEPT !.tasks = @ \ {task}])
<1> DEFINE t == [s EXCEPT !.tasks = @ \ {task}]
<1>1. t.tasks = s.tasks \ {task} /\ Only(s, t, {"tasks"})
  BY DEF Moved, Only, Slices
<1>2. TasksOK(t)
  BY <1>1, FS_RemoveElement DEF TasksOK, Moved
<1> HIDE DEF t
<1>3. /\ DOMAIN t = Slices
      /\ t.byId = s.byId /\ t.unprocessed = s.unprocessed /\ t.signatures = s.signatures
      /\ t.events = s.events /\ t.rollCalls = s.rollCalls /\ t.byAlias = s.byAlias
      /\ t.meetings = s.meetings /\ t.elections = s.elections /\ t.social = s.social /\ t.cash = s.cash
      /\ SameLinks(s, t) /\ t.notifications = s.notifications /\ t.toWitness = s.toWitness
      /\ t.current = s.current /\ t.laos = s.laos
  BY <1>1, OnlySays DEF SameLinks
<1>4. LinksOK(log, t) /\ AskedOK(t) /\ SessionOK(t)
  BY <1>3 DEF Moved, LinksOK, SameLinks, AskedOK, SessionOK
<1> QED  BY <1>2, <1>3, <1>4 DEF Moved, t

\* A channel is noted and subscribed to.
LEMMA Subscribed ==
  ASSUME NEW r, NEW s, Moved(r, s), NEW l, NEW channels
  PROVE  /\ Moved(r, SubscribeToChannels(s, l, channels))
         /\ DOMAIN SubscribeToChannels(s, l, channels).laos = DOMAIN s.laos
<1> DEFINE t == SubscribeToChannels(s, l, channels)
<1>1. Only(s, t, {"laos", "subscribed"}) /\ DOMAIN t.laos = DOMAIN s.laos
  BY SubscribeFrame DEF Moved
<1> HIDE DEF t
<1>2. SessionOK(t)
  BY <1>1, OnlySays DEF SessionOK, Moved
<1> QED  BY <1>1, <1>2, MovedFurther DEF Harmless, t

\* The tasks, one after the other.
LEMMA TokenCame ==
  ASSUME NEW r, NEW s, Moved(r, s), NEW task
  PROVE  Moved(r, AfterToken(s, task))
<1> DEFINE l == task.lao
           channels == {UserSocialChannel(l, a) : a \in task.attendees}
                         \cup {ReactionChannel(l), CoinChannel(l)}
           u == [s EXCEPT !.tasks = @ \ {task}]
           t == SetLaoLastRollCall(u, l, task.rollCall, task.hasToken)
<1>1. Moved(r, u)
  BY TaskDropped
<1> HIDE DEF u
<1>2. Only(u, t, {"laos"}) /\ DOMAIN t.laos = DOMAIN u.laos /\ t.current = u.current
  BY <1>1 DEF SetLaoLastRollCall, Only, Moved, Slices
<1> HIDE DEF t
<1>3. SessionOK(t)
  BY <1>1, <1>2 DEF SessionOK, Moved
<1>4. Moved(r, t)
  BY <1>1, <1>2, <1>3, MovedFurther DEF Harmless
<1> HIDE DEF channels, l
<1>5. AfterToken(s, task) = SubscribeToChannels(t, l, channels)
  BY DEF AfterToken, t, u, l, channels
<1> QED  BY <1>4, <1>5, Subscribed

LEMMA CaughtUp ==
  ASSUME NEW r, NEW s, Moved(r, s), NEW task
  PROVE  Moved(r, AfterConnect(s, task))
<1> DEFINE u == [s EXCEPT !.tasks = @ \ {task}]
<1>1. Moved(r, u)
  BY TaskDropped
<1> HIDE DEF u
<1>2. AfterConnect(s, task)
        = SubscribeToChannels(u, task.lao, {FederationChannel(task.lao)})
  BY DEF AfterConnect, SubscribeToChannel, u
<1> QED  BY <1>1, <1>2, Subscribed

LEMMA LinkedFetched ==
  ASSUME NEW r, NEW s, Moved(r, s), NEW task
  PROVE  Moved(r, FetchLinkedLao(s, task))
<1> DEFINE u == [s EXCEPT !.tasks = @ \ {task}]
           t == SubscribeToChannels(u, task.lao, {LaoChannel(task.lao)})
           next == [type |-> "broadcast", lao |-> task.lao]
<1>1. Moved(r, u)
  BY TaskDropped
<1> HIDE DEF u
<1>2. Moved(r, t)
  BY <1>1, Subscribed
<1> HIDE DEF t
<1>3. next.type # "publish"
  OBVIOUS
<1> HIDE DEF next
<1>4. FetchLinkedLao(s, task) = Later(t, next)
  BY DEF FetchLinkedLao, SubscribeToChannel, u, t, next
<1> QED  BY <1>2, <1>3, <1>4, TaskAdded

\* All that were put off, as a scenario has them done.
LEMMA TasksDone ==
  ASSUME NEW st, DeviceOK(log, st)
  PROVE  Moved(st, Tasks(st))
<1> DEFINE list == SetToSeq(st.tasks)
           n == Len(list)
           loop == [of |-> "tasks", list |-> list]
           Body(g) == [k \in 0 .. n |-> IF k = 0 THEN st ELSE GoOn(g[k - 1], list[k])]
           after == CHOOSE g : g = Body(g)
<1>0. n \in Nat
  <2>1. list \in Seq(st.tasks)
    BY Listed DEF DeviceOK, StoreOK, Core, TasksOK
  <2> QED  BY <2>1
<1>1. Tasks(st) = after[n]
  BY DEF Tasks, Repeat
<1> HIDE DEF list
<1>2. \A s, k : LoopStep(loop, s, k) = GoOn(s, list[k])
  BY DEF LoopStep
<1> HIDE DEF loop, n
<1>3. \A g : IsLoop(g, loop, st, n) <=> g = Body(g)
  BY <1>2 DEF IsLoop
<1>4. IsLoop(after, loop, st, n)
  <2>1. \E g : g = Body(g)
    BY <1>0, <1>3, LoopExists
  <2> HIDE DEF Body
  <2> QED  BY <1>3, <2>1
<1> HIDE DEF after
<1> DEFINE Q == {k \in 0 .. n : Moved(st, after[k])}
<1>5. after[0] = st /\ \A k \in 0 .. n - 1 : after[k + 1] = GoOn(after[k], list[k + 1])
  BY <1>0, <1>2, <1>4, LoopFacts
<1>6. 0 \in Q
  BY <1>0, <1>5, NotMoved
<1>7. ASSUME NEW k \in 0 .. n - 1, k \in Q PROVE k + 1 \in Q
  <2>1. Moved(st, after[k]) /\ k + 1 \in 0 .. n
    BY <1>0, <1>7
  <2>2. Moved(st, GoOn(after[k], list[k + 1]))
    BY <2>1, TokenCame, CaughtUp DEF GoOn
  <2> QED  BY <1>5, <2>1, <2>2
<1>8. n \in Q
  <2> HIDE DEF Q
  <2> QED  BY <1>0, <1>6, <1>7, LoopKeeps
<1> QED  BY <1>1, <1>8

-----------------------------------------------------------------------------
(* Organizations are linked                                                  *)

\* What only this feature changes, and keeps right.
LEMMA LinksChanged ==
  ASSUME NEW r, NEW s, NEW t, NEW changed, Moved(r, s), Only(s, t, changed),
         changed \subseteq {"challenge", "results", "scanned", "linked", "linkedLaos"},
         LinksOK(log, t)
  PROVE  Moved(r, t)
<1>1. /\ DOMAIN t = Slices
      /\ t.byId = s.byId /\ t.unprocessed = s.unprocessed /\ t.signatures = s.signatures
      /\ t.events = s.events /\ t.rollCalls = s.rollCalls /\ t.byAlias = s.byAlias
      /\ t.meetings = s.meetings /\ t.elections = s.elections /\ t.social = s.social /\ t.cash = s.cash
      /\ t.tasks = s.tasks /\ t.notifications = s.notifications /\ t.toWitness = s.toWitness
      /\ t.current = s.current /\ t.laos = s.laos
  BY OnlySays
<1>2. TasksOK(t) /\ AskedOK(t) /\ SessionOK(t)
  BY <1>1 DEF Moved, TasksOK, AskedOK, SessionOK
<1> QED  BY <1>1, <1>2 DEF Moved

\* The lists of a LAO, which may be empty.
LEMMA ListsOf ==
  ASSUME NEW st, NEW l, LinksOK(log, st)
  PROVE  /\ IsList(ResultsOf(st, l)) /\ IsList(ScannedOf(st, l))
         /\ \A result \in ToSet(ResultsOf(st, l)) :
              result.key # None => Federated(log, result.challenge)
         /\ \A org \in ToSet(ScannedOf(st, l)) : FromCode(log, l, org)
<1>1. IsList(<<>>) /\ ToSet(<<>>) = {}
  BY Lists DEF ToSet
<1>2. AnswersOK(log, st.results) /\ ScannedOK(log, st.scanned)
  BY DEF LinksOK
<1>3. /\ IsList(ResultsOf(st, l))
      /\ \A result \in ToSet(ResultsOf(st, l)) : result.key # None => Federated(log, result.challenge)
  BY <1>1, <1>2 DEF ResultsOf, AtKey, AnswersOK
<1>4. IsList(ScannedOf(st, l)) /\ \A org \in ToSet(ScannedOf(st, l)) : FromCode(log, l, org)
  BY <1>1, <1>2 DEF ScannedOf, AtKey, ScannedOK
<1> QED  BY <1>3, <1>4

\* The heart of it: a challenge belongs to one LAO, since it is made for one
\* request. So the LAO that expected the federation is the one whose challenge
\* was kept with the code, whoever showed it.
LEMMA LinkAgreed ==
  ASSUME NEW lg, Ordered(lg), NEW l, NEW org, FromCode(lg, l, org), Federated(lg, org.challenge)
  PROVE  Agreed(lg, l, org)
<1> DEFINE c == org.challenge
<1>1. PICK init \in DOMAIN lg, expect \in DOMAIN lg :
        Matches(lg, init, expect) /\ lg[init].challenge = c
  BY DEF Federated
<1>2. \A id \in DOMAIN lg : MessageOK(lg, id)
  BY DEF Ordered, LogOK
<1>3. /\ lg[init].kind = "federation_init" /\ lg[expect].kind = "federation_expect"
      /\ lg[expect].challenge = c
  BY <1>1 DEF Matches
<1>4. c # None
  BY <1>1, <1>2, <1>3 DEF MessageOK
<1>5. PICK x \in DOMAIN lg : /\ lg[x].kind = "challenge" /\ LaoOf(lg[x]) \in {l, org.lao}
                             /\ lg[x].challenge = c
  BY <1>4 DEF FromCode, Issued
<1>6. expect \in 1 .. Len(lg) /\ Len(lg) \in Nat /\ DOMAIN lg = 1 .. Len(lg)
  BY DEF Ordered
<1>7. PICK y \in 1 .. expect - 1 : /\ lg[y].kind = "challenge" /\ lg[y].chan = lg[expect].chan
                                   /\ lg[y].challenge = lg[expect].challenge
  BY <1>2, <1>3 DEF MessageOK
<1>8. y \in DOMAIN lg
  BY <1>6
<1>9. ASSUME NEW z \in DOMAIN lg, lg[z].kind = "challenge"
      PROVE  \E q : lg[q].chan = lg[z].chan /\ lg[z].challenge = <<"challenge", q>>
  BY <1>2, <1>9 DEF MessageOK
<1>10. PICK q : lg[q].chan = lg[x].chan /\ lg[x].challenge = <<"challenge", q>>
  BY <1>5, <1>9
<1>11. PICK p : lg[p].chan = lg[y].chan /\ lg[y].challenge = <<"challenge", p>>
  BY <1>7, <1>8, <1>9
<1>12. <<"challenge", p>> = <<"challenge", q>>
  BY <1>3, <1>5, <1>7, <1>10, <1>11
<1>13. p = q
  BY <1>12
<1>14. lg[x].chan = lg[expect].chan
  BY <1>7, <1>10, <1>11, <1>13
<1>15. LaoOf(lg[expect]) \in {l, org.lao}
  BY <1>5, <1>14 DEF LaoOf
<1> QED  BY <1>1, <1>15 DEF Agreed

\* A loop drops the codes of a LAO.
OthersOf(old, lao) ==
  Repeat(Len(old), <<>>, LAMBDA list, i : IF old[i].lao = lao THEN list ELSE Append(list, old[i]))

LEMMA OthersKept ==
  ASSUME NEW old, IsList(old), NEW lao
  PROVE  IsList(OthersOf(old, lao)) /\ ToSet(OthersOf(old, lao)) \subseteq ToSet(old)
<1> DEFINE n == Len(old)
           loop == [of |-> "scanned", old |-> old, lao |-> lao]
           Body(g) == [k \in 0 .. n |-> IF k = 0 THEN <<>>
                         ELSE IF old[k].lao = lao THEN g[k - 1] ELSE Append(g[k - 1], old[k])]
           after == CHOOSE g : g = Body(g)
           kept == OthersOf(old, lao)
<1>0. n \in Nat /\ \A k \in 1 .. n : old[k] \in ToSet(old)
  BY DEF IsList
<1>1. kept = after[n]
  BY DEF OthersOf, Repeat
<1> HIDE DEF kept, n
<1>2. \A s, k : LoopStep(loop, s, k) = IF old[k].lao = lao THEN s ELSE Append(s, old[k])
  BY DEF LoopStep
<1> HIDE DEF loop
<1>3. ASSUME NEW g PROVE IsLoop(g, loop, <<>>, n) <=> g = Body(g)
  <2>1. [k \in 0 .. n |-> IF k = 0 THEN <<>> ELSE LoopStep(loop, g[k - 1], k)] = Body(g)
    BY <1>2
  <2> QED  BY <2>1 DEF IsLoop
<1>4. IsLoop(after, loop, <<>>, n)
  <2>1. \E g : g = Body(g)
    BY <1>0, <1>3, LoopExists
  <2> HIDE DEF Body
  <2> QED  BY <1>3, <2>1
<1> HIDE DEF after
<1> DEFINE Q == {k \in 0 .. n : IsList(after[k]) /\ ToSet(after[k]) \subseteq ToSet(old)}
<1>5. /\ after[0] = <<>>
      /\ \A k \in 0 .. n - 1 : after[k + 1] = IF old[k + 1].lao = lao THEN after[k]
                                              ELSE Append(after[k], old[k + 1])
  <2>1. after[0] = <<>> /\ \A k \in 0 .. n - 1 : after[k + 1] = LoopStep(loop, after[k], k + 1)
    BY <1>0, <1>4, LoopFacts
  <2> HIDE DEF Q
  <2> QED  BY <1>2, <2>1
<1>6. 0 \in Q
  <2>1. IsList(<<>>) /\ ToSet(<<>>) = {}
    BY Lists DEF ToSet
  <2> QED  BY <1>0, <1>5, <2>1
<1>7. ASSUME NEW k \in 0 .. n - 1, k \in Q PROVE k + 1 \in Q
  <2>1. /\ IsList(after[k]) /\ ToSet(after[k]) \subseteq ToSet(old)
        /\ k + 1 \in 0 .. n /\ old[k + 1] \in ToSet(old)
    BY <1>0, <1>7
  <2>2. /\ IsList(Append(after[k], old[k + 1]))
        /\ ToSet(Append(after[k], old[k + 1])) = ToSet(after[k]) \cup {old[k + 1]}
    BY <2>1, ListAppended
  <2> QED  BY <1>5, <2>1, <2>2
<1>8. n \in Q
  <2> HIDE DEF Q
  <2> QED  BY <1>0, <1>6, <1>7, LoopKeeps
<1> QED  BY <1>1, <1>8 DEF kept

\* A result that was looked at is removed.
LEMMA ResultTaken ==
  ASSUME NEW r, NEW s, Moved(r, s), NEW l, NEW c
  PROVE  Moved(r, RemoveReceivedChallenge(s, l, c))
<1> DEFINE t == RemoveReceivedChallenge(s, l, c)
           old == ResultsOf(s, l)
           new == Without(old, c)
<1>1. LinksOK(log, s)
  BY DEF Moved
<1>2. IsList(old) /\ \A result \in ToSet(old) : result.key # None => Federated(log, result.challenge)
  BY <1>1, ListsOf
<1>3. IsList(new) /\ ToSet(new) \subseteq ToSet(old)
  <2> HIDE DEF old
  <2> QED  BY <1>2, MatchRemoved
<1>4. t.results = Put(s.results, l, new) /\ Only(s, t, {"results"})
  BY DEF RemoveReceivedChallenge, Without, Only, Moved, Slices
<1> HIDE DEF t, new, old
<1>5. AnswersOK(log, t.results)
  BY <1>1, <1>2, <1>3, <1>4 DEF LinksOK, AnswersOK, Put
<1>6. t.challenge = s.challenge /\ t.scanned = s.scanned /\ t.linked = s.linked
  BY <1>4, OnlySays
<1>7. LinksOK(log, t)
  BY <1>1, <1>5, <1>6 DEF LinksOK
<1> QED  BY <1>4, <1>7, LinksChanged DEF t

\* So are the codes of the LAO that was linked.
LEMMA ScannedRemoved ==
  ASSUME NEW r, NEW s, Moved(r, s), NEW l, NEW lao
  PROVE  Moved(r, RemoveScannedLinkedOrganization(s, l, lao))
<1> DEFINE t == RemoveScannedLinkedOrganization(s, l, lao)
           old == ScannedOf(s, l)
           new == OthersOf(old, lao)
<1>1. LinksOK(log, s)
  BY DEF Moved
<1>2. IsList(old) /\ \A org \in ToSet(old) : FromCode(log, l, org)
  BY <1>1, ListsOf
<1>3. IsList(new) /\ ToSet(new) \subseteq ToSet(old)
  <2> HIDE DEF old
  <2> QED  BY <1>2, OthersKept
<1>4. t.scanned = Put(s.scanned, l, new) /\ Only(s, t, {"scanned"})
  <2>1. t = [s EXCEPT !.scanned = Put(@, l, new)]
    BY DEF RemoveScannedLinkedOrganization, OthersOf
  <2> HIDE DEF t, new, old
  <2> QED  BY <2>1 DEF Only, Moved, Slices
<1> HIDE DEF t, new, old
<1>5. ScannedOK(log, t.scanned)
  BY <1>1, <1>2, <1>3, <1>4 DEF LinksOK, ScannedOK, Put
<1>6. t.challenge = s.challenge /\ t.results = s.results /\ t.linked = s.linked
  BY <1>4, OnlySays
<1>7. LinksOK(log, t)
  BY <1>1, <1>5, <1>6 DEF LinksOK
<1> QED  BY <1>4, <1>7, LinksChanged DEF t

\* It is linked.
LEMMA OrganizationAdded ==
  ASSUME NEW r, NEW s, Moved(r, s), NEW l, NEW org, Agreed(log, l, org)
  PROVE  Moved(r, AddLinkedOrganization(s, l, org).st)
<1> DEFINE t == AddLinkedOrganization(s, l, org).st
<1>1. LinksOK(log, s) /\ DOMAIN s = Slices
  BY DEF Moved
<1>2. CASE org.lao \in LinkedLaosOf(s, l)
  BY <1>2 DEF AddLinkedOrganization, NotHandled
<1>3. CASE org.lao \notin LinkedLaosOf(s, l)
  <2>1. /\ t.linked = Put(s.linked, l, LinkedOf(s, l) \cup {org})
        /\ Only(s, t, {"linked", "linkedLaos"})
    BY <1>1, <1>3 DEF AddLinkedOrganization, Handled, Only, Slices
  <2> HIDE DEF t
  <2>2. \A o \in LinkedOf(s, l) : Agreed(log, l, o)
    BY <1>1 DEF LinksOK, LinkedOK, LinkedOf, AtKey
  <2>3. LinkedOK(log, t.linked)
    BY <1>1, <2>1, <2>2 DEF LinksOK, LinkedOK, Put
  <2>4. t.challenge = s.challenge /\ t.results = s.results /\ t.scanned = s.scanned
    BY <2>1, OnlySays
  <2>5. LinksOK(log, t)
    BY <1>1, <2>3, <2>4 DEF LinksOK
  <2> QED  BY <2>1, <2>5, LinksChanged DEF t
<1> QED  BY <1>2, <1>3

\* One result is looked for among the organizations that were scanned.
LEMMA ResultMatched ==
  ASSUME NEW r, NEW acc, Moved(r, acc.st), NEW captured, NEW l, NEW result, Ordered(log),
         IsList(captured), \A org \in ToSet(captured) : FromCode(log, l, org),
         result.key # None => Federated(log, result.challenge)
  PROVE  Moved(r, MatchResult(captured, l, acc, result).st)
<1> DEFINE matches == {i \in DOMAIN captured : captured[i].challenge = result.challenge}
           first == CHOOSE i \in matches : \A j \in matches : i <= j
           org == captured[first]
           added == AddLinkedOrganization(acc.st, l, org)
           cleaned == RemoveScannedLinkedOrganization(added.st, l, org.lao)
           taken == RemoveReceivedChallenge(cleaned, l, result.challenge)
           task == [type |-> "fetch", lao |-> org.lao]
           t == MatchResult(captured, l, acc, result).st
<1>1. t = acc.st \/ (matches # {} /\ result.key # None /\ (t = added.st \/ t = Later(taken, task)))
  BY DEF MatchResult, Handled, NotHandled
<1>2. SUFFICES ASSUME matches # {}, result.key # None
               PROVE  Moved(r, added.st) /\ Moved(r, Later(taken, task))
  <2> HIDE DEF matches, added, taken, task, t
  <2> QED  BY <1>1, <1>2 DEF t
<1>3. first \in matches
  <2>1. matches \subseteq Nat
    BY DEF IsList
  <2>2. first = Min(matches)
    BY DEF Min
  <2> HIDE DEF matches, first
  <2> QED  BY <1>2, <2>1, <2>2, LeastOf
<1> HIDE DEF first
<1>4. first \in DOMAIN captured /\ org.challenge = result.challenge
  BY <1>3
<1>5. org \in ToSet(captured)
  BY <1>4 DEF ToSet
<1> HIDE DEF org, matches
<1>6. Agreed(log, l, org)
  BY <1>2, <1>4, <1>5, LinkAgreed
<1>7. Moved(r, added.st)
  BY <1>6, OrganizationAdded
<1> HIDE DEF added
<1>8. Moved(r, cleaned)
  BY <1>7, ScannedRemoved
<1> HIDE DEF cleaned
<1>9. Moved(r, taken)
  BY <1>8, ResultTaken
<1> HIDE DEF taken
<1>10. task.type # "publish"
  OBVIOUS
<1> HIDE DEF task
<1>11. Moved(r, Later(taken, task))
  BY <1>9, <1>10, TaskAdded
<1> QED  BY <1>7, <1>11

\* All results, until one throws.
LEMMA Linked ==
  ASSUME NEW st, Ordered(log), DeviceOK(log, st)
  PROVE  Moved(st, LinkOrganizations(st))
<1> DEFINE l == st.current
           captured == ScannedOf(st, l)
           results == ResultsOf(st, l)
           n == Len(results)
           first == Handled(st)
           loop == [of |-> "link", captured |-> captured, lao |-> l, results |-> results]
           Body(g) == [k \in 0 .. n |-> IF k = 0 THEN first
                                        ELSE MatchResult(captured, l, g[k - 1], results[k])]
           after == CHOOSE g : g = Body(g)
<1>0. /\ IsList(captured) /\ \A org \in ToSet(captured) : FromCode(log, l, org)
      /\ n \in Nat /\ \A k \in 1 .. n : results[k].key # None => Federated(log, results[k].challenge)
  <2>1. /\ IsList(results) /\ IsList(captured)
        /\ \A result \in ToSet(results) : result.key # None => Federated(log, result.challenge)
        /\ \A org \in ToSet(captured) : FromCode(log, l, org)
    <3>1. LinksOK(log, st)
      BY DEF DeviceOK, StoreOK, Core
    <3> QED  BY <3>1, ListsOf
  <2> HIDE DEF results, captured
  <2>2. n \in Nat /\ \A k \in 1 .. n : results[k] \in ToSet(results)
    BY <2>1 DEF IsList
  <2> QED  BY <2>1, <2>2
<1>1. LinkOrganizations(st) = st \/ LinkOrganizations(st) = after[n].st
  BY DEF LinkOrganizations, Repeat
<1>2. first.st = st
  BY DEF Handled
<1> HIDE DEF captured, results, first
<1>3. \A s, k : LoopStep(loop, s, k) = MatchResult(captured, l, s, results[k])
  BY DEF LoopStep
<1> HIDE DEF loop, n
<1>4. \A g : IsLoop(g, loop, first, n) <=> g = Body(g)
  BY <1>3 DEF IsLoop
<1>5. IsLoop(after, loop, first, n)
  <2>1. \E g : g = Body(g)
    BY <1>0, <1>4, LoopExists
  <2> HIDE DEF Body
  <2> QED  BY <1>4, <2>1
<1> HIDE DEF after
<1> DEFINE Q == {k \in 0 .. n : Moved(st, after[k].st)}
<1>6. /\ after[0] = first
      /\ \A k \in 0 .. n - 1 : after[k + 1] = MatchResult(captured, l, after[k], results[k + 1])
  BY <1>0, <1>3, <1>5, LoopFacts
<1>7. 0 \in Q
  BY <1>0, <1>2, <1>6, NotMoved
<1>8. ASSUME NEW k \in 0 .. n - 1, k \in Q PROVE k + 1 \in Q
  <2>1. Moved(st, after[k].st) /\ k + 1 \in 0 .. n
    BY <1>0, <1>8
  <2>2. Moved(st, MatchResult(captured, l, after[k], results[k + 1]).st)
    <3>1. k + 1 \in 1 .. n
      BY <1>0
    <3> QED  BY <1>0, <2>1, <3>1, ResultMatched
  <2> QED  BY <1>6, <2>1, <2>2
<1>9. n \in Q
  <2> HIDE DEF Q
  <2> QED  BY <1>0, <1>7, <1>8, LoopKeeps
<1> QED  BY <1>1, <1>9, NotMoved

-----------------------------------------------------------------------------
(* Notifications are used                                                    *)

\* The notifications of a LAO without some.
Discarded(old, ids) ==
  [byId |-> [n \in DOMAIN old.byId \ ids |-> old.byId[n]],
   unread |-> old.unread \ ids, read |-> old.read \ ids, next |-> old.next]

\* Discarding notifications and giving up their messages leaves the others one
\* to one.
LEMMA NoticesDiscarded ==
  ASSUME NEW st, NEW t, NEW l \in DOMAIN st.notifications, AskedOK(st),
         NEW ids, ids \subseteq DOMAIN st.notifications[l].byId,
         t.notifications = [st.notifications EXCEPT ![l] = Discarded(st.notifications[l], ids)],
         t.toWitness = st.toWitness \ {st.notifications[l].byId[n].message : n \in ids}
  PROVE  AskedOK(t)
<1> DEFINE old == st.notifications[l]
           new == Discarded(old, ids)
           said(j, k) == st.notifications[j].byId[k].message
           says(j, k) == t.notifications[j].byId[k].message
<1>1. NoticesOK(old)
  BY DEF AskedOK
<1>2. /\ new.byId = [n \in DOMAIN old.byId \ ids |-> old.byId[n]]
      /\ new.unread = old.unread \ ids /\ new.read = old.read \ ids /\ new.next = old.next
      /\ DOMAIN new = {"byId", "unread", "read", "next"}
  BY DEF Discarded
<1> HIDE DEF new
<1>3. NoticesOK(new)
  BY <1>1, <1>2 DEF NoticesOK
<1>4. /\ DOMAIN t.notifications = DOMAIN st.notifications /\ t.notifications[l] = new
      /\ \A j \in DOMAIN st.notifications : j # l => t.notifications[j] = st.notifications[j]
  BY DEF new
<1>5. \A j \in DOMAIN t.notifications : NoticesOK(t.notifications[j])
  BY <1>3, <1>4 DEF AskedOK
<1>6. ASSUME NEW j \in DOMAIN t.notifications, NEW k \in DOMAIN t.notifications[j].byId
      PROVE  /\ j \in DOMAIN st.notifications /\ k \in DOMAIN st.notifications[j].byId
             /\ says(j, k) = said(j, k) /\ (j = l => k \notin ids)
  BY <1>2, <1>4
<1>7. ASSUME NEW j \in DOMAIN st.notifications, NEW k \in DOMAIN st.notifications[j].byId,
             j = l => k \notin ids
      PROVE  /\ j \in DOMAIN t.notifications /\ k \in DOMAIN t.notifications[j].byId
             /\ says(j, k) = said(j, k)
  BY <1>2, <1>4, <1>7
<1>8. ASSUME NEW j \in DOMAIN t.notifications, NEW k \in DOMAIN t.notifications[j].byId
      PROVE  says(j, k) \in t.toWitness
  <2>1. said(j, k) \in st.toWitness
    BY <1>6 DEF AskedOK
  <2>2. \A n \in ids : said(l, n) # said(j, k)
    BY <1>6 DEF AskedOK
  <2> QED  BY <1>6, <2>1, <2>2, SMTT(30)
<1>9. ASSUME NEW x \in t.toWitness
      PROVE  \E j \in DOMAIN t.notifications : \E k \in DOMAIN t.notifications[j].byId : says(j, k) = x
  <2>1. PICK j \in DOMAIN st.notifications : \E k \in DOMAIN st.notifications[j].byId : said(j, k) = x
    BY DEF AskedOK
  <2>2. PICK k \in DOMAIN st.notifications[j].byId : said(j, k) = x
    BY <2>1
  <2>3. j = l => k \notin ids
    BY <2>2
  <2> QED  BY <1>7, <2>2, <2>3
<1>10. ASSUME NEW j \in DOMAIN t.notifications, NEW q \in DOMAIN t.notifications,
              NEW k \in DOMAIN t.notifications[j].byId, NEW i \in DOMAIN t.notifications[q].byId,
              says(j, k) = says(q, i)
       PROVE  j = q /\ k = i
  BY <1>6, <1>10 DEF AskedOK
<1> QED  BY <1>5, <1>8, <1>9, <1>10 DEF AskedOK

\* Reading one keeps the count of those that are unread right.
LEMMA NoticeRead ==
  ASSUME NEW st, AskedOK(st), DOMAIN st = Slices, NEW l, NEW n,
         n \in DOMAIN NotificationsOf(st, l).byId
  PROVE  LET t == MarkNotificationAsRead(st, l, n)
         IN  AskedOK(t) /\ Only(st, t, {"notifications"})
<1> DEFINE t == MarkNotificationAsRead(st, l, n)
           old == st.notifications[l]
           new == [old EXCEPT !.byId[n].read = TRUE, !.unread = @ \ {n}, !.read = @ \cup {n}]
<1>1. l \in DOMAIN st.notifications /\ n \in DOMAIN old.byId /\ NoticesOK(old)
  BY NobodyAsked DEF NotificationsOf, AskedOK
<1>2. CASE t = st
  BY <1>2 DEF Only
<1>3. CASE t # st
  <2>1. /\ t.notifications = [st.notifications EXCEPT ![l] = new]
        /\ Only(st, t, {"notifications"}) /\ ~old.byId[n].read
    BY <1>1, <1>3 DEF MarkNotificationAsRead, NotificationsOf, Only, Slices
  <2> HIDE DEF t
  <2>2. /\ DOMAIN new = {"byId", "unread", "read", "next"} /\ DOMAIN new.byId = DOMAIN old.byId
        /\ new.unread = old.unread \ {n} /\ new.read = old.read \cup {n} /\ new.next = old.next
        /\ new.byId[n].read = TRUE /\ new.byId[n].message = old.byId[n].message
        /\ DOMAIN new.byId[n] = DOMAIN old.byId[n]
        /\ \A k \in DOMAIN old.byId : k # n => new.byId[k] = old.byId[k]
    BY <1>1 DEF NoticesOK
  <2> HIDE DEF new
  <2>3. NoticesOK(new)
    <3>1. \A k \in DOMAIN new.byId :
            /\ DOMAIN new.byId[k] = {"message", "read"}
            /\ new.byId[k].read = IF k = n THEN TRUE ELSE old.byId[k].read
      BY <1>1, <2>2 DEF NoticesOK
    <3>2. \A k \in DOMAIN old.byId : old.byId[k].read \in BOOLEAN
      BY <1>1 DEF NoticesOK
    <3>3. \A k \in DOMAIN new.byId : new.byId[k].read \in BOOLEAN
      BY <2>2, <3>1, <3>2
    <3>4. \A k \in DOMAIN new.byId :
            (k = n => new.byId[k].read) /\ (k # n => (new.byId[k].read <=> old.byId[k].read))
      BY <2>2, <3>1, <3>2
    <3>5. /\ old.unread = {k \in DOMAIN old.byId : ~old.byId[k].read}
          /\ old.read = {k \in DOMAIN old.byId : old.byId[k].read}
      BY <1>1 DEF NoticesOK
    <3>6. new.unread = {k \in DOMAIN new.byId : ~new.byId[k].read}
      BY <2>2, <3>4, <3>5
    <3>7. new.read = {k \in DOMAIN new.byId : new.byId[k].read}
      BY <1>1, <2>2, <3>4, <3>5
    <3> QED  BY <1>1, <2>2, <3>1, <3>3, <3>6, <3>7 DEF NoticesOK
  <2>4. /\ DOMAIN t.notifications = DOMAIN st.notifications /\ t.notifications[l] = new
        /\ \A j \in DOMAIN st.notifications : j # l => t.notifications[j] = st.notifications[j]
        /\ t.toWitness = st.toWitness
    BY <1>1, <2>1, OnlySays
  <2>5. ASSUME NEW j \in DOMAIN st.notifications
        PROVE  /\ NoticesOK(t.notifications[j])
               /\ DOMAIN t.notifications[j].byId = DOMAIN st.notifications[j].byId
               /\ \A k \in DOMAIN st.notifications[j].byId :
                    t.notifications[j].byId[k].message = st.notifications[j].byId[k].message
    <3>1. CASE j = l
      BY <2>2, <2>3, <2>4, <3>1
    <3>2. CASE j # l
      BY <2>4, <3>2 DEF AskedOK
    <3> QED  BY <3>1, <3>2
  <2>6. AskedOK(t)
    <3> DEFINE said(j, k) == st.notifications[j].byId[k].message
               says(j, k) == t.notifications[j].byId[k].message
    <3>1. \A x \in t.toWitness :
            \E j \in DOMAIN t.notifications : \E k \in DOMAIN t.notifications[j].byId : says(j, k) = x
      <4> SUFFICES ASSUME NEW x \in st.toWitness
                   PROVE  \E j \in DOMAIN t.notifications :
                            \E k \in DOMAIN t.notifications[j].byId : says(j, k) = x
        BY <2>4
      <4>1. PICK j \in DOMAIN st.notifications : \E k \in DOMAIN st.notifications[j].byId : said(j, k) = x
        BY DEF AskedOK
      <4> QED  BY <2>4, <2>5, <4>1
    <3>2. \A j \in DOMAIN t.notifications : /\ NoticesOK(t.notifications[j])
            /\ \A k \in DOMAIN t.notifications[j].byId : says(j, k) \in t.toWitness
      BY <2>4, <2>5 DEF AskedOK
    <3>3. \A j, q \in DOMAIN t.notifications :
            \A k \in DOMAIN t.notifications[j].byId, i \in DOMAIN t.notifications[q].byId :
              says(j, k) = says(q, i) => j = q /\ k = i
      <4> SUFFICES ASSUME NEW j \in DOMAIN t.notifications, NEW q \in DOMAIN t.notifications,
                          NEW k \in DOMAIN t.notifications[j].byId,
                          NEW i \in DOMAIN t.notifications[q].byId, says(j, k) = says(q, i)
                   PROVE  j = q /\ k = i
        OBVIOUS
      <4>1. /\ j \in DOMAIN st.notifications /\ q \in DOMAIN st.notifications
            /\ k \in DOMAIN st.notifications[j].byId /\ i \in DOMAIN st.notifications[q].byId
            /\ said(j, k) = said(q, i)
        BY <2>4, <2>5
      <4> QED  BY <4>1 DEF AskedOK
    <3> QED  BY <3>1, <3>2, <3>3 DEF AskedOK
  <2> QED  BY <2>1, <2>6 DEF t
<1> QED  BY <1>2, <1>3

\* What changes notifications only.
LEMMA NoticesMoved ==
  ASSUME NEW st, NEW t, DeviceOK(log, st), Only(st, t, {"notifications", "toWitness"}), AskedOK(t)
  PROVE  Moved(st, t)
<1>1. /\ DOMAIN t = Slices
      /\ t.byId = st.byId /\ t.unprocessed = st.unprocessed /\ t.signatures = st.signatures
      /\ t.events = st.events /\ t.rollCalls = st.rollCalls /\ t.byAlias = st.byAlias
      /\ t.meetings = st.meetings /\ t.elections = st.elections /\ t.social = st.social /\ t.cash = st.cash
      /\ SameLinks(st, t) /\ t.tasks = st.tasks
      /\ t.current = st.current /\ t.laos = st.laos
  BY OnlySays DEF SameLinks
<1>2. LinksOK(log, t) /\ TasksOK(t) /\ SessionOK(t)
  BY <1>1 DEF DeviceOK, StoreOK, Core, LinksOK, SameLinks, TasksOK, SessionOK
<1> QED  BY <1>1, <1>2 DEF Moved

\* What a screen shows is there.
LEMMA ShownAreThere ==
  ASSUME NEW st, AskedOK(st)
  PROVE  /\ ShownNotifications(st) \subseteq DOMAIN NotificationsOf(st, st.current).byId
         /\ \A n \in ShownNotifications(st) : st.current \in DOMAIN st.notifications
         /\ st.current \in DOMAIN st.notifications =>
              NotificationsOf(st, st.current) = st.notifications[st.current]
<1>1. NoticesOK(NotificationsOf(st, st.current))
  BY NobodyAsked DEF AskedOK, NotificationsOf
<1>2. ShownNotifications(st) \subseteq DOMAIN NotificationsOf(st, st.current).byId
  BY <1>1 DEF ShownNotifications, UnreadNotifications, ReadNotifications, NoticesOK
<1> QED  BY <1>2, NobodyAsked DEF NotificationsOf

\* Witnessing, declining and clearing.
LEMMA NotificationsUsed ==
  ASSUME NEW st, DeviceOK(log, st)
  PROVE  /\ \A n \in ShownNotifications(st) : Moved(st, OnWitness(st, n)) /\ Moved(st, OnDecline(st, n))
         /\ ShownNotifications(st) # {} => Moved(st, ClearNotifications(st))
<1> DEFINE l == st.current
           old == st.notifications[l]
<1>0. AskedOK(st) /\ DOMAIN st = Slices
  BY DEF DeviceOK, StoreOK, MsgsOK
<1>1. ASSUME NEW n \in ShownNotifications(st) PROVE Moved(st, OnDecline(st, n))
  <2>1. n \in DOMAIN NotificationsOf(st, l).byId
    BY <1>0, ShownAreThere
  <2> DEFINE t == OnDecline(st, n)
  <2>2. AskedOK(t) /\ Only(st, t, {"notifications"})
    BY <1>0, <2>1, NoticeRead DEF OnDecline
  <2> HIDE DEF t
  <2>3. Only(st, t, {"notifications", "toWitness"})
    BY <2>2 DEF Only
  <2> QED  BY <2>2, <2>3, NoticesMoved DEF t
<1>2. ASSUME NEW n \in ShownNotifications(st) PROVE Moved(st, OnWitness(st, n))
  <2> DEFINE id == SingleNotification(st, n).message
             t == RemoveMessageToWitness(DiscardNotifications(st, l, {n}), id)
             task == [type |-> "publish", message |-> WitnessMessage(st, id)]
  <2>1. /\ l \in DOMAIN st.notifications /\ NotificationsOf(st, l) = old
        /\ n \in DOMAIN old.byId /\ id = old.byId[n].message
    BY <1>0, ShownAreThere DEF SingleNotification
  <2> HIDE DEF id
  <2>2. /\ t.notifications = [st.notifications EXCEPT ![l] = Discarded(old, {n})]
        /\ t.toWitness = st.toWitness \ {id} /\ Only(st, t, {"notifications", "toWitness"})
    BY <1>0, <2>1 DEF RemoveMessageToWitness, DiscardNotifications, Discarded, Only, Slices
  <2> HIDE DEF t
  <2> DEFINE ids == {n}
  <2>3. {st.notifications[l].byId[k].message : k \in ids} = {id} /\ ids \subseteq DOMAIN old.byId
    BY <2>1
  <2>4. AskedOK(t)
    <3>1. /\ t.toWitness = st.toWitness \ {st.notifications[l].byId[k].message : k \in ids}
          /\ t.notifications = [st.notifications EXCEPT ![l] = Discarded(old, ids)]
      BY <2>2, <2>3
    <3> HIDE DEF l, ids
    <3> QED  BY <1>0, <2>1, <2>3, <3>1, NoticesDiscarded
  <2>5. Moved(st, t)
    BY <2>2, <2>4, NoticesMoved
  <2>6. task.message.kind = "witness"
    BY DEF WitnessMessage
  <2> HIDE DEF task
  <2>7. Moved(st, Later(t, task))
    BY <2>5, <2>6, TaskAdded
  <2>8. OnWitness(st, n) = t \/ OnWitness(st, n) = Later(t, task)
    BY DEF OnWitness, t, task, id
  <2> QED  BY <2>5, <2>7, <2>8
<1>3. ASSUME ShownNotifications(st) # {} PROVE Moved(st, ClearNotifications(st))
  <2> DEFINE ids == ShownNotifications(st)
             messages == {SingleNotification(st, n).message : n \in ids}
             t == ClearNotifications(st)
  <2>1. /\ l \in DOMAIN st.notifications /\ NotificationsOf(st, l) = old
        /\ ids \subseteq DOMAIN old.byId
    BY <1>0, <1>3, ShownAreThere
  <2> HIDE DEF ids
  <2>2. messages = {old.byId[n].message : n \in ids}
    BY <2>1 DEF SingleNotification
  <2> HIDE DEF messages
  <2>3. /\ t.notifications = [st.notifications EXCEPT ![l] = Discarded(old, ids)]
        /\ t.toWitness = st.toWitness \ messages /\ Only(st, t, {"notifications", "toWitness"})
    BY <1>0, <2>1 DEF ClearNotifications, DiscardNotifications, NotificationsOf, Discarded, Only, Slices,
      ids, messages
  <2> HIDE DEF t
  <2>4. AskedOK(t)
    <3>1. t.toWitness = st.toWitness \ {st.notifications[l].byId[n].message : n \in ids}
      BY <2>2, <2>3
    <3> HIDE DEF l
    <3> QED  BY <1>0, <2>1, <2>3, <3>1, NoticesDiscarded
  <2>5. Moved(st, t)
    BY <2>3, <2>4, NoticesMoved
  <2> QED  BY <2>5 DEF t
<1> QED  BY <1>1, <1>2, <1>3

-----------------------------------------------------------------------------
(* The log grows                                                             *)

\* What a message names stays where it is.
LEMMA MessageStaysOK ==
  ASSUME NEW lg, NEW longer, Grown(lg, longer), NEW id \in DOMAIN lg, MessageOK(lg, id)
  PROVE  MessageOK(longer, id)
<1>1. longer[id] = lg[id] /\ id \in 1 .. Len(lg) /\ Len(lg) \in Nat
  BY DEF Grown
<1>2. \A x \in 1 .. id - 1 : longer[x] = lg[x]
  BY <1>1 DEF Grown
<1> DEFINE m == lg[id]
<1>3. CASE m.kind \notin {"challenge", "federation_expect", "federation_result"}
  BY <1>1, <1>2, <1>3 DEF MessageOK
<1>4. CASE m.kind = "challenge"
  <2>1. PICK r \in 1 .. id - 1 : /\ lg[r].kind = "challenge_request" /\ lg[r].chan = m.chan
                                /\ m.challenge = <<"challenge", r>>
    BY <1>4 DEF MessageOK
  <2> QED  BY <1>1, <1>2, <1>4, <2>1 DEF MessageOK
<1>5. CASE m.kind = "federation_expect"
  <2>1. PICK c \in 1 .. id - 1 : /\ lg[c].kind = "challenge" /\ lg[c].chan = m.chan
                                /\ lg[c].challenge = m.challenge
    BY <1>5 DEF MessageOK
  <2> QED  BY <1>1, <1>2, <1>5, <2>1 DEF MessageOK
<1>6. CASE m.kind = "federation_result"
  <2>1. m.key # None => \E init, expect \in 1 .. id - 1 :
                          Matches(lg, init, expect) /\ lg[init].challenge = m.challenge
    BY <1>6 DEF MessageOK
  <2>2. m.key # None => \E init, expect \in 1 .. id - 1 :
                          Matches(longer, init, expect) /\ longer[init].challenge = m.challenge
    BY <1>2, <2>1 DEF Matches
  <2> QED  BY <1>1, <1>6, <2>2 DEF MessageOK
<1> QED  BY <1>3, <1>4, <1>5, <1>6

\* Messages that name only those before them are appended.
LEMMA LogGrows ==
  ASSUME Ordered(log), NEW S, NEW new \in Seq(S),
         \A i \in 1 .. Len(new) :
           /\ new[i].kind \in RegisteredKind \cup {"lao_create"}
           /\ MessageOK(log \o new, Len(log) + i)
  PROVE  Grown(log, log \o new) /\ Ordered(log \o new)
<1> DEFINE n == Len(log)
           k == Len(new)
           longer == log \o new
           T == ToSet(log) \cup S
<1>1. log \in Seq(T) /\ new \in Seq(T)
  BY SeqMonotonic DEF Ordered, LogOK
<1>2. /\ longer \in Seq(T) /\ Len(longer) = n + k
      /\ \A i \in 1 .. n + k : longer[i] = IF i <= n THEN log[i] ELSE new[i - n]
  BY <1>1, ConcatProperties
<1>3. n \in Nat /\ k \in Nat /\ DOMAIN log = 1 .. n /\ DOMAIN longer = 1 .. n + k
  BY <1>1, <1>2 DEF Ordered
<1> HIDE DEF longer
<1>4. Grown(log, longer)
  <2> HIDE DEF k
  <2>1. \A id \in 1 .. n : longer[id] = log[id]
    BY <1>2, <1>3
  <2> QED  BY <1>2, <1>3, <2>1 DEF Grown
<1>5. ASSUME NEW id \in DOMAIN longer
      PROVE  longer[id].kind \in RegisteredKind \cup {"lao_create"} /\ MessageOK(longer, id)
  <2>1. CASE id \in 1 .. n
    <3>1. longer[id] = log[id] /\ id \in DOMAIN log
      BY <1>3, <1>4, <2>1 DEF Grown
    <3> QED  BY <1>4, <3>1, MessageStaysOK DEF Ordered, LogOK
  <2>2. CASE id \notin 1 .. n
    <3> DEFINE i == id - n
    <3>1. i \in 1 .. k /\ id = n + i /\ longer[id] = new[i]
      BY <1>2, <1>3, <2>2
    <3>2. new[i].kind \in RegisteredKind \cup {"lao_create"} /\ MessageOK(longer, n + i)
      BY <3>1 DEF longer
    <3> QED  BY <3>1, <3>2
  <2> QED  BY <2>1, <2>2
<1>6. IsList(longer)
  BY <1>2, Lists
<1>7. LogOK(longer)
  BY <1>5, <1>6 DEF LogOK, IsList
<1>8. Len(longer) \in Nat /\ DOMAIN longer = 1 .. Len(longer)
  BY <1>2, <1>3
<1> QED  BY <1>4, <1>7, <1>8 DEF Ordered, longer

\* The kinds of messages the servers do not compare with others that a later
\* one may name.
Free == (RegisteredKind \cup {"lao_create"})
          \ {"roll_call_open", "roll_call_reopen", "roll_call_close", "cast_vote", "chirp_delete",
             "post_transaction", "challenge", "federation_init", "federation_expect",
             "federation_result"}

LEMMA FreeIsOK ==
  ASSUME NEW lg, NEW id, lg[id].kind \in Free
  PROVE  MessageOK(lg, id)
BY DEF MessageOK, Free

\* Any number of them may be appended.
LEMMA FreeAppended ==
  ASSUME Ordered(log), NEW new, NEW S, new \in Seq(S), \A m \in S : m.kind \in Free
  PROVE  Grown(log, log \o new) /\ Ordered(log \o new)
<1> DEFINE n == Len(log)
<1>1. ASSUME NEW i \in 1 .. Len(new)
      PROVE  /\ new[i].kind \in RegisteredKind \cup {"lao_create"}
             /\ MessageOK(log \o new, n + i)
  <2>1. new[i].kind \in Free
    OBVIOUS
  <2>2. (log \o new)[n + i] = new[i]
    <3>1. log \in Seq(ToSet(log) \cup S) /\ new \in Seq(ToSet(log) \cup S)
      BY SeqMonotonic DEF Ordered, LogOK
    <3>2. n \in Nat /\ Len(new) \in Nat
      BY <3>1
    <3>3. n + i \in 1 .. n + Len(new) /\ ~(n + i <= n) /\ (n + i) - n = i
      BY <3>2
    <3> QED  BY <3>1, <3>3, ConcatProperties
  <2>3. MessageOK(log \o new, n + i)
    BY <2>1, <2>2, FreeIsOK
  <2> QED  BY <2>1, <2>3 DEF Free
<1> HIDE DEF n
<1>2. \A i \in 1 .. Len(new) : /\ new[i].kind \in RegisteredKind \cup {"lao_create"}
                               /\ MessageOK(log \o new, Len(log) + i)
  BY <1>1 DEF n
<1> QED  BY <1>2, LogGrows

\* What the screens and the servers ensure of a message.
Acceptable(m) ==
  /\ m.kind \in RegisteredKind \cup {"lao_create"}
  /\ m.kind = "cast_vote" => m.at \in Nat
  /\ m.kind = "challenge" =>
       \E r \in Logged("challenge_request") :
         log[r].chan = m.chan /\ m.challenge = <<"challenge", r>>
  /\ m.kind = "federation_init" => m.challenge # None
  /\ m.kind = "federation_result" => m.key = None
  /\ m.kind \in {"roll_call_open", "roll_call_reopen", "roll_call_close", "chirp_delete",
                  "post_transaction", "federation_expect"} =>
       ServerAccepts(m)

\* Such a message may be appended.
LEMMA Appended ==
  ASSUME Ordered(log), NEW m, Acceptable(m)
  PROVE  Grown(log, Append(log, m)) /\ Ordered(Append(log, m))
<1> DEFINE n == Len(log)
           T == ToSet(log) \cup {m}
           longer == Append(log, m)
<1>1. log \in Seq(T) /\ m \in T /\ n \in Nat /\ DOMAIN log = 1 .. n
  BY SeqMonotonic DEF Ordered, LogOK
<1>2. /\ longer[n + 1] = m /\ \A i \in 1 .. n : longer[i] = log[i]
  BY <1>1, AppendProperties
<1>3. longer = log \o <<m>>
  BY <1>1, AppendIsConcat
<1> HIDE DEF longer
<1>4. MessageOK(longer, n + 1)
  <2>1. (n + 1) - 1 = n
    BY <1>1
  <2>2. CASE m.kind = "roll_call_open"
    <3>1. m.opens \in DOMAIN log /\ log[m.opens].kind \in {"roll_call_create"}
      BY <2>2 DEF Acceptable, ServerAccepts, Continues
    <3> QED  BY <1>1, <1>2, <2>1, <2>2, <3>1 DEF MessageOK
  <2>3. CASE m.kind = "roll_call_reopen"
    <3>1. m.opens \in DOMAIN log /\ log[m.opens].kind \in {"roll_call_close"}
      BY <2>3 DEF Acceptable, ServerAccepts, Continues
    <3> QED  BY <1>1, <1>2, <2>1, <2>3, <3>1 DEF MessageOK
  <2>4. CASE m.kind = "roll_call_close"
    <3>1. m.closes \in DOMAIN log /\ log[m.closes].kind \in {"roll_call_open", "roll_call_reopen"}
      BY <2>4 DEF Acceptable, ServerAccepts, Continues
    <3> QED  BY <1>1, <1>2, <2>1, <2>4, <3>1 DEF MessageOK
  <2>5. CASE m.kind = "cast_vote"
    BY <1>2, <2>5 DEF MessageOK, Acceptable
  <2>6. CASE m.kind = "chirp_delete"
    <3>1. m.chirp \in DOMAIN log
      BY <2>6 DEF Acceptable, ServerAccepts
    <3> QED  BY <1>1, <1>2, <2>1, <2>6, <3>1 DEF MessageOK
  <2>7. CASE m.kind = "post_transaction"
    BY <1>2, <2>7 DEF MessageOK, Acceptable, ServerAccepts
  <2>8. CASE m.kind = "challenge"
    <3>1. \E r \in DOMAIN log : /\ log[r].kind = "challenge_request" /\ log[r].chan = m.chan
                                /\ m.challenge = <<"challenge", r>>
      BY <2>8 DEF Acceptable, Logged
    <3>2. \E r \in 1 .. (n + 1) - 1 : /\ longer[r].kind = "challenge_request" /\ longer[r].chan = m.chan
                                      /\ m.challenge = <<"challenge", r>>
      BY <1>1, <1>2, <2>1, <3>1
    <3> QED  BY <1>2, <2>8, <3>2 DEF MessageOK
  <2>9. CASE m.kind = "federation_expect"
    <3>1. \E c \in DOMAIN log : /\ log[c].kind = "challenge" /\ log[c].chan = m.chan
                                /\ log[c].challenge = m.challenge
      BY <2>9 DEF Acceptable, ServerAccepts, Logged
    <3>2. \E c \in 1 .. (n + 1) - 1 : /\ longer[c].kind = "challenge" /\ longer[c].chan = m.chan
                                      /\ longer[c].challenge = m.challenge
      BY <1>1, <1>2, <2>1, <3>1
    <3> QED  BY <1>2, <2>9, <3>2 DEF MessageOK
  <2>10. CASE m.kind \in {"federation_init", "federation_result"}
    BY <1>2, <2>10 DEF MessageOK, Acceptable
  <2>11. CASE m.kind \in Free
    BY <1>2, <2>11, FreeIsOK
  <2> QED
    BY <2>2, <2>3, <2>4, <2>5, <2>6, <2>7, <2>8, <2>9, <2>10, <2>11 DEF Acceptable, Free
<1>5. <<m>> \in Seq({m}) /\ Len(<<m>>) = 1 /\ <<m>>[1] = m
  OBVIOUS
<1>6. \A i \in 1 .. Len(<<m>>) : /\ <<m>>[i].kind \in RegisteredKind \cup {"lao_create"}
                                 /\ MessageOK(log \o <<m>>, Len(log) + i)
  BY <1>3, <1>4, <1>5 DEF Acceptable
<1> QED  BY <1>3, <1>5, <1>6, LogGrows DEF longer

-----------------------------------------------------------------------------
(* The session                                                               *)

\* What neither opens or closes a LAO nor adds one.
LEMMA Unbothered ==
  ASSUME NEW r, NEW s, NEW t, NEW changed, Moved(r, s), Only(s, t, changed),
         changed \subseteq Harmless \ {"laos", "current"}
  PROVE  Moved(r, t)
<1>1. t.current = s.current /\ t.laos = s.laos
  BY OnlySays
<1>2. SessionOK(t)
  BY <1>1 DEF Moved, SessionOK
<1> QED  BY <1>2, MovedFurther

\* The wallet, the connections, the home screens, and the screen that scans
\* attendees.
LEMMA SessionMoves ==
  ASSUME NEW r, NEW s, Moved(r, s)
  PROVE  /\ \A seed : Moved(r, SetWallet(s, seed))
         /\ \A l : Moved(r, ResubscribeToLao(s, l)) /\ Moved(r, ConnectToLao(s, l))
         /\ Moved(r, LoseConnections(s)) /\ Moved(r, DisconnectFromLao(s))
         /\ Moved(r, ConnectionDied(s)) /\ Moved(r, OnReconnected(s))
         /\ \A c, token : Moved(r, AddAttendeePopToken(s, c, token))
         /\ \A c : Moved(r, StopScanning(s, c))
<1>0. DOMAIN s = Slices
  BY DEF Moved
<1>1. ASSUME NEW seed PROVE Moved(r, SetWallet(s, seed))
  <2>1. Only(s, SetWallet(s, seed), {"seed"})
    BY <1>0 DEF SetWallet, Only, Slices
  <2> QED  BY <2>1, Unbothered DEF Harmless
<1>2. ASSUME NEW l PROVE Moved(r, ResubscribeToLao(s, l))
  <2>1. Only(s, ResubscribeToLao(s, l), {"online", "subscribed"})
    BY <1>0 DEF ResubscribeToLao, Only, Slices
  <2> QED  BY <2>1, Unbothered DEF Harmless
<1>3. ASSUME NEW l PROVE Moved(r, ConnectToLao(s, l))
  <2> DEFINE online == [s EXCEPT !.online = TRUE]
             u == SubscribeToChannels(online, l, {LaoChannel(l)})
             t == IF l \in DOMAIN s.laos THEN ResubscribeToLao(s, l) ELSE u
             task == [type |-> "connect", lao |-> l]
  <2>1. Only(s, online, {"online"})
    BY <1>0 DEF Only, Slices
  <2> HIDE DEF online
  <2>2. Moved(r, online)
    BY <2>1, Unbothered DEF Harmless
  <2>3. Moved(r, u)
    BY <2>2, Subscribed
  <2> HIDE DEF u
  <2>4. Moved(r, t)
    BY <1>2, <2>3
  <2>5. task.type # "publish"
    OBVIOUS
  <2>6. ConnectToLao(s, l) = Later(t, task)
    BY DEF ConnectToLao, SubscribeToChannel, online, u
  <2> HIDE DEF t, task
  <2> QED  BY <2>4, <2>5, <2>6, TaskAdded
<1>4. Moved(r, LoseConnections(s))
  <2>1. Only(s, LoseConnections(s), {"online", "subscribed"})
    BY <1>0 DEF LoseConnections, Only, Slices
  <2> QED  BY <2>1, Unbothered DEF Harmless
<1>5. Moved(r, DisconnectFromLao(s))
  <2>1. /\ Only(s, DisconnectFromLao(s), {"current", "connected", "online", "subscribed"})
        /\ DisconnectFromLao(s).current = None
    BY <1>0 DEF DisconnectFromLao, ClearCurrentLao, Only, Slices
  <2>2. SessionOK(DisconnectFromLao(s))
    BY <2>1 DEF SessionOK
  <2> QED  BY <2>1, <2>2, MovedFurther DEF Harmless
<1>6. Moved(r, ConnectionDied(s))
  BY <1>5 DEF ConnectionDied
<1>7. Moved(r, OnReconnected(s))
  <2>1. Only(s, OnReconnected(s), {"connected", "online", "subscribed"})
    BY <1>0 DEF OnReconnected, ReconnectLao, ReconnectToLao, ResubscribeToLao, Only, Slices
  <2> QED  BY <2>1, Unbothered DEF Harmless
<1>8. ASSUME NEW c, NEW token PROVE Moved(r, AddAttendeePopToken(s, c, token))
  <2>1. Only(s, AddAttendeePopToken(s, c, token), {"scanning"})
    BY <1>0 DEF AddAttendeePopToken, Only, Slices
  <2> QED  BY <2>1, Unbothered DEF Harmless
<1>9. ASSUME NEW c PROVE Moved(r, StopScanning(s, c))
  <2>1. Only(s, StopScanning(s, c), {"scanning"})
    BY <1>0 DEF StopScanning, Only, Slices
  <2> QED  BY <2>1, Unbothered DEF Harmless
<1> QED  BY <1>1, <1>2, <1>3, <1>4, <1>5, <1>6, <1>7, <1>8, <1>9

\* The challenge a screen has is one of its LAO.
LEMMA ChallengeIssued ==
  ASSUME NEW st, LinksOK(log, st), NEW l
  PROVE  ChallengeOf(st, l) = None \/ Issued(log, l, ChallengeOf(st, l))
BY DEF ChallengeOf, AtKey, LinksOK, ChallengesOK

\* So is the one in the code it shows.
LEMMA CodesShown ==
  ASSUME NEW st, LinksOK(log, st), NEW l
  PROVE  \A code \in ResponderCodes(st) \cup {InitiatorCode(st)} : FromCode(log, l, code)
<1>1. FromCode(log, l, InitiatorCode(st))
  BY DEF FromCode, InitiatorCode, LinkedOrganization
<1>2. ASSUME NEW code \in ResponderCodes(st) PROVE FromCode(log, l, code)
  <2>1. code.lao = st.current /\ code.challenge = ChallengeOf(st, st.current)
    BY <1>2 DEF ResponderCodes, LinkedOrganization
  <2> QED  BY <2>1, ChallengeIssued DEF FromCode
<1> QED  BY <1>1, <1>2

\* A code is kept.
LEMMA CodeKept ==
  ASSUME NEW st, DeviceOK(log, st), NEW l, NEW org, FromCode(log, l, org)
  PROVE  Moved(st, AddScannedLinkedOrganization(st, l, org).st)
<1> DEFINE t == AddScannedLinkedOrganization(st, l, org).st
           old == ScannedOf(st, l)
           new == Append(old, org)
<1>1. Moved(st, st) /\ DOMAIN st = Slices /\ LinksOK(log, st)
  BY NotMoved DEF Moved
<1>2. CASE org.lao \in LinkedLaosOf(st, l)
  BY <1>1, <1>2 DEF AddScannedLinkedOrganization, NotHandled
<1>3. CASE org.lao \notin LinkedLaosOf(st, l)
  <2>1. t.scanned = Put(st.scanned, l, new) /\ Only(st, t, {"scanned"})
    BY <1>1, <1>3 DEF AddScannedLinkedOrganization, Handled, Only, Slices
  <2>2. IsList(old) /\ \A o \in ToSet(old) : FromCode(log, l, o)
    BY <1>1, ListsOf
  <2> HIDE DEF t, old
  <2>3. IsList(new) /\ ToSet(new) = ToSet(old) \cup {org}
    BY <2>2, ListAppended
  <2> HIDE DEF new
  <2>4. ScannedOK(log, t.scanned)
    BY <1>1, <2>1, <2>2, <2>3 DEF LinksOK, ScannedOK, Put
  <2>5. t.challenge = st.challenge /\ t.results = st.results /\ t.linked = st.linked
    BY <2>1, OnlySays
  <2>6. LinksOK(log, t)
    BY <1>1, <2>4, <2>5 DEF LinksOK
  <2> QED  BY <1>1, <2>1, <2>6, LinksChanged DEF t
<1> QED  BY <1>2, <1>3

\* Organizers scan each other.
LEMMA CodesScanned ==
  ASSUME NEW st, DeviceOK(log, st), NEW org
  PROVE  /\ FromCode(log, st.current, org) => Moved(st, OnInitiatorScan(st, org).st)
         /\ Moved(st, OnFederationExpect(st, org).st)
<1> DEFINE c == ChallengeOf(st, st.current)
<1>1. FromCode(log, st.current, org) => Moved(st, OnInitiatorScan(st, org).st)
  BY CodeKept DEF OnInitiatorScan
<1>2. FromCode(log, st.current, LinkedOrganization(org.lao, org.key, c))
  <2>1. c = None \/ Issued(log, st.current, c)
    BY ChallengeIssued DEF DeviceOK, StoreOK, Core
  <2> QED  BY <2>1 DEF FromCode, LinkedOrganization
<1>3. Moved(st, st)
  BY NotMoved
<1>4. Moved(st, OnFederationExpect(st, org).st)
  BY <1>2, <1>3, CodeKept DEF OnFederationExpect, NotHandled
<1> QED  BY <1>1, <1>4

\* The application starts: the LAO that was open and all tasks are gone, what
\* was stored is there.
LEMMA BroughtBack ==
  ASSUME NEW st, DeviceOK(log, st)
  PROVE  Moved(st, Rehydrate(st))
<1> DEFINE t == Rehydrate(st)
           changed == {"current", "tasks", "online", "subscribed", "scanning", "watched", "postponed"}
<1>1. Only(st, t, changed) /\ t.current = None /\ t.tasks = {}
  BY DEF Rehydrate, Only, Slices, DeviceOK, StoreOK, MsgsOK
<1> HIDE DEF t
<1>2. TasksOK(t) /\ SessionOK(t)
  BY <1>1, FS_EmptySet DEF TasksOK, SessionOK
<1>3. /\ DOMAIN t = Slices
      /\ t.byId = st.byId /\ t.unprocessed = st.unprocessed /\ t.signatures = st.signatures
      /\ t.events = st.events /\ t.rollCalls = st.rollCalls /\ t.byAlias = st.byAlias
      /\ t.meetings = st.meetings /\ t.elections = st.elections /\ t.social = st.social /\ t.cash = st.cash
      /\ SameLinks(st, t) /\ t.notifications = st.notifications /\ t.toWitness = st.toWitness
  BY <1>1, OnlySays DEF SameLinks
<1>4. LinksOK(log, t) /\ AskedOK(t)
  BY <1>3 DEF DeviceOK, StoreOK, Core, LinksOK, SameLinks, AskedOK
<1> QED  BY <1>2, <1>3, <1>4 DEF Moved, t

\* A store nothing was received in, but for what runs.
IsEmpty(t) ==
  /\ DOMAIN t = Slices
  /\ t.current = None /\ t.byId = {} /\ t.unprocessed = <<>> /\ t.toWitness = {}
  /\ DOMAIN t.signatures = {} /\ DOMAIN t.events = {} /\ DOMAIN t.rollCalls = {}
  /\ t.byAlias = NoFunction /\ DOMAIN t.meetings = {} /\ DOMAIN t.elections = {}
  /\ DOMAIN t.notifications = {} /\ DOMAIN t.social = {} /\ DOMAIN t.cash = {}
  /\ DOMAIN t.challenge = {} /\ DOMAIN t.scanned = {} /\ DOMAIN t.results = {}
  /\ DOMAIN t.linked = {}

\* It is right.
LEMMA EmptyStoreIsOK ==
  ASSUME NEW t, IsEmpty(t), TasksOK(t)
  PROVE  DeviceOK(log, t)
<1>1. ToSet(t.unprocessed) = {} /\ Processed(t) = {}
  BY DEF IsEmpty, ToSet, Processed
<1>2. t.unprocessed \in Seq(t.byId) /\ MsgsOK(log, t)
  BY DEF IsEmpty, MsgsOK
<1>3. EventsOK(log, t, {})
  BY DEF IsEmpty, EventsOK, OfKind
<1>4. VotesOK(log, t, {})
  BY DEF IsEmpty, VotesOK
<1>5. RollCallsOK(log, t, {})
  BY DEF IsEmpty, RollCallsOK, AliasesOK, NamesOK, NoFunction
<1>6. SocialOK(log, t, {})
  BY DEF IsEmpty, SocialOK, OfKind
<1>7. LinksOK(log, t) /\ AskedOK(t) /\ SessionOK(t) /\ CashesOK(log, t)
  BY DEF IsEmpty, LinksOK, ChallengesOK, ScannedOK, AnswersOK, LinkedOK, AskedOK, SessionOK,
    CashesOK
<1> QED  BY <1>1, <1>2, <1>3, <1>4, <1>5, <1>6, <1>7 DEF DeviceOK, StoreOK, Core

\* So are the first store of a device, and the one after its storage was
\* cleared.
LEMMA Emptied ==
  /\ \A d : DeviceOK(log, InitialStore(d)) /\ DOMAIN InitialStore(d).social = {}
  /\ \A st : DeviceOK(log, st) =>
       DeviceOK(log, ClearStorage(st)) /\ DOMAIN ClearStorage(st).social = {}
<1>1. ASSUME NEW d PROVE IsEmpty(InitialStore(d)) /\ InitialStore(d).tasks = {}
  BY DEF InitialStore, NoFunction, IsEmpty, Slices
<1>2. ASSUME NEW st PROVE IsEmpty(ClearStorage(st)) /\ ClearStorage(st).tasks = st.tasks
  BY DEF InitialStore, ClearStorage, NoFunction, IsEmpty, Slices
<1>3. ASSUME NEW d PROVE DeviceOK(log, InitialStore(d)) /\ DOMAIN InitialStore(d).social = {}
  <2>1. TasksOK(InitialStore(d))
    BY <1>1, FS_EmptySet DEF TasksOK
  <2> QED  BY <1>1, <2>1, EmptyStoreIsOK DEF IsEmpty
<1>4. ASSUME NEW st, DeviceOK(log, st)
      PROVE  DeviceOK(log, ClearStorage(st)) /\ DOMAIN ClearStorage(st).social = {}
  <2>1. TasksOK(ClearStorage(st))
    BY <1>2, <1>4 DEF TasksOK, DeviceOK, StoreOK, Core
  <2> QED  BY <1>2, <2>1, EmptyStoreIsOK DEF IsEmpty
<1> QED  BY <1>3, <1>4

-----------------------------------------------------------------------------
(* Steps of the application                                                  *)

\* Deleted chirps stay so, unless the storage is cleared.
Kept(st, t) == SocialKept(st, t) \/ DOMAIN t.social = {}

\* What a step does to the stores and to the log.
StoresStep ==
  /\ DOMAIN store' = Device
  /\ \A d \in Device : DeviceOK(log, store'[d]) /\ Kept(store[d], store'[d])
LogStep == log' = log \/ (Grown(log, log') /\ Ordered(log'))

\* What a step leaves alone.
LEMMA Idle ==
  ASSUME AppOK
  PROVE  (UNCHANGED log => LogStep) /\ (UNCHANGED store => StoresStep)
<1>1. UNCHANGED store => StoresStep
  BY KeptStaysKept DEF AppOK, StoresStep, Kept
<1> QED  BY <1>1 DEF LogStep

\* A device goes on from a store that is right: the watchers follow.
LEMMA UpdatedTo ==
  ASSUME AppOK, NEW d \in Device, NEW u, DeviceOK(log, u), Kept(store[d], u), Update(d, u)
  PROVE  StoresStep
<1>1. Moved(u, Watchers(u))
  BY WatchersMoved DEF AppOK, Ordered
<1>2. DeviceOK(log, Watchers(u)) /\ SocialKept(u, Watchers(u)) /\ Watchers(u).social = u.social
  BY <1>1, DeviceMoved DEF Moved
<1>3. Kept(store[d], Watchers(u))
  BY <1>2, KeptStaysKept DEF Kept
<1>4. store' = [store EXCEPT ![d] = Watchers(u)]
  BY DEF Update
<1>5. Kept(store[d], store[d])
  BY KeptStaysKept DEF Kept
<1>6. ASSUME NEW e \in Device PROVE DeviceOK(log, store'[e]) /\ Kept(store[e], store'[e])
  <2>1. CASE e = d
    BY <1>2, <1>3, <1>4, <2>1 DEF AppOK
  <2>2. CASE e # d
    BY <1>4, <2>2, KeptStaysKept DEF AppOK, Kept
  <2> QED  BY <2>1, <2>2
<1> QED  BY <1>4, <1>6 DEF AppOK, StoresStep

\* So it does from one that handles no messages.
LEMMA UpdatedBy ==
  ASSUME AppOK, NEW d \in Device, NEW u, Moved(store[d], u), Update(d, u)
  PROVE  StoresStep
<1>1. DeviceOK(log, u) /\ SocialKept(store[d], u)
  BY DeviceMoved DEF AppOK
<1> QED  BY <1>1, UpdatedTo DEF Kept

\* A message is accepted.
LEMMA Accepted ==
  ASSUME AppOK, NEW m, Acceptable(m), log' = Append(log, m)
  PROVE  LogStep
BY Appended DEF AppOK, LogStep

LEMMA AcceptedFreely ==
  ASSUME AppOK, NEW m, m.kind \in Free, log' = Append(log, m)
  PROVE  LogStep
<1>1. Acceptable(m)
  BY DEF Acceptable, Free
<1> QED  BY <1>1, Accepted

\* Every action of a device is such a step.
LEMMA MessageReceived ==
  ASSUME AppOK, NEW d \in Device, NEW id \in DOMAIN log, ReceiveMessage(d, id)
  PROVE  LogStep /\ StoresStep
<1>1. PICK signatures \in Signatures(log[id]), a \in Address :
        Update(d, Receive(store[d], id, signatures, a))
  BY DEF ReceiveMessage
<1> DEFINE u == Receive(store[d], id, signatures, a)
<1>2. DeviceOK(log, u) /\ SocialKept(store[d], u)
  BY Received DEF AppOK
<1>3. Update(d, u)
  BY <1>1
<1> HIDE DEF u
<1>4. StoresStep
  BY <1>2, <1>3, UpdatedTo DEF Kept
<1> QED  BY <1>4, Idle DEF ReceiveMessage

LEMMA TaskRun ==
  ASSUME AppOK, NEW d \in Device, NEW task \in store[d].tasks, RunTask(d, task)
  PROVE  LogStep /\ StoresStep
<1> DEFINE st == store[d]
<1>0. Moved(st, st)
  BY NotMoved DEF AppOK
<1>1. CASE TokenReady(d, task)
  <2>1. Update(d, AfterToken(st, task)) /\ UNCHANGED log
    BY <1>1 DEF TokenReady
  <2>2. Moved(st, AfterToken(st, task))
    BY <1>0, TokenCame
  <2> QED  BY <2>1, <2>2, UpdatedBy, Idle
<1>2. CASE LaoCaughtUpWith(d, task)
  <2>1. Update(d, AfterConnect(st, task)) /\ UNCHANGED log
    BY <1>2 DEF LaoCaughtUpWith
  <2>2. Moved(st, AfterConnect(st, task))
    BY <1>0, CaughtUp
  <2> QED  BY <2>1, <2>2, UpdatedBy, Idle
<1>3. CASE FetchLinked(d, task)
  <2>1. Update(d, FetchLinkedLao(st, task)) /\ UNCHANGED log
    BY <1>3 DEF FetchLinked
  <2>2. Moved(st, FetchLinkedLao(st, task))
    BY <1>0, LinkedFetched
  <2> QED  BY <2>1, <2>2, UpdatedBy, Idle
<1> DEFINE u == [st EXCEPT !.tasks = @ \ {task}]
<1>4. Moved(st, u)
  BY <1>0, TaskDropped
<1>5. CASE BroadcastTokens(d, task)
  <2> DEFINE m == TokensExchange(st, task.lao)
  <2>1. Update(d, u) /\ (UNCHANGED log \/ log' = Append(log, m))
    BY <1>5 DEF BroadcastTokens, Publish
  <2>2. m.kind \in Free
    BY DEF TokensExchange, Free, RegisteredKind
  <2> HIDE DEF m, u
  <2> QED  BY <1>4, <2>1, <2>2, UpdatedBy, Idle, AcceptedFreely
<1>6. CASE PublishLater(d, task)
  <2>1. Update(d, u) /\ log' = Append(log, task.message) /\ task.type = "publish"
    BY <1>6 DEF PublishLater, Publish
  <2>2. task.message.kind \in Free
    BY <2>1 DEF AppOK, DeviceOK, StoreOK, Core, TasksOK, Free, RegisteredKind
  <2> HIDE DEF u
  <2> QED  BY <1>4, <2>1, <2>2, UpdatedBy, AcceptedFreely
<1> QED  BY <1>1, <1>2, <1>3, <1>5, <1>6 DEF RunTask

LEMMA MoveMade ==
  ASSUME AppOK, NEW d \in Device, NEW move, NEW u, Moved(store[d], u), Become(d, move, u)
  PROVE  LogStep /\ StoresStep
BY UpdatedBy, Idle DEF Become

LEMMA SessionStep ==
  ASSUME AppOK, NEW d \in Device, Session(d)
  PROVE  LogStep /\ StoresStep
<1> DEFINE st == store[d]
<1>0. DeviceOK(log, st) /\ Moved(st, st)
  BY NotMoved DEF AppOK
<1> HIDE DEF st
<1>1. CASE ChooseSeed(d) \/ RestoreWallet(d)
  <2>1. \E seed : Become(d, "seed", SetWallet(st, seed))
    BY <1>1 DEF ChooseSeed, RestoreWallet, st
  <2> QED  BY <1>0, <2>1, SessionMoves, MoveMade DEF st
<1>2. CASE \/ LeaveLao(d) \/ LoseConnection(d) \/ Reconnected(d) \/ ServerGivenUp(d)
  <2>1. \E move : \/ Become(d, move, DisconnectFromLao(st)) \/ Become(d, move, LoseConnections(st))
                  \/ Become(d, move, OnReconnected(st)) \/ Become(d, move, ConnectionDied(st))
    BY <1>2 DEF LeaveLao, LoseConnection, Reconnected, ServerGivenUp, st
  <2> QED  BY <1>0, <2>1, SessionMoves, MoveMade DEF st
<1>3. CASE Restart(d)
  <2> DEFINE back == Rehydrate(st)
             u == Ingest(back)
  <2>1. DeviceOK(log, back) /\ SocialKept(st, back)
    BY <1>0, BroughtBack, DeviceMoved
  <2> HIDE DEF back
  <2>2. DeviceOK(log, u) /\ SocialKept(back, u)
    BY <2>1, DeviceIngested DEF AppOK
  <2>3. Update(d, u) /\ UNCHANGED log
    BY <1>3 DEF Restart, Become, back, st
  <2> HIDE DEF u
  <2>4. Kept(st, u)
    BY <2>1, <2>2, KeptStaysKept DEF Kept
  <2> QED  BY <2>2, <2>3, <2>4, UpdatedTo, Idle DEF st
<1>4. CASE Logout(d)
  <2> DEFINE u == ClearStorage(st)
  <2>1. Update(d, u) /\ UNCHANGED log
    BY <1>4 DEF Logout, Become, st
  <2>2. DeviceOK(log, u) /\ Kept(st, u)
    BY <1>0, Emptied DEF Kept
  <2> HIDE DEF u
  <2> QED  BY <2>1, <2>2, UpdatedTo, Idle DEF st
<1>5. ASSUME NEW witnesses, CreateLao(d, witnesses) PROVE LogStep /\ StoresStep
  <2> DEFINE m == CreateLaoMessage(st, NextId, witnesses)
  <2>1. log' = Append(log, m) /\ Update(d, ConnectToLao(st, NextId))
    BY <1>5 DEF CreateLao, st
  <2>2. m.kind \in Free
    BY DEF CreateLaoMessage, Free, RegisteredKind
  <2> HIDE DEF m
  <2>3. Moved(st, ConnectToLao(st, NextId))
    BY <1>0, SessionMoves
  <2> QED  BY <2>1, <2>2, <2>3, UpdatedBy, AcceptedFreely DEF st
<1>6. ASSUME NEW l, ScanLao(d, l) \/ PressLao(d, l) PROVE LogStep /\ StoresStep
  <2>1. \E move : \/ Become(d, move, ConnectToLao(st, l)) \/ Become(d, move, ResubscribeToLao(st, l))
                  \/ Become(d, move, OpenLaoOffline(st, l))
    BY <1>6 DEF ScanLao, PressLao, ReconnectToLao, st
  <2>2. Moved(st, OpenLaoOffline(st, l))
    BY <1>0, CurrentSet DEF OpenLaoOffline
  <2> QED  BY <1>0, <2>1, <2>2, SessionMoves, MoveMade DEF st
<1> QED  BY <1>1, <1>2, <1>3, <1>4, <1>5, <1>6 DEF Session

\* A message is sent that the servers compare with no other.
LEMMA SaidFreely ==
  ASSUME AppOK, NEW d, NEW move, NEW m, m.kind \in Free, Say(d, move, m)
  PROVE  LogStep /\ StoresStep
BY AcceptedFreely, Idle DEF Say, Publish

\* A message is sent that names others: the servers, or the screen, have looked
\* at them.
LEMMA SaidAcceptably ==
  ASSUME AppOK, NEW d, NEW move, NEW m, Say(d, move, m), m.kind \in RegisteredKind,
         m.kind = "cast_vote" => m.at \in Nat,
         m.kind \notin {"challenge", "federation_init", "federation_result"}
  PROVE  LogStep /\ StoresStep
<1>1. ServerAccepts(m) /\ log' = Append(log, m) /\ UNCHANGED store
  BY DEF Say, Publish
<1>2. Acceptable(m)
  BY <1>1 DEF Acceptable
<1> QED  BY <1>1, <1>2, Accepted, Idle

LEMMA RollCallsStep ==
  ASSUME AppOK, NEW d \in Device, RollCalls(d)
  PROVE  LogStep /\ StoresStep
<1> DEFINE st == store[d]
<1>0. Moved(st, st)
  BY NotMoved DEF AppOK
<1>1. CASE CreateRollCall(d)
  <2> DEFINE m == CreateRollCallMessage(st)
  <2>1. m.kind \in Free
    BY DEF CreateRollCallMessage, Free, RegisteredKind
  <2>2. Say(d, "rollCall", m)
    BY <1>1 DEF CreateRollCall
  <2> HIDE DEF m
  <2> QED  BY <2>1, <2>2, SaidFreely
<1>2. ASSUME NEW r, OpenRollCall(d, r) PROVE LogStep /\ StoresStep
  <2> DEFINE m == OpenRollCallMessage(st, r)
  <2>1. m.kind = "roll_call_open"
    BY DEF OpenRollCallMessage
  <2>2. Say(d, "rollCall", m)
    BY <1>2 DEF OpenRollCall
  <2> HIDE DEF m
  <2> QED  BY <2>1, <2>2, SaidAcceptably DEF RegisteredKind
<1>3. ASSUME NEW r, ReopenRollCall(d, r) PROVE LogStep /\ StoresStep
  <2> DEFINE m == ReopenRollCallMessage(st, r)
  <2>1. m.kind = "roll_call_reopen"
    BY DEF ReopenRollCallMessage
  <2>2. Say(d, "rollCall", m)
    BY <1>3 DEF ReopenRollCall
  <2> HIDE DEF m
  <2> QED  BY <2>1, <2>2, SaidAcceptably DEF RegisteredKind
<1>4. ASSUME NEW r, CloseRollCall(d, r) PROVE LogStep /\ StoresStep
  <2> DEFINE m == CloseRollCallMessage(st, r)
  <2>1. m.kind = "roll_call_close"
    BY DEF CloseRollCallMessage
  <2>2. ServerAccepts(m) /\ log' = Append(log, m) /\ Update(d, StopScanning(st, r))
    BY <1>4 DEF CloseRollCall, Publish
  <2> HIDE DEF m
  <2>3. Acceptable(m)
    BY <2>1, <2>2 DEF Acceptable, RegisteredKind
  <2>4. Moved(st, StopScanning(st, r))
    BY <1>0, SessionMoves
  <2> QED  BY <2>2, <2>3, <2>4, UpdatedBy, Accepted
<1>5. ASSUME NEW r, NEW other, ScanAttendee(d, r, other) PROVE LogStep /\ StoresStep
  <2>1. PICK token : Become(d, "attendee", AddAttendeePopToken(st, r, token))
    BY <1>5 DEF ScanAttendee
  <2>2. Moved(st, AddAttendeePopToken(st, r, token))
    BY <1>0, SessionMoves
  <2> QED  BY <2>1, <2>2, MoveMade
<1> QED  BY <1>1, <1>2, <1>3, <1>4, <1>5 DEF RollCalls

LEMMA ElectionsStep ==
  ASSUME AppOK, NEW d \in Device, Elections(d)
  PROVE  LogStep /\ StoresStep
<1> DEFINE st == store[d]
<1>1. ASSUME NEW version, NEW form, SetupElection(d, version, form) PROVE LogStep /\ StoresStep
  <2> DEFINE m == SetupElectionMessage(st, version, form)
  <2>1. m.kind \in Free
    BY DEF SetupElectionMessage, Free, RegisteredKind
  <2>2. Say(d, "election", m)
    BY <1>1 DEF SetupElection
  <2> HIDE DEF m
  <2> QED  BY <2>1, <2>2, SaidFreely
<1>2. ASSUME NEW e, OpenElection(d, e) PROVE LogStep /\ StoresStep
  <2> DEFINE m == OpenElectionMessage(st, e)
  <2>1. m.kind \in Free
    BY DEF OpenElectionMessage, Free, RegisteredKind
  <2>2. Say(d, "election", m)
    BY <1>2 DEF OpenElection
  <2> HIDE DEF m
  <2> QED  BY <2>1, <2>2, SaidFreely
<1>3. ASSUME NEW e, EndElection(d, e) PROVE LogStep /\ StoresStep
  <2> DEFINE m == EndElectionMessage(st, e)
  <2>1. m.kind \in Free
    BY DEF EndElectionMessage, Free, RegisteredKind
  <2>2. Say(d, "election", m)
    BY <1>3 DEF EndElection
  <2> HIDE DEF m
  <2> QED  BY <2>1, <2>2, SaidFreely
<1>4. ASSUME NEW e, NEW ballot, NEW now \in {Len(log), NextId}, CastVote(d, e, ballot, now)
      PROVE  LogStep /\ StoresStep
  <2> DEFINE m == CastVoteMessage(st, e, ballot, now)
  <2>1. m.kind = "cast_vote" /\ m.at = now
    BY DEF CastVoteMessage
  <2>2. Say(d, "vote", m)
    BY <1>4 DEF CastVote
  <2> HIDE DEF m
  <2>3. now \in Nat
    BY DEF AppOK, Ordered, NextId
  <2> QED  BY <2>1, <2>2, <2>3, SaidAcceptably DEF RegisteredKind
<1> QED  BY <1>1, <1>2, <1>3, <1>4 DEF Elections

\* What is sent when a reaction is pressed: one for each that is taken back,
\* and perhaps a new one.
LEMMA ReactionsSent ==
  ASSUME AppOK, NEW d \in Device, NEW chirp, NEW codepoint
  PROVE  \E S : /\ ReactionPressed(store[d], chirp, codepoint) \in Seq(S)
                /\ \A m \in S : m.kind \in Free
<1> DEFINE st == store[d]
           l == st.current
           there == Reacted(st, l, chirp, SocialToken(st))
           given(cs) == {r \in there : SocialOf(st, l).reactions[r].codepoint \in cs}
           taken == IF given({codepoint}) # {} THEN given({codepoint})
                    ELSE given(Opposite(codepoint))
           removed == {DeleteReactionMessage(st, r) : r \in taken}
           one == AddReactionMessage(st, chirp, codepoint)
           added == IF given({codepoint}) # {} THEN <<>> ELSE <<one>>
           S == removed \cup {one}
<1>1. IsFiniteSet(there)
  <2>1. CASE l \in DOMAIN st.social /\ chirp \in DOMAIN st.social[l].reactionsOf
    <3>1. IsFiniteSet(st.social[l].reactionsOf[chirp])
      BY <2>1 DEF AppOK, DeviceOK, StoreOK, Core, SocialOK, LaoSocialOK, ReactionsOK
    <3> QED  BY <2>1, <3>1, FS_Subset DEF Reacted, SocialOf, AtKey, ReactionsOf
  <2>2. CASE ~(l \in DOMAIN st.social /\ chirp \in DOMAIN st.social[l].reactionsOf)
    BY <2>2, FS_EmptySet DEF Reacted, SocialOf, AtKey, ReactionsOf, EmptyByLaoState, NoFunction
  <2> QED  BY <2>1, <2>2
<1> HIDE DEF there
<1>2. taken \subseteq there
  OBVIOUS
<1>3. IsFiniteSet(taken)
  BY <1>1, <1>2, FS_Subset
<1>4. ReactionPressed(st, chirp, codepoint) = SetToSeq(removed) \o added
  BY DEF ReactionPressed, there
<1> HIDE DEF taken, given
<1>5. IsFiniteSet(removed)
  <2> DEFINE f == [r \in taken |-> DeleteReactionMessage(st, r)]
  <2>1. f \in Surjection(taken, removed)
    BY DEF Surjection
  <2> HIDE DEF f, removed
  <2> QED  BY <1>3, <2>1, FS_Surjection
<1>6. \A m \in S : m.kind \in Free
  BY DEF DeleteReactionMessage, AddReactionMessage, Free, RegisteredKind
<1> HIDE DEF removed, one
<1>7. SetToSeq(removed) \in Seq(removed)
  BY <1>5, Listed
<1>8. SetToSeq(removed) \in Seq(S)
  BY <1>7, SeqMonotonic
<1>9. added \in Seq(S)
  <2>1. <<>> \in Seq(S) /\ <<one>> \in Seq(S)
    OBVIOUS
  <2> HIDE DEF S
  <2> QED  BY <2>1
<1>10. SetToSeq(removed) \o added \in Seq(S)
  BY <1>8, <1>9, ConcatProperties
<1> QED  BY <1>4, <1>6, <1>10

LEMMA SocialMediaStep ==
  ASSUME AppOK, NEW d \in Device, SocialMedia(d)
  PROVE  LogStep /\ StoresStep
<1> DEFINE st == store[d]
<1>1. CASE PostChirp(d, None)
  <2> DEFINE m == AddChirpMessage(st, None)
  <2>1. m.kind \in Free
    BY DEF AddChirpMessage, Free, RegisteredKind
  <2>2. Say(d, "chirp", m)
    BY <1>1 DEF PostChirp
  <2> HIDE DEF m
  <2> QED  BY <2>1, <2>2, SaidFreely
<1>2. ASSUME NEW chirp \in Logged("chirp_add"), RetractChirp(d, chirp)
      PROVE  LogStep /\ StoresStep
  <2> DEFINE m == DeleteChirpMessage(st, chirp)
  <2>1. m.kind = "chirp_delete" /\ m.chirp = chirp
    BY DEF DeleteChirpMessage
  <2>2. Say(d, "chirp", m)
    BY <1>2 DEF RetractChirp
  <2> HIDE DEF m
  <2> QED  BY <2>1, <2>2, SaidAcceptably DEF RegisteredKind
<1>3. ASSUME NEW chirp, NEW codepoint, React(d, chirp, codepoint) PROVE LogStep /\ StoresStep
  <2>1. log' = log \o ReactionPressed(st, chirp, codepoint) /\ UNCHANGED store
    BY <1>3 DEF React
  <2>2. PICK S : ReactionPressed(st, chirp, codepoint) \in Seq(S) /\ \A m \in S : m.kind \in Free
    BY ReactionsSent
  <2> DEFINE new == ReactionPressed(st, chirp, codepoint)
  <2>3. new \in Seq(S) /\ log' = log \o new
    BY <2>1, <2>2
  <2> HIDE DEF new
  <2>4. Grown(log, log \o new) /\ Ordered(log \o new)
    BY <2>2, <2>3, FreeAppended DEF AppOK
  <2> QED  BY <2>1, <2>3, <2>4, Idle DEF LogStep
<1> QED  BY <1>1, <1>2, <1>3 DEF SocialMedia

LEMMA DigitalCashStep ==
  ASSUME AppOK, NEW d \in Device, DigitalCash(d)
  PROVE  LogStep /\ StoresStep
<1> DEFINE st == store[d]
<1>1. \E tx : Say(d, "coins", PostTransaction(st, tx))
  BY DEF DigitalCash, IssueCoins, SendCoins, RequestCoinbaseTransaction, RequestSendTransaction
<1>2. PICK tx : Say(d, "coins", PostTransaction(st, tx))
  BY <1>1
<1> DEFINE m == PostTransaction(st, tx)
<1>3. m.kind = "post_transaction" /\ Say(d, "coins", m)
  BY <1>2 DEF PostTransaction
<1> HIDE DEF m
<1> QED  BY <1>3, SaidAcceptably DEF RegisteredKind

LEMMA OrganizationsStep ==
  ASSUME AppOK, NEW d \in Device, Organizations(d)
  PROVE  LogStep /\ StoresStep
<1> DEFINE st == store[d]
<1>0. DeviceOK(log, st)
  BY DEF AppOK
<1>1. CASE AskChallenge(d)
  <2> DEFINE m == RequestChallenge(st)
  <2>1. m.kind \in Free
    BY DEF RequestChallenge, Free, RegisteredKind
  <2>2. Say(d, "federation", m)
    BY <1>1 DEF AskChallenge
  <2> HIDE DEF m
  <2> QED  BY <2>1, <2>2, SaidFreely
<1>2. CASE StartFederation(d)
  <2> DEFINE org == Last(ScannedOf(st, st.current))
             m == InitFederation(st, org)
  <2>1. Say(d, "federation", m) /\ org.challenge # None
    BY <1>2 DEF StartFederation
  <2> HIDE DEF org
  <2>2. Acceptable(m)
    BY <2>1 DEF InitFederation, Acceptable, RegisteredKind
  <2> HIDE DEF m
  <2> QED  BY <2>1, <2>2, Accepted, Idle DEF Say, Publish
<1>3. CASE LinkScanned(d)
  <2>1. Update(d, LinkOrganizations(st)) /\ UNCHANGED log
    BY <1>3 DEF LinkScanned
  <2>2. Moved(st, LinkOrganizations(st))
    BY <1>0, Linked DEF AppOK
  <2> QED  BY <2>1, <2>2, UpdatedBy, Idle
<1>4. ASSUME NEW other, ScanInitiator(d, other) PROVE LogStep /\ StoresStep
  <2> DEFINE code == InitiatorCode(store[other])
             m == ExpectFederation(st, code)
             u == OnFederationExpect(st, code).st
  <2>1. Update(d, u) /\ ((log' = Append(log, m) /\ ServerAccepts(m)) \/ UNCHANGED log)
    BY <1>4 DEF ScanInitiator, Publish
  <2>2. m.kind = "federation_expect"
    BY DEF ExpectFederation
  <2>3. Moved(st, u)
    BY <1>0, CodesScanned
  <2> HIDE DEF m, u
  <2>4. ServerAccepts(m) => Acceptable(m)
    BY <2>2 DEF Acceptable, RegisteredKind
  <2> QED  BY <2>1, <2>3, <2>4, UpdatedBy, Accepted, Idle
<1>5. ASSUME NEW other \in Device, ScanResponder(d, other) \/ EnterResponder(d, other)
      PROVE  LogStep /\ StoresStep
  <2>1. PICK code \in ResponderCodes(store[other]) \cup {InitiatorCode(store[other])} :
          Become(d, "federation", OnInitiatorScan(st, code).st)
    BY <1>5 DEF ScanResponder, EnterResponder
  <2>2. Moved(st, OnInitiatorScan(st, code).st)
    <3>1. LinksOK(log, store[other])
      BY DEF AppOK, DeviceOK, StoreOK, Core
    <3>2. FromCode(log, st.current, code)
      BY <2>1, <3>1, CodesShown
    <3> QED  BY <1>0, <3>2, CodesScanned
  <2> QED  BY <2>1, <2>2, MoveMade
<1> QED  BY <1>1, <1>2, <1>3, <1>4, <1>5 DEF Organizations

LEMMA OthersStep ==
  ASSUME AppOK, NEW d \in Device, Others(d)
  PROVE  LogStep /\ StoresStep
<1> DEFINE st == store[d]
<1>0. DeviceOK(log, st)
  BY DEF AppOK
<1>1. ASSUME NEW start, NEW end, CreateMeeting(d, start, end) PROVE LogStep /\ StoresStep
  <2> DEFINE m == CreateMeetingMessage(st, start, end, NextId)
  <2>1. m.kind \in Free
    BY DEF CreateMeetingMessage, Free, RegisteredKind
  <2>2. Say(d, "meeting", m)
    BY <1>1 DEF CreateMeeting
  <2> HIDE DEF m
  <2> QED  BY <2>1, <2>2, SaidFreely
<1>2. CASE Clear(d)
  <2>1. Become(d, "notification", ClearNotifications(st)) /\ ShownNotifications(st) # {}
    BY <1>2 DEF Clear
  <2>2. Moved(st, ClearNotifications(st))
    BY <1>0, <2>1, NotificationsUsed
  <2> QED  BY <2>1, <2>2, MoveMade
<1>3. ASSUME NEW n \in ShownNotifications(st), Witness(d, n) \/ Decline(d, n)
      PROVE  LogStep /\ StoresStep
  <2>1. \/ Become(d, "notification", OnWitness(st, n)) \/ Become(d, "notification", OnDecline(st, n))
    BY <1>3 DEF Witness, Decline
  <2>2. Moved(st, OnWitness(st, n)) /\ Moved(st, OnDecline(st, n))
    BY <1>0, NotificationsUsed
  <2> QED  BY <2>1, <2>2, MoveMade
<1>4. ASSUME NEW code, Authenticate(d, code) PROVE LogStep /\ StoresStep
  <2> DEFINE m == PopchaAuthMessage(st, code)
  <2>1. m.kind \in Free
    BY DEF PopchaAuthMessage, Free, RegisteredKind
  <2>2. Say(d, "popcha", m)
    BY <1>4 DEF Authenticate
  <2> HIDE DEF m
  <2> QED  BY <2>1, <2>2, SaidFreely
<1> QED  BY <1>1, <1>2, <1>3, <1>4 DEF Others

\* Of what the servers send, only challenges and results are about others.
LEMMA BroadcastFreely ==
  ASSUME AppOK, NEW m, m.kind \in Free, Broadcast(m)
  PROVE  LogStep /\ StoresStep
BY AcceptedFreely, Idle DEF Broadcast

\* When the two servers have met, both may tell their organizers.
LEMMA ResultsAppended ==
  ASSUME Ordered(log), NEW init \in DOMAIN log, NEW expect \in DOMAIN log,
         Matches(log, init, expect), NEW S, NEW new \in Seq(S),
         \A m \in S : m.kind = "federation_result" /\ m.challenge = log[init].challenge
  PROVE  \A i \in 1 .. Len(new) : MessageOK(log \o new, Len(log) + i)
<1> DEFINE n == Len(log)
           longer == log \o new
           T == ToSet(log) \cup S
<1> SUFFICES ASSUME NEW i \in 1 .. Len(new) PROVE MessageOK(longer, n + i)
  OBVIOUS
<1>1. log \in Seq(T) /\ new \in Seq(T) /\ n \in Nat /\ DOMAIN log = 1 .. n /\ Len(new) \in Nat
  BY SeqMonotonic DEF Ordered, LogOK
<1>2. \A k \in 1 .. n + Len(new) : longer[k] = IF k <= n THEN log[k] ELSE new[k - n]
  BY <1>1, ConcatProperties
<1> HIDE DEF n, longer, T
<1>3. longer[n + i] = new[i] /\ \A k \in 1 .. n : longer[k] = log[k]
  <2>1. n + i \in 1 .. n + Len(new) /\ ~(n + i <= n) /\ (n + i) - n = i
    BY <1>1
  <2>2. \A k \in 1 .. n : k \in 1 .. n + Len(new) /\ k <= n
    BY <1>1
  <2> QED  BY <1>2, <2>1, <2>2
<1>4. longer[n + i].kind = "federation_result" /\ longer[n + i].challenge = log[init].challenge
  <2>1. new[i] \in S
    OBVIOUS
  <2> QED  BY <1>3, <2>1
<1>5. init \in 1 .. (n + i) - 1 /\ expect \in 1 .. (n + i) - 1
  BY <1>1
<1>6. longer[init] = log[init] /\ longer[expect] = log[expect]
  BY <1>1, <1>3
<1>7. Matches(longer, init, expect) /\ longer[init].challenge = longer[n + i].challenge
  BY <1>4, <1>6 DEF Matches
<1> QED  BY <1>4, <1>5, <1>7 DEF MessageOK

LEMMA ServersStep ==
  ASSUME AppOK, Servers
  PROVE  LogStep /\ StoresStep
<1> SUFFICES ASSUME NEW a \in Address,
                    \/ \E l \in Logged("lao_create") : Greeting(l, a)
                    \/ \E e \in Logged("election_setup") : GiveElectionKey(e, a) \/ CountVotes(e, a)
                    \/ \E id \in Logged("challenge_request") : GiveChallenge(id, a)
                    \/ \E init \in Logged("federation_init") : Federate(init, a) \/ Mismatch(init, a)
                    \/ \E id \in Logged("meeting_create") : MeetingState(id, a)
             PROVE  LogStep /\ StoresStep
  BY DEF Servers
<1>1. ASSUME NEW l, Greeting(l, a) PROVE LogStep /\ StoresStep
  <2>1. PICK m : m.kind = "lao_greet" /\ Broadcast(m)
    BY <1>1 DEF Greeting
  <2> QED  BY <2>1, BroadcastFreely DEF Free, RegisteredKind
<1>2. ASSUME NEW e, GiveElectionKey(e, a) PROVE LogStep /\ StoresStep
  <2>1. PICK m : m.kind = "election_key" /\ Broadcast(m)
    BY <1>2 DEF GiveElectionKey
  <2> QED  BY <2>1, BroadcastFreely DEF Free, RegisteredKind
<1>3. ASSUME NEW e, CountVotes(e, a) PROVE LogStep /\ StoresStep
  <2>1. PICK m : m.kind = "election_result" /\ Broadcast(m)
    BY <1>3 DEF CountVotes
  <2> QED  BY <2>1, BroadcastFreely DEF Free, RegisteredKind
<1>4. ASSUME NEW id \in Logged("challenge_request"), GiveChallenge(id, a) PROVE LogStep /\ StoresStep
  <2> DEFINE m == ChallengeFor(id, log[id].chan, a)
  <2>1. Broadcast(m)
    BY <1>4 DEF GiveChallenge
  <2>2. /\ m.kind = "challenge" /\ m.chan = log[id].chan /\ m.challenge = <<"challenge", id>>
    BY DEF ChallengeFor
  <2> HIDE DEF m
  <2>3. Acceptable(m)
    BY <2>2 DEF Acceptable, RegisteredKind
  <2> QED  BY <2>1, <2>3, Accepted, Idle DEF Broadcast
<1>5. ASSUME NEW init \in DOMAIN log, Federate(init, a) PROVE LogStep /\ StoresStep
  <2> DEFINE c == log[init].challenge
             expecting == {e \in Logged("federation_expect") : Matches(log, init, e)}
             to == log[Max(expecting)]
             r1 == FederationResult(log[init].lao, c, to.key, a)
             r2 == FederationResult(to.lao, c, to.key, a)
             S == {r1, r2}
  <2>1. /\ r1.kind = "federation_result" /\ r1.challenge = c
        /\ r2.kind = "federation_result" /\ r2.challenge = c
    BY DEF FederationResult
  <2>2. /\ UNCHANGED store /\ expecting # {}
        /\ log' \in {log \o <<r1>>, log \o <<r1, r2>>}
    BY <1>5 DEF Federate
  <2>3. PICK expect \in DOMAIN log : Matches(log, init, expect)
    BY <2>2 DEF Logged
  <2> HIDE DEF expecting, to, r1, r2
  <2>4. PICK new \in Seq(S) : log' = log \o new
    <3>1. r1 \in S /\ r2 \in S
      OBVIOUS
    <3> HIDE DEF S
    <3>2. <<r1>> \in Seq(S) /\ <<r1, r2>> \in Seq(S)
      BY <3>1
    <3> QED  BY <2>2, <3>2
  <2>5. \A m \in S : m.kind = "federation_result" /\ m.challenge = c
    BY <2>1
  <2>6. \A i \in 1 .. Len(new) : new[i].kind \in RegisteredKind
    BY <2>5 DEF RegisteredKind
  <2> HIDE DEF S, c
  <2>7. Ordered(log)
    BY DEF AppOK
  <2>8. \A i \in 1 .. Len(new) : MessageOK(log \o new, Len(log) + i)
    BY <2>3, <2>5, <2>7, ResultsAppended DEF c
  <2>9. Grown(log, log \o new) /\ Ordered(log \o new)
    BY <2>6, <2>7, <2>8, LogGrows
  <2> QED  BY <2>2, <2>4, <2>9, Idle DEF LogStep
<1>7. ASSUME NEW init, Mismatch(init, a) PROVE LogStep /\ StoresStep
  <2>1. PICK m : m.kind = "federation_result" /\ m.key = None /\ Broadcast(m)
    BY <1>7 DEF Mismatch, FederationResult
  <2>2. Acceptable(m)
    BY <2>1 DEF Acceptable, RegisteredKind
  <2> QED  BY <2>1, <2>2, Accepted, Idle DEF Broadcast
<1>6. ASSUME NEW id, MeetingState(id, a) PROVE LogStep /\ StoresStep
  <2>1. PICK m : m.kind = "meeting_state" /\ Broadcast(m)
    BY <1>6 DEF MeetingState
  <2> QED  BY <2>1, BroadcastFreely DEF Free, RegisteredKind
<1> QED  BY <1>1, <1>2, <1>3, <1>4, <1>5, <1>6, <1>7 DEF Logged

\* Every step keeps the parts.
LEMMA AppStep ==
  ASSUME AppOK, [Next]_vars
  PROVE  LogStep /\ StoresStep
<1>1. CASE UNCHANGED vars
  BY <1>1, Idle DEF vars
<1>2. CASE Servers
  BY <1>2, ServersStep
<1>3. ASSUME NEW d \in Device, Use(d) PROVE LogStep /\ StoresStep
  BY <1>3, MessageReceived, TaskRun, SessionStep, RollCallsStep, ElectionsStep, SocialMediaStep,
    DigitalCashStep, OrganizationsStep, OthersStep DEF Use
<1> QED  BY <1>1, <1>2, <1>3 DEF Next

\* A device that is right for a log is right for a longer one.
LEMMA DeviceGrows ==
  ASSUME NEW lg, NEW longer, Ordered(lg), Grown(lg, longer), NEW st, DeviceOK(lg, st)
  PROVE  DeviceOK(longer, st)
BY StoreGrows DEF DeviceOK

\* So a step keeps the whole.
LEMMA AppKept ==
  ASSUME AppOK, LogStep, StoresStep
  PROVE  AppOK'
<1>1. Ordered(log')
  BY DEF AppOK, LogStep
<1>2. ASSUME NEW d \in Device PROVE DeviceOK(log', store'[d])
  <2>1. DeviceOK(log, store'[d]) /\ Ordered(log)
    BY DEF AppOK, StoresStep
  <2> QED  BY <2>1, DeviceGrows DEF LogStep
<1> QED  BY <1>1, <1>2 DEF AppOK, StoresStep

\* A scenario begins with a log the servers accept, and stores that handled
\* some of its messages.
LEMMA AppStarts ==
  ASSUME Init
  PROVE  AppOK
<1>1. PICK scenario \in Scenarios, a \in Address :
        log = scenario.log /\ store = [d \in Device |-> Started(d, scenario, a)]
  BY DEF Init
<1>2. LogOK(log) /\ \A d \in Device : AtKey(scenario.received, d, <<>>) \in Seq(DOMAIN log)
  BY <1>1, ScenariosAssumption
<1>3. Ordered(log)
  BY <1>2 DEF LogOK, Ordered
<1>4. ASSUME NEW d \in Device PROVE DeviceOK(log, Started(d, scenario, a))
  <2> DEFINE received == AtKey(scenario.received, d, <<>>)
             n == Len(received)
             blank == InitialStore(d)
             scanned == IF d \in DOMAIN scenario.lao
                        THEN ConnectToLao(SetWallet(blank, Seed(d, 1)), scenario.lao[d]) ELSE blank
             loop == [of |-> "start", received |-> received, address |-> a]
             Body(g) == [k \in 0 .. n |-> IF k = 0 THEN scanned
                           ELSE Watchers(Tasks(Receive(g[k - 1], received[k], {}, a)))]
             after == CHOOSE g : g = Body(g)
  <2>1. received \in Seq(DOMAIN log)
    BY <1>2
  <2>2. n \in Nat /\ \A k \in 1 .. n : received[k] \in DOMAIN log
    BY <2>1
  <2>3. DeviceOK(log, scanned)
    <3>1. DeviceOK(log, blank) /\ Moved(blank, blank)
      BY Emptied, NotMoved
    <3> HIDE DEF blank
    <3>2. Moved(blank, SetWallet(blank, Seed(d, 1)))
      BY <3>1, SessionMoves
    <3>3. Moved(blank, ConnectToLao(SetWallet(blank, Seed(d, 1)), scenario.lao[d]))
      BY <3>2, SessionMoves
    <3> QED  BY <3>1, <3>3, DeviceMoved
  <2>4. Started(d, scenario, a) = after[n]
    BY DEF Started, Repeat
  <2> HIDE DEF received, n
  <2>5. \A s, k : LoopStep(loop, s, k) = Watchers(Tasks(Receive(s, received[k], {}, a)))
    BY DEF LoopStep
  <2> HIDE DEF loop, scanned
  <2>6. \A g : IsLoop(g, loop, scanned, n) <=> g = Body(g)
    BY <2>5 DEF IsLoop
  <2>7. IsLoop(after, loop, scanned, n)
    <3>1. \E g : g = Body(g)
      BY <2>2, <2>6, LoopExists
    <3> HIDE DEF Body
    <3> QED  BY <2>6, <3>1
  <2> HIDE DEF after
  <2> DEFINE Q == {k \in 0 .. n : DeviceOK(log, after[k])}
  <2>8. /\ after[0] = scanned
        /\ \A k \in 0 .. n - 1 :
             after[k + 1] = Watchers(Tasks(Receive(after[k], received[k + 1], {}, a)))
    BY <2>2, <2>5, <2>7, LoopFacts
  <2>9. 0 \in Q
    BY <2>2, <2>3, <2>8
  <2>10. ASSUME NEW k \in 0 .. n - 1, k \in Q PROVE k + 1 \in Q
    <3> DEFINE s == after[k]
               t == Receive(s, received[k + 1], {}, a)
               u == Tasks(t)
    <3>1. DeviceOK(log, s) /\ k + 1 \in 0 .. n /\ received[k + 1] \in DOMAIN log
      BY <2>2, <2>10
    <3> HIDE DEF s
    <3>2. DeviceOK(log, t)
      BY <1>3, <3>1, Received
    <3> HIDE DEF t
    <3>3. DeviceOK(log, u)
      BY <3>2, TasksDone, DeviceMoved
    <3> HIDE DEF u
    <3>4. DeviceOK(log, Watchers(u))
      BY <1>3, <3>3, WatchersMoved, DeviceMoved DEF Ordered
    <3>5. after[k + 1] = Watchers(u)
      BY <2>8 DEF s, t, u
    <3> QED  BY <3>1, <3>4, <3>5
  <2>11. n \in Q
    <3> HIDE DEF Q
    <3> QED  BY <2>2, <2>9, <2>10, LoopKeeps
  <2> QED  BY <2>4, <2>11
<1> QED  BY <1>1, <1>3, <1>4 DEF AppOK

-----------------------------------------------------------------------------
(* The theorems                                                              *)

\* The invariant holds of every behaviour.
THEOREM AppIsOK == Spec => []AppOK
<1>1. Init => AppOK
  BY AppStarts
<1>2. AppOK /\ [Next]_vars => AppOK'
  BY AppStep, AppKept
<1> QED  BY <1>1, <1>2, PTL DEF Spec

\* StoresOK: whatever comes twice, out of order or around a restart, stores
\* hold only what was accepted, and events exactly for the roll calls,
\* elections and meetings that are there (Fe1Ingestion, the reducers of
\* events).
THEOREM StoresAreOK == Spec => []StoresOK
<1>1. AppOK => StoresOK
  <2> SUFFICES ASSUME AppOK, NEW d \in Device
               PROVE  LET st == store[d]
                      IN /\ st.byId \subseteq DOMAIN log /\ DOMAIN st.signatures = st.byId
                         /\ ToSet(st.unprocessed) \subseteq st.byId
                         /\ st.current \in DOMAIN st.laos \cup {None}
                         /\ DOMAIN st.events = DOMAIN st.rollCalls \cup DOMAIN st.elections
                                                 \cup DOMAIN st.meetings
                         /\ \A r \in DOMAIN st.rollCalls :
                              /\ st.rollCalls[r].status \in RollCallStatus
                              /\ WellFormedRollCall(st.rollCalls[r])
                         /\ \A e \in DOMAIN st.elections : st.elections[e].status \in ElectionStatus
    BY DEF StoresOK
  <2> DEFINE st == store[d]
             done == Processed(st)
  <2>1. MsgsOK(log, st) /\ SessionOK(st)
    BY DEF AppOK, DeviceOK, StoreOK
  <2>2. EventsOK(log, st, done) /\ VotesOK(log, st, done) /\ RollCallsOK(log, st, done)
    BY DEF AppOK, DeviceOK, StoreOK, Core
  <2> HIDE DEF st, done
  <2>3. ToSet(st.unprocessed) \subseteq st.byId
    BY <2>1 DEF MsgsOK, ToSet
  <2>4. /\ st.byId \subseteq DOMAIN log /\ DOMAIN st.signatures = st.byId
        /\ st.current \in DOMAIN st.laos \cup {None}
    BY <2>1 DEF MsgsOK, SessionOK
  <2>5. DOMAIN st.events = DOMAIN st.rollCalls \cup DOMAIN st.elections \cup DOMAIN st.meetings
    BY <2>2 DEF EventsOK
  <2>6. \A r \in DOMAIN st.rollCalls :
          st.rollCalls[r].status \in RollCallStatus /\ WellFormedRollCall(st.rollCalls[r])
    BY <2>2 DEF RollCallsOK, RollCallOK
  <2>7. \A e \in DOMAIN st.elections : st.elections[e].status \in ElectionStatus
    BY <2>2 DEF VotesOK, ElectionOK
  <2> QED  BY <2>3, <2>4, <2>5, <2>6, <2>7 DEF st
<1> QED  BY <1>1, AppIsOK, PTL

\* AliasesNameRollCalls: the index by which messages find their roll calls is
\* exact after every update (RollCallReducer).
THEOREM AliasesAreRight == Spec => []AliasesNameRollCalls
<1>1. AppOK => AliasesNameRollCalls
  <2> SUFFICES ASSUME AppOK, NEW d \in Device
               PROVE  store[d].byAlias =
                        [x \in {store[d].rollCalls[r].alias : r \in DOMAIN store[d].rollCalls} \ {None} |->
                           CHOOSE r \in DOMAIN store[d].rollCalls : store[d].rollCalls[r].alias = x]
    BY DEF AliasesNameRollCalls
  <2> DEFINE rollCalls == store[d].rollCalls
             byAlias == store[d].byAlias
             aliases == {rollCalls[r].alias : r \in DOMAIN rollCalls} \ {None}
  <2>1. AliasesOK(rollCalls, byAlias)
    BY DEF AppOK, DeviceOK, StoreOK, Core, RollCallsOK
  <2> HIDE DEF rollCalls, byAlias
  <2>2. /\ byAlias = [x \in aliases |-> byAlias[x]]
        /\ \A r \in DOMAIN rollCalls : rollCalls[r].alias # None => byAlias[rollCalls[r].alias] = r
    BY <2>1 DEF AliasesOK
  <2>3. ASSUME NEW x \in aliases
        PROVE  byAlias[x] = CHOOSE r \in DOMAIN rollCalls : rollCalls[r].alias = x
    <3>1. PICK r \in DOMAIN rollCalls : rollCalls[r].alias = x
      OBVIOUS
    <3>2. x # None /\ \A q \in DOMAIN rollCalls : rollCalls[q].alias = x => q = byAlias[x]
      BY <2>2
    <3> QED  BY <3>1, <3>2
  <2>4. byAlias = [x \in aliases |-> CHOOSE r \in DOMAIN rollCalls : rollCalls[r].alias = x]
    <3> HIDE DEF aliases
    <3> QED  BY <2>2, <2>3
  <2> QED  BY <2>4 DEF rollCalls, byAlias
<1> QED  BY <1>1, AppIsOK, PTL

\* RollCallsAreAsSaid: messages about roll calls that come in the
\* wrong order, or are handled again, never give a roll call a status or
\* attendees its chain does not (the handlers of roll calls).
THEOREM RollCallsAreWhatWasSaid == Spec => []RollCallsAreAsSaid
<1>1. AppOK => RollCallsAreAsSaid
  <2> SUFFICES ASSUME AppOK, NEW d \in Device
               PROVE  LET st == store[d]
                      IN /\ \A id \in Processed(st) : Names(log[id]) # None => Names(log[id]) \in Processed(st)
                         /\ \A r \in DOMAIN st.rollCalls :
                              LET rc == st.rollCalls[r]
                                  x == rc.alias
                                  about == {id \in Processed(st) : RollCallNamed(log, id) = r}
                              IN IF x = None
                                 THEN about = {r} /\ rc.status = "created" /\ rc.attendees = {}
                                 ELSE /\ x \in about
                                      /\ rc.status = StatusAfter(log[x].kind)
                                      /\ rc.status = "closed" => rc.attendees = log[x].attendees
                                      /\ rc.status = "reopened" => rc.attendees = log[log[x].opens].attendees
    BY DEF RollCallsAreAsSaid
  <2> DEFINE st == store[d]
  <2>1. RollCallsOK(log, st, Processed(st))
    BY DEF AppOK, DeviceOK, StoreOK, Core
  <2> HIDE DEF st
  <2> QED  BY <2>1 DEF RollCallsOK, NamesOK, RollCallOK, About, st
<1> QED  BY <1>1, AppIsOK, PTL

\* LatestVoteIsRegistered: in whatever order the votes of a voter come, the
\* latest is registered (ElectionHandler).
THEOREM LatestVotesAreRegistered == Spec => []LatestVoteIsRegistered
<1>1. AppOK => LatestVoteIsRegistered
  <2>1. ASSUME AppOK, NEW d \in Device PROVE VotesOK(log, store[d], Processed(store[d]))
    BY <2>1 DEF AppOK, DeviceOK, StoreOK, Core
  <2> QED  BY <2>1 DEF LatestVoteIsRegistered, VotesOK, ElectionOK, Cast
<1> QED  BY <1>1, AppIsOK, PTL

\* The reactions of a kind, and who gave them.
GivenOf(reactions, mine, kind) == {s \in mine : reactions[s].codepoint = kind}
SendersOf(reactions, given) == {reactions[r].sender : r \in given}

\* Who gave them are as many, if nobody gave two.
LEMMA CountedOnce ==
  ASSUME NEW reactions, NEW mine, NEW kind, IsFiniteSet(mine),
         \A r, s \in mine :
           reactions[r].sender = reactions[s].sender /\ reactions[r].codepoint = reactions[s].codepoint => r = s
  PROVE  LET given == GivenOf(reactions, mine, kind)
         IN  Cardinality(given) = Cardinality(SendersOf(reactions, given))
<1> DEFINE given == GivenOf(reactions, mine, kind)
           senders == SendersOf(reactions, given)
           f == [r \in given |-> reactions[r].sender]
<1>1. IsFiniteSet(given)
  BY FS_Subset DEF GivenOf
<1>2. f \in Bijection(given, senders)
  BY DEF Bijection, Injection, IsInjective, Surjection, GivenOf, SendersOf
<1>3. ExistsBijection(given, senders)
  BY <1>2 DEF ExistsBijection
<1>4. Cardinality(senders) = Cardinality(given)
  <2> HIDE DEF given, senders
  <2> QED  BY <1>1, <1>3, FS_Bijection
<1> QED  BY <1>4

\* ReactionsCountOnce: what is counted for a chirp is the number of those who
\* reacted so, however often they pressed (SocialReducer).
THEOREM ReactionsAreCountedOnce == Spec => []ReactionsCountOnce
<1>1. AppOK => ReactionsCountOnce
  <2> SUFFICES ASSUME AppOK, NEW d \in Device, NEW l \in DOMAIN store[d].social,
                      NEW c \in DOMAIN SocialOf(store[d], l).reactionsOf
               PROVE  LET st == store[d]
                          social == SocialOf(st, l)
                          senders(kind) == {social.reactions[r].sender : r \in
                            {s \in social.reactionsOf[c] : social.reactions[s].codepoint = kind}}
                      IN /\ social.reactionsOf[c] \subseteq DOMAIN social.reactions
                         /\ \A kind \in Codepoint : ReactionCount(st, l, c, kind) = Cardinality(senders(kind))
    BY DEF ReactionsCountOnce
  <2> DEFINE st == store[d]
             social == SocialOf(st, l)
             mine == social.reactionsOf[c]
             reactions == social.reactions
  <2>1. ReactionsOK(log, social)
    BY DEF AppOK, DeviceOK, StoreOK, Core, SocialOK, LaoSocialOK, SocialOf
  <2>2. c \in DOMAIN social.reactionsOf
    OBVIOUS
  <2>3. \A kind : ReactionCount(st, l, c, kind)
                    = Cardinality({r \in mine : reactions[r].codepoint = kind})
    BY DEF ReactionCount, ReactionsOf
  <2> HIDE DEF st, social
  <2>4. /\ mine \subseteq DOMAIN reactions /\ IsFiniteSet(mine)
        /\ \A r \in mine : reactions[r] = Reaction(r, log[r])
        /\ \A r, s \in mine :
             log[r].sender = log[s].sender /\ log[r].codepoint = log[s].codepoint => r = s
    BY <2>1, <2>2 DEF ReactionsOK
  <2> HIDE DEF mine, reactions
  <2>5. \A r, s \in mine :
          reactions[r].sender = reactions[s].sender /\ reactions[r].codepoint = reactions[s].codepoint => r = s
    <3>1. ASSUME NEW r \in mine
          PROVE  reactions[r].sender = log[r].sender /\ reactions[r].codepoint = log[r].codepoint
      <4>1. reactions[r] = [sender |-> log[r].sender, codepoint |-> log[r].codepoint,
                            chirp |-> log[r].chirp]
        BY <2>4 DEF Reaction
      <4> QED  BY <4>1
    <3> QED  BY <2>4, <3>1
  <2>6. ASSUME NEW kind
        PROVE  LET given == GivenOf(reactions, mine, kind)
               IN  Cardinality(given) = Cardinality(SendersOf(reactions, given))
    BY <2>4, <2>5, CountedOnce
  <2> QED  BY <2>3, <2>4, <2>6 DEF GivenOf, SendersOf, st, social, mine, reactions
<1> QED  BY <1>1, AppIsOK, PTL

\* ChirpsNewestFirst: the lists have the chirps that were processed, from the
\* newest to the oldest, with the search the reducer does (SocialReducer).
THEOREM ChirpsAreNewestFirst == Spec => []ChirpsNewestFirst
<1>1. AppOK => ChirpsNewestFirst
  <2>1. ASSUME AppOK, NEW d \in Device PROVE SocialOK(log, store[d], Processed(store[d]))
    BY <2>1 DEF AppOK, DeviceOK, StoreOK, Core
  <2> SUFFICES ASSUME AppOK, NEW d \in Device
               PROVE  LET st == store[d]
                          listed(l) == ToSet(SocialOf(st, l).order)
                      IN /\ UNION {listed(l) : l \in DOMAIN st.social}
                              = {id \in Processed(st) : log[id].kind = "chirp_add"}
                         /\ \A l \in DOMAIN st.social :
                              LET social == SocialOf(st, l)
                              IN (\A c \in listed(l) : social.byId[c].time = c) =>
                                   /\ NewestFirst(social.order)
                                   /\ \A user \in DOMAIN social.byUser :
                                        /\ NewestFirst(social.byUser[user])
                                        /\ ToSet(social.byUser[user]) = {c \in listed(l) : log[c].sender = user}
    BY DEF ChirpsNewestFirst
  <2> DEFINE st == store[d]
  <2>2. SocialOK(log, st, Processed(st))
    BY <2>1
  <2> HIDE DEF st
  <2>3. \A l \in DOMAIN st.social : SocialOf(st, l) = st.social[l]
    BY DEF SocialOf
  <2>4. UNION {ToSet(SocialOf(st, l).order) : l \in DOMAIN st.social}
          = {id \in Processed(st) : log[id].kind = "chirp_add"}
    <3>1. {ToSet(SocialOf(st, l).order) : l \in DOMAIN st.social}
            = {ToSet(st.social[l].order) : l \in DOMAIN st.social}
      BY <2>3
    <3> QED  BY <2>2, <3>1 DEF SocialOK, OfKind
  <2>5. ASSUME NEW l \in DOMAIN st.social PROVE ChirpsOK(log, SocialOf(st, l))
    BY <2>2, <2>3 DEF SocialOK, LaoSocialOK
  <2> QED  BY <2>4, <2>5 DEF ChirpsOK, OnTime, st
<1> QED  BY <1>1, AppIsOK, PTL

\* DeletedChirpStaysDeleted: no step brings a chirp back that is marked as deleted by its
\* sender, not even its own message that comes later or is handled again; one that
\* another sender deleted before it came is brought back under the name of its sender
\* only, and the mark its sender then makes is not lifted (SocialReducer).
THEOREM DeletedChirpsStayDeleted == Spec => DeletedChirpStaysDeleted
<1> DEFINE Stays ==
      \A d \in Device : \A l \in DOMAIN store[d].social :
        LET old == SocialOf(store[d], l).byId
            new == SocialOf(store'[d], l).byId
        IN l \in DOMAIN store'[d].social =>
             \A c \in DOMAIN old : old[c].deleted =>
               /\ c \in DOMAIN new
               /\ \/ new[c].deleted
                  \/ old[c].sender # log[c].sender /\ new[c].sender = log[c].sender
<1>1. AppOK /\ [Next]_vars => Stays
  <2>1. ASSUME AppOK, [Next]_vars, NEW d \in Device PROVE Kept(store[d], store'[d])
    BY <2>1, AppStep DEF StoresStep
  <2> QED  BY <2>1 DEF Kept, SocialKept, StayDeleted, SocialOf
<1>2. AppOK /\ [Next]_vars => [Stays]_vars
  BY <1>1
<1> QED  BY <1>2, AppIsOK, PTL DEF DeletedChirpStaysDeleted, Spec

\* AskedOnce: however often messages are handled, LAOs are opened and
\* notifications read, discarded or cleared, a message to witness has one
\* notification, and the number of unread ones is right (the witness watcher
\* and reducers).
THEOREM MessagesAreAskedForOnce == Spec => []AskedOnce
<1>1. AppOK => AskedOnce
  <2> SUFFICES ASSUME AppOK, NEW d \in Device
               PROVE  LET st == store[d]
                          kept == UNION {{l} \X DOMAIN st.notifications[l].byId : l \in DOMAIN st.notifications}
                          about(p) == st.notifications[p[1]].byId[p[2]].message
                      IN /\ {about(p) : p \in kept} = st.toWitness
                         /\ \A p, q \in kept : about(p) = about(q) => p = q
                         /\ \A l \in DOMAIN st.notifications :
                              UnreadCount(st, l)
                                = Cardinality({p \in kept : p[1] = l /\ ~st.notifications[l].byId[p[2]].read})
    BY DEF AskedOnce
  <2> DEFINE st == store[d]
             kept == UNION {{l} \X DOMAIN st.notifications[l].byId : l \in DOMAIN st.notifications}
             about(p) == st.notifications[p[1]].byId[p[2]].message
             unread(l) == {p \in kept : p[1] = l /\ ~st.notifications[l].byId[p[2]].read}
  <2>1. AskedOK(st)
    BY DEF AppOK, DeviceOK
  <2> HIDE DEF st
  <2>2. \A p : p \in kept <=>
          \E l \in DOMAIN st.notifications : \E k \in DOMAIN st.notifications[l].byId : p = <<l, k>>
    OBVIOUS
  <2> HIDE DEF kept
  <2>3. {about(p) : p \in kept} = st.toWitness
    <3>1. ASSUME NEW p \in kept PROVE about(p) \in st.toWitness
      BY <2>1, <2>2 DEF AskedOK
    <3>2. ASSUME NEW x \in st.toWitness PROVE \E p \in kept : about(p) = x
      <4>1. PICK l \in DOMAIN st.notifications :
              \E k \in DOMAIN st.notifications[l].byId : st.notifications[l].byId[k].message = x
        BY <2>1 DEF AskedOK
      <4>2. PICK k \in DOMAIN st.notifications[l].byId : st.notifications[l].byId[k].message = x
        BY <4>1
      <4>3. <<l, k>> \in kept /\ about(<<l, k>>) = x
        BY <2>2, <4>2
      <4> QED  BY <4>3
    <3> HIDE DEF about
    <3> QED  BY <3>1, <3>2
  <2>4. \A p, q \in kept : about(p) = about(q) => p = q
    BY <2>1, <2>2 DEF AskedOK
  <2>5. ASSUME NEW l \in DOMAIN st.notifications
        PROVE  UnreadCount(st, l) = Cardinality(unread(l))
    <3> DEFINE notices == st.notifications[l]
               f == [k \in notices.unread |-> <<l, k>>]
    <3>1. NoticesOK(notices)
      BY <2>1 DEF AskedOK
    <3>2. IsFiniteSet(notices.unread)
      <4>1. notices.unread \subseteq 0 .. notices.next - 1 /\ notices.next - 1 \in Int
        BY <3>1 DEF NoticesOK
      <4>2. \A n \in Int : IsFiniteSet(0 .. n)
        BY FS_Interval
      <4> QED  BY <4>1, <4>2, FS_Subset
    <3>3. \A p : p \in unread(l) <=> \E k \in notices.unread : p = <<l, k>>
      BY <2>2, <3>1 DEF NoticesOK
    <3> HIDE DEF unread, notices
    <3>4. f \in Bijection(notices.unread, unread(l))
      BY <3>3 DEF Bijection, Injection, IsInjective, Surjection
    <3>5. ExistsBijection(notices.unread, unread(l))
      BY <3>4 DEF ExistsBijection
    <3>6. Cardinality(notices.unread) = Cardinality(unread(l))
      BY <3>2, <3>5, FS_Bijection
    <3> QED  BY <3>6 DEF UnreadCount, NotificationsOf, notices
  <2> QED  BY <2>3, <2>4, <2>5 DEF st, kept
<1> QED  BY <1>1, AppIsOK, PTL

\* OwnTransactionsAreValid: whatever transactions were posted, by whomever, in
\* whatever order and how often they were handled, what a wallet makes of the
\* balance it shows is accepted by every device that knows the same
\* transactions (the digital cash reducer, its selectors, and the wallet).
THEOREM OwnTransactionsAreChecked == Spec => []OwnTransactionsAreValid
<1>1. AppOK => OwnTransactionsAreValid
  <2> SUFFICES ASSUME AppOK, NEW d \in Device, NEW l \in DOMAIN store[d].cash,
                      NEW key \in DOMAIN CashOf(store[d], l).balances
               PROVE  LET st == store[d]
                          tx == CreateTransaction(st, l, key, key, Balance(st, l, key))
                      IN tx.inputs # <<>> =>
                           CheckTransactionValidity(tx, st.laos[l].organizer, TransactionsById(st, l))
    BY DEF OwnTransactionsAreValid
  <2> DEFINE st == store[d]
  <2>1. Solvent(st.cash[l])
    BY DEF AppOK, DeviceOK, StoreOK, Core, CashesOK, CashOK
  <2>2. key \in DOMAIN st.cash[l].balances
    BY DEF CashOf
  <2> QED  BY <2>1, <2>2, OwnTransactionChecked
<1> QED  BY <1>1, AppIsOK, PTL

\* LinkedByChallenge: whatever organizers scan, in whatever order, whichever of their
\* LAOs they have open, and whenever challenges and results come, a LAO is linked only
\* with a challenge of one of the two, with which a federation was expected there and
\* started by the organizer who was expected
\* (LinkedOrganizationsScreen, LinkedOrganizationsReducer and the federation
\* handlers).
THEOREM LinksRestOnChallenges == Spec => []LinkedByChallenge
<1>1. AppOK => LinkedByChallenge
  <2> SUFFICES ASSUME AppOK, NEW d \in Device, NEW l \in DOMAIN store[d].linked,
                      NEW org \in LinkedOf(store[d], l)
               PROVE  \E init, expect \in DOMAIN log :
                        /\ Matches(log, init, expect) /\ log[init].challenge = org.challenge
                        /\ LaoOf(log[expect]) \in {l, org.lao}
    BY DEF LinkedByChallenge
  <2>1. LinkedOK(log, store[d].linked)
    BY DEF AppOK, DeviceOK, StoreOK, Core, LinksOK
  <2>2. org \in store[d].linked[l]
    BY DEF LinkedOf, AtKey
  <2> QED  BY <2>1, <2>2 DEF LinkedOK, Agreed
<1> QED  BY <1>1, AppIsOK, PTL

=============================================================================
