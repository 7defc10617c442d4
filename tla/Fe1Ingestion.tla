---------------------------- MODULE Fe1Ingestion ----------------------------
(***************************************************************************)
(* Ingestion of messages in the store of a device                            *)
(* (src/core/network/ingestion and MessageRegistry of fe1-web).              *)
(*                                                                          *)
(* A message that was accepted is stored, and all that are not processed are *)
(* given to their handlers, in the order they came, whenever this list       *)
(* changes.  Marking one as processed changes it, so that the watcher is     *)
(* called again from within its own loop, and afterwards goes on with the    *)
(* list it started with: messages that were processed meanwhile are handled  *)
(* once more.                                                                *)
(***************************************************************************)
EXTENDS Fe1Meeting

\* What the constructor of each message asks for; the others ask for nothing that
\* who sends them could get wrong.
WellFormedData(m) ==
  /\ WellFormedLao(m)
  /\ m.kind = "election_setup" => WellFormedElection(m)
  /\ WellFormedPost(m)
  /\ WellFormedMeeting(m)
  /\ WellFormedState(m)

\* The key a message is signed with.
SignedWithToken == {"cast_vote", "chirp_add", "chirp_delete", "reaction_add",
                    "reaction_delete", "popcha_auth"}
SigningKey(st, kind) == IF kind \in SignedWithToken THEN CurrentPopToken(st) ELSE MyKey(st)

-----------------------------------------------------------------------------
(* The registry: one handler for each kind of message.  A LAO's update and    *)
(* state are not supported and taken as handled.                             *)

RegisteredKind ==
  {"lao_greet", "lao_update", "lao_state", "roll_call_create", "roll_call_open",
   "roll_call_close", "roll_call_reopen", "election_key", "election_setup", "election_open",
   "cast_vote", "election_end", "election_result", "chirp_add", "chirp_delete",
   "chirp_notify_add", "chirp_notify_delete", "reaction_add", "reaction_delete",
   "post_transaction", "challenge", "challenge_request", "federation_init",
   "federation_expect", "federation_result", "tokens_exchange", "meeting_create",
   "meeting_state", "witness", "popcha_auth"}

HandleMessage(st, id) ==
  LET m == log[id]
  IN CASE m.kind = "lao_greet" -> HandleLaoGreet(st, m, id)
       [] m.kind \in {"lao_update", "lao_state"} -> Handled(st)
       [] m.kind = "roll_call_create" -> HandleRollCallCreate(st, m, id)
       [] m.kind = "roll_call_open" -> HandleRollCallOpen(st, m, id)
       [] m.kind = "roll_call_close" -> HandleRollCallClose(st, m, id)
       [] m.kind = "roll_call_reopen" -> HandleRollCallReopen(st, m, id)
       [] m.kind = "election_key" -> HandleElectionKey(st, m, id)
       [] m.kind = "election_setup" -> HandleElectionSetup(st, m, id)
       [] m.kind = "election_open" -> HandleElectionOpen(st, m, id)
       [] m.kind = "cast_vote" -> HandleCastVote(st, m, id)
       [] m.kind = "election_end" -> HandleElectionEnd(st, m, id)
       [] m.kind = "election_result" -> HandleElectionResult(st, m, id)
       [] m.kind = "chirp_add" -> HandleAddChirp(st, m, id)
       [] m.kind = "chirp_delete" -> HandleDeleteChirp(st, m, id)
       [] m.kind = "chirp_notify_add" -> HandleNotifyAddChirp(st, m, id)
       [] m.kind = "chirp_notify_delete" -> HandleNotifyDeleteChirp(st, m, id)
       [] m.kind = "reaction_add" -> HandleAddReaction(st, m, id)
       [] m.kind = "reaction_delete" -> HandleDeleteReaction(st, m, id)
       [] m.kind = "post_transaction" -> HandleTransactionPost(st, m, id)
       [] m.kind = "challenge" -> HandleChallenge(st, m, id)
       [] m.kind = "challenge_request" -> HandleChallengeRequest(st, m, id)
       [] m.kind = "federation_init" -> HandleFederationInit(st, m, id)
       [] m.kind = "federation_expect" -> HandleFederationExpect(st, m, id)
       [] m.kind = "federation_result" -> HandleFederationResult(st, m, id)
       [] m.kind = "tokens_exchange" -> HandleTokensExchange(st, m, id)
       [] m.kind = "meeting_create" -> HandleMeetingCreate(st, m, id)
       [] m.kind = "meeting_state" -> HandleMeetingState(st, m, id)
       [] m.kind = "witness" -> HandleWitnessMessage(st, m, id)
       [] m.kind = "popcha_auth" -> HandlePopchaAuth(st, m, id)

-----------------------------------------------------------------------------
(* The reducer of messages *)

\* A message that is there stays as it came first, with the signatures of then.
AddMessages(st, id, signatures) ==
  IF id \in st.byId THEN st
  ELSE [st EXCEPT !.byId = @ \cup {id}, !.unprocessed = Append(@, id),
                  !.signatures = Put(@, id, signatures)]

\* The list has a message once.
ProcessMessages(st, id) == [st EXCEPT !.unprocessed = RemoveFirst(@, id)]

-----------------------------------------------------------------------------
(* The watcher.  A run is the store and what the loops that are under way     *)
(* have before them, the innermost first.  What a handler has changed before  *)
(* it fails stays changed.  When the list has changed, a loop over what is    *)
(* not processed comes first.                                                *)

HandleNext(run, k) ==
  LET id == Head(run.list)
      result == HandleMessage(run.st, id)
      processed == ProcessMessages(result.st, id)
      nested == IF processed.unprocessed = result.st.unprocessed THEN <<>>
                ELSE processed.unprocessed
  IN IF run.list = <<>> THEN run
     ELSE IF ~result.ok THEN [st |-> result.st, list |-> Tail(run.list)]
     ELSE [st |-> processed, list |-> nested \o Tail(run.list)]

\* With n messages in the list a run has at most n * (n + 1) / 2 steps.
Ingest(st) ==
  LET n == Len(st.unprocessed)
  IN Repeat((n * (n + 1)) \div 2, [st |-> st, list |-> st.unprocessed], HandleNext).st

-----------------------------------------------------------------------------
(* A message arrives from a server, by broadcast or in the answer to a       *)
(* catchup.  One that cannot be built is dropped; the creation of a LAO is    *)
(* handled at once and never stored.                                         *)

Receive(st, id, signatures, address) ==
  LET m == log[id]
      added == AddMessages(st, id, signatures)
  IN IF ~WellFormedData(m) THEN st
     ELSE IF m.kind = "lao_create" THEN HandleLaoCreate(st, m, id, address)
     ELSE IF added = st THEN st
     ELSE Ingest(added)

\* The other watchers, after any change of the store.
Watchers(st) == WitnessWatcher(GreetWatcher(st))
=============================================================================
