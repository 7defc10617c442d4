----------------------------- MODULE Fe1Election -----------------------------
(***************************************************************************)
(* Elections in the store of a device (src/features/evoting of fe1-web).     *)
(*                                                                          *)
(* The handlers ask neither who sent a message nor in which status the       *)
(* election is: the order in which messages arrive decides what is shown.    *)
(***************************************************************************)
EXTENDS Fe1Witness

-----------------------------------------------------------------------------
(* Elections, questions and votes *)

ElectionStatus == {"not started", "opened", "terminated", "result"}
ElectionVersion == {"open ballot", "secret ballot"}

NewElection(m) ==
  [lao |-> LaoOf(m), version |-> m.version, questions |-> m.questions,
   status |-> "not started", votes |-> NoFunction, result |-> None]

EventOfElection(e, election) ==
  [type |-> "election", lao |-> election.lao,
   end |-> IF election.status \in {"terminated", "result"} THEN e ELSE None]

RegisteredVote(m, id) == [message |-> id, at |-> m.at, votes |-> m.votes]

\* Mistake: the vote that came last replaces the one before.
RegisterVoteLastCome(votes, voter, vote) == Put(votes, voter, vote)

\* A vote replaces the one its sender has if that one is older.
RegisterVote(votes, voter, vote) ==
  IF voter \in DOMAIN votes /\ votes[voter].at >= vote.at THEN votes
  ELSE Put(votes, voter, vote)

\* A ballot chooses an option for some of the questions; of a secret ballot the
\* options are encrypted, and can be told apart by those with the key alone.
SelectedBallotsToVotes(ballot) == {<<q, ballot[q]>> : q \in DOMAIN ballot}
SelectedBallotsToEncryptedVotes(ballot, key) ==
  {<<q, <<"encrypted", key, ballot[q]>>>> : q \in DOMAIN ballot}

\* The hash of all vote ids, sorted: votes alike have the same id.
ComputeRegisteredVotesHash(election) ==
  LET voters == DOMAIN election.votes
      ids == UNION {election.votes[v].votes : v \in voters}
  IN [id \in ids |-> Cardinality({v \in voters : id \in election.votes[v].votes})]

-----------------------------------------------------------------------------
(* Reducers of elections and of their keys *)

AddElection(st, e, election) ==
  IF e \in DOMAIN st.elections THEN NotHandled(st)
  ELSE Handled([st EXCEPT !.elections = Put(@, e, election)])

UpdateElection(st, e, election) == [st EXCEPT !.elections[e] = election]

AddElectionKey(st, e, key) ==
  IF e \in DOMAIN st.electionKeys THEN NotHandled(st)
  ELSE Handled([st EXCEPT !.electionKeys = Put(@, e, key)])

KeyOfElection(st, e) == IF e \in DOMAIN st.electionKeys THEN st.electionKeys[e] ELSE None
AddElectionEvent(st, e, election) ==
  LET added == AddElection(st, e, election)
  IN IF added.ok THEN AddEvent(added.st, e, EventOfElection(e, election)) ELSE added

UpdateElectionEvent(st, e, election) ==
  UpdateEvent(UpdateElection(st, e, election), e, EventOfElection(e, election))

-----------------------------------------------------------------------------
(* Handlers *)

FromOrganizerBackend(st, m) ==
  OrganizerBackendKey(st, LaoOf(m)) # None /\ OrganizerBackendKey(st, LaoOf(m)) = m.sender

HandleElectionKey(st, m, id) ==
  IF FromOrganizerBackend(st, m) THEN AddElectionKey(st, m.election, m.key)
  ELSE NotHandled(st)

\* The subscription is on its way before the election is added.
HandleElectionSetup(st, m, id) ==
  AddElectionEvent(SubscribeToChannel(st, LaoOf(m), ElectionChannel(LaoOf(m), id)),
                   id, NewElection(m))

HandleElectionOpen(st, m, id) ==
  IF m.election \notin DOMAIN st.elections THEN NotHandled(st)
  ELSE UpdateElectionEvent(st, m.election,
                           [st.elections[m.election] EXCEPT !.status = "opened"])

HandleCastVote(st, m, id) ==
  IF m.election \notin DOMAIN st.elections THEN NotHandled(st)
  ELSE UpdateElectionEvent(st, m.election,
         [st.elections[m.election] EXCEPT
            !.votes = RegisterVote(@, m.sender, RegisteredVote(m, id))])

HandleElectionEnd(st, m, id) ==
  IF m.election \notin DOMAIN st.elections THEN NotHandled(st)
  ELSE UpdateElectionEvent(st, m.election,
                           [st.elections[m.election] EXCEPT !.status = "terminated"])

HandleElectionResult(st, m, id) ==
  LET e == LastPart(m.chan)
  IN IF ~FromOrganizerBackend(st, m) \/ e \notin DOMAIN st.elections THEN NotHandled(st)
     ELSE UpdateElectionEvent(st, e, [st.elections[e] EXCEPT
                                        !.result = m.questions, !.status = "result"])

-----------------------------------------------------------------------------
(* The form of a new election.  A text is empty, blank or a word; what is    *)
(* typed is trimmed, and what is empty then is dropped.                      *)

Blank == "blank"
Trim(text) == IF text = Blank THEN "" ELSE text
TrimmedOptions(q) == {Trim(q.options[i]) : i \in DOMAIN q.options} \ {""}
TrimmedQuestions(form) == {i \in DOMAIN form : Trim(form[i].question) # ""}

HasEnoughQuestions(form) == TrimmedQuestions(form) # {}
IsSilentlyRemoved(q) == q.question = Blank
HasInvalidBallotOptions(q) ==
  Len(q.options) > 0 /\ (Cardinality(TrimmedOptions(q)) # Len(q.options)
                           \/ Cardinality(TrimmedOptions(q)) < 2)
HaveUniqueQuestionTitles(form) ==
  \A i, j \in TrimmedQuestions(form) : form[i].question = form[j].question => i = j

ConfirmElection(form) ==
  /\ HasEnoughQuestions(form)
  /\ \A i \in DOMAIN form : ~IsSilentlyRemoved(form[i]) /\ ~HasInvalidBallotOptions(form[i])
  /\ HaveUniqueQuestionTitles(form)

QuestionsOf(form) ==
  [title \in {form[i].question : i \in TrimmedQuestions(form)} |->
     TrimmedOptions(form[CHOOSE i \in TrimmedQuestions(form) : form[i].question = title])]

\* What the message itself must be to be built, by the form or from JSON.
WellFormedElection(m) == m.version \in ElectionVersion /\ "" \notin DOMAIN m.questions

-----------------------------------------------------------------------------
(* What the screens offer, and the messages they send *)

ElectionScreen(st, e) ==
  IF e \in EventsOf(st, st.current, "election") THEN st.elections[e].status ELSE "none"

CanCreateElection(st, form) == OrganizerOnline(st) /\ ConfirmElection(form)
CanOpenElection(st, e) == OrganizerOnline(st) /\ ElectionScreen(st, e) = "not started"
CanTerminateElection(st, e) == OrganizerOnline(st) /\ ElectionScreen(st, e) = "opened"

\* The button of an attendee is there without a connection, too; a secret ballot
\* waits for the key of the election.
CanCastVote(st, e) ==
  /\ ElectionScreen(st, e) = "opened"
  /\ st.elections[e].version # "secret ballot" \/ KeyOfElection(st, e) # None
  /\ IsOrganizer(st) => ConnectedToLao(st)

\* One option of one question, the others left open.
Ballots(st, e) ==
  LET questions == st.elections[e].questions
  IN UNION {[{q} -> questions[q]] : q \in DOMAIN questions}

SetupElectionMessage(st, version, form) ==
  [kind |-> "election_setup", chan |-> LaoChannel(st.current), sender |-> MyKey(st),
   version |-> version, questions |-> QuestionsOf(form)]
OpenElectionMessage(st, e) ==
  [kind |-> "election_open", chan |-> ElectionChannel(st.current, e), sender |-> MyKey(st),
   election |-> e]
CastVoteMessage(st, e, ballot, now) ==
  [kind |-> "cast_vote", chan |-> ElectionChannel(st.current, e), sender |-> CurrentPopToken(st),
   election |-> e, at |-> now,
   votes |-> IF st.elections[e].version = "open ballot" THEN SelectedBallotsToVotes(ballot)
             ELSE SelectedBallotsToEncryptedVotes(ballot, KeyOfElection(st, e))]
EndElectionMessage(st, e) ==
  [kind |-> "election_end", chan |-> ElectionChannel(st.current, e), sender |-> MyKey(st),
   election |-> e, registered |-> ComputeRegisteredVotesHash(st.elections[e])]
=============================================================================
