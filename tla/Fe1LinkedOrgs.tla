---------------------------- MODULE Fe1LinkedOrgs ----------------------------
(***************************************************************************)
(* Linked organizations in the store of a device                             *)
(* (src/features/linked-organizations of fe1-web).                           *)
(*                                                                          *)
(* Two organizers show each other a code.  The one who answers puts the      *)
(* challenge its server gave it in its code and expects the federation; the  *)
(* other one starts it.  The servers tell both organizers the result, with   *)
(* the challenge, by which each finds the organization it has scanned.       *)
(***************************************************************************)
EXTENDS Fe1Cash

\* An organization as a code shows it: the LAO, and the key of its organizer.
LinkedOrganization(lao, key, challenge) == [lao |-> lao, key |-> key, challenge |-> challenge]
WellFormedCode(code) == code.lao # None

Result(challenge, key) == [challenge |-> challenge, key |-> key]

-----------------------------------------------------------------------------
(* Reducers.  For each LAO: the last challenge, the results to look at, one  *)
(* for a challenge, the organizations scanned, and those linked, whose ids    *)
(* may be known before.                                                      *)

SetChallenge(st, l, challenge) == [st EXCEPT !.challenge = Put(@, l, challenge)]

ResultsOf(st, l) == AtKey(st.results, l, <<>>)
AddReceivedChallenge(st, l, result) ==
  LET old == ResultsOf(st, l)
      known == \E i \in DOMAIN old : old[i].challenge = result.challenge
  IN [st EXCEPT !.results = Put(@, l, IF known THEN old ELSE Append(old, result))]
RemoveReceivedChallenge(st, l, challenge) ==
  [st EXCEPT !.results = Put(@, l,
     RemoveFirstMatch(ResultsOf(st, l), LAMBDA r : r.challenge = challenge))]

ScannedOf(st, l) == AtKey(st.scanned, l, <<>>)
LinkedLaosOf(st, l) == AtKey(st.linkedLaos, l, {})
LinkedOf(st, l) == AtKey(st.linked, l, {})
ChallengeOf(st, l) == AtKey(st.challenge, l, None)

\* Both throw when the organization is linked.
AddLinkedOrganization(st, l, org) ==
  IF org.lao \in LinkedLaosOf(st, l) THEN NotHandled(st)
  ELSE Handled([st EXCEPT !.linkedLaos = Put(@, l, LinkedLaosOf(st, l) \cup {org.lao}),
                          !.linked = Put(@, l, LinkedOf(st, l) \cup {org})])
AddScannedLinkedOrganization(st, l, org) ==
  IF org.lao \in LinkedLaosOf(st, l) THEN NotHandled(st)
  ELSE Handled([st EXCEPT !.scanned = Put(@, l, Append(ScannedOf(st, l), org))])

RemoveScannedLinkedOrganization(st, l, lao) ==
  LET old == ScannedOf(st, l)
      kept == Repeat(Len(old), <<>>,
                     LAMBDA list, i : IF old[i].lao = lao THEN list ELSE Append(list, old[i]))
  IN [st EXCEPT !.scanned = Put(@, l, kept)]
AddLinkedLaoId(st, l, lao) ==
  IF lao = l THEN st
  ELSE [st EXCEPT !.linkedLaos = Put(@, l, LinkedLaosOf(st, l) \cup {lao})]

-----------------------------------------------------------------------------
(* Handlers.  But for a challenge, what arrives is about the LAO that is     *)
(* open.                                                                     *)

HandleChallenge(st, m, id) == Handled(SetChallenge(st, LaoOf(m), m.challenge))
HandleChallengeRequest(st, m, id) == InCurrentLao(st, st)
HandleFederationInit(st, m, id) == InCurrentLao(st, st)
HandleFederationExpect(st, m, id) == InCurrentLao(st, st)

\* Mistake: the key is taken to be the one of the server that tells.
HandleResultOfServer(st, m, id) ==
  InCurrentLao(st, AddReceivedChallenge(st, st.current, Result(m.challenge, m.sender)))

\* The result of a federation that failed has a reason and no key.
HandleFederationResult(st, m, id) ==
  InCurrentLao(st, AddReceivedChallenge(st, st.current, Result(m.challenge, m.key)))

\* The chirps of the people of the other organization are subscribed to.
HandleTokensExchange(st, m, id) ==
  LET channels == {UserSocialChannel(m.lao, t) : t \in m.tokens} \cup {ReactionChannel(m.lao)}
  IN InCurrentLao(st, SubscribeToChannels(AddLinkedLaoId(st, st.current, m.lao), m.lao, channels))

-----------------------------------------------------------------------------
(* The screens of the organizer *)

CanAddLinkedOrganization(st) == CurrentLao(st) # None /\ IsOrganizer(st)

\* The code of who starts, and of who answers, which the screen keeps showing
\* with the challenge of an earlier time until the next one comes.
InitiatorCode(st) == LinkedOrganization(st.current, st.laos[st.current].organizer, None)
ResponderCodes(st) ==
  IF ChallengeOf(st, st.current) = None THEN {}
  ELSE {LinkedOrganization(st.current, st.laos[st.current].organizer, ChallengeOf(st, st.current))}

RequestChallenge(st) ==
  [kind |-> "challenge_request", chan |-> FederationChannel(st.current), sender |-> MyKey(st)]

\* Who answers expects the federation with the challenge it has now, which need
\* not be the one it has shown; without one nothing happens.
OnFederationExpect(st, org) ==
  IF ChallengeOf(st, st.current) = None THEN NotHandled(st)
  ELSE AddScannedLinkedOrganization(st, st.current,
         LinkedOrganization(org.lao, org.key, ChallengeOf(st, st.current)))
ExpectFederation(st, org) ==
  [kind |-> "federation_expect", chan |-> FederationChannel(st.current), sender |-> MyKey(st),
   lao |-> org.lao, key |-> org.key, challenge |-> ChallengeOf(st, st.current)]

\* A code may be typed in by hand: it must be complete, who starts needs the
\* challenge, too.
CompleteInput(code, initiating) ==
  WellFormedCode(code) /\ (initiating => code.challenge # None)

\* Who starts scans first, and starts the federation when its own code was seen.
OnInitiatorScan(st, org) == AddScannedLinkedOrganization(st, st.current, org)
InitFederation(st, org) ==
  [kind |-> "federation_init", chan |-> FederationChannel(st.current), sender |-> MyKey(st),
   lao |-> org.lao, key |-> org.key, challenge |-> org.challenge]

\* The screen looks through the results with the organizations scanned when it
\* was drawn.  It stops at the first that throws: an organization without a
\* challenge, or one that is linked.
MatchResult(captured, l, acc, result) ==
  LET matches == {i \in DOMAIN captured : captured[i].challenge = result.challenge}
      bad == {i \in DOMAIN captured : captured[i].challenge = None}
      first == CHOOSE i \in matches : \A j \in matches : i <= j
      org == captured[first]
      added == AddLinkedOrganization(acc.st, l, org)
      cleaned == RemoveReceivedChallenge(RemoveScannedLinkedOrganization(added.st, l, org.lao),
                                         l, result.challenge)
      throws == \E i \in bad : matches = {} \/ i < first
  IN IF ~acc.ok THEN acc
     ELSE IF throws THEN NotHandled(acc.st)
     ELSE IF matches = {} \/ result.key = None THEN acc
     ELSE IF ~added.ok THEN added
     ELSE Handled(Later(cleaned, [type |-> "fetch", lao |-> org.lao]))

LinkOrganizations(st) ==
  LET l == st.current
      captured == ScannedOf(st, l)
      results == ResultsOf(st, l)
  IN IF ~CanAddLinkedOrganization(st) \/ captured = <<>> THEN st
     ELSE Repeat(Len(results), Handled(st),
                 LAMBDA acc, k : MatchResult(captured, l, acc, results[k])).st

\* What is known of the LAO that was linked is fetched.  One second later its
\* last roll call is read, whatever has come until then.
FetchLinkedLao(st, task) ==
  Later(SubscribeToChannel([st EXCEPT !.tasks = @ \ {task}], task.lao, LaoChannel(task.lao)),
        [type |-> "broadcast", lao |-> task.lao])

CanBroadcastTokens(st, lao) ==
  lao \in DOMAIN st.laos /\ st.laos[lao].lastRollCall \in DOMAIN st.rollCalls
TokensExchange(st, lao) ==
  [kind |-> "tokens_exchange", chan |-> FederationChannel(st.current), sender |-> MyKey(st),
   lao |-> lao, rollCall |-> st.laos[lao].lastRollCall,
   tokens |-> AttendeesOf(st, st.laos[lao].lastRollCall)]
=============================================================================
