------------------------------ MODULE MCFe1App ------------------------------
(***************************************************************************)
(* Scenarios of the front-end for TLC.  Each starts where a few messages were *)
(* received and bounds how often each move is made; the messages of a        *)
(* scenario are those the screens of a store would have sent.                 *)
(***************************************************************************)
EXTENDS Fe1App

CONSTANTS organizer, attendee, server

MCDevice == {organizer, attendee}
MCAddress == {server}
MCAmount == {1, 2}
MCForm == {<<[question |-> "Q", options |-> <<"x", "y">>]>>}
MCService == {[lao |-> 1, client |-> "service"]}

Moves == {"seed", "lao", "scan", "press", "leave", "lose", "restart", "logout", "rollCall",
          "attendee", "election", "vote", "chirp", "react", "coins", "federation", "meeting",
          "notification", "witness", "popcha", "greet", "server"}
Bound(budget) == [move \in Moves |-> AtKey(budget, move, 0)]

\* The store of who opened LAO l, as far as its messages tell.
In(d, l) == [InitialStore(d) EXCEPT !.current = l, !.seed = Seed(d, 1)]
TokenOf(d, r) == Token(Seed(d, 1), r)

Create(d, l) == CreateLaoMessage(InitialStore(d), l, {})
RollCallOf(d, l) == CreateRollCallMessage(In(d, l))
Opened(d, l, r) == OpenRollCallMessage(In(d, l), r)
Closed(d, l, alias, attendees) ==
  [kind |-> "roll_call_close", chan |-> LaoChannel(l), sender |-> KeyPair(d, 1),
   closes |-> alias, attendees |-> attendees]

Both(x) == [d \in MCDevice |-> x]
Everybody(r) == {TokenOf(d, r) : d \in MCDevice}

\* A roll call is open, of which the attendee has heard nothing.
RollCallScenario ==
  [log |-> <<Create(organizer, 1), RollCallOf(organizer, 1), Opened(organizer, 1, 2)>>,
   lao |-> Both(1),
   received |-> [d \in MCDevice |-> IF d = organizer THEN <<1, 2, 3>> ELSE <<1>>],
   left |-> Bound([rollCall |-> 3, restart |-> 1])]
\* The organizer begins with one, and scans who attends.
ScanScenario ==
  [log |-> <<Create(organizer, 1)>>, lao |-> Both(1), received |-> Both(<<1>>),
   left |-> Bound([rollCall |-> 4, attendee |-> 1])]

\* After a roll call that both attended.
Attended == <<Create(organizer, 1), RollCallOf(organizer, 1), Opened(organizer, 1, 2),
              Closed(organizer, 1, 3, Everybody(2))>>
Listed(d) == [In(d, 1) EXCEPT
  !.laos = [l \in {1} |-> [lastTokenized |-> 2]],
  !.rollCalls = [r \in {2} |-> [attendees |-> Everybody(2)]]]
After(budget) ==
  [log |-> Attended, lao |-> Both(1), received |-> Both(<<1, 2, 3, 4>>), left |-> Bound(budget)]

\* An election was set up; an open ballot is open, too.
Setup(version) == SetupElectionMessage(In(organizer, 1), version, <<[question |-> "Q", options |-> <<"x", "y">>]>>)
ElectionScenario ==
  [After([election |-> 1, vote |-> 1, server |-> 1]) EXCEPT
     !.log = @ \o <<Setup("open ballot"), OpenElectionMessage(In(organizer, 1), 5),
                    CastVoteMessage([Listed(attendee) EXCEPT
                                       !.elections = [e \in {5} |-> [version |-> "open ballot"]]],
                                    5, "Q" :> "x", 7)>>,
     !.received = Both(<<1, 2, 3, 4, 5, 6>>)]
SecretScenario ==
  [After([election |-> 1, vote |-> 1, server |-> 1, greet |-> 1]) EXCEPT
     !.log = Append(@, Setup("secret ballot")), !.received = Both(<<1, 2, 3, 4, 5>>)]
SocialScenario == After([chirp |-> 2, react |-> 1])
ChirpsScenario == After([chirp |-> 4])
\* One of two chirps of the organizer is deleted by the attendee, and then by the
\* organizer; no device has heard of any of it.
DeletionScenario ==
  [After(NoFunction) EXCEPT
     !.log = @ \o <<AddChirpMessage(Listed(organizer), None), AddChirpMessage(Listed(organizer), None),
                    DeleteChirpMessage(Listed(attendee), 5), DeleteChirpMessage(Listed(organizer), 5)>>]
\* The organizer has pressed a button, and does not know that this has come.
ReactionScenario ==
  [After([react |-> 2]) EXCEPT
     !.log = @ \o <<AddChirpMessage(Listed(organizer), None),
                    AddReactionMessage(Listed(organizer), 5, "up")>>]
CashScenario == After([coins |-> 3])

\* Messages that come before the LAO they belong to, or before it is open again, wait,
\* and some are handled twice when the next message comes.
EarlyScenario ==
  [log |-> <<Create(organizer, 1), CreateMeetingMessage(In(organizer, 1), 2, None, 2),
             [kind |-> "meeting_state", chan |-> LaoChannel(1), sender |-> BackendKey(server),
              meeting |-> 2, created |-> 2, start |-> 2, end |-> None, modified |-> 3,
              signers |-> {}],
             RollCallOf(organizer, 1), Opened(organizer, 1, 4),
             Closed(organizer, 1, 5, Everybody(4))>>,
   lao |-> Both(1),
   received |-> [d \in MCDevice |-> IF d = organizer THEN <<1, 2, 3, 4, 5, 6>> ELSE <<3>>],
   left |-> Bound(NoFunction)]
ReturnScenario ==
  [After([leave |-> 1, scan |-> 1]) EXCEPT
     !.log = @ \o <<AddChirpMessage(Listed(organizer), None),
                    AddChirpMessage(Listed(attendee), None), RollCallOf(organizer, 1)>>]

\* Two organizations, each with an organizer; one was given a challenge, and has
\* asked for another, which it has not received.
OrganizationsScenario ==
  [log |-> <<Create(organizer, 1), Create(attendee, 2), RequestChallenge(In(attendee, 2)),
             ChallengeFor(3, FederationChannel(2), server), RequestChallenge(In(attendee, 2)),
             ChallengeFor(5, FederationChannel(2), server)>>,
   lao |-> [d \in MCDevice |-> IF d = organizer THEN 1 ELSE 2],
   received |-> [d \in MCDevice |-> IF d = organizer THEN <<1>> ELSE <<2, 3, 4, 5>>],
   left |-> Bound([federation |-> 3, server |-> 1])]
\* Who starts the federation organizes two LAOs, and has another one open than the one
\* it is expected with.
TwoLaosScenario ==
  [OrganizationsScenario EXCEPT
     !.log = SubSeq(@, 1, 4) \o
       <<ExpectFederation([In(attendee, 2) EXCEPT !.challenge = Put(@, 2, <<"challenge", 3>>)],
                          LinkedOrganization(1, KeyPair(organizer, 1), None)),
         Create(organizer, 6)>>,
     !.lao = [d \in MCDevice |-> IF d = organizer THEN 6 ELSE 2],
     !.received = [d \in MCDevice |-> IF d = organizer THEN <<6>> ELSE <<2, 3, 4>>]]
\* One of them had a roll call, whose tokens the other one is told of.
TokensScenario ==
  [OrganizationsScenario EXCEPT
     !.log = @ \o <<RollCallOf(organizer, 1), Opened(organizer, 1, 7),
                    Closed(organizer, 1, 8, {TokenOf(organizer, 7)})>>,
     !.received = [d \in MCDevice |-> IF d = organizer THEN <<1, 7, 8, 9>> ELSE <<2, 3, 4, 5, 6>>]]

\* Notifications of a roll call, signed, declined or cleared; and a meeting.
WitnessScenario ==
  [log |-> <<Create(organizer, 1), RollCallOf(organizer, 1)>>, lao |-> Both(1),
   received |-> Both(<<1>>), left |-> Bound([notification |-> 2, witness |-> 2, leave |-> 1, press |-> 1])]
MeetingScenario ==
  [WitnessScenario EXCEPT !.left = Bound([meeting |-> 1, server |-> 1])]

\* The application is started, LAOs are made, found, left and opened again.
SessionScenario ==
  [log |-> <<>>, lao |-> NoFunction, received |-> NoFunction,
   left |-> Bound([seed |-> 2, lao |-> 1, scan |-> 1, press |-> 1, leave |-> 1, lose |-> 1,
                   restart |-> 1, logout |-> 1])]

CashScenarios == {CashScenario}
EarlyScenarios == {EarlyScenario}
MCScenarios ==
  {RollCallScenario, ScanScenario, ElectionScenario, SecretScenario, SocialScenario,
   ChirpsScenario, DeletionScenario, ReactionScenario, CashScenario, EarlyScenario,
   ReturnScenario, OrganizationsScenario, TwoLaosScenario, TokensScenario, WitnessScenario,
   MeetingScenario, SessionScenario, After([popcha |-> 1])}
=============================================================================
