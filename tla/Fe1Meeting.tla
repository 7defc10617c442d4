----------------------------- MODULE Fe1Meeting -----------------------------
(***************************************************************************)
(* Meetings, and authentication with a token at a service outside            *)
(* (src/features/meeting and popcha of fe1-web).                             *)
(***************************************************************************)
EXTENDS Fe1LinkedOrgs

NewMeeting(m) == [lao |-> LaoOf(m), start |-> m.start, end |-> m.end, modified |-> m.start]

\* A meeting does not end before it is created; its state not before it starts,
\* either, and it is not modified before it is created.
WellFormedMeeting(m) ==
  m.kind = "meeting_create" => m.end = None \/ m.created <= m.end
WellFormedState(m) ==
  m.kind = "meeting_state" =>
    /\ m.created <= m.modified
    /\ m.end # None => m.created <= m.end /\ m.start <= m.end

EventOfMeeting(meeting) == [type |-> "meeting", lao |-> meeting.lao, end |-> meeting.end]

-----------------------------------------------------------------------------
(* Reducer: all throw when the meeting is, or is not, there. *)

AddMeeting(st, id, meeting) ==
  IF id \in DOMAIN st.meetings THEN NotHandled(st)
  ELSE Handled([st EXCEPT !.meetings = Put(@, id, meeting)])
UpdateMeeting(st, id, meeting) ==
  IF id \notin DOMAIN st.meetings THEN NotHandled(st)
  ELSE Handled([st EXCEPT !.meetings[id] = meeting])

\* Mistake: the meeting is added without its event.
AddMeetingWithoutEvent(st, id, meeting) == AddMeeting(st, id, meeting)

AddMeetingEvent(st, id, meeting) ==
  LET added == AddMeeting(st, id, meeting)
  IN IF added.ok THEN AddEvent(added.st, id, EventOfMeeting(meeting)) ELSE added
UpdateMeetingEvent(st, id, meeting) ==
  LET updated == UpdateMeeting(st, id, meeting)
  IN IF updated.ok THEN UpdateEvent(updated.st, id, EventOfMeeting(meeting)) ELSE updated

-----------------------------------------------------------------------------
(* Handlers *)

HandleMeetingCreate(st, m, id) == AddMeetingEvent(st, id, NewMeeting(m))

\* Three fifths of the witnesses.  Signers are looked for among the witnesses
\* as objects, not by their value, so that none counts.
HasWitnessSignatureQuorum(signers, lao) ==
  5 * Cardinality({w \in signers : \E v \in lao.witnesses : IsSameObject(v, w)})
    >= 3 * Cardinality(lao.witnesses)

HandleMeetingState(st, m, id) ==
  IF /\ LaoOf(m) \in DOMAIN st.laos
     /\ HasWitnessSignatureQuorum(m.signers, st.laos[LaoOf(m)])
     /\ m.meeting \in DOMAIN st.meetings
  THEN UpdateMeetingEvent(st, m.meeting, [st.meetings[m.meeting] EXCEPT
         !.start = m.start, !.end = m.end, !.modified = m.modified])
  ELSE NotHandled(st)

-----------------------------------------------------------------------------
(* What the screens offer, and the messages they send *)

CanCreateMeeting(st) == OrganizerOnline(st)

\* One that ends in the past is refused; one that starts in the past may start
\* now.
ConfirmEvent(start, end, now) == end >= now
LaterOf(a, b) == IF a > b THEN a ELSE b
CreateMeetingMessage(st, start, end, now) ==
  [kind |-> "meeting_create", chan |-> LaoChannel(st.current), sender |-> MyKey(st),
   created |-> now, start |-> LaterOf(now, start), end |-> end]

-----------------------------------------------------------------------------
(* A service shows a code with its id and the LAO it serves; the answer is   *)
(* signed with the token of the last roll call, and names one derived for    *)
(* the service.                                                              *)

CodeIsFor(code, l) == code.lao = l
CanAuthenticate(st, code) ==
  /\ CurrentLao(st) # None /\ st.online /\ HasSeed(st)
  /\ CodeIsFor(code, st.current) /\ CurrentPopToken(st) # None

PopchaAuthMessage(st, code) ==
  [kind |-> "popcha_auth", chan |-> AuthenticationChannel(st.current),
   sender |-> CurrentPopToken(st), client |-> code.client,
   identifier |-> Token(st.seed, code.client)]

\* Nobody sends the application such a message: handling one throws.
HandlePopchaAuth(st, m, id) == NotHandled(st)
=============================================================================
