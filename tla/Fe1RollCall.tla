----------------------------- MODULE Fe1RollCall -----------------------------
(***************************************************************************)
(* Events, roll calls and the wallet of a device (src/features/events,      *)
(* rollCall and wallet of fe1-web).                                         *)
(*                                                                          *)
(* Each open, close and reopen message gives the roll call a new alias, the *)
(* update id, by which the next one names it.                               *)
(***************************************************************************)
EXTENDS Fe1Lao

-----------------------------------------------------------------------------
(* Events: what the list of a LAO shows *)

\* addEvent and updateEvent throw when the event is, or is not, there.
AddEvent(st, id, event) ==
  IF id \in DOMAIN st.events THEN NotHandled(st)
  ELSE Handled([st EXCEPT !.events = Put(@, id, event)])
UpdateEvent(st, id, event) ==
  IF id \notin DOMAIN st.events THEN NotHandled(st)
  ELSE Handled([st EXCEPT !.events = Put(@, id, event)])

EventsOf(st, l, type) ==
  {id \in DOMAIN st.events : st.events[id].lao = l /\ st.events[id].type = type}

-----------------------------------------------------------------------------
(* The wallet: tokens are derived from its seed *)

SetWallet(st, seed) == [st EXCEPT !.seed = seed]
HasSeed(st) == st.seed # None
GenerateToken(st, r) == IF HasSeed(st) THEN Token(st.seed, r) ELSE None

-----------------------------------------------------------------------------
(* The reducer of roll calls *)

RollCallStatus == {"created", "opened", "closed", "reopened"}

NewRollCall(m) ==
  [lao |-> LaoOf(m), status |-> "created", alias |-> None, openedAt |-> None,
   closedAt |-> None, attendees |-> {}]

\* An alias is needed, and the time of opening, once it is opened; the time of
\* closing when it is closed.
WellFormedRollCall(rc) ==
  /\ rc.status # "created" => rc.alias # None /\ rc.openedAt # None
  /\ rc.status = "closed" => rc.closedAt # None

EventOfRollCall(rc) == [type |-> "rollCall", lao |-> rc.lao, end |-> rc.closedAt]

AddRollCallEvent(st, r, rc) ==
  IF r \in DOMAIN st.rollCalls THEN NotHandled(st)
  ELSE AddEvent([st EXCEPT !.rollCalls = Put(@, r, rc)], r, EventOfRollCall(rc))

\* Mistake: the alias the roll call had keeps its entry.
UpdateRollCallKeepingAlias(st, r, rc) ==
  [st EXCEPT !.rollCalls[r] = rc, !.byAlias = Put(@, rc.alias, r)]

\* The alias the roll call had is forgotten.
UpdateRollCall(st, r, rc) ==
  LET old == st.rollCalls[r].alias
      others == IF old = None THEN st.byAlias ELSE Drop(st.byAlias, old)
  IN [st EXCEPT !.rollCalls[r] = rc, !.byAlias = Put(others, rc.alias, r)]

UpdateRollCallEvent(st, r, rc) ==
  UpdateEvent(UpdateRollCall(st, r, rc), r, EventOfRollCall(rc))

\* Mistake: what names neither is about a roll call that is there.
GetRollCallByAny(st, x) ==
  IF x \in DOMAIN st.byAlias THEN st.byAlias[x]
  ELSE IF x \in DOMAIN st.rollCalls THEN x
  ELSE IF st.rollCalls = NoFunction THEN None ELSE CHOOSE r \in DOMAIN st.rollCalls : TRUE

\* By id or by the last alias.
GetRollCallById(st, x) ==
  IF x \in DOMAIN st.byAlias THEN st.byAlias[x]
  ELSE IF x \in DOMAIN st.rollCalls THEN x ELSE None

AttendeesOf(st, r) == IF r \in DOMAIN st.rollCalls THEN st.rollCalls[r].attendees ELSE {}
ContainsToken(rc, token) == token # None /\ token \in rc.attendees

-----------------------------------------------------------------------------
(* Handlers.  The id of the message stands for the update id it carries.     *)

HandleRollCallCreate(st, m, id) == AddRollCallEvent(st, id, NewRollCall(m))

\* In whatever status the roll call is.
HandleRollCallOpen(st, m, id) ==
  LET r == GetRollCallById(st, m.opens)
  IN IF r = None THEN NotHandled(st)
     ELSE UpdateRollCallEvent(st, r, [st.rollCalls[r] EXCEPT
            !.alias = id, !.openedAt = id, !.status = "opened"])

\* Setting the last roll call and subscribing to the channels of the attendees
\* wait for the token of this device, derived from the seed it has now.
HandleRollCallClose(st, m, id) ==
  LET r == GetRollCallById(st, m.closes)
      rc == [st.rollCalls[r] EXCEPT !.alias = id, !.closedAt = id, !.status = "closed",
                                    !.attendees = m.attendees]
      updated == UpdateRollCallEvent(st, r, rc)
      token == GenerateToken(st, r)
      task == [type |-> "token", lao |-> LaoOf(m), rollCall |-> r,
               hasToken |-> ContainsToken(rc, token), attendees |-> rc.attendees]
  IN IF r = None THEN NotHandled(st)
     ELSE IF ~updated.ok \/ token = None THEN updated
     ELSE Handled(Later(updated.st, task))

HandleRollCallReopen(st, m, id) ==
  LET r == GetRollCallById(st, m.opens)
  IN IF r = None \/ st.rollCalls[r].status # "closed" THEN NotHandled(st)
     ELSE UpdateRollCallEvent(st, r, [st.rollCalls[r] EXCEPT
            !.alias = id, !.openedAt = id, !.closedAt = None, !.status = "reopened"])

\* The token is there: what the closing of a roll call goes on with.
AfterToken(st, task) ==
  LET l == task.lao
      channels == {UserSocialChannel(l, a) : a \in task.attendees}
                    \cup {ReactionChannel(l), CoinChannel(l)}
      s == SetLaoLastRollCall([st EXCEPT !.tasks = @ \ {task}], l, task.rollCall, task.hasToken)
  IN SubscribeToChannels(s, l, channels)

\* The token messages are signed with: the one of the last roll call of the
\* current LAO this device had a token of, if the roll call still lists it.
CurrentPopToken(st) ==
  IF CurrentLao(st) = None THEN None
  ELSE LET r == st.laos[st.current].lastTokenized
           token == GenerateToken(st, r)
       IN IF r \in DOMAIN st.rollCalls /\ ContainsToken(st.rollCalls[r], token)
          THEN token ELSE None

\* What the wallet shows: the tokens that are listed.
RollCallTokens(st, l) ==
  {r \in EventsOf(st, l, "rollCall") : ContainsToken(st.rollCalls[r], GenerateToken(st, r))}
RollCallToken(st, r) == IF r \in DOMAIN st.rollCalls THEN GenerateToken(st, r) ELSE None

-----------------------------------------------------------------------------
(* What the screens offer to the organizer, and the messages they send.      *)

OrganizerOnline(st) == ConnectedToLao(st) /\ IsOrganizer(st)

InStatus(st, r, statuses) ==
  r \in EventsOf(st, st.current, "rollCall") /\ st.rollCalls[r].status \in statuses

CanCreateRollCall(st) == OrganizerOnline(st)
CanOpenRollCall(st, r) == OrganizerOnline(st) /\ InStatus(st, r, {"created"})
CanScanAttendees(st, r) == OrganizerOnline(st) /\ InStatus(st, r, {"opened", "reopened"})
CanReopenRollCall(st, r) == OrganizerOnline(st) /\ InStatus(st, r, {"closed"})

\* Those scanned so far, those of the roll call when it was reopened, or the
\* organizer alone.
AllAttendees(st, r) ==
  LET scanned == IF r \in DOMAIN st.scanning THEN st.scanning[r] ELSE AttendeesOf(st, r)
  IN IF scanned # {} \/ ~HasSeed(st) THEN scanned ELSE {GenerateToken(st, r)}

\* The code of an attendee, whose screen shows the roll call as open.
ShownToken(st, r) ==
  IF ~IsOrganizer(st) /\ HasSeed(st) /\ InStatus(st, r, {"opened", "reopened"})
  THEN {GenerateToken(st, r)} ELSE {}

AddAttendeePopToken(st, r, token) ==
  [st EXCEPT !.scanning = Put(@, r, AllAttendees(st, r) \cup {token})]
StopScanning(st, r) == [st EXCEPT !.scanning = Drop(@, r)]

CreateRollCallMessage(st) ==
  [kind |-> "roll_call_create", chan |-> LaoChannel(st.current), sender |-> MyKey(st)]
OpenRollCallMessage(st, r) ==
  [kind |-> "roll_call_open", chan |-> LaoChannel(st.current), sender |-> MyKey(st),
   opens |-> r]
CloseRollCallMessage(st, r) ==
  [kind |-> "roll_call_close", chan |-> LaoChannel(st.current), sender |-> MyKey(st),
   closes |-> st.rollCalls[r].alias, attendees |-> AllAttendees(st, r)]
ReopenRollCallMessage(st, r) ==
  [kind |-> "roll_call_reopen", chan |-> LaoChannel(st.current), sender |-> MyKey(st),
   opens |-> st.rollCalls[r].alias]
=============================================================================
