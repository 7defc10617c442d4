------------------------------ MODULE Fe1Social ------------------------------
(***************************************************************************)
(* Chirps and reactions in the store of a device (src/features/social of     *)
(* fe1-web).                                                                 *)
(*                                                                          *)
(* A chirp is kept under its id and listed, newest first, in the list of     *)
(* all and in the one of its sender; reactions are kept apart, and the       *)
(* scores are kept up with every change.                                     *)
(***************************************************************************)
EXTENDS Fe1Election

EmptyByLaoState ==
  [order |-> <<>>, byId |-> NoFunction, byUser |-> NoFunction, scores |-> NoFunction,
   reactionsOf |-> NoFunction, reactions |-> NoFunction]

SocialOf(st, l) == IF l \in DOMAIN st.social THEN st.social[l] ELSE EmptyByLaoState
SetSocial(st, l, social) == [st EXCEPT !.social = Put(@, l, social)]

Codepoint == {"up", "down", "heart"}
ScoreByCodePoint(c) == IF c = "down" THEN -1 ELSE 1

Chirp(id, m) == [sender |-> m.sender, time |-> id, parent |-> m.parent, deleted |-> FALSE]
Reaction(id, m) == [sender |-> m.sender, codepoint |-> m.codepoint, chirp |-> m.chirp]

-----------------------------------------------------------------------------
(* The reducer *)

\* Mistake: the search goes to the wrong half.
FindInsertIdxReversed(list, byId, time) ==
  LET search[p \in (0 .. Len(list)) \X (0 .. Len(list))] ==
        LET left == p[1]
            right == p[2]
            mid == (left + right) \div 2
        IN IF left >= right THEN left
           ELSE IF byId[list[mid + 1]].time < time THEN search[<<mid + 1, right>>]
                ELSE search[<<left, mid>>]
  IN search[<<0, Len(list)>>]

\* Binary search for the first chirp of a list that is not newer.
FindInsertIdx(list, byId, time) ==
  LET search[p \in (0 .. Len(list)) \X (0 .. Len(list))] ==
        LET left == p[1]
            right == p[2]
            mid == (left + right) \div 2
        IN IF left >= right THEN left
           ELSE IF byId[list[mid + 1]].time > time THEN search[<<mid + 1, right>>]
                ELSE search[<<left, mid>>]
  IN search[<<0, Len(list)>>]

Insert(list, byId, id, time) == InsertAt(list, FindInsertIdx(list, byId, time) + 1, id)

\* Mistake: a chirp is stored over what is there of it.
AddChirpOver(st, l, id, chirp) ==
  LET old == SocialOf(st, l)
      byId == Put(old.byId, id, chirp)
      mine == IF chirp.sender \in DOMAIN old.byUser THEN old.byUser[chirp.sender] ELSE <<>>
  IN SetSocial(st, l, [old EXCEPT
       !.byId = byId, !.scores = Put(@, id, 0),
       !.order = Insert(@, byId, id, chirp.time),
       !.byUser = Put(@, chirp.sender, Insert(mine, byId, id, chirp.time))])

\* What is there of the same sender stays: it may have been deleted already.  The
\* score starts at 0, and the chirp is listed, in any case.
AddChirp(st, l, id, chirp) ==
  LET old == SocialOf(st, l)
      known == id \in DOMAIN old.byId /\ old.byId[id].sender = chirp.sender
      byId == IF known THEN old.byId ELSE Put(old.byId, id, chirp)
      mine == IF chirp.sender \in DOMAIN old.byUser THEN old.byUser[chirp.sender] ELSE <<>>
  IN SetSocial(st, l, [old EXCEPT
       !.byId = byId, !.scores = Put(@, id, 0),
       !.order = Insert(@, byId, id, chirp.time),
       !.byUser = Put(@, chirp.sender, Insert(mine, byId, id, chirp.time))])

\* A chirp that is not there yet is stored as deleted.
DeleteChirp(st, l, id, sender, time) ==
  LET old == SocialOf(st, l)
      known == id \in DOMAIN old.byId
      deleted == [sender |-> sender, time |-> IF known THEN old.byId[id].time ELSE time,
                  parent |-> None, deleted |-> TRUE]
  IN SetSocial(st, l, IF known /\ old.byId[id].sender # sender THEN old
                      ELSE [old EXCEPT !.byId = Put(@, id, deleted)])

ReactionsOf(social, chirp) ==
  IF chirp \in DOMAIN social.reactionsOf THEN social.reactionsOf[chirp] ELSE {}
ScoreOf(social, chirp) == IF chirp \in DOMAIN social.scores THEN social.scores[chirp] ELSE 0

\* Mistake: every reaction counts.
AddEveryReaction(st, l, id, reaction) ==
  LET old == SocialOf(st, l)
  IN SetSocial(st, l,
       [old EXCEPT !.reactionsOf = Put(@, reaction.chirp, ReactionsOf(old, reaction.chirp) \cup {id}),
                   !.reactions = Put(@, id, reaction),
                   !.scores = Put(@, reaction.chirp, ScoreOf(old, reaction.chirp)
                                       + ScoreByCodePoint(reaction.codepoint))])

\* One reaction of a kind of each sender.
AddReaction(st, l, id, reaction) ==
  LET old == SocialOf(st, l)
      others == ReactionsOf(old, reaction.chirp)
      duplicate == \E r \in others : /\ old.reactions[r].sender = reaction.sender
                                     /\ old.reactions[r].codepoint = reaction.codepoint
  IN SetSocial(st, l, IF duplicate THEN old
       ELSE [old EXCEPT !.reactionsOf = Put(@, reaction.chirp, others \cup {id}),
                        !.reactions = Put(@, id, reaction),
                        !.scores = Put(@, reaction.chirp, ScoreOf(old, reaction.chirp)
                                            + ScoreByCodePoint(reaction.codepoint))])

DeleteReaction(st, l, id) ==
  LET old == SocialOf(st, l)
      reaction == old.reactions[id]
  IN SetSocial(st, l, IF id \notin DOMAIN old.reactions THEN old
       ELSE [old EXCEPT !.reactions = Drop(@, id),
                        !.reactionsOf[reaction.chirp] = @ \ {id},
                        !.scores[reaction.chirp] = @ - ScoreByCodePoint(reaction.codepoint)])

-----------------------------------------------------------------------------
(* Selectors *)

ChirpsList(st, l) == SocialOf(st, l).order
ChirpsListOfUser(st, l, user) ==
  LET byUser == SocialOf(st, l).byUser
  IN IF user \in DOMAIN byUser THEN byUser[user] ELSE <<>>

ReactionCount(st, l, chirp, codepoint) ==
  LET social == SocialOf(st, l)
  IN Cardinality({r \in ReactionsOf(social, chirp) : social.reactions[r].codepoint = codepoint})

\* The reactions of a user to a chirp.
Reacted(st, l, chirp, user) ==
  LET social == SocialOf(st, l)
  IN {r \in ReactionsOf(social, chirp) : social.reactions[r].sender = user}

\* Reading the best chirps throws when a chirp has a score and has not come.
TopChirps(st, l) ==
  LET social == SocialOf(st, l)
  IN IF DOMAIN social.scores \subseteq DOMAIN social.byId
     THEN {c \in DOMAIN social.scores : ~social.byId[c].deleted} ELSE {}

-----------------------------------------------------------------------------
(* Handlers: what arrives is put in the LAO that is open.                    *)

InCurrentLao(st, new) == IF CurrentLao(st) = None THEN NotHandled(st) ELSE Handled(new)

HandleAddChirp(st, m, id) == InCurrentLao(st, AddChirp(st, st.current, id, Chirp(id, m)))
HandleDeleteChirp(st, m, id) ==
  InCurrentLao(st, DeleteChirp(st, st.current, m.chirp, m.sender, id))
HandleAddReaction(st, m, id) ==
  InCurrentLao(st, AddReaction(st, st.current, id, Reaction(id, m)))
HandleDeleteReaction(st, m, id) ==
  InCurrentLao(st, DeleteReaction(st, st.current, m.reaction))

\* Messages of the servers about chirps are taken note of.
HandleNotifyAddChirp(st, m, id) == Handled(st)
HandleNotifyDeleteChirp(st, m, id) == Handled(st)

-----------------------------------------------------------------------------
(* What the screens offer to who has a token, and the messages they send     *)

\* The screens derive the token themselves, as the wallet does.
SocialToken(st) ==
  LET r == st.laos[st.current].lastTokenized
      token == GenerateToken(st, r)
  IN IF r \in DOMAIN st.rollCalls /\ ContainsToken(st.rollCalls[r], token) THEN token ELSE None

CanChirp(st) == ConnectedToLao(st) /\ CurrentLao(st) # None /\ SocialToken(st) # None

\* The screens of all chirps, of the best ones, and of the people who can be
\* looked up.
ListedUsers(st) == AttendeesOf(st, st.laos[st.current].lastTokenized)
ProfileOf(st, user) == ToSet(ChirpsListOfUser(st, st.current, user))
ShownChirps(st) ==
  LET listed == ToSet(ChirpsList(st, st.current))
                  \cup UNION {ProfileOf(st, u) : u \in ListedUsers(st) \cup {SocialToken(st)}}
  IN {id \in listed : ~SocialOf(st, st.current).byId[id].deleted} \cup TopChirps(st, st.current)
CanReact(st, chirp) == CanChirp(st) /\ chirp \in ShownChirps(st)
CanDeleteChirp(st, chirp) ==
  CanReact(st, chirp) /\ SocialOf(st, st.current).byId[chirp].sender = SocialToken(st)

AddChirpMessage(st, parent) ==
  [kind |-> "chirp_add", chan |-> UserSocialChannel(st.current, SocialToken(st)),
   sender |-> CurrentPopToken(st), parent |-> parent]
DeleteChirpMessage(st, chirp) ==
  [kind |-> "chirp_delete", chan |-> UserSocialChannel(st.current, SocialToken(st)),
   sender |-> CurrentPopToken(st), chirp |-> chirp]
AddReactionMessage(st, chirp, codepoint) ==
  [kind |-> "reaction_add", chan |-> ReactionChannel(st.current),
   sender |-> CurrentPopToken(st), chirp |-> chirp, codepoint |-> codepoint]
DeleteReactionMessage(st, reaction) ==
  [kind |-> "reaction_delete", chan |-> ReactionChannel(st.current),
   sender |-> CurrentPopToken(st), reaction |-> reaction]

\* A thumb or a heart is pressed: the reaction is given, or taken back; a thumb
\* takes back the other one as well.
Opposite(codepoint) ==
  CASE codepoint = "up" -> {"down"} [] codepoint = "down" -> {"up"} [] OTHER -> {}

ReactionPressed(st, chirp, codepoint) ==
  LET given(cs) == {r \in Reacted(st, st.current, chirp, SocialToken(st)) :
                      SocialOf(st, st.current).reactions[r].codepoint \in cs}
      taken == IF given({codepoint}) # {} THEN given({codepoint})
               ELSE given(Opposite(codepoint))
  IN SetToSeq({DeleteReactionMessage(st, r) : r \in taken})
       \o (IF given({codepoint}) # {} THEN <<>>
           ELSE <<AddReactionMessage(st, chirp, codepoint)>>)
=============================================================================
