--------------------------- MODULE ChatStoreProofs ---------------------------
(***************************************************************************)
(* Proofs about ChatStore: its inductive invariant and the invariants and  *)
(* the action property the model-checking runs state, for any finite set   *)
(* of users and any number of messages and changes.                        *)
(***************************************************************************)
EXTENDS ChatStore, FiniteSetTheorems, TLAPS

-----------------------------------------------------------------------------
(* The inductive invariant *)

\* Who has a row of message m: somebody, and its sender only as one who read it;
\* those who read it; those whose timer runs, who have read it; those for whom it
\* burned, whose timer ran or who all lost it at once.
RowIsSound(row) ==
    /\ row.holders # {}
    /\ row.sender \in row.holders => row.sender \in row.readers
    /\ row.timed \subseteq row.readers
    /\ row.readers \subseteq row.holders
    /\ row.burned \subseteq row.holders
    /\ row.recalled <=> row.burned = row.holders
    /\ ~row.recalled => row.burned \subseteq row.timed

RowsAreSound == \A m \in DOMAIN messages : RowIsSound(messages[m])

\* A stream speaks of messages there are, and carries the text only to holders.
StreamsAreSound == \A u \in Users :
    /\ stream[u].ended \subseteq DOMAIN messages
    /\ \A m \in stream[u].copies : m \in DOMAIN messages /\ u \in messages[m].holders

\* Positions do not pass the last message, and a member's is never behind what was
\* kept of it.
PositionsAreBounded == \A u \in Users :
    /\ position[u] <= Len(messages) /\ history[u] <= Len(messages)
    /\ u \in Members => history[u] <= position[u]
    /\ conversation = NoConversation => position[u] = 0 /\ history[u] = 0

Inductive ==
    /\ TypeOK
    /\ RowsAreSound
    /\ StreamsAreSound
    /\ PositionsAreBounded
    /\ PositionsAgree
    /\ CountsAgree
    /\ MembersAreTold
    /\ TextIsGone

-----------------------------------------------------------------------------
(* Facts about the operators of the model *)

LEMMA SizesAreBounded ==
    ASSUME NEW S \in SUBSET Users
    PROVE  IsFiniteSet(S) /\ Cardinality(S) \in 0 .. Cardinality(Users)
<1>1. IsFiniteSet(Users)
    BY ChatAssumption
<1>2. IsFiniteSet(S) /\ Cardinality(S) <= Cardinality(Users)
    BY <1>1, FS_Subset
<1>3. Cardinality(S) \in Nat /\ Cardinality(Users) \in Nat
    BY <1>1, <1>2, FS_CardinalityType
<1> QED
    BY <1>2, <1>3

LEMMA NoConversationIsEmpty == NoConversation.kind = "none" /\ NoConversation.members = {}
BY DEF NoConversation

LEMMA FunctionsAreSequences ==
    ASSUME NEW S, NEW n \in Nat, NEW f \in [1 .. n -> S]
    PROVE  f \in Seq(S) /\ Len(f) = n /\ DOMAIN f = 1 .. n
OBVIOUS

LEMMA AppendedRow ==
    ASSUME NEW S, NEW s \in Seq(S), NEW e \in S
    PROVE  /\ Append(s, e) \in Seq(S) /\ Len(Append(s, e)) = Len(s) + 1
           /\ Append(s, e)[Len(s) + 1] = e
           /\ \A k \in 1 .. Len(s) : Append(s, e)[k] = s[k]
<1>1. Append(s, e) \in Seq(S) /\ Len(Append(s, e)) = Len(s) + 1
    OBVIOUS
<1>2. Append(s, e)[Len(s) + 1] = e
    OBVIOUS
<1>3. \A k \in 1 .. Len(s) : Append(s, e)[k] = s[k]
    OBVIOUS
<1> QED
    BY <1>1, <1>2, <1>3

LEMMA RowsAreAFunction ==
    ASSUME TypeOK
    PROVE  /\ Len(messages) \in 0 .. MaxMessages /\ MaxMessages \in Nat
           /\ DOMAIN messages = 1 .. Len(messages)
           /\ DOMAIN messages \subseteq Seqs
           /\ \A m \in DOMAIN messages : messages[m] \in Message
<1>1. messages \in Seq(Message) /\ Len(messages) <= MaxMessages /\ MaxMessages \in Nat
    BY ChatAssumption DEF TypeOK
<1>2. Len(messages) \in Nat /\ DOMAIN messages = 1 .. Len(messages)
    BY <1>1
<1>3. \A m \in DOMAIN messages : messages[m] \in Message
    BY <1>1
<1> QED
    BY <1>1, <1>2, <1>3 DEF Seqs

\* An announcement changes what the users in us were told, and nothing else.
LEMMA AnnouncedTells ==
    ASSUME stream \in [Users -> Stream], NEW c \in Conversation, NEW us
    PROVE  /\ Announced(c, us) \in [Users -> Stream]
           /\ \A u \in Users :
                /\ Announced(c, us)[u].told = IF u \in us THEN c ELSE stream[u].told
                /\ Announced(c, us)[u].copies = stream[u].copies
                /\ Announced(c, us)[u].ended = stream[u].ended
                /\ Announced(c, us)[u].counts = stream[u].counts
                /\ Announced(c, us)[u].seen = stream[u].seen
<1>1. ASSUME NEW t \in Stream
      PROVE  /\ [t EXCEPT !.told = c] \in Stream
             /\ [t EXCEPT !.told = c].told = c
             /\ [t EXCEPT !.told = c].copies = t.copies
             /\ [t EXCEPT !.told = c].ended = t.ended
             /\ [t EXCEPT !.told = c].counts = t.counts
             /\ [t EXCEPT !.told = c].seen = t.seen
    BY DEF Stream
<1>2. ASSUME NEW u \in Users
      PROVE  /\ stream[u] \in Stream
             /\ Announced(c, us)[u] = IF u \in us THEN [stream[u] EXCEPT !.told = c]
                                                   ELSE stream[u]
    BY DEF Announced
<1>3. \A u \in Users : Announced(c, us)[u] \in Stream
    BY <1>1, <1>2
<1>4. Announced(c, us) \in [Users -> Stream]
    BY <1>3 DEF Announced
<1> QED
    BY <1>1, <1>2, <1>4, ZenonT(30)

\* Reading adds the reader to the readers, and perhaps to the timed, of a message
\* it holds, and counts again.
LEMMA ReadMoves ==
    ASSUME NEW row \in Message, NEW reader \in Users, RowIsSound(row)
    PROVE  LET after == Read(row, reader) IN
           /\ after \in Message
           /\ RowIsSound(after)
           /\ after.sender = row.sender /\ after.holders = row.holders
           /\ after.recalled = row.recalled /\ after.burned = row.burned
           /\ after.readers = IF reader \in row.holders THEN row.readers \cup {reader}
                                                       ELSE row.readers
           /\ after.unread = Cardinality(after.holders \ (after.readers \cup {after.sender}))
<1> DEFINE readers == IF reader \in row.holders THEN row.readers \cup {reader} ELSE row.readers
           timed == IF row.burns /\ reader \in row.holders \ (row.burned \cup {row.sender})
                    THEN row.timed \cup {reader} ELSE row.timed
           unread == Cardinality(row.holders \ (readers \cup {row.sender}))
           after == Read(row, reader)
<1>1. after = [row EXCEPT !.readers = readers, !.timed = timed, !.unread = unread]
    BY DEF Read
<1>2. /\ row.sender \in Users /\ row.burns \in BOOLEAN /\ row.recalled \in BOOLEAN
      /\ row.holders \in SUBSET Users /\ row.readers \in SUBSET Users
      /\ row.timed \in SUBSET Users /\ row.burned \in SUBSET Users
    BY DEF Message
<1>3. readers \in SUBSET Users /\ timed \in SUBSET Users
    BY <1>2
<1>4. unread \in 0 .. Cardinality(Users)
    BY <1>2, SizesAreBounded
<1>5. /\ timed \subseteq readers /\ readers \subseteq row.holders /\ row.timed \subseteq timed
      /\ row.readers \subseteq readers
    BY DEF RowIsSound
<1> HIDE DEF readers, timed, unread
<1>6. [row EXCEPT !.readers = readers, !.timed = timed, !.unread = unread] \in Message
    BY <1>3, <1>4 DEF Message
<1>7. /\ after.sender = row.sender /\ after.holders = row.holders
      /\ after.recalled = row.recalled /\ after.burned = row.burned
      /\ after.readers = readers /\ after.timed = timed /\ after.unread = unread
    BY <1>1 DEF Message
<1> HIDE DEF after
<1>8. RowIsSound(after)
    BY <1>5, <1>7 DEF RowIsSound
<1>9. after \in Message
    BY <1>1, <1>6
<1>10. after.unread = Cardinality(after.holders \ (after.readers \cup {after.sender}))
    BY <1>7 DEF unread
<1> QED
    BY <1>7, <1>8, <1>9, <1>10 DEF readers, after

-----------------------------------------------------------------------------
(* Changes of the conversation and of its members                          *)
(*                                                                         *)
(* They leave every message alone, tell only of the conversation, and move *)
(* a user's position between its row as a member and the history, where it *)
(* stands for the same messages.                                           *)

\* A step of that kind.  That everybody stands where it stood is the heart of it.
MembershipStep ==
    /\ TypeOK'
    /\ PositionsAreBounded'
    /\ MembersAreTold'
    /\ messages' = messages
    /\ \A u \in Users : /\ Effective(u)' = Effective(u)
                        /\ stream'[u].copies = stream[u].copies
                        /\ stream'[u].ended = stream[u].ended
                        /\ stream'[u].counts = stream[u].counts
                        /\ stream'[u].seen = stream[u].seen

\* What an announcement gives the invariant: who is told must be every member of
\* now, and everybody who just left.
LEMMA AnnouncingIsEnough ==
    ASSUME Inductive, NEW us,
           conversation' \in Conversation, conversation' # NoConversation,
           stream' = Announced(conversation', us),
           conversation'.members \subseteq us, Members \subseteq us,
           conversation'.owner \in conversation'.members,
           conversation'.kind = "direct" => Cardinality(conversation'.members) = 2
    PROVE  /\ stream' \in [Users -> Stream]
           /\ MembersAreTold'
           /\ \A u \in Users : /\ stream'[u].copies = stream[u].copies
                               /\ stream'[u].ended = stream[u].ended
                               /\ stream'[u].counts = stream[u].counts
                               /\ stream'[u].seen = stream[u].seen
<1>1. PICK c \in Conversation : c = conversation'
    OBVIOUS
<1>2. stream \in [Users -> Stream]
    BY DEF Inductive, TypeOK
<1>3. stream' = Announced(c, us)
    BY <1>1
<1>4. /\ stream' \in [Users -> Stream]
      /\ \A u \in Users : /\ stream'[u].told = IF u \in us THEN c ELSE stream[u].told
                          /\ stream'[u].copies = stream[u].copies
                          /\ stream'[u].ended = stream[u].ended
                          /\ stream'[u].counts = stream[u].counts
                          /\ stream'[u].seen = stream[u].seen
    BY <1>2, <1>3, AnnouncedTells
<1>5. \A u \in Users : u \notin Members => u \notin stream[u].told.members
    BY DEF Inductive, MembersAreTold
<1>6. \A u \in Users : IF u \in c.members THEN stream'[u].told = c
                                           ELSE u \notin stream'[u].told.members
    BY <1>1, <1>4, <1>5
<1>7. MembersAreTold'
    BY <1>1, <1>6 DEF MembersAreTold, Members
<1> QED
    BY <1>4, <1>7

LEMMA CreateIsMembership ==
    ASSUME Inductive, NEW owner \in Users, NEW kind \in {"group", "direct"},
           NEW title \in Titles \cup {Untitled}, NEW others \in SUBSET Users,
           Create(owner, kind, title, others)
    PROVE  MembershipStep
<1> DEFINE members == {owner} \cup others
<1>1. /\ conversation = NoConversation
      /\ conversation' = [kind |-> kind, owner |-> owner, title |-> title, members |-> members]
      /\ stream' = Announced(conversation', conversation'.members)
      /\ position' = position /\ history' = history /\ messages' = messages /\ changes' = changes
    BY DEF Create
<1>2. kind = "direct" => Cardinality(members) = 2
  <2> HAVE kind = "direct"
  <2>1. Cardinality(others \ {owner}) = 1
      BY DEF Create
  <2>2. IsFiniteSet(others \ {owner})
      BY SizesAreBounded
  <2>3. Cardinality((others \ {owner}) \cup {owner}) = 2
    <3> DEFINE peers == others \ {owner}
    <3>1. IsFiniteSet(peers) /\ Cardinality(peers) = 1 /\ owner \notin peers
        BY <2>1, <2>2
    <3> HIDE DEF peers
    <3>2. Cardinality(peers \cup {owner}) = Cardinality(peers) + 1
        BY <3>1, FS_AddElement
    <3>3. Cardinality(peers \cup {owner}) = 2
        BY <3>1, <3>2
    <3> QED
        BY <3>3 DEF peers
  <2>4. (others \ {owner}) \cup {owner} = members
      OBVIOUS
  <2> QED
      BY <2>3, <2>4
<1>3. members \in SUBSET Users /\ owner \in members
    OBVIOUS
<1> HIDE DEF members
<1>4. /\ conversation' \in Conversation /\ conversation' # NoConversation
      /\ conversation'.kind = kind /\ conversation'.owner = owner
      /\ conversation'.members = members
  <2>1. PICK c : c = [kind |-> kind, owner |-> owner, title |-> title, members |-> members]
      OBVIOUS
  <2>2. /\ c \in Conversation /\ c.kind = kind /\ c.kind # "none"
        /\ c.owner = owner /\ c.members = members
      BY <2>1, <1>3 DEF Conversation
  <2>3. c # NoConversation
      BY <2>2, NoConversationIsEmpty
  <2> QED
      BY <1>1, <2>1, <2>2, <2>3
<1>5. Members = {}
    BY <1>1 DEF Members, NoConversation
<1>6. /\ stream' \in [Users -> Stream]
      /\ MembersAreTold'
      /\ \A u \in Users : /\ stream'[u].copies = stream[u].copies
                          /\ stream'[u].ended = stream[u].ended
                          /\ stream'[u].counts = stream[u].counts
                          /\ stream'[u].seen = stream[u].seen
  <2>1. conversation'.kind = "direct" => Cardinality(conversation'.members) = 2
      BY <1>2, <1>4
  <2>2. Members \subseteq conversation'.members
      BY <1>5
  <2> QED
      BY <1>1, <1>3, <1>4, <2>1, <2>2, AnnouncingIsEnough
<1>7. TypeOK'
    BY <1>1, <1>4, <1>6 DEF Inductive, TypeOK
<1>8. \A u \in Users : position[u] = 0 /\ history[u] = 0
    BY <1>1 DEF Inductive, PositionsAreBounded
<1>9. PositionsAreBounded'
  <2>1. TypeOK
      BY DEF Inductive
  <2>2. Len(messages) \in 0 .. MaxMessages
      BY <2>1, RowsAreAFunction
  <2>3. 0 <= Len(messages)
      BY <2>2, ChatAssumption
  <2>4. \A u \in Users : 0 <= 0 /\ position'[u] = 0 /\ history'[u] = 0
      BY <1>1, <1>8
  <2> QED
      BY <1>1, <1>4, <2>3, <2>4 DEF PositionsAreBounded
<1>10. \A u \in Users : Effective(u)' = Effective(u)
    BY <1>1, <1>8 DEF Effective
<1> QED
    BY <1>1, <1>6, <1>7, <1>9, <1>10 DEF MembershipStep

\* The part the changes of a group share.
LEMMA GroupFacts ==
    ASSUME Inductive, ChangesGroup
    PROVE  /\ conversation \in Conversation /\ conversation.kind = "group"
           /\ conversation.owner \in Members /\ Members \in SUBSET Users
           /\ changes' \in 0 .. MaxChanges /\ messages' = messages
           /\ position \in [Users -> 0 .. MaxMessages]
           /\ history \in [Users -> 0 .. MaxMessages]
           /\ MaxMessages \in Nat
           /\ Len(messages) \in 0 .. MaxMessages
           /\ \A u \in Users : /\ position[u] <= Len(messages) /\ history[u] <= Len(messages)
                               /\ u \in Members => history[u] <= position[u]
<1>1. conversation \in Conversation /\ conversation.kind = "group"
    BY DEF Inductive, TypeOK, ChangesGroup
<1>2. conversation.owner \in Members /\ Members \in SUBSET Users
    BY <1>1 DEF Inductive, MembersAreTold, Members, Conversation
<1>3. changes' \in 0 .. MaxChanges
    BY ChatAssumption DEF Inductive, TypeOK, ChangesGroup
<1> QED
    BY <1>1, <1>2, <1>3, ChatAssumption, RowsAreAFunction
       DEF Inductive, TypeOK, ChangesGroup, PositionsAreBounded

LEMMA RenameIsMembership ==
    ASSUME Inductive, NEW operator \in Users, NEW title \in Titles, Rename(operator, title)
    PROVE  MembershipStep
<1>1. /\ ChangesGroup
      /\ conversation' = [conversation EXCEPT !.title = title]
      /\ stream' = Announced(conversation', Members)
      /\ position' = position /\ history' = history
    BY DEF Rename
<1>2. /\ conversation' \in Conversation /\ conversation'.kind = "group"
      /\ conversation'.owner = conversation.owner /\ conversation'.members = Members
    BY <1>1, GroupFacts DEF Conversation, Members
<1>3. conversation' # NoConversation
    BY <1>2, NoConversationIsEmpty
<1>4. /\ stream' \in [Users -> Stream]
      /\ MembersAreTold'
      /\ \A u \in Users : /\ stream'[u].copies = stream[u].copies
                          /\ stream'[u].ended = stream[u].ended
                          /\ stream'[u].counts = stream[u].counts
                          /\ stream'[u].seen = stream[u].seen
  <2>1. conversation'.kind # "direct" /\ conversation'.owner \in conversation'.members
      BY <1>1, <1>2, GroupFacts
  <2> QED
      BY <1>1, <1>2, <1>3, <2>1, AnnouncingIsEnough
<1>5. TypeOK'
    BY <1>1, <1>2, <1>4, GroupFacts DEF Inductive, TypeOK
<1>6. PositionsAreBounded'
    BY <1>1, <1>2, <1>3, GroupFacts DEF PositionsAreBounded, Members
<1>7. \A u \in Users : Effective(u)' = Effective(u)
    BY <1>1, <1>2 DEF Effective, Members
<1> QED
    BY <1>1, <1>4, <1>5, <1>6, <1>7, GroupFacts DEF MembershipStep

\* Add members, Join: a newcomer's row starts at its history.
LEMMA AdmitIsMembership ==
    ASSUME Inductive, ChangesGroup, NEW newcomers \in SUBSET (Users \ Members),
           Admit(newcomers)
    PROVE  MembershipStep
<1>1. /\ conversation' = [conversation EXCEPT !.members = Members \cup newcomers]
      /\ position' = [u \in Users |-> IF u \in newcomers THEN history[u] ELSE position[u]]
      /\ stream' = Announced(conversation', conversation'.members)
      /\ history' = history
    BY DEF Admit, Members
<1>2. /\ conversation' \in Conversation /\ conversation'.kind = "group"
      /\ conversation'.owner = conversation.owner
      /\ conversation'.members = Members \cup newcomers
  <2>1. Members \cup newcomers \in SUBSET Users
      BY GroupFacts
  <2> QED
      BY <1>1, <2>1, GroupFacts DEF Conversation
<1>3. conversation' # NoConversation
    BY <1>2, NoConversationIsEmpty
<1>4. /\ stream' \in [Users -> Stream]
      /\ MembersAreTold'
      /\ \A u \in Users : /\ stream'[u].copies = stream[u].copies
                          /\ stream'[u].ended = stream[u].ended
                          /\ stream'[u].counts = stream[u].counts
                          /\ stream'[u].seen = stream[u].seen
  <2>1. conversation'.kind # "direct" /\ conversation'.owner \in conversation'.members
      BY <1>2, GroupFacts
  <2>2. Members \subseteq conversation'.members
      BY <1>2
  <2> QED
      BY <1>1, <1>2, <1>3, <2>1, <2>2, AnnouncingIsEnough
<1>5. position' \in [Users -> 0 .. MaxMessages]
    BY <1>1, GroupFacts
<1>6. \A u \in Users : position'[u] = IF u \in newcomers THEN history[u] ELSE position[u]
    BY <1>1
<1>7. TypeOK'
    BY <1>1, <1>2, <1>4, <1>5, GroupFacts DEF Inductive, TypeOK
<1>8. PositionsAreBounded'
    BY <1>1, <1>2, <1>3, <1>5, <1>6, GroupFacts DEF PositionsAreBounded, Members
<1>9. \A u \in Users : Effective(u)' = Effective(u)
    BY <1>1, <1>2, <1>6 DEF Effective, Members
<1> QED
    BY <1>4, <1>7, <1>8, <1>9, GroupFacts DEF MembershipStep

\* Remove members, Leave: the leavers' positions go to the history, which is never
\* ahead of them.
LEMMA DismissIsMembership ==
    ASSUME Inductive, ChangesGroup, NEW leavers \in SUBSET Members,
           NEW owner \in Members \ leavers, Dismiss(leavers, owner)
    PROVE  MembershipStep
<1>1. /\ conversation' = [conversation EXCEPT !.members = Members \ leavers, !.owner = owner]
      /\ history' = [u \in Users |-> IF u \in leavers /\ position[u] > history[u]
                                      THEN position[u] ELSE history[u]]
      /\ position' = [u \in Users |-> IF u \in leavers THEN 0 ELSE position[u]]
      /\ stream' = Announced(conversation', Members)
    BY DEF Dismiss, Members
<1>2. /\ conversation' \in Conversation /\ conversation'.kind = "group"
      /\ conversation'.owner = owner
      /\ conversation'.members = Members \ leavers
  <2>1. Members \ leavers \in SUBSET Users /\ owner \in Users
      BY GroupFacts
  <2> QED
      BY <1>1, <2>1, GroupFacts DEF Conversation
<1>3. conversation' # NoConversation
    BY <1>2, NoConversationIsEmpty
<1>4. /\ stream' \in [Users -> Stream]
      /\ MembersAreTold'
      /\ \A u \in Users : /\ stream'[u].copies = stream[u].copies
                          /\ stream'[u].ended = stream[u].ended
                          /\ stream'[u].counts = stream[u].counts
                          /\ stream'[u].seen = stream[u].seen
  <2>1. conversation'.kind # "direct" /\ conversation'.owner \in conversation'.members
      BY <1>2
  <2>2. conversation'.members \subseteq Members
      BY <1>2
  <2> QED
      BY <1>1, <1>2, <1>3, <2>1, <2>2, AnnouncingIsEnough
<1>5. position' \in [Users -> 0 .. MaxMessages] /\ history' \in [Users -> 0 .. MaxMessages]
    BY <1>1, GroupFacts
<1>6. \A u \in Users :
          /\ position'[u] = IF u \in leavers THEN 0 ELSE position[u]
          /\ history'[u] = IF u \in leavers THEN position[u] ELSE history[u]
  <2> TAKE u \in Users
  <2>1. position[u] \in Nat /\ history[u] \in Nat
      BY GroupFacts
  <2>2. u \in leavers => history[u] <= position[u]
      BY GroupFacts
  <2> QED
      BY <1>1, <2>1, <2>2
<1>7. TypeOK'
    BY <1>1, <1>2, <1>4, <1>5, GroupFacts DEF Inductive, TypeOK
<1>8. PositionsAreBounded'
    BY <1>1, <1>2, <1>3, <1>5, <1>6, GroupFacts DEF PositionsAreBounded, Members
<1>9. \A u \in Users : Effective(u)' = Effective(u)
    BY <1>1, <1>2, <1>6 DEF Effective, Members
<1> QED
    BY <1>4, <1>7, <1>8, <1>9, GroupFacts DEF MembershipStep

LEMMA ChangeIsMembership ==
    ASSUME Inductive, Change
    PROVE  MembershipStep
<1>1. CASE \E u \in Users, t \in Titles : Rename(u, t)
    BY <1>1, RenameIsMembership
<1>2. CASE \E u \in Users, us \in SUBSET Users : AddMembers(u, us)
  <2>1. PICK us \in SUBSET Users : ChangesGroup /\ Admit(us \ Members)
      BY <1>2 DEF AddMembers
  <2> QED
      BY <2>1, AdmitIsMembership
<1>3. CASE \E u \in Users, us \in SUBSET Users : RemoveMembers(u, us)
  <2>1. PICK us \in SUBSET Users :
          ChangesGroup /\ Dismiss((us \cap Members) \ {conversation.owner}, conversation.owner)
      BY <1>3 DEF RemoveMembers
  <2>2. conversation.owner \in Members \ ((us \cap Members) \ {conversation.owner})
      BY <2>1, GroupFacts
  <2> QED
      BY <2>1, <2>2, DismissIsMembership
<1>4. CASE \E u \in Users : Join(u)
  <2>1. PICK u \in Users : ChangesGroup /\ Admit({u} \ Members)
      BY <1>4 DEF Join
  <2> QED
      BY <2>1, AdmitIsMembership
<1>5. CASE \E u, heir \in Users : Leave(u, heir)
  <2>1. PICK u \in Members, heir \in Members :
          /\ heir # u /\ ChangesGroup
          /\ Dismiss({u}, IF conversation.owner = u THEN heir ELSE conversation.owner)
      BY <1>5 DEF Leave
  <2>2. (IF conversation.owner = u THEN heir ELSE conversation.owner) \in Members \ {u}
      BY <2>1, GroupFacts
  <2> QED
      BY <2>1, <2>2, DismissIsMembership
<1> QED
    BY <1>1, <1>2, <1>3, <1>4, <1>5 DEF Change

\* Such a step keeps the invariant.
LEMMA MembershipStepKeepsInductive ==
    ASSUME Inductive, MembershipStep
    PROVE  Inductive'
<1>1. RowsAreSound'
    BY DEF Inductive, MembershipStep, RowsAreSound
<1>2. StreamsAreSound'
    BY DEF Inductive, MembershipStep, StreamsAreSound
<1>3. PositionsAgree'
  <2>1. \A m \in DOMAIN messages : messages[m].holders \in SUBSET Users
      BY RowsAreAFunction DEF Inductive, Message
  <2> QED
      BY <2>1 DEF Inductive, MembershipStep, PositionsAgree
<1>4. CountsAgree'
  <2>1. \A m \in DOMAIN messages : messages[m].holders \in SUBSET Users
      BY RowsAreAFunction DEF Inductive, Message
  <2> QED
      BY <2>1 DEF Inductive, MembershipStep, CountsAgree
<1>5. TextIsGone'
    BY DEF Inductive, MembershipStep, TextIsGone
<1> QED
    BY <1>1, <1>2, <1>3, <1>4, <1>5 DEF Inductive, MembershipStep

-----------------------------------------------------------------------------
(* Sending                                                                 *)

\* What the event of a new message does to a stream.
WithMessage(t, m, unread) == [t EXCEPT !.copies = @ \cup {m}, !.counts[m] = unread]

LEMMA EventOfAMessage ==
    ASSUME NEW t \in Stream, NEW m \in Seqs, NEW unread \in 0 .. Cardinality(Users)
    PROVE  LET after == WithMessage(t, m, unread) IN
           /\ after \in Stream
           /\ after.told = t.told /\ after.ended = t.ended /\ after.seen = t.seen
           /\ after.copies = t.copies \cup {m}
           /\ \A k \in Seqs : after.counts[k] = IF k = m THEN unread ELSE t.counts[k]
<1> DEFINE copies == t.copies \cup {m}
           counts == [t.counts EXCEPT ![m] = unread]
           after == WithMessage(t, m, unread)
<1>1. copies \in SUBSET Seqs
    BY DEF Stream
<1>2. t.counts \in [Seqs -> {NotTold} \cup (0 .. Cardinality(Users))]
    BY DEF Stream
<1>3. /\ counts \in [Seqs -> {NotTold} \cup (0 .. Cardinality(Users))]
      /\ \A k \in Seqs : counts[k] = IF k = m THEN unread ELSE t.counts[k]
    BY <1>2
<1> HIDE DEF copies, counts
<1>4. after = [t EXCEPT !.copies = copies, !.counts = counts]
    BY DEF copies, counts, Stream, WithMessage
<1> HIDE DEF after
<1>5. /\ after \in Stream
      /\ after.told = t.told /\ after.ended = t.ended /\ after.seen = t.seen
      /\ after.copies = copies /\ after.counts = counts
    BY <1>1, <1>3, <1>4 DEF Stream
<1> QED
    BY <1>3, <1>5 DEF copies, after

\* A message more, for the members of now, in their streams, and read by its sender if
\* that is one of them.
SentBy(sender) ==
    LET m == Len(messages) + 1 IN
    /\ m \in Seqs /\ m \notin DOMAIN messages
    /\ DOMAIN messages' = DOMAIN messages \cup {m}
    /\ \A k \in DOMAIN messages : messages'[k] = messages[k]
    /\ messages'[m].holders = Members
    /\ messages'[m].readers = {sender} \cap Members
    /\ messages'[m].burned = {}
    /\ \A u \in Users : stream'[u].copies = IF u \in Members THEN stream[u].copies \cup {m}
                                                              ELSE stream[u].copies

\* Members hear of the new message; its row is sound, and nobody has passed it.
LEMMA AppendKeepsInductive ==
    ASSUME Inductive, NEW sender \in Users, NEW burns \in BOOLEAN, Members # {},
           AppendMessage(sender, burns)
    PROVE  Inductive' /\ SentBy(sender)
<1> DEFINE own == {sender} \cap Members
           timed == IF burns THEN own ELSE {}
<1>1. TypeOK /\ Len(messages) < MaxMessages
    BY DEF Inductive, AppendMessage
<1>2. /\ Len(messages) \in Nat /\ MaxMessages \in Nat
      /\ DOMAIN messages = 1 .. Len(messages)
      /\ messages \in Seq(Message)
      /\ DOMAIN messages \subseteq Seqs
  <2>1. Len(messages) \in 0 .. MaxMessages
      BY <1>1, RowsAreAFunction
  <2> QED
      BY <1>1, <2>1, ChatAssumption, RowsAreAFunction DEF TypeOK
<1>3. PICK m \in Nat : m = Len(messages) + 1
    BY <1>2
<1>4. m \in Seqs /\ m \notin DOMAIN messages
    BY <1>1, <1>2, <1>3 DEF Seqs
<1>5. Members \in SUBSET Users
    BY <1>1 DEF TypeOK, Conversation, Members
<1>6. PICK unread \in 0 .. Cardinality(Users) : unread = Cardinality(Members \ {sender})
  <2>1. Members \ {sender} \in SUBSET Users
      BY <1>5
  <2> QED
      BY <2>1, SizesAreBounded
<1>7. /\ timed \in SUBSET Users /\ own \in SUBSET Users
      /\ timed \subseteq own /\ own \subseteq Members
      /\ sender \in Members => sender \in own
      /\ Members \ (own \cup {sender}) = Members \ {sender}
      /\ \A u \in Members \ {sender} : u \notin own
    OBVIOUS
<1>8. PICK row : row = [sender |-> sender, burns |-> burns, recalled |-> FALSE, purged |-> FALSE,
                        holders |-> Members, readers |-> own,
                        timed |-> timed, burned |-> {}, unread |-> unread]
    OBVIOUS
<1>9. /\ messages' = Append(messages, row)
      /\ stream' = [u \in Users |-> IF u \in Members
                       THEN WithMessage(stream[u], m, unread)
                       ELSE stream[u]]
      /\ conversation' = conversation /\ position' = position
      /\ history' = history /\ changes' = changes
    BY <1>3, <1>6, <1>8 DEF AppendMessage, WithMessage
<1> HIDE DEF own, timed
<1>10. /\ row \in Message
       /\ row.sender = sender /\ row.recalled = FALSE /\ row.holders = Members
       /\ row.readers = own /\ row.timed = timed /\ row.burned = {}
       /\ row.unread = unread
    BY <1>5, <1>7, <1>8 DEF Message
<1>11. RowIsSound(row)
    BY <1>7, <1>10 DEF RowIsSound
<1>12. /\ messages' \in Seq(Message) /\ Len(messages') = m
       /\ DOMAIN messages' = DOMAIN messages \cup {m}
       /\ messages'[m] = row
       /\ \A k \in DOMAIN messages : messages'[k] = messages[k]
  <2> DEFINE longer == Append(messages, row)
  <2>0. /\ longer \in Seq(Message) /\ Len(longer) = Len(messages) + 1
        /\ longer[Len(messages) + 1] = row
        /\ \A k \in 1 .. Len(messages) : longer[k] = messages[k]
    <3>1. messages \in Seq(Message) /\ row \in Message
        BY <1>2, <1>10
    <3> QED
        BY <3>1, AppendedRow
  <2> HIDE DEF longer
  <2>1. /\ messages' \in Seq(Message) /\ Len(messages') = Len(messages) + 1
        /\ messages'[Len(messages) + 1] = row
        /\ \A k \in 1 .. Len(messages) : messages'[k] = messages[k]
    <3>1. messages' = longer
        BY <1>9 DEF longer
    <3> QED
        BY <2>0, <3>1
  <2>2. DOMAIN messages' = 1 .. Len(messages')
      BY <2>1
  <2>3. 1 .. Len(messages') = (1 .. Len(messages)) \cup {m}
      BY <1>2, <1>3, <2>1
  <2> QED
      BY <1>2, <1>3, <2>1, <2>2, <2>3
<1>13. /\ stream' \in [Users -> Stream]
       /\ \A u \in Users :
             /\ stream'[u].told = stream[u].told
             /\ stream'[u].ended = stream[u].ended
             /\ stream'[u].seen = stream[u].seen
             /\ stream'[u].copies = IF u \in Members THEN stream[u].copies \cup {m}
                                                     ELSE stream[u].copies
             /\ \A k \in Seqs : stream'[u].counts[k] =
                    IF u \in Members /\ k = m THEN unread ELSE stream[u].counts[k]
  <2>1. stream \in [Users -> Stream]
      BY <1>1 DEF TypeOK
  <2>2. ASSUME NEW u \in Users
        PROVE  stream'[u] = IF u \in Members
                       THEN WithMessage(stream[u], m, unread)
                       ELSE stream[u]
      BY <1>9
  <2>3. \A u \in Users : stream[u] \in Stream
      BY <2>1
  <2>4. ASSUME NEW u \in Users, u \in Members
        PROVE  /\ stream'[u] \in Stream
               /\ stream'[u].told = stream[u].told
               /\ stream'[u].ended = stream[u].ended
               /\ stream'[u].seen = stream[u].seen
               /\ stream'[u].copies = stream[u].copies \cup {m}
               /\ \A k \in Seqs : stream'[u].counts[k] =
                      IF k = m THEN unread ELSE stream[u].counts[k]
    <3>1. PICK t \in Stream : t = stream[u]
        BY <2>3
    <3>2. PICK after : after = WithMessage(t, m, unread)
        OBVIOUS
    <3>3. stream'[u] = after
        BY <2>2, <2>4, <3>1, <3>2
    <3>4. /\ after \in Stream
          /\ after.told = t.told /\ after.ended = t.ended /\ after.seen = t.seen
          /\ after.copies = t.copies \cup {m}
          /\ \A k \in Seqs : after.counts[k] = IF k = m THEN unread ELSE t.counts[k]
        BY <1>4, <3>2, EventOfAMessage
    <3> QED
        BY <3>1, <3>3, <3>4
  <2>5. \A u \in Users : stream'[u] \in Stream
      BY <2>2, <2>3, <2>4
  <2>6. stream' \in [Users -> Stream]
      BY <1>9, <2>5
  <2> QED
      BY <2>2, <2>4, <2>6
<1>14. TypeOK'
  <2>1. m <= MaxMessages
      BY <1>1, <1>2, <1>3
  <2> QED
      BY <1>1, <1>9, <1>12, <1>13, <2>1 DEF TypeOK
<1>15. RowsAreSound'
  <2>1. ASSUME NEW k \in DOMAIN messages'
        PROVE  RowIsSound(messages[k])'
    <3>1. PICK r : r = messages'[k] /\ RowIsSound(r)
        BY <1>11, <1>12 DEF Inductive, RowsAreSound
    <3> QED
        BY <3>1 DEF RowIsSound
  <2> QED
      BY <2>1 DEF RowsAreSound
<1>16. StreamsAreSound'
  <2> SUFFICES ASSUME NEW u \in Users
               PROVE  /\ stream'[u].ended \subseteq DOMAIN messages'
                      /\ \A k \in stream'[u].copies :
                            k \in DOMAIN messages' /\ u \in messages'[k].holders
      BY DEF StreamsAreSound
  <2>1. /\ stream[u].ended \subseteq DOMAIN messages
        /\ \A k \in stream[u].copies : k \in DOMAIN messages /\ u \in messages[k].holders
      BY DEF Inductive, StreamsAreSound
  <2>2. \A k \in stream[u].copies : k \in DOMAIN messages' /\ u \in messages'[k].holders
      BY <1>12, <2>1
  <2>3. u \in Members => m \in DOMAIN messages' /\ u \in messages'[m].holders
      BY <1>10, <1>12
  <2>4. stream'[u].ended \subseteq DOMAIN messages'
      BY <1>12, <1>13, <2>1
  <2>5. \A k \in stream'[u].copies : k \in stream[u].copies \/ (k = m /\ u \in Members)
      BY <1>13, ZenonT(30)
  <2> QED
      BY <2>2, <2>3, <2>4, <2>5
<1>17. PositionsAreBounded'
  <2>1. \A u \in Users : position[u] \in Nat /\ history[u] \in Nat
      BY <1>1, <1>2 DEF TypeOK
  <2>2. \A u \in Users : position[u] <= m /\ history[u] <= m
      BY <1>2, <1>3, <2>1 DEF Inductive, PositionsAreBounded
  <2> QED
      BY <1>9, <1>12, <2>2 DEF Inductive, PositionsAreBounded, Members
<1>18. PositionsAgree'
  <2>1. \A u \in Users : Effective(u) \in Nat /\ Effective(u) < m
      BY <1>1, <1>2, <1>3 DEF TypeOK, Inductive, PositionsAreBounded, Effective
  <2>2. \A u \in Users : Effective(u)' = Effective(u)
      BY <1>9 DEF Effective, Members
  <2>3. \A u \in Members \ {sender} : u \in row.readers <=> m <= Effective(u)
      BY <1>3, <1>5, <1>7, <1>10, <2>1
  <2>4. \A k \in DOMAIN messages : messages[k].holders \in SUBSET Users
      BY <1>1, RowsAreAFunction DEF Message
  <2>5. \A k \in DOMAIN messages' : \A u \in messages'[k].holders \ {messages'[k].sender} :
             u \in messages'[k].readers <=> k <= Effective(u)
      BY <1>10, <1>12, <2>3 DEF Inductive, PositionsAgree
  <2>6. \A k \in DOMAIN messages' : messages'[k].holders \in SUBSET Users
      BY <1>5, <1>10, <1>12, <2>4
  <2>7. \A k \in DOMAIN messages' : \A u \in messages'[k].holders \ {messages'[k].sender} :
             u \in messages'[k].readers <=> k <= Effective(u)'
      BY <2>2, <2>5, <2>6
  <2>8. \A u \in Users : stream'[u].seen = Effective(u)'
    <3>1. \A u \in Users : stream'[u].seen = stream[u].seen
        BY <1>13
    <3>2. \A u \in Users : stream[u].seen = Effective(u)
        BY DEF Inductive, PositionsAgree
    <3> QED
        BY <2>2, <3>1, <3>2
  <2> QED
      BY <2>7, <2>8 DEF PositionsAgree
<1>19. CountsAgree'
  <2>1. row.holders \ (row.readers \cup {row.sender}) = Members \ {sender}
      BY <1>7, <1>10
  <2>2. /\ messages'[m].unread = Cardinality(messages'[m].holders
                 \ (messages'[m].readers \cup {messages'[m].sender}))
        /\ \A u \in messages'[m].holders : stream'[u].counts[m] = messages'[m].unread
      BY <1>4, <1>5, <1>6, <1>10, <1>12, <1>13, <2>1
  <2>3. ASSUME NEW k \in DOMAIN messages
        PROVE  /\ messages'[k].unread = Cardinality(messages'[k].holders
                     \ (messages'[k].readers \cup {messages'[k].sender}))
               /\ \A u \in messages'[k].holders : stream'[u].counts[k] = messages'[k].unread
    <3>1. messages'[k] = messages[k] /\ k # m /\ k \in Seqs
        BY <1>2, <1>4, <1>12
    <3>2. messages[k].holders \in SUBSET Users
        BY <1>1, RowsAreAFunction DEF Message
    <3>3. /\ messages[k].unread = Cardinality(messages[k].holders
                       \ (messages[k].readers \cup {messages[k].sender}))
          /\ \A u \in messages[k].holders : stream[u].counts[k] = messages[k].unread
        BY DEF Inductive, CountsAgree
    <3>4. \A u \in messages[k].holders : stream'[u].counts[k] = messages[k].unread
        BY <1>13, <3>1, <3>2, <3>3
    <3> QED
        BY <3>1, <3>3, <3>4
  <2> QED
      BY <1>12, <2>2, <2>3 DEF CountsAgree
<1>20. MembersAreTold'
    BY <1>9, <1>13 DEF Inductive, MembersAreTold, Members
<1>21. TextIsGone'
  <2>1. \A u \in Users : m \notin stream'[u].ended
      BY <1>4, <1>13 DEF Inductive, StreamsAreSound
  <2>2. \A u \in Users :
          ~(u \in messages'[m].burned \/ messages'[m].recalled \/ m \in stream'[u].ended)
      BY <1>10, <1>12, <2>1
  <2>3. \A k \in DOMAIN messages, u \in Users :
          \/ u \in messages'[k].burned
          \/ messages'[k].recalled
          \/ k \in stream'[u].ended
          => k \notin stream'[u].copies
    <3> TAKE k \in DOMAIN messages, u \in Users
    <3>1. messages'[k] = messages[k] /\ k # m
        BY <1>4, <1>12
    <3>2. /\ stream'[u].copies = stream[u].copies \/ stream'[u].copies = stream[u].copies \cup {m}
          /\ stream'[u].ended = stream[u].ended
        BY <1>13
    <3>3. k \in stream'[u].copies <=> k \in stream[u].copies
        BY <3>1, <3>2
    <3> QED
        BY <3>1, <3>2, <3>3 DEF Inductive, TextIsGone
  <2> QED
      BY <1>12, <2>2, <2>3 DEF TextIsGone
<1>22. SentBy(sender)
  <2>1. \A u \in Users : stream'[u].copies = IF u \in Members THEN stream[u].copies \cup {m}
                                                              ELSE stream[u].copies
      BY <1>13
  <2> QED
      BY <1>3, <1>4, <1>10, <1>12, <2>1 DEF SentBy, own
<1> QED
    BY <1>14, <1>15, <1>16, <1>17, <1>18, <1>19, <1>20, <1>21, <1>22 DEF Inductive

\* A message of a member, or the file message of one who may have left: a conversation
\* always has a member, its owner.
LEMMA SendKeepsInductive ==
    ASSUME Inductive, NEW sender \in Users,
           (\E burns \in BOOLEAN : Send(sender, burns)) \/ SendFile(sender)
    PROVE  /\ Inductive' /\ SentBy(sender) /\ Members # {}
           /\ UNCHANGED <<conversation, position, history>>
<1>1. PICK burns \in BOOLEAN : AppendMessage(sender, burns)
    BY DEF Send, SendFile
<1>2. Members # {}
    BY DEF Send, SendFile, Inductive, MembersAreTold
<1> QED
    BY <1>1, <1>2, AppendKeepsInductive DEF AppendMessage

-----------------------------------------------------------------------------
(* Recalling and burning                                                   *)
(*                                                                         *)
(* They take messages away: nobody's reading, place or membership changes, *)
(* rows change in what is burned, recalled and purged, and streams lose    *)
(* copies and hear of ends.                                                *)

LossStep ==
    /\ messages' \in Seq(Message) /\ Len(messages') = Len(messages)
    /\ DOMAIN messages' = DOMAIN messages
    /\ \A m \in DOMAIN messages :
          /\ messages'[m].sender = messages[m].sender
          /\ messages'[m].holders = messages[m].holders
          /\ messages'[m].readers = messages[m].readers
          /\ messages'[m].unread = messages[m].unread
    /\ RowsAreSound'
    /\ stream' \in [Users -> Stream]
    /\ \A u \in Users : /\ stream'[u].told = stream[u].told
                        /\ stream'[u].counts = stream[u].counts
                        /\ stream'[u].seen = stream[u].seen
                        /\ stream'[u].copies \subseteq stream[u].copies
                        /\ stream'[u].ended \subseteq DOMAIN messages
    /\ TextIsGone'
    /\ UNCHANGED <<conversation, position, history, changes>>

LEMMA LossStepKeepsInductive ==
    ASSUME Inductive, LossStep
    PROVE  Inductive'
<1>1. \A m \in DOMAIN messages : messages[m].holders \in SUBSET Users
    BY RowsAreAFunction DEF Inductive, Message
<1>2. TypeOK'
    BY DEF Inductive, LossStep, TypeOK
<1>3. StreamsAreSound'
    BY DEF Inductive, LossStep, StreamsAreSound
<1>4. PositionsAreBounded'
    BY DEF Inductive, LossStep, PositionsAreBounded, Members
<1>5. PositionsAgree'
  <2>1. \A u \in Users : Effective(u)' = Effective(u)
      BY DEF LossStep, Effective, Members
  <2> QED
      BY <1>1, <2>1 DEF Inductive, LossStep, PositionsAgree
<1>6. CountsAgree'
  <2>1. ASSUME NEW m \in DOMAIN messages
        PROVE  /\ messages'[m].unread = Cardinality(messages'[m].holders
                     \ (messages'[m].readers \cup {messages'[m].sender}))
               /\ \A u \in messages'[m].holders : stream'[u].counts[m] = messages'[m].unread
    <3>1. /\ messages[m].unread = Cardinality(messages[m].holders
                       \ (messages[m].readers \cup {messages[m].sender}))
          /\ \A u \in messages[m].holders : stream[u].counts[m] = messages[m].unread
        BY DEF Inductive, CountsAgree
    <3>2. \A u \in messages[m].holders : stream'[u].counts = stream[u].counts
        BY <1>1 DEF LossStep
    <3> QED
        BY <3>1, <3>2 DEF LossStep
  <2>2. DOMAIN messages' = DOMAIN messages
      BY DEF LossStep
  <2> QED
      BY <2>1, <2>2 DEF CountsAgree
<1>7. MembersAreTold'
    BY DEF Inductive, LossStep, MembersAreTold, Members
<1> QED
    BY <1>2, <1>3, <1>4, <1>5, <1>6, <1>7 DEF Inductive, LossStep

\* A stream that loses copies and hears of ends.
WithoutTexts(t, copies, ended) == [t EXCEPT !.copies = copies, !.ended = ended]

LEMMA StreamsLoseTexts ==
    ASSUME stream \in [Users -> Stream],
           NEW copies \in [Users -> SUBSET Seqs], NEW ended \in [Users -> SUBSET Seqs],
           stream' = [u \in Users |-> WithoutTexts(stream[u], copies[u], ended[u])]
    PROVE  /\ stream' \in [Users -> Stream]
           /\ \A u \in Users : /\ stream'[u].told = stream[u].told
                               /\ stream'[u].counts = stream[u].counts
                               /\ stream'[u].seen = stream[u].seen
                               /\ stream'[u].copies = copies[u]
                               /\ stream'[u].ended = ended[u]
<1>1. ASSUME NEW t \in Stream, NEW c \in SUBSET Seqs, NEW e \in SUBSET Seqs
      PROVE  /\ WithoutTexts(t, c, e) \in Stream
             /\ WithoutTexts(t, c, e).told = t.told
             /\ WithoutTexts(t, c, e).counts = t.counts
             /\ WithoutTexts(t, c, e).seen = t.seen
             /\ WithoutTexts(t, c, e).copies = c
             /\ WithoutTexts(t, c, e).ended = e
    BY DEF Stream, WithoutTexts
<1>2. ASSUME NEW u \in Users
      PROVE  /\ stream[u] \in Stream /\ copies[u] \in SUBSET Seqs /\ ended[u] \in SUBSET Seqs
             /\ stream'[u] = WithoutTexts(stream[u], copies[u], ended[u])
    OBVIOUS
<1>3. ASSUME NEW u \in Users
      PROVE  /\ stream'[u] \in Stream
             /\ stream'[u].told = stream[u].told
             /\ stream'[u].counts = stream[u].counts
             /\ stream'[u].seen = stream[u].seen
             /\ stream'[u].copies = copies[u]
             /\ stream'[u].ended = ended[u]
  <2>1. PICK t \in Stream, c \in SUBSET Seqs, e \in SUBSET Seqs :
            t = stream[u] /\ c = copies[u] /\ e = ended[u]
      BY <1>2
  <2>2. stream'[u] = WithoutTexts(t, c, e)
      BY <1>2, <2>1
  <2> QED
      BY <1>1, <2>1, <2>2
<1>4. stream' \in [Users -> Stream]
    BY <1>3
<1> QED
    BY <1>3, <1>4

\* A recall burns the message for every holder and takes every copy of it.
LEMMA RecallLoses ==
    ASSUME Inductive, NEW operator \in Users, NEW m \in Seqs, Recall(operator, m)
    PROVE  /\ LossStep
           /\ m \in DOMAIN messages
           /\ \A k \in DOMAIN messages :
                 messages'[k].burned = IF k = m THEN messages[k].holders ELSE messages[k].burned
           /\ \A u \in Users : stream'[u].copies = stream[u].copies \ {m}
<1> DEFINE copies == [u \in Users |-> stream[u].copies \ {m}]
           ended == [u \in Users |-> IF u \in Members THEN stream[u].ended \cup {m}
                                                      ELSE stream[u].ended]
<1>1. TypeOK /\ m \in DOMAIN messages
    BY DEF Inductive, Recall
<1>2. /\ messages' = [messages EXCEPT ![m].recalled = TRUE, ![m].burned = messages[m].holders]
      /\ UNCHANGED <<conversation, position, history, changes>>
    BY DEF Recall
<1>3. PICK row \in Message : row = messages[m]
    BY <1>1, RowsAreAFunction
<1>4. PICK gone : gone = [row EXCEPT !.recalled = TRUE, !.burned = row.holders]
    OBVIOUS
<1>5. messages' = [messages EXCEPT ![m] = gone]
    BY <1>1, <1>2, <1>3, <1>4
<1>6. /\ gone \in Message /\ gone.recalled = TRUE /\ gone.burned = row.holders
      /\ gone.sender = row.sender /\ gone.holders = row.holders /\ gone.readers = row.readers
      /\ gone.timed = row.timed /\ gone.unread = row.unread
    BY <1>4 DEF Message
<1>7. /\ messages' \in Seq(Message) /\ Len(messages') = Len(messages)
      /\ DOMAIN messages' = DOMAIN messages
      /\ \A k \in DOMAIN messages : messages'[k] = IF k = m THEN gone ELSE messages[k]
  <2>1. messages \in Seq(Message)
      BY <1>1 DEF TypeOK
  <2> QED
      BY <1>1, <1>5, <1>6, <2>1
<1>8. RowsAreSound'
  <2>1. RowIsSound(gone)
      BY <1>1, <1>3, <1>6 DEF Inductive, RowsAreSound, RowIsSound
  <2>2. ASSUME NEW k \in DOMAIN messages'
        PROVE  RowIsSound(messages[k])'
    <3>1. PICK r : r = messages'[k] /\ RowIsSound(r)
        BY <1>7, <2>1 DEF Inductive, RowsAreSound
    <3> QED
        BY <3>1 DEF RowIsSound
  <2> QED
      BY <2>2 DEF RowsAreSound
<1>9. /\ stream' \in [Users -> Stream]
      /\ \A u \in Users : /\ stream'[u].told = stream[u].told
                          /\ stream'[u].counts = stream[u].counts
                          /\ stream'[u].seen = stream[u].seen
                          /\ stream'[u].copies = copies[u]
                          /\ stream'[u].ended = ended[u]
  <2>1. stream \in [Users -> Stream]
      BY <1>1 DEF TypeOK
  <2>2. \A u \in Users : stream[u].copies \in SUBSET Seqs /\ stream[u].ended \in SUBSET Seqs
      BY <2>1 DEF Stream
  <2>3. copies \in [Users -> SUBSET Seqs] /\ ended \in [Users -> SUBSET Seqs]
      BY <2>2
  <2>4. stream' = [u \in Users |-> WithoutTexts(stream[u], copies[u], ended[u])]
    <3>1. stream' = [u \in Users |->
                        [stream[u] EXCEPT !.copies = @ \ {m},
                                          !.ended = IF u \in Members THEN @ \cup {m} ELSE @]]
        BY DEF Recall
    <3> QED
        BY <2>1, <3>1 DEF WithoutTexts, Stream
  <2> HIDE DEF copies, ended
  <2> QED
      BY <2>1, <2>3, <2>4, StreamsLoseTexts
<1>10. \A u \in Users : /\ stream'[u].copies \subseteq stream[u].copies
                        /\ stream'[u].ended \subseteq DOMAIN messages
  <2> TAKE u \in Users
  <2>1. stream'[u].copies \subseteq stream[u].copies
      BY <1>9
  <2>2. stream[u].ended \subseteq DOMAIN messages
      BY DEF Inductive, StreamsAreSound
  <2>3. stream'[u].ended \subseteq stream[u].ended \cup {m}
      BY <1>9
  <2> QED
      BY <1>1, <2>1, <2>2, <2>3
<1>11. TextIsGone'
  <2>1. \A k \in DOMAIN messages, u \in Users :
          \/ u \in messages'[k].burned
          \/ messages'[k].recalled
          \/ k \in stream'[u].ended
          => k \notin stream'[u].copies
    <3> TAKE k \in DOMAIN messages, u \in Users
    <3>1. CASE k = m
        BY <1>9, <3>1
    <3>2. CASE k # m
      <4>1. messages'[k] = messages[k]
          BY <1>7, <3>2
      <4>2. k \in stream'[u].ended => k \in stream[u].ended
          BY <1>9, <3>2, ZenonT(30)
      <4>3. k \in stream'[u].copies => k \in stream[u].copies
          BY <1>10
      <4> QED
          BY <4>1, <4>2, <4>3 DEF Inductive, TextIsGone
    <3> QED
        BY <3>1, <3>2
  <2> QED
      BY <1>7, <2>1 DEF TextIsGone
<1>12. \A k \in DOMAIN messages :
          /\ messages'[k].sender = messages[k].sender
          /\ messages'[k].holders = messages[k].holders
          /\ messages'[k].readers = messages[k].readers
          /\ messages'[k].unread = messages[k].unread
    BY <1>3, <1>6, <1>7
<1>13. \A u \in Users : /\ stream'[u].told = stream[u].told
                        /\ stream'[u].counts = stream[u].counts
                        /\ stream'[u].seen = stream[u].seen
    BY <1>9
<1>14. LossStep
    BY <1>2, <1>7, <1>8, <1>9, <1>10, <1>11, <1>12, <1>13 DEF LossStep
<1>15. \A k \in DOMAIN messages :
          messages'[k].burned = IF k = m THEN messages[k].holders ELSE messages[k].burned
    BY <1>3, <1>6, <1>7
<1>16. \A u \in Users : stream'[u].copies = stream[u].copies \ {m}
    BY <1>9
<1> QED
    BY <1>1, <1>14, <1>15, <1>16

\* What a round of the sweeper does to the row of message m: it burns for the users
\* in gone, and may be purged.
LEMMA SweptRow ==
    ASSUME Inductive, NEW due \in SUBSET Due, NEW ids,
           NEW m \in DOMAIN messages, NEW row, row = Purge(Burn(due), ids)[m]
    PROVE  /\ row \in Message /\ RowIsSound(row)
           /\ row.sender = messages[m].sender /\ row.holders = messages[m].holders
           /\ row.readers = messages[m].readers /\ row.unread = messages[m].unread
           /\ \A u \in Users : u \in row.burned <=> u \in messages[m].burned \/ <<m, u>> \in due
           /\ row.recalled => messages[m].recalled \/ row.burned = row.holders
<1> DEFINE gone == {u \in Users : <<m, u>> \in due}
           burned == messages[m].burned \cup gone
           recalled == messages[m].recalled \/ (gone # {} /\ messages[m].holders \subseteq burned)
           purged == messages[m].purged \/ m \in ids
<1>1. PICK old \in Message : old = messages[m] /\ RowIsSound(old)
    BY RowsAreAFunction DEF Inductive, RowsAreSound
<1>2. /\ old.holders \in SUBSET Users /\ old.burned \in SUBSET Users
      /\ old.recalled \in BOOLEAN /\ old.purged \in BOOLEAN
    BY DEF Message
<1>3. \A u \in gone : u \in old.timed /\ ~old.recalled
    BY <1>1 DEF Due
<1>4. PICK b \in SUBSET Users : b = burned
    BY <1>1, <1>2
<1>5. PICK r \in BOOLEAN : r = recalled
    OBVIOUS
<1>6. PICK p \in BOOLEAN : p = purged
    OBVIOUS
<1>7. PICK burnt : burnt = [old EXCEPT !.burned = b, !.recalled = r]
    OBVIOUS
<1>8. Burn(due)[m] = burnt
    BY <1>1, <1>4, <1>5, <1>7 DEF Burn
<1>9. /\ burnt \in Message
      /\ burnt.burned = b /\ burnt.recalled = r /\ burnt.purged = old.purged
      /\ burnt.sender = old.sender /\ burnt.holders = old.holders /\ burnt.readers = old.readers
      /\ burnt.timed = old.timed /\ burnt.unread = old.unread
    BY <1>7 DEF Message
<1>10. row = [burnt EXCEPT !.purged = p]
  <2>1. DOMAIN Burn(due) = DOMAIN messages
      BY DEF Burn
  <2> QED
      BY <1>1, <1>6, <1>8, <1>9, <2>1 DEF Purge
<1>11. /\ row \in Message
       /\ row.burned = b /\ row.recalled = r
       /\ row.sender = old.sender /\ row.holders = old.holders /\ row.readers = old.readers
       /\ row.timed = old.timed /\ row.unread = old.unread
    BY <1>9, <1>10 DEF Message
<1>12. b = old.burned \cup gone
    BY <1>1, <1>4
<1>13. r <=> old.recalled \/ (gone # {} /\ old.holders \subseteq b)
    BY <1>1, <1>4, <1>5
<1> HIDE DEF gone, burned, recalled, purged
<1>14. b \subseteq old.holders
    BY <1>1, <1>3, <1>12 DEF RowIsSound
<1>15. r <=> b = old.holders
  <2>1. CASE old.recalled
    <3>1. gone = {}
        BY <1>3, <2>1
    <3> QED
        BY <1>1, <1>12, <1>13, <2>1, <3>1 DEF RowIsSound
  <2>2. CASE ~old.recalled
    <3>1. old.burned # old.holders
        BY <1>1, <2>2 DEF RowIsSound
    <3>2. b = old.holders => gone # {}
        BY <1>12, <3>1
    <3> QED
        BY <1>13, <1>14, <2>2, <3>2
  <2> QED
      BY <2>1, <2>2
<1>16. ~r => b \subseteq old.timed
    BY <1>1, <1>3, <1>12, <1>13 DEF RowIsSound
<1>17. RowIsSound(row)
  <2>1. /\ old.holders # {}
        /\ old.sender \in old.holders => old.sender \in old.readers
        /\ old.timed \subseteq old.readers
        /\ old.readers \subseteq old.holders
      BY <1>1 DEF RowIsSound
  <2>2. row.recalled <=> row.burned = row.holders
      BY <1>11, <1>15
  <2>3. ~row.recalled => row.burned \subseteq row.timed
      BY <1>11, <1>16
  <2> QED
      BY <1>11, <1>14, <2>1, <2>2, <2>3 DEF RowIsSound
<1>18. \A u \in Users : u \in row.burned <=> u \in messages[m].burned \/ <<m, u>> \in due
    BY <1>1, <1>11, <1>12 DEF gone
<1>19. row.recalled => messages[m].recalled \/ row.burned = row.holders
    BY <1>1, <1>11, <1>15
<1> QED
    BY <1>1, <1>11, <1>17, <1>18, <1>19

\* Who loses a copy lost the message; a message recalled by the sweep burned for
\* all its holders, and only they have copies.
LEMMA SweepOfLoses ==
    ASSUME Inductive, NEW due \in SUBSET Due, NEW ids \in SUBSET Seqs, SweepOf(due, ids)
    PROVE  /\ LossStep
           /\ \A m \in DOMAIN messages, u \in Users :
                 u \in messages'[m].burned <=> u \in messages[m].burned \/ <<m, u>> \in due
           /\ \A u \in Users : stream'[u].copies =
                 stream[u].copies \ ({m \in Seqs : <<m, u>> \in due} \cup ids)
<1> DEFINE lost(u) == {m \in Seqs : <<m, u>> \in due}
           copies == [u \in Users |-> stream[u].copies \ (lost(u) \cup ids)]
           ended == [u \in Users |-> stream[u].ended \cup lost(u)]
<1>1. TypeOK
    BY DEF Inductive
<1>2. /\ messages' = Purge(Burn(due), ids)
      /\ UNCHANGED <<conversation, position, history, changes>>
    BY DEF SweepOf
<1>3. DOMAIN messages' = DOMAIN messages
    BY <1>2 DEF Purge, Burn
<1>4. \A m \in DOMAIN messages : \E row \in Message :
          /\ row = messages'[m] /\ RowIsSound(row)
          /\ row.sender = messages[m].sender /\ row.holders = messages[m].holders
          /\ row.readers = messages[m].readers /\ row.unread = messages[m].unread
          /\ \A u \in Users : u \in row.burned <=> u \in messages[m].burned \/ <<m, u>> \in due
          /\ row.recalled => messages[m].recalled \/ row.burned = row.holders
  <2> TAKE m \in DOMAIN messages
  <2>1. PICK row : row = Purge(Burn(due), ids)[m]
      OBVIOUS
  <2> QED
      BY <1>2, <2>1, SweptRow
<1>5. messages' \in Seq(Message) /\ Len(messages') = Len(messages)
  <2>1. Len(messages) \in Nat /\ DOMAIN messages = 1 .. Len(messages)
      BY <1>1 DEF TypeOK
  <2>2. messages' = [m \in DOMAIN messages |-> messages'[m]]
      BY <1>2 DEF Purge, Burn
  <2>3. \A m \in DOMAIN messages : messages'[m] \in Message
      BY <1>4
  <2>4. PICK ms \in [1 .. Len(messages) -> Message] : ms = messages'
      BY <2>1, <2>2, <2>3
  <2> QED
      BY <2>1, <2>4, FunctionsAreSequences
<1>6. \A m \in DOMAIN messages :
          /\ messages'[m].sender = messages[m].sender
          /\ messages'[m].holders = messages[m].holders
          /\ messages'[m].readers = messages[m].readers
          /\ messages'[m].unread = messages[m].unread
    BY <1>4
<1>7. RowsAreSound'
  <2>1. ASSUME NEW k \in DOMAIN messages'
        PROVE  RowIsSound(messages[k])'
    <3>1. PICK r : r = messages'[k] /\ RowIsSound(r)
        BY <1>3, <1>4
    <3> QED
        BY <3>1 DEF RowIsSound
  <2> QED
      BY <2>1 DEF RowsAreSound
<1>8. /\ stream' \in [Users -> Stream]
      /\ \A u \in Users : /\ stream'[u].told = stream[u].told
                          /\ stream'[u].counts = stream[u].counts
                          /\ stream'[u].seen = stream[u].seen
                          /\ stream'[u].copies = copies[u]
                          /\ stream'[u].ended = ended[u]
  <2>1. stream \in [Users -> Stream]
      BY <1>1 DEF TypeOK
  <2>2. \A u \in Users : stream[u].copies \in SUBSET Seqs /\ stream[u].ended \in SUBSET Seqs
      BY <2>1 DEF Stream
  <2>3. copies \in [Users -> SUBSET Seqs] /\ ended \in [Users -> SUBSET Seqs]
      BY <2>2
  <2>4. stream' = [u \in Users |-> WithoutTexts(stream[u], copies[u], ended[u])]
    <3>1. stream' = [u \in Users |->
                        [stream[u] EXCEPT !.ended = @ \cup lost(u),
                                          !.copies = @ \ (lost(u) \cup ids)]]
        BY DEF SweepOf
    <3>2. ASSUME NEW t \in Stream, NEW l
          PROVE  [t EXCEPT !.ended = @ \cup l, !.copies = @ \ (l \cup ids)]
                   = WithoutTexts(t, t.copies \ (l \cup ids), t.ended \cup l)
        BY DEF WithoutTexts, Stream
    <3> HIDE DEF lost
    <3> QED
        BY <2>1, <3>1, <3>2
  <2> HIDE DEF copies, ended
  <2> QED
      BY <2>1, <2>3, <2>4, StreamsLoseTexts
<1>9. \A u \in Users : lost(u) \subseteq DOMAIN messages
    BY DEF Due
<1>10. \A u \in Users : /\ stream'[u].copies \subseteq stream[u].copies
                        /\ stream'[u].ended \subseteq DOMAIN messages
    BY <1>8, <1>9 DEF Inductive, StreamsAreSound
<1>11. TextIsGone'
  <2>1. \A m \in DOMAIN messages, u \in Users :
          \/ u \in messages'[m].burned
          \/ messages'[m].recalled
          \/ m \in stream'[u].ended
          => m \notin stream'[u].copies
    <3> TAKE m \in DOMAIN messages, u \in Users
    <3>1. SUFFICES ASSUME m \in stream'[u].copies
                   PROVE  /\ u \notin messages'[m].burned
                          /\ ~messages'[m].recalled
                          /\ m \notin stream'[u].ended
        OBVIOUS
    <3>2. m \in stream[u].copies /\ m \in Seqs /\ <<m, u>> \notin due
        BY <1>1, <1>8, <3>1, RowsAreAFunction
    <3>3. /\ u \notin messages[m].burned /\ ~messages[m].recalled
          /\ m \notin stream[u].ended /\ u \in messages[m].holders
        BY <3>2 DEF Inductive, TextIsGone, StreamsAreSound
    <3>4. u \notin messages'[m].burned
        BY <1>4, <3>2, <3>3
    <3>5. ~messages'[m].recalled
        BY <1>4, <3>3, <3>4
    <3>6. m \notin stream'[u].ended
        BY <1>8, <3>2, <3>3
    <3> QED
        BY <3>4, <3>5, <3>6
  <2> QED
      BY <1>3, <2>1 DEF TextIsGone
<1>12. \A u \in Users : /\ stream'[u].told = stream[u].told
                        /\ stream'[u].counts = stream[u].counts
                        /\ stream'[u].seen = stream[u].seen
    BY <1>8
<1>13. LossStep
    BY <1>2, <1>3, <1>5, <1>6, <1>7, <1>8, <1>10, <1>11, <1>12 DEF LossStep
<1>14. \A m \in DOMAIN messages, u \in Users :
          u \in messages'[m].burned <=> u \in messages[m].burned \/ <<m, u>> \in due
    BY <1>4
<1>15. \A u \in Users : stream'[u].copies = stream[u].copies \ (lost(u) \cup ids)
    BY <1>8
<1> QED
    BY <1>13, <1>14, <1>15

-----------------------------------------------------------------------------
(* Reading                                                                 *)

\* What a receipt does to the stream of a user: the position of its reader, and the
\* counts of the messages it was told of.
WithReceipt(t, seen, counts) == [t EXCEPT !.seen = seen, !.counts = counts]

LEMMA StreamsHearOfReading ==
    ASSUME stream \in [Users -> Stream],
           NEW seen \in [Users -> 0 .. MaxMessages],
           NEW counts \in [Users -> [Seqs -> {NotTold} \cup (0 .. Cardinality(Users))]],
           stream' = [u \in Users |-> WithReceipt(stream[u], seen[u], counts[u])]
    PROVE  /\ stream' \in [Users -> Stream]
           /\ \A u \in Users : /\ stream'[u].told = stream[u].told
                               /\ stream'[u].copies = stream[u].copies
                               /\ stream'[u].ended = stream[u].ended
                               /\ stream'[u].seen = seen[u]
                               /\ stream'[u].counts = counts[u]
<1> DEFINE Counts == [Seqs -> {NotTold} \cup (0 .. Cardinality(Users))]
<1>1. ASSUME NEW t \in Stream, NEW s \in 0 .. MaxMessages, NEW c \in Counts
      PROVE  /\ WithReceipt(t, s, c) \in Stream
             /\ WithReceipt(t, s, c).told = t.told
             /\ WithReceipt(t, s, c).copies = t.copies
             /\ WithReceipt(t, s, c).ended = t.ended
             /\ WithReceipt(t, s, c).seen = s
             /\ WithReceipt(t, s, c).counts = c
    BY DEF Stream, WithReceipt
<1>2. counts \in [Users -> Counts]
    OBVIOUS
<1> HIDE DEF Counts
<1>3. ASSUME NEW u \in Users
      PROVE  /\ stream'[u] \in Stream
             /\ stream'[u].told = stream[u].told
             /\ stream'[u].copies = stream[u].copies
             /\ stream'[u].ended = stream[u].ended
             /\ stream'[u].seen = seen[u]
             /\ stream'[u].counts = counts[u]
  <2>1. PICK t \in Stream, s \in 0 .. MaxMessages, c \in Counts :
            t = stream[u] /\ s = seen[u] /\ c = counts[u]
      BY <1>2
  <2>2. stream'[u] = WithReceipt(t, s, c)
      BY <2>1
  <2> QED
      BY <1>1, <2>1, <2>2
<1>4. stream' \in [Users -> Stream]
    BY <1>3
<1> QED
    BY <1>3, <1>4

\* The messages the position passes are read, and no others; a count that changes is
\* the count of a message read for the first time, and its holders hear of it.
\* The reader reads what it has, up to a message, and nothing else changes of rows
\* and texts.
ReadUpTo(reader, through) ==
    /\ reader \in Members /\ position[reader] < through
    /\ DOMAIN messages' = DOMAIN messages
    /\ \A m \in DOMAIN messages :
          /\ messages'[m].holders = messages[m].holders
          /\ messages'[m].burned = messages[m].burned
          /\ messages'[m].readers =
                IF position[reader] < m /\ m <= through /\ reader \in messages[m].holders
                THEN messages[m].readers \cup {reader} ELSE messages[m].readers
    /\ \A u \in Users : stream'[u].copies = stream[u].copies

LEMMA ReceiptKeepsInductive ==
    ASSUME Inductive, NEW reader \in Users, NEW seq \in 1 .. MaxMessages + 1,
           Receipt(reader, seq)
    PROVE  /\ Inductive'
           /\ \A u \in Users : Effective(u) <= Effective(u)'
           /\ \E through \in DOMAIN messages : ReadUpTo(reader, through)
<1>1. TypeOK
    BY DEF Inductive
<1>2. /\ Len(messages) \in Nat /\ MaxMessages \in Nat /\ Len(messages) <= MaxMessages
      /\ DOMAIN messages = 1 .. Len(messages)
      /\ DOMAIN messages \subseteq Seqs
      /\ \A m \in DOMAIN messages : messages[m] \in Message
  <2>1. Len(messages) \in 0 .. MaxMessages /\ MaxMessages \in Nat
      BY <1>1, RowsAreAFunction
  <2> QED
      BY <1>1, <2>1, RowsAreAFunction
<1>3. PICK through \in 0 .. MaxMessages :
          /\ through = IF seq > Len(messages) THEN Len(messages) ELSE seq
          /\ through <= Len(messages)
  <2> DEFINE limit == IF seq > Len(messages) THEN Len(messages) ELSE seq
  <2>1. PICK n \in Nat : n = Len(messages) /\ n <= MaxMessages
      BY <1>2
  <2>2. limit = IF seq > n THEN n ELSE seq
      BY <2>1
  <2>3. limit \in 0 .. MaxMessages /\ limit <= n
      BY <1>2, <2>1, <2>2
  <2> HIDE DEF limit
  <2>4. \E t \in 0 .. MaxMessages : t = limit /\ t <= Len(messages)
      BY <2>1, <2>3
  <2> QED
      BY <2>4 DEF limit
<1>4. PICK first : first = FirstReads(reader, through)
    OBVIOUS
<1>5. PICK before \in Nat : before = position[reader]
    BY <1>1, <1>2 DEF TypeOK
<1> DEFINE Passed(m) == before < m /\ m <= through
           rows == [m \in DOMAIN messages |->
                       IF Passed(m) THEN Read(messages[m], reader) ELSE messages[m]]
           seen == [u \in Users |-> IF u = reader THEN through ELSE stream[u].seen]
           counts == [u \in Users |-> [m \in Seqs |->
                         IF m \in first /\ u \in messages[m].holders
                         THEN rows[m].unread ELSE stream[u].counts[m]]]
<1>6. /\ reader \in Members
      /\ before < through
      /\ position' = [position EXCEPT ![reader] = through]
      /\ messages' = rows
      /\ conversation' = conversation /\ history' = history /\ changes' = changes
    BY <1>3, <1>5 DEF Receipt
<1>7. stream' = [u \in Users |->
                   [stream[u] EXCEPT
                       !.seen = IF u = reader THEN through ELSE @,
                       !.counts = [m \in Seqs |-> IF m \in first /\ u \in messages[m].holders
                                                  THEN rows[m].unread ELSE @[m]]]]
    BY <1>3, <1>4, <1>6 DEF Receipt
<1>8. \A m \in DOMAIN messages : rows[m] = IF Passed(m) THEN Read(messages[m], reader)
                                                       ELSE messages[m]
    OBVIOUS
<1>9. \A m \in first : /\ m \in DOMAIN messages /\ Passed(m)
                       /\ reader \in messages[m].holders \ messages[m].readers
                       /\ messages[m].sender # reader
    BY <1>4, <1>5 DEF FirstReads
<1>10. \A m \in DOMAIN messages :
           Passed(m) /\ m \notin first =>
             \/ reader \notin messages[m].holders \ messages[m].readers
             \/ messages[m].sender = reader
    BY <1>4, <1>5 DEF FirstReads
<1> HIDE DEF rows
<1>11. \A m \in DOMAIN messages : \E row \in Message :
          /\ row = rows[m] /\ RowIsSound(row)
          /\ row.sender = messages[m].sender /\ row.holders = messages[m].holders
          /\ row.recalled = messages[m].recalled /\ row.burned = messages[m].burned
          /\ row.readers = IF Passed(m) /\ reader \in messages[m].holders
                           THEN messages[m].readers \cup {reader} ELSE messages[m].readers
          /\ row.unread = Cardinality(row.holders \ (row.readers \cup {row.sender}))
          /\ m \notin first => row.unread = messages[m].unread
  <2> TAKE m \in DOMAIN messages
  <2>1. PICK old \in Message : old = messages[m]
      BY <1>2
  <2>2. RowIsSound(old) /\ old.unread = Cardinality(old.holders \ (old.readers \cup {old.sender}))
      BY <2>1 DEF Inductive, RowsAreSound, CountsAgree
  <2>3. CASE ~Passed(m)
    <3>1. rows[m] = old
        BY <1>8, <2>1, <2>3
    <3> HIDE DEF Passed
    <3> QED
        BY <2>1, <2>2, <2>3, <3>1
  <2>4. CASE Passed(m)
    <3>1. PICK row : row = Read(old, reader)
        OBVIOUS
    <3>2. rows[m] = row
        BY <1>8, <2>1, <2>4, <3>1
    <3>3. /\ row \in Message /\ RowIsSound(row)
          /\ row.sender = old.sender /\ row.holders = old.holders
          /\ row.recalled = old.recalled /\ row.burned = old.burned
          /\ row.readers = IF reader \in old.holders THEN old.readers \cup {reader}
                                                    ELSE old.readers
          /\ row.unread = Cardinality(row.holders \ (row.readers \cup {row.sender}))
        BY <2>2, <3>1, ReadMoves
    <3>4. m \notin first => row.readers \cup {row.sender} = old.readers \cup {old.sender}
        BY <1>10, <2>1, <2>4, <3>3
    <3>5. m \notin first => row.unread = old.unread
        BY <2>2, <3>3, <3>4
    <3> HIDE DEF Passed
    <3> QED
        BY <2>1, <2>4, <3>2, <3>3, <3>5
  <2> QED
      BY <2>3, <2>4
<1>12. DOMAIN rows = DOMAIN messages /\ rows \in [DOMAIN messages -> Message]
  <2>1. rows = [m \in DOMAIN messages |-> rows[m]]
      BY DEF rows
  <2>2. \A m \in DOMAIN messages : rows[m] \in Message
      BY <1>11
  <2> QED
      BY <2>1, <2>2
<1>13. messages' \in Seq(Message) /\ Len(messages') = Len(messages) /\ DOMAIN messages' = DOMAIN messages
  <2>1. rows \in [1 .. Len(messages) -> Message]
      BY <1>2, <1>12
  <2> QED
      BY <1>2, <1>6, <1>12, <2>1, FunctionsAreSequences
<1>14. /\ stream' \in [Users -> Stream]
       /\ \A u \in Users : /\ stream'[u].told = stream[u].told
                           /\ stream'[u].copies = stream[u].copies
                           /\ stream'[u].ended = stream[u].ended
                           /\ stream'[u].seen = seen[u]
                           /\ stream'[u].counts = counts[u]
  <2>1. stream \in [Users -> Stream]
      BY <1>1 DEF TypeOK
  <2>2. \A u \in Users :
            /\ stream[u].seen \in 0 .. MaxMessages
            /\ stream[u].counts \in [Seqs -> {NotTold} \cup (0 .. Cardinality(Users))]
      BY <2>1 DEF Stream
  <2>4. seen \in [Users -> 0 .. MaxMessages]
      BY <2>2
  <2>5. \A m \in first : rows[m].unread \in 0 .. Cardinality(Users)
      BY <1>9, <1>12 DEF Message
  <2>6. counts \in [Users -> [Seqs -> {NotTold} \cup (0 .. Cardinality(Users))]]
      BY <2>2, <2>5
  <2>7. stream' = [u \in Users |-> WithReceipt(stream[u], seen[u], counts[u])]
    <3>1. ASSUME NEW u \in Users
          PROVE  [stream[u] EXCEPT
                    !.seen = IF u = reader THEN through ELSE @,
                    !.counts = [m \in Seqs |-> IF m \in first /\ u \in messages[m].holders
                                               THEN rows[m].unread ELSE @[m]]]
                   = WithReceipt(stream[u], seen[u], counts[u])
      <4>1. stream[u] \in Stream
          BY <2>1
      <4> QED
          BY <4>1 DEF WithReceipt, Stream
    <3> HIDE DEF seen, counts
    <3> QED
        BY <1>7, <3>1
  <2> HIDE DEF seen, counts
  <2> QED
      BY <2>1, <2>4, <2>6, <2>7, StreamsHearOfReading
<1>15. TypeOK'
  <2>1. position' \in [Users -> 0 .. MaxMessages]
      BY <1>1, <1>6 DEF TypeOK
  <2> QED
      BY <1>1, <1>2, <1>6, <1>13, <1>14, <2>1 DEF TypeOK
<1>16. RowsAreSound'
  <2>1. ASSUME NEW k \in DOMAIN messages'
        PROVE  RowIsSound(messages[k])'
    <3>1. PICK r : r = messages'[k] /\ RowIsSound(r)
        BY <1>6, <1>11, <1>13
    <3> QED
        BY <3>1 DEF RowIsSound
  <2> QED
      BY <2>1 DEF RowsAreSound
<1>17. \A m \in DOMAIN messages :
          /\ messages'[m].sender = messages[m].sender
          /\ messages'[m].holders = messages[m].holders
          /\ messages'[m].recalled = messages[m].recalled
          /\ messages'[m].burned = messages[m].burned
          /\ messages'[m].readers = IF Passed(m) /\ reader \in messages[m].holders
                                    THEN messages[m].readers \cup {reader}
                                    ELSE messages[m].readers
          /\ messages'[m].unread = Cardinality(messages'[m].holders
                     \ (messages'[m].readers \cup {messages'[m].sender}))
          /\ m \notin first => messages'[m].unread = messages[m].unread
    BY <1>6, <1>11, ZenonT(30)
<1>18. StreamsAreSound'
    BY <1>13, <1>14, <1>17 DEF Inductive, StreamsAreSound
<1>19. /\ position'[reader] = through
       /\ \A u \in Users : u # reader => position'[u] = position[u]
    BY <1>1, <1>6 DEF TypeOK
<1>20. PositionsAreBounded'
  <2>1. conversation # NoConversation
      BY <1>6, NoConversationIsEmpty DEF Members
  <2>2. \A u \in Users : history[u] \in Nat /\ position[u] \in Nat
      BY <1>1, <1>2 DEF TypeOK
  <2>3. \A u \in Users : /\ position[u] <= Len(messages) /\ history[u] <= Len(messages)
                         /\ u \in Members => history[u] <= position[u]
      BY DEF Inductive, PositionsAreBounded
  <2>4. history[reader] <= through
      BY <1>3, <1>5, <1>6, <2>2, <2>3
  <2>5. \A u \in Users :
          /\ position'[u] <= Len(messages) /\ history[u] <= Len(messages)
          /\ u \in Members => history[u] <= position'[u]
      BY <1>3, <1>19, <2>3, <2>4
  <2> QED
      BY <1>6, <1>13, <2>1, <2>5 DEF PositionsAreBounded, Members
<1>21. /\ Effective(reader) = before /\ Effective(reader)' = through
       /\ \A u \in Users : u # reader => Effective(u)' = Effective(u)
    BY <1>5, <1>6, <1>19 DEF Effective, Members
<1>22. PositionsAgree'
  <2>1. \A u \in Users : stream[u].seen = Effective(u)
      BY DEF Inductive, PositionsAgree
  <2>2. \A u \in Users : stream'[u].seen = Effective(u)'
      BY <1>14, <1>21, <2>1, ZenonT(30)
  <2>3. ASSUME NEW m \in DOMAIN messages, NEW u \in messages[m].holders \ {messages[m].sender}
        PROVE  u \in messages'[m].readers <=> m <= Effective(u)'
    <3>1. u \in messages[m].readers <=> m <= Effective(u)
        BY DEF Inductive, PositionsAgree
    <3>2. u \in Users /\ m \in Nat
        BY <1>2 DEF Message
    <3>3. CASE u # reader
        BY <1>17, <1>21, <3>1, <3>2, <3>3, ZenonT(30)
    <3>4. CASE u = reader
      <4>1. u \in messages'[m].readers <=> Passed(m) \/ m <= before
          BY <1>17, <1>21, <3>1, <3>4
      <4>2. Passed(m) \/ m <= before <=> m <= through
          BY <1>3, <1>5, <1>6, <3>2
      <4> QED
          BY <1>21, <3>4, <4>1, <4>2
    <3> QED
        BY <3>3, <3>4
  <2> QED
      BY <1>13, <1>17, <2>2, <2>3 DEF PositionsAgree
<1>23. CountsAgree'
  <2>1. ASSUME NEW m \in DOMAIN messages, NEW u \in messages[m].holders
        PROVE  stream'[u].counts[m] = messages'[m].unread
    <3>1. u \in Users /\ m \in Seqs
        BY <1>2 DEF Message
    <3>2. stream'[u].counts[m] = IF m \in first THEN rows[m].unread ELSE stream[u].counts[m]
        BY <1>14, <2>1, <3>1
    <3>3. stream[u].counts[m] = messages[m].unread
        BY DEF Inductive, CountsAgree
    <3>4. m \in first => messages'[m].unread = rows[m].unread
        BY <1>6, <3>1
    <3>5. m \notin first => messages'[m].unread = messages[m].unread
        BY <1>17, <2>1
    <3> QED
        BY <3>2, <3>3, <3>4, <3>5
  <2> QED
      BY <1>13, <1>17, <2>1 DEF CountsAgree
<1>24. MembersAreTold'
    BY <1>6, <1>14 DEF Inductive, MembersAreTold, Members
<1>25. TextIsGone'
    BY <1>13, <1>14, <1>17 DEF Inductive, TextIsGone
<1>26. \A u \in Users : Effective(u) <= Effective(u)'
  <2>1. \A u \in Users : Effective(u) \in Nat
      BY <1>1, <1>2 DEF TypeOK, Effective
  <2> QED
      BY <1>3, <1>5, <1>6, <1>21, <2>1
<1>27. through \in DOMAIN messages /\ ReadUpTo(reader, through)
  <2>1. through \in DOMAIN messages
    <3>1. \A n \in Nat : through <= n => through \in 1 .. n
        BY <1>3, <1>5, <1>6
    <3> QED
        BY <1>2, <1>3, <3>1
  <2>2. position[reader] < through /\ \A m \in DOMAIN messages :
          Passed(m) <=> position[reader] < m /\ m <= through
      BY <1>5, <1>6
  <2> HIDE DEF Passed
  <2>3. \A m \in DOMAIN messages :
          /\ messages'[m].holders = messages[m].holders
          /\ messages'[m].burned = messages[m].burned
          /\ messages'[m].readers =
                IF position[reader] < m /\ m <= through /\ reader \in messages[m].holders
                THEN messages[m].readers \cup {reader} ELSE messages[m].readers
      BY <1>17, <2>2
  <2>4. \A u \in Users : stream'[u].copies = stream[u].copies
      BY <1>14
  <2> QED
      BY <1>6, <1>13, <2>1, <2>2, <2>3, <2>4 DEF ReadUpTo
<1>28. \E t \in DOMAIN messages : ReadUpTo(reader, t)
    BY <1>27
<1> HIDE DEF Passed, rows, seen, counts
<1> QED
    BY <1>15, <1>16, <1>18, <1>20, <1>22, <1>23, <1>24, <1>25, <1>26, <1>28 DEF Inductive

-----------------------------------------------------------------------------
(* The inductive invariant                                                 *)

LEMMA InitEstablishes ==
    ASSUME Init
    PROVE  Inductive
<1>1. /\ conversation = NoConversation
      /\ position = [u \in Users |-> 0] /\ history = [u \in Users |-> 0]
      /\ messages = <<>> /\ changes = 0
    BY DEF Init
<1>2. PICK t : t = [told |-> NoConversation, copies |-> {}, ended |-> {},
                    counts |-> [m \in Seqs |-> NotTold], seen |-> 0]
    OBVIOUS
<1>3. /\ NoConversation \in Conversation
      /\ NoConversation.kind = "none" /\ NoConversation.members = {}
    BY DEF NoConversation, Conversation
<1>4. /\ t \in Stream
      /\ t.told = NoConversation /\ t.copies = {} /\ t.ended = {} /\ t.seen = 0
    BY <1>2, <1>3, ChatAssumption DEF Stream
<1>5. stream \in [Users -> Stream] /\ \A u \in Users : stream[u] = t
    BY <1>2, <1>4 DEF Init
<1>6. messages \in Seq(Message) /\ Len(messages) = 0 /\ DOMAIN messages = {}
    BY <1>1
<1>7. Members = {}
    BY <1>1, <1>3 DEF Members
<1>8. TypeOK
    BY <1>1, <1>3, <1>5, <1>6, ChatAssumption DEF TypeOK
<1>9. RowsAreSound /\ CountsAgree /\ TextIsGone
    BY <1>6 DEF RowsAreSound, CountsAgree, TextIsGone
<1>10. StreamsAreSound
    BY <1>4, <1>5 DEF StreamsAreSound
<1>11. PositionsAreBounded
    BY <1>1, <1>6, <1>7 DEF PositionsAreBounded
<1>12. PositionsAgree
    BY <1>1, <1>4, <1>5, <1>6 DEF PositionsAgree, Effective
<1>13. MembersAreTold
    BY <1>1, <1>3, <1>4, <1>5, <1>7 DEF MembersAreTold
<1> QED
    BY <1>8, <1>9, <1>10, <1>11, <1>12, <1>13 DEF Inductive

\* The sweeper's two actions are rounds of the same kind: messages it clears are
\* messages there are.
LEMMA SweepLoses ==
    ASSUME Inductive, Sweep \/ SweepCutShort
    PROVE  LossStep
<1>1. CASE Sweep
  <2>1. PICK due \in SUBSET Due :
          \E ids \in SUBSET Purgeable(Burn(due)) : SweepOf(due, ids)
      BY <1>1 DEF Sweep
  <2>2. PICK ids \in SUBSET Purgeable(Burn(due)) : SweepOf(due, ids)
      BY <2>1
  <2>3. ids \in SUBSET Seqs
      BY RowsAreAFunction DEF Inductive, Purgeable, Burn
  <2> QED
      BY <2>2, <2>3, SweepOfLoses
<1>2. CASE SweepCutShort
  <2>1. PICK due \in SUBSET Due : SweepOf(due, {})
      BY <1>2 DEF SweepCutShort
  <2> QED
      BY <2>1, SweepOfLoses
<1> QED
    BY <1>1, <1>2

\* A step keeps the invariant, and takes nobody's position back.
LEMMA StepKeepsInductive ==
    ASSUME Inductive, [Next]_vars
    PROVE  Inductive' /\ \A u \in Users : Effective(u) <= Effective(u)'
<1>1. \A u \in Users : Effective(u) \in Nat
  <2>1. TypeOK /\ MaxMessages \in Nat
      BY ChatAssumption DEF Inductive
  <2> QED
      BY <2>1 DEF TypeOK, Effective
<1>2. ASSUME \A u \in Users : Effective(u)' = Effective(u)
      PROVE  \A u \in Users : Effective(u) <= Effective(u)'
    BY <1>1, <1>2
<1>3. ASSUME MembershipStep
      PROVE  Inductive' /\ \A u \in Users : Effective(u) <= Effective(u)'
  <2>1. \A u \in Users : Effective(u)' = Effective(u)
      BY <1>3 DEF MembershipStep
  <2> QED
      BY <1>2, <1>3, <2>1, MembershipStepKeepsInductive
<1>4. ASSUME UNCHANGED <<conversation, position, history>>
      PROVE  \A u \in Users : Effective(u) <= Effective(u)'
  <2>1. \A u \in Users : Effective(u)' = Effective(u)
      BY <1>4 DEF Effective, Members
  <2> QED
      BY <1>2, <2>1
<1>5. ASSUME LossStep
      PROVE  Inductive' /\ \A u \in Users : Effective(u) <= Effective(u)'
    BY <1>4, <1>5, LossStepKeepsInductive DEF LossStep
<1>6. CASE \E u \in Users, k \in {"group", "direct"}, t \in Titles \cup {Untitled},
             us \in SUBSET Users : Create(u, k, t, us)
    BY <1>3, <1>6, CreateIsMembership
<1>7. CASE Change
    BY <1>3, <1>7, ChangeIsMembership
<1>8. CASE \/ \E u \in Users, burns \in BOOLEAN : Send(u, burns)
           \/ \E u \in Users : SendFile(u)
  <2>1. PICK u \in Users : (\E burns \in BOOLEAN : Send(u, burns)) \/ SendFile(u)
      BY <1>8
  <2>2. Inductive' /\ UNCHANGED <<conversation, position, history>>
      BY <2>1, SendKeepsInductive
  <2> QED
      BY <1>4, <2>2
<1>9. CASE \E u \in Users, seq \in 1 .. MaxMessages + 1 : Receipt(u, seq)
    BY <1>9, ReceiptKeepsInductive
<1>10. CASE \E u \in Users, m \in Seqs : Recall(u, m)
    BY <1>5, <1>10, RecallLoses
<1>11. CASE Sweep \/ SweepCutShort
    BY <1>5, <1>11, SweepLoses
<1>12. CASE UNCHANGED vars
  <2>1. Inductive'
      BY <1>12, ZenonT(30) DEF vars, Inductive, TypeOK, RowsAreSound, RowIsSound, StreamsAreSound,
                   PositionsAreBounded, PositionsAgree, CountsAgree, MembersAreTold,
                   TextIsGone, Members, Effective
  <2>2. UNCHANGED <<conversation, position, history>>
      BY <1>12 DEF vars
  <2> QED
      BY <1>4, <2>1, <2>2
<1> QED
    BY <1>6, <1>7, <1>8, <1>9, <1>10, <1>11, <1>12 DEF Next

-----------------------------------------------------------------------------
(* The life of a message                                                   *)
(*                                                                         *)
(* Every step is one of MessageLife's, or changes neither lives nor texts. *)

LEMMA LifeIsLife ==
    /\ Life = [m \in Seqs |-> [u \in Users |-> Life[m][u]]]
    /\ \A m \in Seqs, u \in Users :
          Life[m][u] = IF m \in DOMAIN messages THEN LifeIn(messages[m], u) ELSE "none"
BY DEF Life

LEMMA LifeIsLifeLater ==
    /\ Life' = [m \in Seqs |-> [u \in Users |-> Life'[m][u]]]
    /\ \A m \in Seqs, u \in Users :
          Life'[m][u] = IF m \in DOMAIN messages' THEN LifeIn(messages'[m], u) ELSE "none"
BY DEF Life, LifeIn

\* Lives are the same when they are to every user.
LEMMA LivesAgree ==
    ASSUME NEW f, NEW g,
           f = [m \in Seqs |-> [u \in Users |-> f[m][u]]],
           g = [m \in Seqs |-> [u \in Users |-> g[m][u]]],
           \A m \in Seqs, u \in Users : f[m][u] = g[m][u]
    PROVE  f = g
<1>1. \A m \in Seqs : [u \in Users |-> f[m][u]] = [u \in Users |-> g[m][u]]
    OBVIOUS
<1>2. [m \in Seqs |-> [u \in Users |-> f[m][u]]] = [m \in Seqs |-> [u \in Users |-> g[m][u]]]
    BY <1>1
<1> QED
    BY <1>2

LEMMA TextsAreTexts ==
    /\ Texts = [u \in Users |-> stream[u].copies]
    /\ Texts' = [u \in Users |-> stream'[u].copies]
BY DEF Texts

\* What a user's life with a message depends on.
LEMMA SameLife ==
    ASSUME NEW old, NEW new, NEW u,
           u \in new.holders <=> u \in old.holders,
           u \in new.burned <=> u \in old.burned,
           u \in new.readers <=> u \in old.readers
    PROVE  LifeIn(new, u) = LifeIn(old, u)
BY DEF LifeIn

LEMMA MembershipLivesOn ==
    ASSUME MembershipStep
    PROVE  UNCHANGED <<Life, Texts>>
<1>1. messages' = messages /\ \A u \in Users : stream'[u].copies = stream[u].copies
    BY DEF MembershipStep
<1>2. Life' = Life
    BY <1>1 DEF Life, LifeIn
<1>3. Texts' = Texts
    BY <1>1, TextsAreTexts
<1> QED
    BY <1>2, <1>3

\* A new message begins its life for the members of now.
LEMMA SendIsSend ==
    ASSUME Inductive, NEW sender \in Users, Members # {}, SentBy(sender)
    PROVE  Lives!Next
<1>1. PICK m \in Seqs : m = Len(messages) + 1
    BY DEF SentBy
<1>2. /\ m \notin DOMAIN messages
      /\ DOMAIN messages' = DOMAIN messages \cup {m}
      /\ \A k \in DOMAIN messages : messages'[k] = messages[k]
      /\ messages'[m].holders = Members /\ messages'[m].readers = {sender} \cap Members
      /\ messages'[m].burned = {}
      /\ \A u \in Users : stream'[u].copies = IF u \in Members THEN stream[u].copies \cup {m}
                                                                ELSE stream[u].copies
    BY <1>1 DEF SentBy
<1>3. Members \in SUBSET Users
    BY DEF Inductive, TypeOK, Conversation, Members
<1>4. \A n \in Seqs : n < m <=> n \in DOMAIN messages
  <2>1. Len(messages) \in Nat /\ DOMAIN messages = 1 .. Len(messages) /\ MaxMessages \in Nat
      BY RowsAreAFunction DEF Inductive
  <2> QED
      BY <1>1, <2>1 DEF Seqs
<1>5. \A n \in Seqs : n < m <=> \E u \in Users : Life[n][u] # "none"
  <2> TAKE n \in Seqs
  <2>1. CASE n \in DOMAIN messages
    <3>1. PICK u \in Users : u \in messages[n].holders
        BY <2>1, RowsAreAFunction DEF Inductive, RowsAreSound, RowIsSound, Message
    <3>2. LifeIn(messages[n], u) # "none"
        BY <3>1 DEF LifeIn
    <3> QED
        BY <1>4, <2>1, <3>1, <3>2, LifeIsLife
  <2>2. CASE n \notin DOMAIN messages
      BY <1>4, <2>2, LifeIsLife
  <2> QED
      BY <2>1, <2>2
<1>6. Life' = [n \in Seqs |-> [u \in Users |->
                  IF n # m THEN Life[n][u]
                  ELSE IF u \notin Members THEN "none" ELSE IF u = sender THEN "read" ELSE "unread"]]
  <2>1. ASSUME NEW k \in Seqs, NEW u \in Users
        PROVE  Life'[k][u] = IF k # m THEN Life[k][u]
                             ELSE IF u \notin Members THEN "none"
                             ELSE IF u = sender THEN "read" ELSE "unread"
    <3>1. CASE k = m
      <4>1. LifeIn(messages'[m], u) = IF u \notin Members THEN "none"
                                      ELSE IF u = sender THEN "read" ELSE "unread"
          BY <1>2 DEF LifeIn
      <4> QED
          BY <1>2, <3>1, <4>1, LifeIsLifeLater
    <3>2. CASE k \in DOMAIN messages /\ k # m
        BY <1>2, <3>2, LifeIsLife, LifeIsLifeLater
    <3>3. CASE k \notin DOMAIN messages /\ k # m
        BY <1>2, <3>3, LifeIsLife, LifeIsLifeLater
    <3> QED
        BY <3>1, <3>2, <3>3
  <2>2. PICK new, sent : /\ new = Life'
                         /\ sent = [n \in Seqs |-> [u \in Users |->
                              IF n # m THEN Life[n][u]
                              ELSE IF u \notin Members THEN "none"
                              ELSE IF u = sender THEN "read" ELSE "unread"]]
      OBVIOUS
  <2>3. new = [n \in Seqs |-> [u \in Users |-> new[n][u]]]
      BY <2>2, LifeIsLifeLater
  <2>4. sent = [n \in Seqs |-> [u \in Users |-> sent[n][u]]]
      BY <2>2
  <2>5. \A n \in Seqs, u \in Users : new[n][u] = sent[n][u]
      BY <2>1, <2>2
  <2>6. new = sent
      BY <2>3, <2>4, <2>5, LivesAgree
  <2> QED
      BY <2>2, <2>6
<1>7. Texts' = [u \in Users |-> IF u \in Members THEN Texts[u] \cup {m} ELSE Texts[u]]
    BY <1>2, TextsAreTexts
<1>8. Lives!Send(m, sender, Members)
    BY <1>5, <1>6, <1>7 DEF Lives!Send, Lives!Messages, Seqs
<1> QED
    BY <1>3, <1>8 DEF Lives!Next, Lives!Messages, Seqs

\* A receipt reads what its reader has, up to where it goes: what the reader had
\* before its position it has read already.
LEMMA ReceiptIsRead ==
    ASSUME Inductive, NEW reader \in Users, NEW through \in DOMAIN messages,
           ReadUpTo(reader, through)
    PROVE  Lives!Next
<1>1. through \in Seqs /\ DOMAIN messages \subseteq Seqs
    BY RowsAreAFunction DEF Inductive
<1>2. /\ reader \in Members /\ position[reader] < through
      /\ DOMAIN messages' = DOMAIN messages
      /\ \A m \in DOMAIN messages :
            /\ messages'[m].holders = messages[m].holders
            /\ messages'[m].burned = messages[m].burned
            /\ messages'[m].readers =
                  IF position[reader] < m /\ m <= through /\ reader \in messages[m].holders
                  THEN messages[m].readers \cup {reader} ELSE messages[m].readers
      /\ \A u \in Users : stream'[u].copies = stream[u].copies
    BY DEF ReadUpTo
<1>3. ASSUME NEW m \in DOMAIN messages, reader \in messages[m].holders,
             reader \notin messages[m].readers
      PROVE  position[reader] < m
  <2>1. messages[m].sender \in messages[m].holders => messages[m].sender \in messages[m].readers
      BY DEF Inductive, RowsAreSound, RowIsSound
  <2>2. ~(m <= position[reader])
      BY <1>2, <1>3, <2>1 DEF Inductive, PositionsAgree, Effective
  <2>3. m \in Nat /\ position[reader] \in Nat
      BY <1>1, RowsAreAFunction DEF Inductive, TypeOK, Seqs
  <2> QED
      BY <2>2, <2>3
<1>4. \A m \in Seqs, u \in Users :
          Life'[m][u] = IF u = reader /\ m <= through /\ Life[m][u] = "unread"
                        THEN "read" ELSE Life[m][u]
  <2> TAKE m \in Seqs, u \in Users
  <2>1. CASE m \notin DOMAIN messages
      BY <1>2, <2>1, LifeIsLife, LifeIsLifeLater
  <2>2. CASE m \in DOMAIN messages
    <3>1. PICK old, new : old = messages[m] /\ new = messages'[m]
        OBVIOUS
    <3>2. /\ new.holders = old.holders /\ new.burned = old.burned
          /\ new.readers = IF position[reader] < m /\ m <= through /\ reader \in old.holders
                           THEN old.readers \cup {reader} ELSE old.readers
          /\ reader \in old.holders /\ reader \notin old.readers => position[reader] < m
        BY <1>2, <1>3, <2>2, <3>1
    <3>3. LifeIn(new, u) = IF u = reader /\ m <= through /\ LifeIn(old, u) = "unread"
                           THEN "read" ELSE LifeIn(old, u)
        BY <3>2 DEF LifeIn
    <3> QED
        BY <1>2, <2>2, <3>1, <3>3, LifeIsLife, LifeIsLifeLater
  <2> QED
      BY <2>1, <2>2
<1>5. Life' = [m \in Seqs |-> [u \in Users |->
                  IF u = reader /\ m <= through /\ Life[m][u] = "unread"
                  THEN "read" ELSE Life[m][u]]]
  <2>1. PICK new, read : /\ new = Life'
                         /\ read = [m \in Seqs |-> [u \in Users |->
                              IF u = reader /\ m <= through /\ Life[m][u] = "unread"
                              THEN "read" ELSE Life[m][u]]]
      OBVIOUS
  <2>2. new = [m \in Seqs |-> [u \in Users |-> new[m][u]]]
      BY <2>1, LifeIsLifeLater
  <2>3. read = [m \in Seqs |-> [u \in Users |-> read[m][u]]]
      BY <2>1
  <2>4. \A m \in Seqs, u \in Users : new[m][u] = read[m][u]
      BY <1>4, <2>1
  <2>5. new = read
      BY <2>2, <2>3, <2>4, LivesAgree
  <2> QED
      BY <2>1, <2>5
<1>6. Texts' = Texts
    BY <1>2, TextsAreTexts
<1>7. Lives!Read(reader, through)
    BY <1>5, <1>6 DEF Lives!Read, Lives!Messages, Seqs
<1> QED
    BY <1>1, <1>7 DEF Lives!Next, Lives!Messages, Seqs

\* A recall takes a message, which somebody still has, from everybody.
LEMMA RecallIsRecall ==
    ASSUME Inductive, NEW operator \in Users, NEW m \in Seqs, Recall(operator, m)
    PROVE  Lives!Next
<1>1. /\ LossStep /\ m \in DOMAIN messages
      /\ \A k \in DOMAIN messages :
            messages'[k].burned = IF k = m THEN messages[k].holders ELSE messages[k].burned
      /\ \A u \in Users : stream'[u].copies = stream[u].copies \ {m}
    BY RecallLoses
<1>2. PICK row : row = messages[m] /\ RowIsSound(row) /\ row \in Message /\ ~row.recalled
    BY <1>1, RowsAreAFunction DEF Inductive, RowsAreSound, Recall
<1>3. PICK u \in Users : u \in row.holders /\ u \notin row.burned
    BY <1>2 DEF RowIsSound, Message
<1>4. Life[m][u] \in {"unread", "read"}
  <2>1. LifeIn(row, u) \in {"unread", "read"}
      BY <1>3 DEF LifeIn
  <2> QED
      BY <1>1, <1>2, <2>1, LifeIsLife
<1>5. \A k \in Seqs, v \in Users :
          Life'[k][v] = IF k = m /\ Life[k][v] # "none" THEN "gone" ELSE Life[k][v]
  <2> TAKE k \in Seqs, v \in Users
  <2>1. DOMAIN messages' = DOMAIN messages
      BY <1>1 DEF LossStep
  <2>2. CASE k \notin DOMAIN messages
      BY <1>1, <2>1, <2>2, LifeIsLife, LifeIsLifeLater
  <2>3. CASE k \in DOMAIN messages
    <3>1. PICK old, new : old = messages[k] /\ new = messages'[k]
        OBVIOUS
    <3>2. /\ new.holders = old.holders /\ new.readers = old.readers
          /\ new.burned = IF k = m THEN old.holders ELSE old.burned
        BY <1>1, <2>3, <3>1 DEF LossStep
    <3>3. LifeIn(new, v) = IF k = m /\ LifeIn(old, v) # "none" THEN "gone" ELSE LifeIn(old, v)
        BY <3>2 DEF LifeIn
    <3> QED
        BY <2>1, <2>3, <3>1, <3>3, LifeIsLife, LifeIsLifeLater
  <2> QED
      BY <2>2, <2>3
<1>6. Life' = [k \in Seqs |-> [v \in Users |->
                  IF k = m /\ Life[k][v] # "none" THEN "gone" ELSE Life[k][v]]]
  <2>1. PICK new, taken : /\ new = Life'
                          /\ taken = [k \in Seqs |-> [v \in Users |->
                               IF k = m /\ Life[k][v] # "none" THEN "gone" ELSE Life[k][v]]]
      OBVIOUS
  <2>2. new = [k \in Seqs |-> [v \in Users |-> new[k][v]]]
      BY <2>1, LifeIsLifeLater
  <2>3. taken = [k \in Seqs |-> [v \in Users |-> taken[k][v]]]
      BY <2>1
  <2>4. \A k \in Seqs, v \in Users : new[k][v] = taken[k][v]
      BY <1>5, <2>1
  <2>5. new = taken
      BY <2>2, <2>3, <2>4, LivesAgree
  <2> QED
      BY <2>1, <2>5
<1>7. Texts' = [v \in Users |-> Texts[v] \ {m}]
    BY <1>1, TextsAreTexts
<1>8. Lives!Recall(m)
    BY <1>4, <1>6, <1>7 DEF Lives!Recall, Lives!Messages, Seqs
<1> QED
    BY <1>8 DEF Lives!Next, Lives!Messages, Seqs

\* A round of the sweeper burns texts that were read.  What it clears is gone for
\* everybody, so no stream loses a text by that.
LEMMA SweepIsBurn ==
    ASSUME Inductive, NEW due \in SUBSET Due, NEW ids \in SUBSET Purgeable(Burn(due)),
           SweepOf(due, ids)
    PROVE  Lives!Next
<1>1. ids \in SUBSET Seqs /\ ids \subseteq DOMAIN messages
    BY RowsAreAFunction DEF Inductive, Purgeable, Burn
<1>2. /\ LossStep
      /\ \A m \in DOMAIN messages, u \in Users :
            u \in messages'[m].burned <=> u \in messages[m].burned \/ <<m, u>> \in due
      /\ \A u \in Users : stream'[u].copies =
            stream[u].copies \ ({m \in Seqs : <<m, u>> \in due} \cup ids)
    BY <1>1, SweepOfLoses
<1>3. ASSUME NEW m \in DOMAIN messages, NEW u \in Users, <<m, u>> \in due
      PROVE  u \in messages[m].holders /\ u \in messages[m].readers /\ u \notin messages[m].burned
    BY <1>3 DEF Due, Inductive, RowsAreSound, RowIsSound
<1>4. due \subseteq Seqs \X Users /\ \A d \in due : d[1] \in DOMAIN messages
    BY DEF Due
<1>5. \A m \in Seqs, u \in Users :
          Life'[m][u] = IF <<m, u>> \in due THEN "gone" ELSE Life[m][u]
  <2> TAKE m \in Seqs, u \in Users
  <2>1. DOMAIN messages' = DOMAIN messages
      BY <1>2 DEF LossStep
  <2>2. CASE m \notin DOMAIN messages
      BY <1>4, <2>1, <2>2, LifeIsLife, LifeIsLifeLater
  <2>3. CASE m \in DOMAIN messages
    <3>1. PICK old, new : old = messages[m] /\ new = messages'[m]
        OBVIOUS
    <3>2. /\ new.holders = old.holders /\ new.readers = old.readers
          /\ u \in new.burned <=> u \in old.burned \/ <<m, u>> \in due
          /\ <<m, u>> \in due => u \in old.holders
        BY <1>2, <1>3, <2>3, <3>1 DEF LossStep
    <3>3. LifeIn(new, u) = IF <<m, u>> \in due THEN "gone" ELSE LifeIn(old, u)
        BY <3>2 DEF LifeIn
    <3> QED
        BY <2>1, <2>3, <3>1, <3>3, LifeIsLife, LifeIsLifeLater
  <2> QED
      BY <2>2, <2>3
<1>6. Life' = [m \in Seqs |-> [u \in Users |-> IF <<m, u>> \in due THEN "gone" ELSE Life[m][u]]]
  <2>1. PICK new, burnt : /\ new = Life'
                          /\ burnt = [m \in Seqs |-> [u \in Users |->
                                        IF <<m, u>> \in due THEN "gone" ELSE Life[m][u]]]
      OBVIOUS
  <2>2. new = [m \in Seqs |-> [u \in Users |-> new[m][u]]]
      BY <2>1, LifeIsLifeLater
  <2>3. burnt = [m \in Seqs |-> [u \in Users |-> burnt[m][u]]]
      BY <2>1
  <2>4. \A m \in Seqs, u \in Users : new[m][u] = burnt[m][u]
      BY <1>5, <2>1
  <2>5. new = burnt
      BY <2>2, <2>3, <2>4, LivesAgree
  <2> QED
      BY <2>1, <2>5
<1>7. \A d \in due : Life[d[1]][d[2]] = "read"
  <2> TAKE d \in due
  <2>1. PICK m \in Seqs, u \in Users : d = <<m, u>>
      BY <1>4
  <2>2. m \in DOMAIN messages
      BY <1>4, <2>1
  <2>3. LifeIn(messages[m], u) = "read"
      BY <1>3, <2>1, <2>2 DEF LifeIn
  <2> QED
      BY <2>1, <2>2, <2>3, LifeIsLife
<1>8. ASSUME NEW u \in Users, NEW m \in stream[u].copies, m \in ids
      PROVE  <<m, u>> \in due
  <2>1. m \in DOMAIN messages /\ u \in messages[m].holders
      BY DEF Inductive, StreamsAreSound
  <2>2. u \notin messages[m].burned
      BY <2>1 DEF Inductive, TextIsGone
  <2>3. Burn(due)[m].holders \subseteq Burn(due)[m].burned
      BY <1>8 DEF Purgeable
  <2>4. PICK row : row = messages[m] /\ row \in Message
      BY <2>1, RowsAreAFunction DEF Inductive
  <2>5. PICK burned, recalled : /\ burned = row.burned \cup {v \in Users : <<m, v>> \in due}
                                /\ Burn(due)[m] = [row EXCEPT !.burned = burned, !.recalled = recalled]
      BY <2>1, <2>4 DEF Burn
  <2>6. Burn(due)[m].holders = row.holders /\ Burn(due)[m].burned = burned
      BY <2>4, <2>5 DEF Message
  <2> QED
      BY <2>1, <2>2, <2>3, <2>4, <2>5, <2>6
<1>9. Texts' = [u \in Users |-> {m \in Texts[u] : <<m, u>> \notin due}]
  <2>1. \A u \in Users : stream[u].copies \subseteq Seqs
      BY DEF Inductive, TypeOK, Stream
  <2>2. \A u \in Users : stream'[u].copies = {m \in stream[u].copies : <<m, u>> \notin due}
      BY <1>2, <1>8, <2>1
  <2> QED
      BY <2>2, TextsAreTexts
<1>10. Lives!Burn(due)
    BY <1>6, <1>7, <1>9 DEF Lives!Burn, Lives!Messages, Seqs
<1> QED
    BY <1>4, <1>10 DEF Lives!Next, Lives!Messages, Seqs

LEMMA StepIsLife ==
    ASSUME Inductive, [Next]_vars
    PROVE  Lives!Next \/ UNCHANGED <<Life, Texts>>
<1>1. CASE \E u \in Users, k \in {"group", "direct"}, t \in Titles \cup {Untitled},
             us \in SUBSET Users : Create(u, k, t, us)
    BY <1>1, CreateIsMembership, MembershipLivesOn
<1>2. CASE Change
    BY <1>2, ChangeIsMembership, MembershipLivesOn
<1>3. CASE \/ \E u \in Users, burns \in BOOLEAN : Send(u, burns)
           \/ \E u \in Users : SendFile(u)
  <2>1. PICK u \in Users : (\E burns \in BOOLEAN : Send(u, burns)) \/ SendFile(u)
      BY <1>3
  <2>2. Members # {} /\ SentBy(u)
      BY <2>1, SendKeepsInductive
  <2> QED
      BY <2>2, SendIsSend
<1>4. CASE \E u \in Users, seq \in 1 .. MaxMessages + 1 : Receipt(u, seq)
  <2>1. PICK u \in Users, seq \in 1 .. MaxMessages + 1 : Receipt(u, seq)
      BY <1>4
  <2>2. PICK through \in DOMAIN messages : ReadUpTo(u, through)
      BY <2>1, ReceiptKeepsInductive
  <2> QED
      BY <2>2, ReceiptIsRead
<1>5. CASE \E u \in Users, m \in Seqs : Recall(u, m)
    BY <1>5, RecallIsRecall
<1>6. CASE Sweep
  <2>1. PICK due \in SUBSET Due : \E ids \in SUBSET Purgeable(Burn(due)) : SweepOf(due, ids)
      BY <1>6 DEF Sweep
  <2> QED
      BY <2>1, SweepIsBurn
<1>7. CASE SweepCutShort
  <2>1. PICK due \in SUBSET Due : SweepOf(due, {})
      BY <1>7 DEF SweepCutShort
  <2> QED
      BY <2>1, SweepIsBurn
<1>8. CASE UNCHANGED vars
    BY <1>8 DEF vars, Life, LifeIn, Texts
<1> QED
    BY <1>1, <1>2, <1>3, <1>4, <1>5, <1>6, <1>7, <1>8 DEF Next

-----------------------------------------------------------------------------
(* The theorems                                                            *)

\* Inductive holds in every state of every behaviour of the store, whatever the
\* users do and wherever a round of the sweeper is cut short.
THEOREM Invariance == Spec => []Inductive
<1>1. Init => Inductive
    BY InitEstablishes
<1>2. Inductive /\ [Next]_vars => Inductive'
    BY StepKeepsInductive
<1> QED
    BY <1>1, <1>2, PTL DEF Spec

\* The rows of the tables and the streams have their types: no position or sequence
\* number passes the messages there are, and no count the number of users.
THEOREM TypeCorrect == Spec => []TypeOK
<1>1. Inductive => TypeOK
    BY DEF Inductive
<1> QED
    BY <1>1, Invariance, PTL

\* A text that burned for a user or was recalled is in no event of its stream
\* (delivery_repo.py and sync_event.py redact what they end).
THEOREM GoneTextsStayGone == Spec => []TextIsGone
<1>1. Inductive => TextIsGone
    BY DEF Inductive
<1> QED
    BY <1>1, Invariance, PTL

\* A message is recalled exactly when it burned for all its holders, by the hand of
\* its sender or by the timers one by one (apply_recall, collect_due_burn_sync_events).
THEOREM RecallIsTheLastBurn == Spec => []RecalledWhenNobodyHasIt
<1>1. Inductive => RecalledWhenNobodyHasIt
    BY DEF Inductive, RowsAreSound, RowIsSound, RecalledWhenNobodyHasIt
<1> QED
    BY <1>1, Invariance, PTL

\* Until a message is recalled it burns only for users who read it and whose timer
\* runs (collect_due_burn_sync_events takes the deliveries with a burn_at_ms).
THEOREM NobodyLosesUnread == Spec => []BurnsOnlyAfterReading
<1>1. Inductive => BurnsOnlyAfterReading
    BY DEF Inductive, RowsAreSound, RowIsSound, BurnsOnlyAfterReading
<1> QED
    BY <1>1, Invariance, PTL

\* The unread count of a message is the number of its recipients who have not read
\* it, and every holder was last told that number, whoever joined, left or read in
\* between (ReceiptRepo.apply_receipt).
THEOREM CountsAreTrue == Spec => []CountsAgree
<1>1. Inductive => CountsAgree
    BY DEF Inductive
<1> QED
    BY <1>1, Invariance, PTL

\* What a recipient has read is what its position has passed, a member or not, and
\* its devices were last told that position (conversation_read_history).
THEOREM PositionsAreTrue == Spec => []PositionsAgree
<1>1. Inductive => PositionsAgree
    BY DEF Inductive
<1> QED
    BY <1>1, Invariance, PTL

\* Every member knows the conversation as it is, every user who left knows that it
\* left, the owner is a member and a direct conversation keeps its two.
THEOREM MembersKnow == Spec => []MembersAreTold
<1>1. Inductive => MembersAreTold
    BY DEF Inductive
<1> QED
    BY <1>1, Invariance, PTL

\* Nobody's position goes back, across leaving, removal and joining again
\* (_preserve_read_position keeps the larger of the two).
THEOREM PositionsOnlyGrow == Spec => PositionNeverFalls
<1>1. Inductive /\ [Next]_vars => [\A u \in Users : Effective(u) <= Effective(u)']_vars
    BY StepKeepsInductive
<1> QED
    BY <1>1, Invariance, PTL DEF Spec, PositionNeverFalls

\* The store keeps the promise of MessageLife: a message is its recipients' and
\* nobody else's, read messages stay read, and a text is in a recipient's stream
\* until it is gone for that user, which happens to those who read it or, by a
\* recall, to all at once.
THEOREM ImplementsMessageLife == Spec => LifeSpec
<1>1. Init => Lives!Init
  <2> SUFFICES ASSUME Init
               PROVE  Lives!Init
      OBVIOUS
  <2>1. DOMAIN messages = {} /\ \A u \in Users : stream[u].copies = {}
      BY DEF Init
  <2>2. Life = [m \in Seqs |-> [u \in Users |-> "none"]]
      BY <2>1 DEF Life
  <2>3. Texts = [u \in Users |-> {}]
      BY <2>1 DEF Texts
  <2> QED
      BY <2>2, <2>3 DEF Lives!Init, Lives!Messages, Seqs
<1>2. Inductive /\ [Next]_vars => [Lives!Next]_<<Life, Texts>>
    BY StepIsLife
<1>3. Inductive /\ [Next]_vars => [Lives!Next]_(Lives!vars)
    BY <1>2 DEF Lives!vars
<1> QED
    BY <1>1, <1>3, Invariance, PTL DEF Spec, LifeSpec, Lives!Spec

=============================================================================
