----------------------------- MODULE ChatStore -----------------------------
(***************************************************************************)
(* The server's store of one conversation: its members, its messages, who  *)
(* holds and has read each of them, the timers of messages that burn after *)
(* reading, and what all of it puts into the event streams of the users.   *)
(*                                                                         *)
(* Every action is one write of the server's write queue and one SQLite    *)
(* transaction (server/storage/sqlite/db.py), so a failed one leaves no    *)
(* trace and has no action here.  The sweeper is two transactions, and the *)
(* server may stop between them.                                           *)
(*                                                                         *)
(* A user's event stream is kept as what it adds up to (stream[u]); that a *)
(* device applies every event of its stream, in order, is SyncStream's     *)
(* subject.  Repeats of one request are DurableRequests' subject.          *)
(***************************************************************************)
EXTENDS Integers, FiniteSets, Sequences

CONSTANTS
    Users,         \* the registered users
    Titles,        \* titles a group may have
    MaxMessages,   \* bound on the messages sent
    MaxChanges,    \* bound on the changes of members and title
    BatchSize      \* rows, and messages, one sweep takes at most

ASSUME ChatAssumption ==
    /\ IsFiniteSet(Users)
    /\ MaxMessages \in Nat
    /\ MaxChanges \in Nat
    /\ BatchSize \in Nat \ {0}

VARIABLES
    conversation,  \* conversations and conversation_members: kind, owner, title, members
    position,      \* conversation_members.last_read_seq, 0 of a user who is no member
    history,       \* conversation_read_history.last_read_seq, 0 where there is no row
    messages,      \* messages with their delivery rows and counter, by conversation_seq
    stream,        \* what the events appended to each user's stream add up to
    changes        \* changes of members and title so far, for the bound only

vars == <<conversation, position, history, messages, stream, changes>>

-----------------------------------------------------------------------------

Untitled == ""
Nobody == ""

NoConversation == [kind |-> "none", owner |-> Nobody, title |-> Untitled, members |-> {}]

Seqs == 1 .. MaxMessages
NotTold == -1

Conversation == [kind : {"none", "group", "direct"}, owner : Users \cup {Nobody},
                 title : Titles \cup {Untitled}, members : SUBSET Users]

\* told: the last conversation_updated.  copies: messages whose stored event
\* still carries the text.  ended: messages a recall event told of.  counts: the
\* last unread count announced for each message, by its own event or by a
\* read_count_updated.  seen: the user's own position in the last receipt event.
Stream == [told : Conversation, copies : SUBSET Seqs, ended : SUBSET Seqs,
           counts : [Seqs -> {NotTold} \cup (0 .. Cardinality(Users))], seen : 0 .. MaxMessages]

\* A message row, its rows of message_deliveries as sets of users (those who have
\* a row, a read_at_ms, a burn_at_ms, a burned_at_ms), and its unread_count.
Message == [sender : Users, burns : BOOLEAN, recalled : BOOLEAN, purged : BOOLEAN,
            holders : SUBSET Users, readers : SUBSET Users,
            timed : SUBSET Users, burned : SUBSET Users,
            unread : 0 .. Cardinality(Users)]

TypeOK ==
    /\ conversation \in Conversation
    /\ position \in [Users -> 0 .. MaxMessages]
    /\ history \in [Users -> 0 .. MaxMessages]
    /\ messages \in Seq(Message) /\ Len(messages) <= MaxMessages
    /\ stream \in [Users -> Stream]
    /\ changes \in 0 .. MaxChanges

Init ==
    /\ conversation = NoConversation
    /\ position = [u \in Users |-> 0]
    /\ history = [u \in Users |-> 0]
    /\ messages = <<>>
    /\ stream = [u \in Users |-> [told |-> NoConversation, copies |-> {}, ended |-> {},
                                  counts |-> [m \in Seqs |-> NotTold], seen |-> 0]]
    /\ changes = 0

-----------------------------------------------------------------------------

Members == conversation.members

\* Where u stands: its row as a member, or what was kept when it left.
Effective(u) == IF u \in Members THEN position[u] ELSE history[u]

\* conversation_updated, appended for the users in us.
Announced(c, us) ==
    [u \in Users |-> IF u \in us THEN [stream[u] EXCEPT !.told = c] ELSE stream[u]]

\* create_conversation.  A group needs a second member, a direct conversation is
\* with exactly one peer; a repeat of client_conv_id finds the conversation made.
Create(owner, kind, title, others) ==
    /\ conversation = NoConversation
    /\ IF kind = "group" THEN Cardinality({owner} \cup others) >= 2
                         ELSE Cardinality(others \ {owner}) = 1 /\ title = Untitled
    /\ conversation' = [kind |-> kind, owner |-> owner, title |-> title,
                        members |-> {owner} \cup others]
    /\ stream' = Announced(conversation', conversation'.members)
    /\ UNCHANGED <<position, history, messages, changes>>

\* The part the changes of a group share: one more change.
ChangesGroup ==
    /\ conversation.kind = "group"
    /\ changes < MaxChanges
    /\ changes' = changes + 1
    /\ UNCHANGED messages

\* rename_conversation: by the owner; nothing happens when the title is the same.
Rename(operator, title) ==
    /\ ChangesGroup
    /\ operator = conversation.owner
    /\ title \notin {conversation.title, Untitled}
    /\ conversation' = [conversation EXCEPT !.title = title]
    /\ stream' = Announced(conversation', Members)
    /\ UNCHANGED <<position, history>>

\* Mutant: a member who comes back starts from the beginning.
Admit_FromZero(newcomers) ==
    /\ newcomers # {}
    /\ conversation' = [conversation EXCEPT !.members = @ \cup newcomers]
    /\ position' = position
    /\ stream' = Announced(conversation', conversation'.members)
    /\ UNCHANGED history

\* A member's row starts where the user once left, and everybody is told.
Admit(newcomers) ==
    /\ newcomers # {}
    /\ conversation' = [conversation EXCEPT !.members = @ \cup newcomers]
    /\ position' = [u \in Users |-> IF u \in newcomers THEN history[u] ELSE position[u]]
    /\ stream' = Announced(conversation', conversation'.members)
    /\ UNCHANGED history

AddMembers(operator, users) ==
    /\ ChangesGroup
    /\ operator = conversation.owner
    /\ Admit(users \ Members)

Join(user) ==
    /\ ChangesGroup
    /\ Admit({user} \ Members)

\* Mutant: the position is not kept.
Dismiss_Forgets(leavers, owner) ==
    /\ conversation' = [conversation EXCEPT !.members = @ \ leavers, !.owner = owner]
    /\ position' = [u \in Users |-> IF u \in leavers THEN 0 ELSE position[u]]
    /\ stream' = Announced(conversation', Members)
    /\ UNCHANGED history

\* The rows of the leavers go, their positions are kept in the history, and the
\* members of before are told who is left and who owns the group now.
Dismiss(leavers, owner) ==
    /\ conversation' = [conversation EXCEPT !.members = @ \ leavers, !.owner = owner]
    /\ history' = [u \in Users |-> IF u \in leavers /\ position[u] > history[u]
                                   THEN position[u] ELSE history[u]]
    /\ position' = [u \in Users |-> IF u \in leavers THEN 0 ELSE position[u]]
    /\ stream' = Announced(conversation', Members)

\* remove_members: by the owner, who is skipped when it names itself.
RemoveMembers(operator, users) ==
    /\ ChangesGroup
    /\ operator = conversation.owner
    /\ (users \cap Members) \ {conversation.owner} # {}
    /\ Dismiss((users \cap Members) \ {conversation.owner}, conversation.owner)

\* Mutant: the owner leaves and stays the owner.
Leave_KeepsOwner(user, heir) ==
    /\ ChangesGroup
    /\ user \in Members
    /\ heir \in Members \ {user}
    /\ Dismiss({user}, conversation.owner)

\* leave_conversation: not the last member.  An owner hands over to the first of
\* the others by time of joining; those times are not kept here, so to any of them.
Leave(user, heir) ==
    /\ ChangesGroup
    /\ user \in Members
    /\ heir \in Members \ {user}
    /\ Dismiss({user}, IF conversation.owner = user THEN heir ELSE conversation.owner)

-----------------------------------------------------------------------------

\* append_message: one delivery row, and one event, per member of now.  A sender
\* that is one of them has read it, and if it burns after reading, its timer runs.
AppendMessage(sender, burns) ==
    LET m == Len(messages) + 1
        own == {sender} \cap Members
        unread == Cardinality(Members \ {sender}) IN
    /\ Len(messages) < MaxMessages
    /\ messages' = Append(messages,
            [sender |-> sender, burns |-> burns, recalled |-> FALSE, purged |-> FALSE,
             holders |-> Members, readers |-> own,
             timed |-> IF burns THEN own ELSE {}, burned |-> {}, unread |-> unread])
    /\ stream' = [u \in Users |-> IF u \in Members
                    THEN [stream[u] EXCEPT !.copies = @ \cup {m}, !.counts[m] = unread]
                    ELSE stream[u]]
    /\ UNCHANGED <<conversation, position, history, changes>>

\* handle_send_message: by a member.
Send(sender, burns) ==
    /\ sender \in Members
    /\ AppendMessage(sender, burns)

\* _append_file_message: an upload that ends is a message of its owner, which never
\* burns.  It was a member when the upload began, and so was told the conversation;
\* it may have left since, for a finish is only asked whose the file is.
SendFile(sender) ==
    /\ conversation.kind # "none"
    /\ stream[sender].told.kind # "none"
    /\ AppendMessage(sender, FALSE)

\* apply_receipt on the row of one message the reader's position passes.
Read(row, reader) ==
    LET readers == IF reader \in row.holders THEN row.readers \cup {reader} ELSE row.readers IN
    [row EXCEPT
        !.readers = readers,
        !.timed = IF row.burns /\ reader \in row.holders \ (row.burned \cup {row.sender})
                  THEN @ \cup {reader} ELSE @,
        !.unread = Cardinality(row.holders \ (readers \cup {row.sender}))]

\* Mutant: the members of now count as the recipients.
FirstReads_ByMembers(reader, through) ==
    {m \in DOMAIN messages : /\ m > position[reader] /\ m <= through
                             /\ reader \in messages[m].holders \ messages[m].readers
                             /\ messages[m].sender \in Members \ {reader}}

\* The messages the reader now reads for the first time as a recipient.
FirstReads(reader, through) ==
    {m \in DOMAIN messages : /\ m > position[reader] /\ m <= through
                             /\ reader \in messages[m].holders \ messages[m].readers
                             /\ messages[m].sender # reader}

\* Mutant: the position is taken as it comes, not bounded by the last message.
Receipt_Unbounded(reader, seq) ==
    LET first == FirstReads(reader, seq) IN
    /\ reader \in Members
    /\ seq > position[reader]
    /\ position' = [position EXCEPT ![reader] = seq]
    /\ messages' = [m \in DOMAIN messages |->
                      IF m > position[reader] /\ m <= seq
                      THEN Read(messages[m], reader) ELSE messages[m]]
    /\ stream' = [u \in Users |->
                    [stream[u] EXCEPT
                        !.seen = IF u = reader THEN seq ELSE @,
                        !.counts = [m \in Seqs |-> IF m \in first /\ u \in messages[m].holders
                                                   THEN messages'[m].unread ELSE @[m]]]]
    /\ UNCHANGED <<conversation, history, changes>>

\* handle_receipt: the position only grows, and never past the last message.  The
\* members of now are told of the position, the holders of a message of its count.
Receipt(reader, seq) ==
    LET through == IF seq > Len(messages) THEN Len(messages) ELSE seq
        first == FirstReads(reader, through) IN
    /\ reader \in Members
    /\ through > position[reader]
    /\ position' = [position EXCEPT ![reader] = through]
    /\ messages' = [m \in DOMAIN messages |->
                      IF m > position[reader] /\ m <= through
                      THEN Read(messages[m], reader) ELSE messages[m]]
    /\ stream' = [u \in Users |->
                    [stream[u] EXCEPT
                        !.seen = IF u = reader THEN through ELSE @,
                        !.counts = [m \in Seqs |-> IF m \in first /\ u \in messages[m].holders
                                                   THEN messages'[m].unread ELSE @[m]]]]
    /\ UNCHANGED <<conversation, history, changes>>

\* apply_recall: by the sender, a member or not, once.  It burns every delivery
\* and takes the text out of every stored event; the members of now are told.
Recall(operator, m) ==
    /\ m \in DOMAIN messages
    /\ messages[m].sender = operator
    /\ ~messages[m].recalled
    /\ messages' = [messages EXCEPT ![m].recalled = TRUE, ![m].burned = messages[m].holders]
    /\ stream' = [u \in Users |->
                    [stream[u] EXCEPT !.copies = @ \ {m},
                                      !.ended = IF u \in Members THEN @ \cup {m} ELSE @]]
    /\ UNCHANGED <<conversation, position, history, changes>>

-----------------------------------------------------------------------------

\* Mutant: the timers of users who left are forgotten.
Due_OfMembers ==
    {d \in Seqs \X Members :
        /\ d[1] \in DOMAIN messages
        /\ messages[d[1]].burns /\ ~messages[d[1]].recalled
        /\ d[2] \in messages[d[1]].timed \ messages[d[1]].burned}

\* The deliveries whose timer may have run out, as <<message, user>>.
Due == {d \in Seqs \X Users :
            /\ d[1] \in DOMAIN messages
            /\ messages[d[1]].burns /\ ~messages[d[1]].recalled
            /\ d[2] \in messages[d[1]].timed \ messages[d[1]].burned}

\* Mutant: a message is recalled when its members of now have lost it.
Burn_ForMembers(due) ==
    [m \in DOMAIN messages |->
        LET gone == {u \in Users : <<m, u>> \in due}
            burned == messages[m].burned \cup gone IN
        [messages[m] EXCEPT !.burned = burned,
                            !.recalled = @ \/ (gone # {} /\ Members \subseteq burned)]]

\* collect_due_burn_sync_events: a message burned for all its holders is recalled.
Burn(due) ==
    [m \in DOMAIN messages |->
        LET gone == {u \in Users : <<m, u>> \in due}
            burned == messages[m].burned \cup gone IN
        [messages[m] EXCEPT !.burned = burned,
                            !.recalled = @ \/ (gone # {} /\ messages[m].holders \subseteq burned)]]

\* The messages whose text purge_burned_message_content may clear.
Purgeable(ms) ==
    {m \in DOMAIN ms : /\ ms[m].burns /\ ms[m].recalled /\ ~ms[m].purged
                       /\ ms[m].holders \subseteq ms[m].burned}

Purge(ms, ids) == [m \in DOMAIN ms |-> [ms[m] EXCEPT !.purged = @ \/ m \in ids]]

\* Mutant: a burned delivery leaves its event as it was, until the message is purged.
SweepOf_KeepsEvent(due, ids) ==
    /\ Cardinality(due) <= BatchSize
    /\ messages' = Purge(Burn(due), ids)
    /\ stream' = [u \in Users |->
                    LET gone == {m \in Seqs : <<m, u>> \in due} IN
                    [stream[u] EXCEPT !.ended = @ \cup gone, !.copies = @ \ ids]]
    /\ UNCHANGED <<conversation, position, history, changes>>

\* Mutant: a burn clears the message's events of all users, not of the one it is for.
SweepOf_ClearsAll(due, ids) ==
    /\ Cardinality(due) <= BatchSize
    /\ messages' = Purge(Burn(due), ids)
    /\ stream' = [u \in Users |->
                    LET gone == {m \in Seqs : <<m, u>> \in due} IN
                    [stream[u] EXCEPT !.ended = @ \cup gone,
                                      !.copies = @ \ ({d[1] : d \in due} \cup ids)]]
    /\ UNCHANGED <<conversation, position, history, changes>>

\* One round of run_burn_sweeper: at most BatchSize of the deliveries that are due
\* (any of them may be), then at most BatchSize messages to clear.
SweepOf(due, ids) ==
    /\ Cardinality(due) <= BatchSize
    /\ messages' = Purge(Burn(due), ids)
    /\ stream' = [u \in Users |->
                    LET gone == {m \in Seqs : <<m, u>> \in due} IN
                    [stream[u] EXCEPT !.ended = @ \cup gone, !.copies = @ \ (gone \cup ids)]]
    /\ UNCHANGED <<conversation, position, history, changes>>

Sweep ==
    \E due \in SUBSET Due :
      \E ids \in SUBSET Purgeable(Burn(due)) :
        /\ due # {} \/ ids # {}
        /\ \/ ids = Purgeable(Burn(due)) /\ Cardinality(ids) <= BatchSize
           \/ Cardinality(ids) = BatchSize
        /\ SweepOf(due, ids)

\* The server stops, or fails, between the two transactions of a round.
SweepCutShort == \E due \in SUBSET Due : due # {} /\ SweepOf(due, {})

-----------------------------------------------------------------------------

Change ==
    \/ \E u \in Users, t \in Titles : Rename(u, t)
    \/ \E u \in Users, us \in SUBSET Users : AddMembers(u, us)
    \/ \E u \in Users, us \in SUBSET Users : RemoveMembers(u, us)
    \/ \E u \in Users : Join(u)
    \/ \E u, heir \in Users : Leave(u, heir)

Next ==
    \/ \E u \in Users, k \in {"group", "direct"}, t \in Titles \cup {Untitled}, us \in SUBSET Users :
         Create(u, k, t, us)
    \/ Change
    \/ \E u \in Users, burns \in BOOLEAN : Send(u, burns)
    \/ \E u \in Users : SendFile(u)
    \/ \E u \in Users, seq \in 1 .. MaxMessages + 1 : Receipt(u, seq)
    \/ \E u \in Users, m \in Seqs : Recall(u, m)
    \/ Sweep
    \/ SweepCutShort

Spec == Init /\ [][Next]_vars

\* The sweeper comes round for ever (run_burn_sweeper catches what a round throws),
\* and a timer that runs is due in time.  What users do is not forced.
FairSpec == Spec /\ WF_vars(Sweep)

-----------------------------------------------------------------------------

\* A text that burned for a user, or was recalled, is in no event of that user's
\* stream any more, whoever left, joined or read meanwhile: a device that catches
\* up from the beginning cannot get it back (RedactMessageEvents).
TextIsGone ==
    \A m \in DOMAIN messages, u \in Users :
        \/ u \in messages[m].burned
        \/ messages[m].recalled
        \/ m \in stream[u].ended
        => m \notin stream[u].copies

\* A message counts as recalled exactly when no holder has it left, whether its
\* sender recalled it or its timers ran out one by one (delivery_repo.py).
RecalledWhenNobodyHasIt ==
    \A m \in DOMAIN messages :
        messages[m].recalled <=> messages[m].burned = messages[m].holders

\* What a message is to a user, read off its row, and the texts a user's stream still
\* holds.
LifeIn(row, u) ==
    IF u \notin row.holders THEN "none"
    ELSE IF u \in row.burned THEN "gone"
    ELSE IF u \in row.readers THEN "read" ELSE "unread"

Life == [m \in Seqs |-> [u \in Users |->
            IF m \in DOMAIN messages THEN LifeIn(messages[m], u) ELSE "none"]]

Texts == [u \in Users |-> stream[u].copies]

Lives == INSTANCE MessageLife WITH Last <- MaxMessages, life <- Life, text <- Texts

\* The store keeps the life of every message as MessageLife tells it: whoever
\* joins, leaves or comes back, a message is for the members of when it was sent,
\* its sender only if it was one of them; its text is in the stream of each of them
\* until it is gone for that user and never after, and only a recall takes it from
\* users who have not read it (append_message, apply_receipt, apply_recall,
\* collect_due_burn_sync_events).
LifeSpec == Lives!Spec

\* Until it is recalled, a message is lost only to users who read it and whose
\* timer ran: nobody loses a text it has not read.
BurnsOnlyAfterReading ==
    \A m \in DOMAIN messages :
        ~messages[m].recalled =>
            messages[m].burned \subseteq messages[m].timed \cap messages[m].readers

\* The unread count of a message is the number of those it was sent to, but for its
\* sender, who have not read it, and everyone it was sent to, a member still or not,
\* was last told exactly that number (docs/development.md, membership and history
\* reads).
CountsAgree ==
    \A m \in DOMAIN messages :
        LET waiting == messages[m].holders \ (messages[m].readers \cup {messages[m].sender}) IN
        /\ messages[m].unread = Cardinality(waiting)
        /\ \A u \in messages[m].holders : stream[u].counts[m] = messages[m].unread

\* A recipient has read a message exactly when its position, kept while it is
\* away, has passed the message: leaving and coming back makes nothing unread
\* and reads nothing.  And that position is the one its devices were last told.
PositionsAgree ==
    /\ \A m \in DOMAIN messages :
           \A u \in messages[m].holders \ {messages[m].sender} :
               u \in messages[m].readers <=> m <= Effective(u)
    /\ \A u \in Users : stream[u].seen = Effective(u)

\* A member was last told the conversation as it is, and a user who was a member
\* was last told a conversation without itself.  What it is told makes sense: the
\* owner is one of the members, and a direct conversation keeps its two.
MembersAreTold ==
    /\ \A u \in Users : IF u \in Members THEN stream[u].told = conversation
                                         ELSE u \notin stream[u].told.members
    /\ conversation.kind # "none" =>
           /\ conversation.owner \in Members
           /\ conversation.kind = "direct" => Cardinality(Members) = 2

\* A user's position never goes back, across leaving, removal and joining again.
PositionNeverFalls ==
    [][\A u \in Users : Effective(u) <= Effective(u)']_vars

\* A message that meets a condition: sent, and so in its row.
Sent(m, Holds(_)) == m \in DOMAIN messages /\ Holds(messages[m])

\* A timer that runs ends with the text gone for that user, whether it still is a
\* member or not, and a burning message nobody holds any more is cleared from the
\* messages table (collect_due_burn_sync_events, purge_burned_message_content).
TimersRunOut ==
    \A m \in Seqs :
        /\ \A u \in Users : Sent(m, LAMBDA row : u \in row.timed)
                                ~> Sent(m, LAMBDA row : u \in row.burned)
        /\ Sent(m, LAMBDA row : row.burns /\ row.recalled) ~> Sent(m, LAMBDA row : row.purged)

\* REPORT.md says of recall and burning that clearing the text covers the business
\* tables: the text of a recalled message leaves the messages table.
RecalledTextIsCleared ==
    \A m \in Seqs :
        Sent(m, LAMBDA row : row.recalled) ~> Sent(m, LAMBDA row : row.purged)

\* REPORT.md says that it covers the clients' caches: whoever received a message
\* that is gone was told so, for only that event clears the text a client keeps.
HoldersHearOfTheEnd ==
    \A m \in DOMAIN messages : \A u \in messages[m].burned : m \in stream[u].ended

=============================================================================
