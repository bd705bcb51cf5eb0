---------------------------- MODULE Projection ----------------------------
(***************************************************************************)
(* What a device makes of its events: the objects it stores, the number of *)
(* unread messages it keeps up to date event by event, and the window that *)
(* shows both.                                                             *)
(*                                                                         *)
(* Events are applied in the order they arrive, once each, and reach the   *)
(* window as signals; history pages are asked for by the window and the    *)
(* answers come in the same channel, in order.  At every login the window  *)
(* is given a snapshot.  One conversation: a message is its sequence       *)
(* number, and what an event says of a count, a delivery or the            *)
(* conversation is named by the position of the event.  A batch of events  *)
(* is applied one by one.  Transfers of files follow another channel and   *)
(* are not shown here.                                                     *)
(***************************************************************************)
EXTENDS Integers, FiniteSets, SequencesExt

CONSTANTS
  MaxSeq,       \* messages of the conversation
  Streams,      \* streams of events the server may have for the device
  Page,         \* messages on a page of history (kHistoryPageSize)
  MaxLogins,    \* bound: logins
  MaxRestarts,  \* bound: restarts of the program
  MaxChannel    \* bound: signals under way

Me == "me"
Other == "other"
Nobody == "nobody"
People == {Me, Other}

Messages == 1 .. MaxSeq
Ends == {"recall", "burn"}

\* of: the message, or how far the reader has read.  by: sender or reader.
Event == [kind : {"message", "readCount", "delivery", "receipt", "conversation"} \cup Ends,
          of : 0 .. MaxSeq, by : People]

\* The events about a message name one, and its own precedes the others.
WellFormed(s) ==
  /\ \A i \in DOMAIN s : s[i].kind \notin {"receipt", "conversation"} => s[i].of \in Messages
  /\ \A i, j \in DOMAIN s :
       i < j /\ s[j].kind = "message" => s[i].kind \in {"receipt", "conversation"} \/ s[i].of # s[j].of

ASSUME ProjectionAssumption ==
  /\ Streams \subseteq Seq(Event)
  /\ \A s \in Streams : WellFormed(s)
  /\ {MaxSeq, Page} \subseteq Nat \ {0}
  /\ {MaxLogins, MaxRestarts, MaxChannel} \subseteq Nat

VARIABLES
  stream,    \* the device's events, by position
  seen,      \* positions applied
  cache,     \* the stored objects
  unread,    \* m_unreadTotal
  online,
  channel,   \* signals and answers on their way to the window
  asks,      \* requests for history on their way to the core
  view,      \* the session store
  queue,     \* pendingMessages, by message: each comes once
  early,     \* history: messages with a delivery applied before them
  logins, restarts

core == <<seen, cache, unread, online, early>>
window == <<view, queue>>
bounds == <<logins, restarts>>
vars == <<stream, core, channel, asks, window, bounds>>

-----------------------------------------------------------------------------
(* The stored objects *)

\* count: the event that says how many have not read it, in answers and in the
\* window; the store keeps it as an object of its own.
NoItem == [by |-> Nobody, recalled |-> FALSE, burned |-> FALSE, text |-> FALSE, count |-> 0]

Empty ==
  [message |-> [m \in Messages |-> NoItem],
   ended |-> [m \in Messages |-> "none"],
   count |-> [m \in Messages |-> 0],
   delivery |-> [m \in Messages |-> 0],
   read |-> [u \in People |-> 0],
   conversation |-> 0]

Held(objects) == {m \in Messages : objects.message[m].by # Nobody}
Later(a, b) == IF a > b THEN a ELSE b

\* A burn is not taken back by a recall.
Ended(old, new) == IF old = "burn" THEN old ELSE new

\* mutant: only the message's own flags are looked at
Protected_Alone(item, end) == [item EXCEPT !.text = @ /\ ~item.recalled /\ ~item.burned]

\* protectMessage
Protected(item, end) ==
  LET recalled == item.recalled \/ end # "none"
      burned == item.burned \/ end = "burn"
  IN [item EXCEPT !.recalled = recalled, !.burned = burned, !.text = @ /\ ~recalled /\ ~burned]

\* project: the objects after event e at position p.  A message the server has
\* redacted arrives recalled and without its text.
Projected(objects, p, e, redacted) ==
  LET m == e.of
      item == [NoItem EXCEPT !.by = e.by, !.recalled = redacted, !.text = ~redacted]
  IN CASE e.kind = "message" ->
            [objects EXCEPT !.message[m] = Protected(item, objects.ended[m]),
                            !.count[m] = IF @ = 0 THEN p ELSE @]
       [] e.kind \in Ends ->
            LET end == Ended(objects.ended[m], e.kind)
            IN [objects EXCEPT !.ended[m] = end,
                               !.message[m] = IF @.by = Nobody THEN @ ELSE Protected(@, end)]
       [] e.kind = "readCount" -> [objects EXCEPT !.count[m] = Later(@, p)]
       [] e.kind = "delivery" -> [objects EXCEPT !.delivery[m] = Later(@, p)]
       [] e.kind = "receipt" -> [objects EXCEPT !.read[e.by] = Later(@, m)]
       [] e.kind = "conversation" -> [objects EXCEPT !.conversation = Later(@, p)]

Item(objects, m) == [objects.message[m] EXCEPT !.count = objects.count[m]]

\* The window is told of the object that was kept, not of the event's.
Told(objects, e) ==
  [kind |-> e.kind, of |-> e.of, by |-> e.by,
   data |-> CASE e.kind = "message" -> Item(objects, e.of)
              [] e.kind = "readCount" -> objects.count[e.of]
              [] e.kind = "delivery" -> objects.delivery[e.of]
              [] e.kind = "receipt" -> objects.read[e.by]
              [] e.kind = "conversation" -> objects.conversation
              [] e.kind \in Ends -> 0]

Unread(objects) ==
  {m \in Held(objects) : /\ objects.message[m].by # Me
                         /\ ~objects.message[m].recalled /\ ~objects.message[m].burned
                         /\ m > objects.read[Me]}

\* The messages whose being unread an event may change.
About(e) ==
  CASE e.kind = "receipt" -> IF e.by = Me THEN 1 .. e.of ELSE {}
    [] e.kind \in {"message"} \cup Ends -> {e.of}
    [] OTHER -> {}

\* mutant: a receipt counts all it covers, read before or not
Affected_Covered(e, objects) ==
  Cardinality({m \in Held(objects) \cap About(e) :
    /\ objects.message[m].by # Me /\ objects.message[m].text
    /\ e.kind = "receipt" \/ m > objects.read[Me]})

\* unreadAffected
Affected(e, objects) == Cardinality(Unread(objects) \cap About(e))

\* messagePage: the latest messages before one, with their counts and deliveries.
Latest == MaxSeq + 1

PageBefore(objects, boundary) ==
  LET older == {m \in Held(objects) : m < boundary}
      page == {m \in older : Cardinality({n \in older : n > m}) < Page}
  IN [messages |-> [m \in page |-> Item(objects, m)],
      deliveries |-> [m \in page |-> objects.delivery[m]],
      cursor |-> IF page = {} THEN 0 ELSE Min(page),
      more |-> older # page]

-----------------------------------------------------------------------------
(* The core *)

EmptyView ==
  [message |-> [m \in Messages |-> NoItem],
   ended |-> [m \in Messages |-> "none"],
   count |-> [m \in Messages |-> 0],
   delivery |-> [m \in Messages |-> 0],
   read |-> [u \in People |-> 0],
   conversation |-> 0,
   total |-> 0, cursor |-> 0, more |-> FALSE,
   connected |-> FALSE, loading |-> FALSE, epoch |-> 0]

Unknown == -1
NoMessages == [m \in {} |-> NoItem]

Init ==
  /\ stream \in Streams
  /\ seen = {}
  /\ cache = Empty
  /\ unread = Unknown
  /\ online = FALSE
  /\ early = {}
  /\ channel = <<>>
  /\ asks = <<>>
  /\ view = EmptyView
  /\ queue = NoMessages
  /\ logins = 0
  /\ restarts = 0

Emit(signals) ==
  /\ Len(channel) + Len(signals) <= MaxChannel
  /\ channel' = channel \o signals

\* welcome: the window learns of the connection and is given the snapshot.
Login ==
  /\ ~online
  /\ logins < MaxLogins
  /\ online' = TRUE
  /\ unread' = IF unread = Unknown THEN Cardinality(Unread(cache)) ELSE unread
  /\ Emit(<<[kind |-> "connected"],
            [kind |-> "initial", page |-> PageBefore(cache, Latest), read |-> cache.read,
             conversation |-> cache.conversation, total |-> unread']>>)
  /\ logins' = logins + 1
  /\ UNCHANGED <<stream, seen, cache, early, asks, window, restarts>>

LoseConnection ==
  /\ online
  /\ online' = FALSE
  /\ Emit(<<[kind |-> "lost"]>>)
  /\ UNCHANGED <<stream, seen, cache, unread, early, asks, window, bounds>>

\* Once a message has ended, the server clears its own event too.
Redactable(e) ==
  e.kind = "message" /\ \E p \in DOMAIN stream : stream[p].kind \in Ends /\ stream[p].of = e.of

\* apply: pages and live events overlap and run ahead of each other, so any
\* event may be next; one that was applied is skipped.
Apply(p) ==
  LET e == stream[p]
  IN /\ online
     /\ p \notin seen
     /\ seen' = seen \cup {p}
     /\ \E redacted \in BOOLEAN :
          /\ redacted => Redactable(e)
          /\ cache' = Projected(cache, p, e, redacted)
     /\ unread' = unread - Affected(e, cache) + Affected(e, cache')
     /\ early' = IF e.kind = "delivery" /\ e.of \notin Held(cache) THEN early \cup {e.of} ELSE early
     /\ Emit(<<Told(cache', e), [kind |-> "progress", total |-> unread']>>)
     /\ UNCHANGED <<stream, online, asks, window, bounds>>

\* loadHistory
AnswerHistory ==
  /\ asks # <<>>
  /\ Emit(<<[kind |-> "page", ok |-> online, epoch |-> Head(asks).epoch,
             page |-> PageBefore(cache, Head(asks).before)]>>)
  /\ asks' = Tail(asks)
  /\ UNCHANGED <<stream, core, window, bounds>>

\* The program restarts: only the stored objects remain.
Restart ==
  /\ restarts < MaxRestarts
  /\ restarts' = restarts + 1
  /\ online' = FALSE
  /\ unread' = Unknown
  /\ channel' = <<>>
  /\ asks' = <<>>
  /\ view' = EmptyView
  /\ queue' = NoMessages
  /\ UNCHANGED <<stream, seen, cache, early, logins>>

-----------------------------------------------------------------------------
(* The window *)

\* mergeMessage
Merged(old, new) ==
  LET recalled == old.recalled \/ new.recalled
      burned == old.burned \/ new.burned
  IN [new EXCEPT !.recalled = recalled, !.burned = burned, !.text = @ /\ ~recalled /\ ~burned]

\* An end or a count that came before the message is used.
Known(v, m, item) ==
  [item EXCEPT !.recalled = @ \/ v.ended[m] # "none", !.burned = @ \/ v.ended[m] = "burn",
               !.count = IF v.count[m] # 0 THEN v.count[m] ELSE @]

\* pushMessages
Pushed(v, items) ==
  [v EXCEPT !.message = [m \in Messages |-> IF m \in DOMAIN items
                                            THEN Merged(v.message[m], Known(v, m, items[m]))
                                            ELSE v.message[m]],
            !.ended = [m \in Messages |-> IF m \in DOMAIN items THEN "none" ELSE v.ended[m]]]

\* flushPendingMessages
Flushed == Pushed(view, queue)

Count(v, m, at) ==
  IF at <= v.count[m] THEN v
  ELSE [v EXCEPT !.count[m] = at, !.message[m].count = IF v.message[m].by = Nobody THEN @ ELSE at]

\* applyMessageUpdated and applyConversationUpdated
Updated(v, s) ==
  CASE s.kind = "readCount" -> Count(v, s.of, s.data)
    [] s.kind = "delivery" -> [v EXCEPT !.delivery[s.of] = Later(@, s.data)]
    [] s.kind = "receipt" -> [v EXCEPT !.read[s.by] = Later(@, s.data)]
    [] s.kind = "conversation" -> [v EXCEPT !.conversation = s.data]
    [] s.kind \in Ends ->
         IF v.message[s.of].by = Nobody
         THEN [v EXCEPT !.ended[s.of] = Ended(@, s.kind)]
         ELSE [v EXCEPT !.message[s.of] = Protected(@, s.kind)]

Receives(kinds) == channel # <<>> /\ Head(channel).kind \in kinds
Took == channel' = Tail(channel)

TakeConnection ==
  /\ Receives({"connected", "lost"})
  /\ view' = [view EXCEPT !.connected = Head(channel).kind = "connected"]
  /\ Took
  /\ UNCHANGED <<stream, core, asks, queue, bounds>>

\* applyInitialState
Initial(v, s) ==
  LET on(page, none) == [m \in Messages |-> IF m \in DOMAIN page THEN page[m] ELSE none]
      items == on(s.page.messages, NoItem)
  IN [EmptyView EXCEPT
        !.message = items, !.count = [m \in Messages |-> items[m].count],
        !.delivery = on(s.page.deliveries, 0),
        !.read = s.read, !.conversation = s.conversation, !.total = s.total,
        !.cursor = s.page.cursor, !.more = s.page.more,
        !.connected = v.connected, !.epoch = v.epoch + 1]

\* initialStateLoaded
TakeInitial ==
  /\ Receives({"initial"})
  /\ view' = Initial(view, Head(channel))
  /\ queue' = NoMessages
  /\ Took
  /\ UNCHANGED <<stream, core, asks, bounds>>

\* messagePushed: kept until the next frame.
TakeMessage ==
  /\ Receives({"message"})
  /\ LET s == Head(channel)
     IN queue' = [m \in DOMAIN queue \cup {s.of} |-> IF m = s.of THEN s.data ELSE queue[m]]
  /\ Took
  /\ UNCHANGED <<stream, core, asks, view, bounds>>

Frame ==
  /\ DOMAIN queue # {}
  /\ view' = Flushed
  /\ queue' = NoMessages
  /\ UNCHANGED <<stream, core, channel, asks, bounds>>

\* Everything else shows what was kept first.
TakeUpdate ==
  /\ Receives({"readCount", "delivery", "receipt", "conversation"} \cup Ends)
  /\ view' = Updated(Flushed, Head(channel))
  /\ queue' = NoMessages
  /\ Took
  /\ UNCHANGED <<stream, core, asks, bounds>>

\* applySyncProgress
TakeProgress ==
  /\ Receives({"progress"})
  /\ view' = [view EXCEPT !.total = Head(channel).total]
  /\ Took
  /\ UNCHANGED <<stream, core, asks, queue, bounds>>

LoadHistory ==
  /\ view.more /\ ~view.loading /\ view.connected
  /\ asks' = Append(asks, [epoch |-> view.epoch, before |-> view.cursor])
  /\ view' = [view EXCEPT !.loading = TRUE]
  /\ UNCHANGED <<stream, core, channel, queue, bounds>>

Welcome_Connected(s) == view.connected  \* mutant: any answer is taken while connected

\* An answer from before the last snapshot is dropped.
Welcome(s) == s.epoch = view.epoch /\ view.connected

\* applyHistory
WithHistory(v, page) ==
  LET newest(old, new) == [m \in Messages |-> IF m \in DOMAIN page.messages THEN Later(old[m], new[m])
                                             ELSE old[m]]
      counts == [m \in DOMAIN page.messages |-> page.messages[m].count]
  IN Pushed([v EXCEPT !.count = newest(v.count, counts), !.delivery = newest(v.delivery, page.deliveries),
                      !.cursor = page.cursor, !.more = page.more],
            page.messages)

TakePage ==
  /\ Receives({"page"})
  /\ LET s == Head(channel)
         shown == IF Welcome(s) /\ s.ok THEN WithHistory(Flushed, s.page) ELSE view
     IN /\ view' = [shown EXCEPT !.loading = @ /\ s.epoch # view.epoch]
        /\ queue' = IF Welcome(s) /\ s.ok THEN NoMessages ELSE queue
  /\ Took
  /\ UNCHANGED <<stream, core, asks, bounds>>

-----------------------------------------------------------------------------

Next ==
  \/ Login \/ LoseConnection \/ Restart \/ AnswerHistory
  \/ \E p \in DOMAIN stream : Apply(p)
  \/ TakeConnection \/ TakeInitial \/ TakeMessage \/ TakeUpdate \/ TakeProgress \/ TakePage
  \/ Frame \/ LoadHistory

Spec == Init /\ [][Next]_vars

-----------------------------------------------------------------------------
(* Properties *)

Newest(positions) == Max(positions \cup {0})

\* In whatever order they came, the objects are those of the events applied: a
\* message is stored once its own event is, ended and without text once its end
\* is (or came with it), burned only by a burn, and counts, deliveries, receipts
\* and the conversation are the newest (MiniImStateStore::project).
CacheIsItsEvents ==
  LET of(kinds, m) == {p \in seen : stream[p].kind \in kinds /\ stream[p].of = m}
  IN /\ \A m \in Messages :
          LET item == cache.message[m]
          IN /\ item.by # Nobody <=> of({"message"}, m) # {}
             /\ item.by # Nobody /\ of(Ends, m) # {} => item.recalled
             /\ item.by # Nobody => (item.burned <=> of({"burn"}, m) # {})
             /\ item.text => ~item.recalled /\ ~item.burned
             /\ cache.count[m] = Newest(of({"message", "readCount"}, m))
             /\ cache.delivery[m] = Newest(of({"delivery"}, m))
     /\ \A u \in People :
          cache.read[u] = Newest({stream[p].of : p \in {q \in seen : stream[q].kind = "receipt"
                                                                    /\ stream[q].by = u}})
     /\ cache.conversation = Newest({p \in seen : stream[p].kind = "conversation"})

\* The number kept up to date event by event is the number of messages of others
\* that are stored, neither recalled nor burned, and past what the user has read
\* (MiniImStateStore::apply, unreadAffected).
UnreadIsExact == unread # Unknown => unread = Cardinality(Unread(cache))

\* When nothing is under way to it, the window shows what is stored: every
\* message it has as it is, all of them after its cursor or, when no more are
\* promised, all there are, and the same receipts, conversation and unread count.
\* A delivery that came before its message may be missing: nothing tells the
\* window of it again when a login came between the two (chat-view.vue,
\* session.ts, MiniImStateStore::snapshot, messagePage).
ViewShowsCache ==
  view.epoch > 0 /\ channel = <<>> /\ DOMAIN queue = {} =>
    /\ \A m \in Held(view) :
         /\ view.message[m] = Item(cache, m)
         /\ view.delivery[m] = cache.delivery[m] \/ m \in early
    /\ \A m \in Held(cache) : m >= view.cursor \/ ~view.more => m \in Held(view)
    /\ view.read = cache.read
    /\ view.conversation = cache.conversation
    /\ view.total = Cardinality(Unread(cache))

=============================================================================
