---------------------- MODULE ProjectionViewProofs ----------------------
(***************************************************************************)
(* Proofs about the window of Projection: when nothing is under way to it, *)
(* it shows what the device has stored.  Everything the window shows, has  *)
(* queued or has coming was true of the store when it left, and what has   *)
(* changed since is told by a signal behind it.                            *)
(***************************************************************************)
EXTENDS ProjectionProofs

-----------------------------------------------------------------------------
(* What is shown, and what is under way *)

\* A message as the window has it, with the event of its count.
Shown == [by : People \cup {Nobody}, recalled : BOOLEAN, burned : BOOLEAN, text : BOOLEAN,
          count : Nat]

Views ==
  [message : [Messages -> Shown],
   ended : [Messages -> {"none"} \cup Ends],
   count : [Messages -> Nat],
   delivery : [Messages -> Nat],
   read : [People -> Nat],
   conversation : Nat,
   total : Int, cursor : Nat, more : BOOLEAN,
   connected : BOOLEAN, loading : BOOLEAN, epoch : Nat]

\* What may come of an event, by what it tells.
MessageSignals(m) == [kind : {"message"}, of : {m}, by : People, data : Shown]
EndSignals(m, kinds) == [kind : kinds, of : {m}, by : People, data : {0}]
CountSignals(m, n) == [kind : {"readCount"}, of : {m}, by : People, data : {n}]
DeliverySignals(m, n) == [kind : {"delivery"}, of : {m}, by : People, data : {n}]
ReadSignals(u, n) == [kind : {"receipt"}, of : 0 .. MaxSeq, by : {u}, data : {n}]
ConversationSignals(n) == [kind : {"conversation"}, of : 0 .. MaxSeq, by : People, data : {n}]
ProgressSignals(n) == [kind : {"progress"}, total : {n}]

\* One of these signals is behind position i of the channel.
Ahead(ch, i, signals) == \E j \in DOMAIN ch : j > i /\ ch[j] \in signals

\* Everything that may be under way, and the requests for history.
Pages(S) == [messages : [S -> Shown], deliveries : [S -> Nat], cursor : Nat, more : BOOLEAN]
SomePages == UNION {Pages(S) : S \in SUBSET Messages}

Signals ==
  [kind : {"connected", "lost"}]
    \cup [kind : {"progress"}, total : Int]
    \cup [kind : {"message"}, of : Messages, by : People, data : Shown]
    \cup [kind : {"readCount"}, of : Messages, by : People, data : Nat \ {0}]
    \cup [kind : {"delivery"}, of : Messages, by : People, data : Nat]
    \cup [kind : {"receipt", "conversation"}, of : 0 .. MaxSeq, by : People, data : Nat]
    \cup [kind : Ends, of : Messages, by : People, data : {0}]
    \cup [kind : {"initial"}, page : SomePages, read : [People -> Nat], conversation : Nat, total : Int]
    \cup [kind : {"page"}, ok : BOOLEAN, epoch : Nat, page : SomePages]

Asks == [epoch : Nat, before : Nat]

IsQueue(q) == DOMAIN q \subseteq Messages /\ q \in [DOMAIN q -> Shown]

Typed ==
  /\ view \in Views
  /\ IsQueue(queue)
  /\ channel \in Seq(Signals)
  /\ asks \in Seq(Asks)
  /\ unread \in Int
  /\ online \in BOOLEAN

-----------------------------------------------------------------------------
(* What is true of a message at position i: 0 is the window's own *)

\* The event of a count, a delivery, a receipt: the newest, or it is behind.
Counted(n, m, ch, i, o) ==
  n <= o.count[m] /\ (n = o.count[m] \/ Ahead(ch, i, CountSignals(m, o.count[m])))

Delivered(n, m, ch, i, o, before) ==
  n = o.delivery[m] \/ m \in before \/ Ahead(ch, i, DeliverySignals(m, o.delivery[m]))

IsRead(n, u, ch, i, o) ==
  n <= o.read[u] /\ (n = o.read[u] \/ Ahead(ch, i, ReadSignals(u, o.read[u])))

IsVersion(n, ch, i, o) ==
  n = o.conversation \/ Ahead(ch, i, ConversationSignals(o.conversation))

IsTotal(n, ch, i, total) ==
  total # Unknown /\ (n = total \/ Ahead(ch, i, ProgressSignals(total)))

\* A message is as it is stored, but for ends and a count behind it.
Faithful(x, m, ch, i, o) ==
  /\ x.by = o.message[m].by /\ x.by # Nobody
  /\ x.recalled => o.message[m].recalled
  /\ x.burned => o.message[m].burned
  /\ o.message[m].recalled => x.recalled \/ Ahead(ch, i, EndSignals(m, Ends))
  /\ o.message[m].burned => x.burned \/ Ahead(ch, i, EndSignals(m, {"burn"}))
  /\ x.text <=> ~x.recalled /\ ~x.burned
  /\ Counted(x.count, m, ch, i, o)

EndIsSound(end, m, o) ==
  /\ end # "none" => o.ended[m] # "none"
  /\ end = "burn" => o.ended[m] = "burn"

-----------------------------------------------------------------------------
(* The store, the signals, the window *)

\* A stored message has its text unless it ended; a delivery of a message that is
\* not there came before it.
StoreFair(o, before) ==
  \A m \in Messages :
    /\ o.message[m].by # Nobody =>
         (o.message[m].text <=> ~o.message[m].recalled /\ ~o.message[m].burned)
    /\ o.message[m].by = Nobody /\ o.delivery[m] # 0 => m \in before

\* The messages a page gives.
PageFair(page, ch, i, o, before) ==
  \A m \in DOMAIN page.messages :
    /\ Faithful(page.messages[m], m, ch, i, o)
    /\ page.deliveries[m] <= o.delivery[m]
    /\ Delivered(page.deliveries[m], m, ch, i, o, before)

SignalFair(s, ch, i, o, before, total) ==
  /\ s.kind = "message" =>
       Faithful(s.data, s.of, ch, i, o) /\ Delivered(0, s.of, ch, i, o, before)
  /\ s.kind = "readCount" => Counted(s.data, s.of, ch, i, o)
  /\ s.kind = "delivery" => s.data <= o.delivery[s.of]
  /\ s.kind = "receipt" => s.data <= o.read[s.by]
  /\ s.kind = "conversation" => IsVersion(s.data, ch, i, o)
  /\ s.kind \in Ends => EndIsSound(s.kind, s.of, o)
  /\ s.kind = "progress" => IsTotal(s.total, ch, i, total)
  /\ s.kind = "page" => PageFair(s.page, ch, i, o, before)
  /\ s.kind = "initial" =>
       /\ PageFair(s.page, ch, i, o, before)
       /\ \A u \in People : IsRead(s.read[u], u, ch, i, o)
       /\ IsVersion(s.conversation, ch, i, o)
       /\ IsTotal(s.total, ch, i, total)
       /\ \A m \in Held(o) : m >= s.page.cursor \/ ~s.page.more =>
            m \in DOMAIN s.page.messages \/ Ahead(ch, i, MessageSignals(m))

ChannelFair(ch, o, before, total) ==
  \A i \in DOMAIN ch : SignalFair(ch[i], ch, i, o, before, total)

ShownFair(v, q, ch, o, before) ==
  /\ \A m \in Messages :
       /\ IF v.message[m].by = Nobody THEN ~v.message[m].recalled /\ ~v.message[m].burned
          ELSE Faithful(v.message[m], m, ch, 0, o)
       /\ EndIsSound(v.ended[m], m, o)
       /\ v.count[m] # 0 => /\ Counted(v.count[m], m, ch, 0, o)
                            /\ v.message[m].by # Nobody => v.message[m].count = v.count[m]
       /\ v.delivery[m] <= o.delivery[m]
       /\ v.message[m].by # Nobody \/ m \in DOMAIN q => Delivered(v.delivery[m], m, ch, 0, o, before)
  /\ \A m \in DOMAIN q : Faithful(q[m], m, ch, 0, o)

WholeFair(v, q, ch, o, total) ==
  /\ \A u \in People : IsRead(v.read[u], u, ch, 0, o)
  /\ IsVersion(v.conversation, ch, 0, o)
  /\ IsTotal(v.total, ch, 0, total)
  /\ \A m \in Held(o) : m >= v.cursor \/ ~v.more =>
       m \in Held(v) \/ m \in DOMAIN q \/ Ahead(ch, 0, MessageSignals(m))

WindowFair(v, q, ch, o, before, total) ==
  ShownFair(v, q, ch, o, before) /\ (v.epoch > 0 => WholeFair(v, q, ch, o, total))

\* Of the page the window waits for there is one, asked for or on its way.
IsPage(s, epoch) == s.kind = "page" /\ s.epoch = epoch

HistoryFair(v, ch, qs, o) ==
  /\ \A j \in DOMAIN qs :
       /\ qs[j].epoch <= v.epoch
       /\ qs[j].epoch = v.epoch => v.loading /\ qs[j].before = v.cursor
  /\ \A i \in DOMAIN ch :
       /\ ch[i].kind = "page" => ch[i].epoch <= v.epoch
       /\ IsPage(ch[i], v.epoch) =>
            /\ v.loading
            /\ \A m \in Held(o) : m < v.cursor /\ (m >= ch[i].page.cursor \/ ~ch[i].page.more) =>
                 m \in DOMAIN ch[i].page.messages \/ Ahead(ch, i, MessageSignals(m))
  /\ \A i, j \in DOMAIN ch : IsPage(ch[i], v.epoch) /\ IsPage(ch[j], v.epoch) => i = j
  /\ \A i, j \in DOMAIN qs : qs[i].epoch = v.epoch /\ qs[j].epoch = v.epoch => i = j
  /\ \A i \in DOMAIN ch, j \in DOMAIN qs : ~(IsPage(ch[i], v.epoch) /\ qs[j].epoch = v.epoch)

Fair ==
  /\ StoreFair(cache, early)
  /\ ChannelFair(channel, cache, early, unread)
  /\ WindowFair(view, queue, channel, cache, early, unread)
  /\ HistoryFair(view, channel, asks, cache)

-----------------------------------------------------------------------------
(* Facts about what is ahead *)

LEMMA AheadGrows ==
    ASSUME NEW S, NEW ch \in Seq(S), NEW t \in Seq(S), NEW i, NEW signals, Ahead(ch, i, signals)
    PROVE  Ahead(ch \o t, i, signals)
<1>1. PICK j \in DOMAIN ch : j > i /\ ch[j] \in signals
    BY DEF Ahead
<1>2. j \in DOMAIN (ch \o t) /\ (ch \o t)[j] = ch[j]
    OBVIOUS
<1> QED
    BY <1>1, <1>2 DEF Ahead

LEMMA NewIsAhead ==
    ASSUME NEW S, NEW ch \in Seq(S), NEW t \in Seq(S), NEW i \in Nat, i <= Len(ch), NEW signals,
           NEW k \in DOMAIN t, t[k] \in signals
    PROVE  Ahead(ch \o t, i, signals)
<1>1. PICK j \in Nat : j = Len(ch) + k
    OBVIOUS
<1>2. j \in DOMAIN (ch \o t) /\ (ch \o t)[j] = t[k] /\ j > i
    BY <1>1
<1> QED
    BY <1>2 DEF Ahead

LEMMA AheadNext ==
    ASSUME NEW S, NEW ch \in Seq(S), ch # <<>>, NEW i \in Nat, NEW signals, Ahead(ch, i + 1, signals)
    PROVE  Ahead(Tail(ch), i, signals)
<1>1. PICK j \in DOMAIN ch : j > i + 1 /\ ch[j] \in signals
    BY DEF Ahead
<1>2. PICK k \in Nat : k = j - 1
    BY <1>1
<1>3. k \in DOMAIN Tail(ch) /\ Tail(ch)[k] = ch[j] /\ k > i
    BY <1>1, <1>2
<1> QED
    BY <1>1, <1>3 DEF Ahead

LEMMA AheadOrHead ==
    ASSUME NEW S, NEW ch \in Seq(S), ch # <<>>, NEW signals, Ahead(ch, 0, signals),
           Head(ch) \notin signals
    PROVE  Ahead(Tail(ch), 0, signals)
<1>1. PICK j \in DOMAIN ch : j > 0 /\ ch[j] \in signals
    BY DEF Ahead
<1>2. j > 1
    BY <1>1
<1>3. Ahead(ch, 0 + 1, signals)
    BY <1>1, <1>2 DEF Ahead
<1> QED
    BY <1>3, AheadNext

LEMMA NothingAhead ==
    ASSUME NEW i, NEW signals
    PROVE  ~Ahead(<<>>, i, signals)
BY DEF Ahead

-----------------------------------------------------------------------------
(* What the window's operators do *)

LEMMA MergedShape ==
    ASSUME NEW old \in Shown, NEW new \in Shown
    PROVE  /\ Merged(old, new) \in Shown
           /\ Merged(old, new).by = new.by /\ Merged(old, new).count = new.count
           /\ Merged(old, new).recalled <=> old.recalled \/ new.recalled
           /\ Merged(old, new).burned <=> old.burned \/ new.burned
           /\ Merged(old, new).text <=>
                new.text /\ ~Merged(old, new).recalled /\ ~Merged(old, new).burned
<1>1. PICK recalled \in BOOLEAN, burned \in BOOLEAN, text \in BOOLEAN :
        /\ recalled <=> old.recalled \/ new.recalled
        /\ burned <=> old.burned \/ new.burned
        /\ text <=> new.text /\ ~recalled /\ ~burned
        /\ Merged(old, new) = [new EXCEPT !.recalled = recalled, !.burned = burned, !.text = text]
  <2>1. /\ (old.recalled \/ new.recalled) \in BOOLEAN
        /\ (old.burned \/ new.burned) \in BOOLEAN
        /\ (new.text /\ ~(old.recalled \/ new.recalled) /\ ~(old.burned \/ new.burned)) \in BOOLEAN
      OBVIOUS
  <2> QED
      BY <2>1 DEF Merged
<1>2. /\ Merged(old, new) \in Shown /\ Merged(old, new).by = new.by
      /\ Merged(old, new).count = new.count
      /\ Merged(old, new).recalled = recalled
      /\ Merged(old, new).burned = burned
      /\ Merged(old, new).text = text
    BY <1>1 DEF Shown
<1> QED
    BY <1>1, <1>2

LEMMA KnownShape ==
    ASSUME NEW v \in Views, NEW m \in Messages, NEW item \in Shown
    PROVE  /\ Known(v, m, item) \in Shown
           /\ Known(v, m, item).by = item.by /\ Known(v, m, item).text = item.text
           /\ Known(v, m, item).recalled <=> item.recalled \/ v.ended[m] # "none"
           /\ Known(v, m, item).burned <=> item.burned \/ v.ended[m] = "burn"
           /\ Known(v, m, item).count = IF v.count[m] # 0 THEN v.count[m] ELSE item.count
<1>1. v.count[m] \in Nat /\ item.count \in Nat
    BY DEF Views, Shown
<1>2. PICK recalled \in BOOLEAN, burned \in BOOLEAN, count \in Nat :
        /\ recalled <=> item.recalled \/ v.ended[m] # "none"
        /\ burned <=> item.burned \/ v.ended[m] = "burn"
        /\ count = IF v.count[m] # 0 THEN v.count[m] ELSE item.count
        /\ Known(v, m, item) = [item EXCEPT !.recalled = recalled, !.burned = burned, !.count = count]
  <2>1. /\ (item.recalled \/ v.ended[m] # "none") \in BOOLEAN
        /\ (item.burned \/ v.ended[m] = "burn") \in BOOLEAN
        /\ (IF v.count[m] # 0 THEN v.count[m] ELSE item.count) \in Nat
      BY <1>1
  <2> QED
      BY <2>1 DEF Known
<1>3. /\ Known(v, m, item) \in Shown /\ Known(v, m, item).by = item.by
      /\ Known(v, m, item).text = item.text
      /\ Known(v, m, item).recalled = recalled
      /\ Known(v, m, item).burned = burned
      /\ Known(v, m, item).count = count
    BY <1>2 DEF Shown
<1> QED
    BY <1>2, <1>3

LEMMA PushedShape ==
    ASSUME NEW v \in Views, NEW items, IsQueue(items)
    PROVE  LET w == Pushed(v, items)
           IN /\ w \in Views
              /\ \A m \in Messages :
                   /\ w.message[m] = IF m \in DOMAIN items THEN Merged(v.message[m], Known(v, m, items[m]))
                                     ELSE v.message[m]
                   /\ w.ended[m] = IF m \in DOMAIN items THEN "none" ELSE v.ended[m]
              /\ w.count = v.count /\ w.delivery = v.delivery /\ w.read = v.read
              /\ w.conversation = v.conversation /\ w.total = v.total
              /\ w.cursor = v.cursor /\ w.more = v.more
              /\ w.connected = v.connected /\ w.loading = v.loading /\ w.epoch = v.epoch
<1>1. PICK message, ended :
        /\ message = [m \in Messages |-> IF m \in DOMAIN items
                                          THEN Merged(v.message[m], Known(v, m, items[m]))
                                          ELSE v.message[m]]
        /\ ended = [m \in Messages |-> IF m \in DOMAIN items THEN "none" ELSE v.ended[m]]
    OBVIOUS
<1>2. Pushed(v, items) = [v EXCEPT !.message = message, !.ended = ended]
    BY <1>1 DEF Pushed
<1>3. message \in [Messages -> Shown]
  <2>1. ASSUME NEW m \in Messages
        PROVE  message[m] \in Shown
    <3>1. v.message[m] \in Shown
        BY DEF Views
    <3>2. CASE m \in DOMAIN items
      <4>1. items[m] \in Shown
          BY <3>2 DEF IsQueue
      <4>2. Known(v, m, items[m]) \in Shown
          BY <4>1, KnownShape
      <4>3. Merged(v.message[m], Known(v, m, items[m])) \in Shown
          BY <3>1, <4>2, MergedShape
      <4> QED
          BY <1>1, <3>2, <4>3
    <3> QED
        BY <1>1, <3>1, <3>2
  <2> QED
      BY <1>1, <2>1
<1>4. ended \in [Messages -> {"none"} \cup Ends]
    BY <1>1 DEF Views
<1>5. /\ Pushed(v, items) \in Views
      /\ Pushed(v, items).message = message /\ Pushed(v, items).ended = ended
      /\ Pushed(v, items).count = v.count /\ Pushed(v, items).delivery = v.delivery
      /\ Pushed(v, items).read = v.read
      /\ Pushed(v, items).conversation = v.conversation /\ Pushed(v, items).total = v.total
      /\ Pushed(v, items).cursor = v.cursor /\ Pushed(v, items).more = v.more
      /\ Pushed(v, items).connected = v.connected /\ Pushed(v, items).loading = v.loading
      /\ Pushed(v, items).epoch = v.epoch
    BY <1>2, <1>3, <1>4 DEF Views
<1> QED
    BY <1>1, <1>5

\* An end on a message that is shown.
LEMMA ProtectedShows ==
    ASSUME NEW item \in Shown, NEW end \in Ends
    PROVE  /\ Protected(item, end) \in Shown
           /\ Protected(item, end).by = item.by /\ Protected(item, end).count = item.count
           /\ Protected(item, end).recalled = TRUE /\ Protected(item, end).text = FALSE
           /\ Protected(item, end).burned <=> item.burned \/ end = "burn"
<1>1. PICK recalled \in BOOLEAN, burned \in BOOLEAN, text \in BOOLEAN :
        /\ recalled = TRUE
        /\ burned <=> item.burned \/ end = "burn"
        /\ text = FALSE
        /\ Protected(item, end) = [item EXCEPT !.recalled = recalled, !.burned = burned, !.text = text]
  <2>1. /\ (item.recalled \/ end # "none") \in BOOLEAN
        /\ (item.burned \/ end = "burn") \in BOOLEAN
        /\ (item.text /\ ~(item.recalled \/ end # "none") /\ ~(item.burned \/ end = "burn")) \in BOOLEAN
      OBVIOUS
  <2>2. end # "none"
      BY DEF Ends
  <2> QED
      BY <2>1, <2>2 DEF Protected
<1>2. /\ Protected(item, end) \in Shown /\ Protected(item, end).by = item.by
      /\ Protected(item, end).count = item.count
      /\ Protected(item, end).recalled = recalled
      /\ Protected(item, end).burned = burned
      /\ Protected(item, end).text = text
    BY <1>1 DEF Shown
<1> QED
    BY <1>1, <1>2

CountTaken(v, m, at, message, count) ==
  /\ Count(v, m, at) = [v EXCEPT !.message = message, !.count = count]
  /\ \A k \in Messages :
       /\ count[k] = IF k = m /\ at > v.count[m] THEN at ELSE v.count[k]
       /\ message[k].by = v.message[k].by /\ message[k].text = v.message[k].text
       /\ message[k].recalled = v.message[k].recalled
       /\ message[k].burned = v.message[k].burned
       /\ message[k].count = IF k = m /\ at > v.count[m] /\ v.message[m].by # Nobody THEN at
                             ELSE v.message[k].count

LEMMA CountShape ==
    ASSUME NEW v \in Views, NEW m \in Messages, NEW at \in Nat
    PROVE  \E message \in [Messages -> Shown], count \in [Messages -> Nat] :
             CountTaken(v, m, at, message, count)
<1>1. v.count \in [Messages -> Nat] /\ v.message \in [Messages -> Shown]
    BY DEF Views
<1>2. CASE at <= v.count[m]
  <2>1. Count(v, m, at) = [v EXCEPT !.message = v.message, !.count = v.count]
      BY <1>2 DEF Count, Views
  <2>2. ~(at > v.count[m])
      BY <1>1, <1>2
  <2>3. PICK message \in [Messages -> Shown], count \in [Messages -> Nat] :
          message = v.message /\ count = v.count
      BY <1>1
  <2>4. CountTaken(v, m, at, message, count)
      BY <2>1, <2>2, <2>3 DEF CountTaken
  <2> QED
      BY <2>4
<1>3. CASE ~(at <= v.count[m])
  <2>1. PICK item \in Shown : item = v.message[m]
      BY <1>1
  <2>2. PICK shown \in Shown : shown = IF item.by = Nobody THEN item ELSE [item EXCEPT !.count = at]
      BY DEF Shown
  <2>3. PICK message, count : /\ message = [v.message EXCEPT ![m] = shown]
                              /\ count = [v.count EXCEPT ![m] = at]
      OBVIOUS
  <2>4. Count(v, m, at) = [v EXCEPT !.message = message, !.count = count]
    <3>1. Count(v, m, at) =
            [v EXCEPT !.count[m] = at,
                      !.message[m].count = IF v.message[m].by = Nobody THEN @ ELSE at]
        BY <1>3 DEF Count
    <3>2. [item EXCEPT !.count = IF item.by = Nobody THEN @ ELSE at] = shown
        BY <2>2 DEF Shown
    <3> QED
        BY <2>1, <2>3, <3>1, <3>2 DEF Views
  <2>5. message \in [Messages -> Shown] /\ count \in [Messages -> Nat]
      BY <1>1, <2>3
  <2>6. at > v.count[m]
      BY <1>1, <1>3
  <2>7. /\ shown.by = item.by /\ shown.text = item.text
        /\ shown.recalled = item.recalled /\ shown.burned = item.burned
        /\ shown.count = IF item.by # Nobody THEN at ELSE item.count
      BY <2>2 DEF Shown
  <2>8. ASSUME NEW k \in Messages
        PROVE  /\ count[k] = IF k = m /\ at > v.count[m] THEN at ELSE v.count[k]
               /\ message[k] = IF k = m THEN shown ELSE v.message[k]
      BY <1>1, <2>3, <2>6
  <2>9. ASSUME NEW k \in Messages
        PROVE  /\ count[k] = IF k = m /\ at > v.count[m] THEN at ELSE v.count[k]
               /\ message[k].by = v.message[k].by /\ message[k].text = v.message[k].text
               /\ message[k].recalled = v.message[k].recalled
               /\ message[k].burned = v.message[k].burned
               /\ message[k].count = IF k = m /\ at > v.count[m] /\ v.message[m].by # Nobody THEN at
                                     ELSE v.message[k].count
      BY <2>1, <2>6, <2>7, <2>8
  <2> QED
      BY <2>4, <2>5, <2>9 DEF CountTaken
<1> QED
    BY <1>2, <1>3

EndTaken(v, s, message, ended) ==
  /\ Updated(v, s) = [v EXCEPT !.message = message, !.ended = ended]
  /\ \A k \in Messages :
       /\ message[k] = IF k = s.of /\ v.message[s.of].by # Nobody THEN Protected(v.message[s.of], s.kind)
                       ELSE v.message[k]
       /\ ended[k] = IF k = s.of /\ v.message[s.of].by = Nobody THEN Ended(v.ended[s.of], s.kind)
                     ELSE v.ended[k]

LEMMA EndShape ==
    ASSUME NEW v \in Views, NEW m \in Messages, NEW s, s.kind \in Ends, s.of = m
    PROVE  \E message \in [Messages -> Shown], ended \in [Messages -> {"none"} \cup Ends] :
             EndTaken(v, s, message, ended)
<1>1. v.ended \in [Messages -> {"none"} \cup Ends] /\ v.message \in [Messages -> Shown]
    BY DEF Views
<1>2. PICK shown \in Shown, end \in Ends :
         shown = Protected(v.message[m], s.kind) /\ end = Ended(v.ended[m], s.kind)
    BY <1>1, ProtectedShows, EndedShape
<1>3. Updated(v, s) = IF v.message[m].by = Nobody
                      THEN [v EXCEPT !.ended[m] = Ended(@, s.kind)]
                      ELSE [v EXCEPT !.message[m] = Protected(@, s.kind)]
    BY DEF Updated, Ends
<1>4. CASE v.message[m].by = Nobody
  <2>1. PICK ended : ended = [v.ended EXCEPT ![m] = end]
      OBVIOUS
  <2>2. ended \in [Messages -> {"none"} \cup Ends]
      BY <1>1, <2>1
  <2>3. PICK message \in [Messages -> Shown] : message = v.message
      BY <1>1
  <2>4. Updated(v, s) = [v EXCEPT !.message = message, !.ended = ended]
      BY <1>2, <1>3, <1>4, <2>1, <2>3 DEF Views
  <2>5. \A k \in Messages :
          /\ message[k] = IF k = m /\ v.message[m].by # Nobody THEN Protected(v.message[m], s.kind)
                          ELSE v.message[k]
          /\ ended[k] = IF k = m /\ v.message[m].by = Nobody THEN Ended(v.ended[m], s.kind)
                        ELSE v.ended[k]
      BY <1>1, <1>2, <1>4, <2>1, <2>3
  <2>6. EndTaken(v, s, message, ended)
      BY <2>4, <2>5 DEF EndTaken
  <2> QED
      BY <2>2, <2>3, <2>6
<1>5. CASE v.message[m].by # Nobody
  <2>1. PICK message : message = [v.message EXCEPT ![m] = shown]
      OBVIOUS
  <2>2. message \in [Messages -> Shown]
      BY <1>1, <2>1
  <2>3. Updated(v, s) = [v EXCEPT !.message = message, !.ended = v.ended]
      BY <1>2, <1>3, <1>5, <2>1 DEF Views
  <2>4. PICK ended \in [Messages -> {"none"} \cup Ends] : ended = v.ended
      BY <1>1
  <2>5. EndTaken(v, s, message, ended)
      BY <1>1, <1>2, <1>5, <2>1, <2>3, <2>4 DEF EndTaken
  <2> QED
      BY <2>2, <2>5, Zenon
<1> QED
    BY <1>4, <1>5

DeliveryTaken(v, s, delivery) ==
  /\ Updated(v, s) = [v EXCEPT !.delivery = delivery]
  /\ \A k \in Messages : delivery[k] = IF k = s.of THEN Later(v.delivery[k], s.data) ELSE v.delivery[k]

ReadTaken(v, s, read) ==
  /\ Updated(v, s) = [v EXCEPT !.read = read]
  /\ \A u \in People : read[u] = IF u = s.by THEN Later(v.read[u], s.data) ELSE v.read[u]

LEMMA NewestShape ==
    ASSUME NEW v \in Views, NEW s
    PROVE  /\ s.kind = "delivery" /\ s.of \in Messages /\ s.data \in Nat =>
                \E delivery \in [Messages -> Nat] : DeliveryTaken(v, s, delivery)
           /\ s.kind = "receipt" /\ s.by \in People /\ s.data \in Nat =>
                \E read \in [People -> Nat] : ReadTaken(v, s, read)
           /\ s.kind = "conversation" => Updated(v, s) = [v EXCEPT !.conversation = s.data]
           /\ s.kind = "readCount" => Updated(v, s) = Count(v, s.of, s.data)
<1>1. ASSUME s.kind = "delivery", s.of \in Messages, s.data \in Nat
      PROVE  \E delivery \in [Messages -> Nat] : DeliveryTaken(v, s, delivery)
  <2>1. Updated(v, s) = [v EXCEPT !.delivery[s.of] = Later(@, s.data)]
      BY <1>1 DEF Updated, Ends
  <2>2. PICK delivery : delivery = [v.delivery EXCEPT ![s.of] = Later(@, s.data)]
      OBVIOUS
  <2>3. delivery \in [Messages -> Nat]
      BY <1>1, <2>2 DEF Views, Later
  <2>4. Updated(v, s) = [v EXCEPT !.delivery = delivery]
      BY <2>1, <2>2 DEF Views
  <2>5. \A k \in Messages : delivery[k] = IF k = s.of THEN Later(v.delivery[k], s.data) ELSE v.delivery[k]
      BY <2>2 DEF Views
  <2> QED
      BY <2>3, <2>4, <2>5 DEF DeliveryTaken
<1>2. ASSUME s.kind = "receipt", s.by \in People, s.data \in Nat
      PROVE  \E read \in [People -> Nat] : ReadTaken(v, s, read)
  <2>1. Updated(v, s) = [v EXCEPT !.read[s.by] = Later(@, s.data)]
      BY <1>2 DEF Updated, Ends
  <2>2. PICK read : read = [v.read EXCEPT ![s.by] = Later(@, s.data)]
      OBVIOUS
  <2>3. read \in [People -> Nat]
      BY <1>2, <2>2 DEF Views, Later
  <2>4. Updated(v, s) = [v EXCEPT !.read = read]
      BY <2>1, <2>2 DEF Views
  <2>5. \A u \in People : read[u] = IF u = s.by THEN Later(v.read[u], s.data) ELSE v.read[u]
      BY <2>2 DEF Views
  <2> QED
      BY <2>3, <2>4, <2>5 DEF ReadTaken
<1>3. s.kind = "conversation" => Updated(v, s) = [v EXCEPT !.conversation = s.data]
    BY DEF Updated, Ends
<1>4. s.kind = "readCount" => Updated(v, s) = Count(v, s.of, s.data)
    BY DEF Updated, Ends
<1> QED
    BY <1>1, <1>2, <1>3, <1>4

HistoryTaken(v, S, page, w) ==
  /\ WithHistory(v, page) = Pushed(w, page.messages)
  /\ \A k \in Messages :
       /\ w.count[k] = IF k \in S THEN Later(v.count[k], page.messages[k].count) ELSE v.count[k]
       /\ w.delivery[k] = IF k \in S THEN Later(v.delivery[k], page.deliveries[k]) ELSE v.delivery[k]
  /\ w.message = v.message /\ w.ended = v.ended /\ w.read = v.read
  /\ w.conversation = v.conversation /\ w.total = v.total
  /\ w.cursor = page.cursor /\ w.more = page.more
  /\ w.connected = v.connected /\ w.loading = v.loading /\ w.epoch = v.epoch

LEMMA HistoryShape ==
    ASSUME NEW v \in Views, NEW S \in SUBSET Messages, NEW page \in Pages(S)
    PROVE  /\ \E w \in Views : HistoryTaken(v, S, page, w)
           /\ IsQueue(page.messages)
<1>1. /\ page.messages \in [S -> Shown] /\ page.deliveries \in [S -> Nat]
      /\ page.cursor \in Nat /\ page.more \in BOOLEAN
      /\ v.count \in [Messages -> Nat] /\ v.delivery \in [Messages -> Nat]
    BY DEF Pages, Views
<1>2. PICK own : own = [m \in S |-> page.messages[m].count]
    OBVIOUS
<1>3. \A m \in S : own[m] = page.messages[m].count /\ own[m] \in Nat
    BY <1>1, <1>2 DEF Shown
<1>4. PICK count, delivery :
        /\ count = [m \in Messages |-> IF m \in S THEN Later(v.count[m], own[m]) ELSE v.count[m]]
        /\ delivery = [m \in Messages |-> IF m \in S THEN Later(v.delivery[m], page.deliveries[m])
                                         ELSE v.delivery[m]]
    OBVIOUS
<1>5. count \in [Messages -> Nat] /\ delivery \in [Messages -> Nat]
    BY <1>1, <1>3, <1>4 DEF Later
<1>6. PICK w : w = [v EXCEPT !.count = count, !.delivery = delivery, !.cursor = page.cursor,
                             !.more = page.more]
    OBVIOUS
<1>7. DOMAIN page.messages = S
    BY <1>1
<1>8. WithHistory(v, page) = Pushed(w, page.messages)
    BY <1>2, <1>4, <1>6, <1>7 DEF WithHistory
<1>9. /\ w \in Views /\ w.count = count /\ w.delivery = delivery
      /\ w.message = v.message /\ w.ended = v.ended /\ w.read = v.read
      /\ w.conversation = v.conversation /\ w.total = v.total
      /\ w.cursor = page.cursor /\ w.more = page.more
      /\ w.connected = v.connected /\ w.loading = v.loading /\ w.epoch = v.epoch
    BY <1>1, <1>5, <1>6 DEF Views
<1>10. \A k \in Messages :
         /\ w.count[k] = IF k \in S THEN Later(v.count[k], page.messages[k].count) ELSE v.count[k]
         /\ w.delivery[k] = IF k \in S THEN Later(v.delivery[k], page.deliveries[k]) ELSE v.delivery[k]
    BY <1>3, <1>4, <1>9
<1>11. IsQueue(page.messages)
    BY <1>1, <1>7 DEF IsQueue
<1>12. HistoryTaken(v, S, page, w)
    BY <1>8, <1>9, <1>10 DEF HistoryTaken
<1> QED
    BY <1>9, <1>11, <1>12

InitialTaken(v, s, S, w) ==
  /\ \A k \in Messages :
       /\ w.message[k] = IF k \in S THEN s.page.messages[k] ELSE NoItem
       /\ w.ended[k] = "none"
       /\ w.count[k] = w.message[k].count
       /\ w.delivery[k] = IF k \in S THEN s.page.deliveries[k] ELSE 0
  /\ w.read = s.read /\ w.conversation = s.conversation /\ w.total = s.total
  /\ w.cursor = s.page.cursor /\ w.more = s.page.more
  /\ w.connected = v.connected /\ w.loading = FALSE /\ w.epoch = v.epoch + 1

LEMMA InitialShape ==
    ASSUME NEW v \in Views, NEW S \in SUBSET Messages, NEW s, s.page \in Pages(S),
           s.read \in [People -> Nat], s.conversation \in Nat, s.total \in Int
    PROVE  Initial(v, s) \in Views /\ InitialTaken(v, s, S, Initial(v, s))
<1>1. /\ s.page.messages \in [S -> Shown] /\ s.page.deliveries \in [S -> Nat]
      /\ s.page.cursor \in Nat /\ s.page.more \in BOOLEAN
      /\ DOMAIN s.page.messages = S /\ DOMAIN s.page.deliveries = S
    BY DEF Pages
<1>2. PICK message, count, delivery :
        /\ message = [m \in Messages |-> IF m \in S THEN s.page.messages[m] ELSE NoItem]
        /\ count = [m \in Messages |-> message[m].count]
        /\ delivery = [m \in Messages |-> IF m \in S THEN s.page.deliveries[m] ELSE 0]
    OBVIOUS
<1>3. NoItem \in Shown
    BY DEF NoItem, Shown
<1>4. message \in [Messages -> Shown] /\ delivery \in [Messages -> Nat]
    BY <1>1, <1>2, <1>3
<1>5. count \in [Messages -> Nat]
    BY <1>2, <1>4 DEF Shown
<1>6. PICK connected \in BOOLEAN, epoch \in Nat, ended \in [Messages -> {"none"} \cup Ends] :
        /\ connected = v.connected /\ epoch = v.epoch + 1
        /\ ended = [m \in Messages |-> "none"]
  <2>1. v.connected \in BOOLEAN /\ v.epoch + 1 \in Nat
      BY DEF Views
  <2>2. [m \in Messages |-> "none"] \in [Messages -> {"none"} \cup Ends]
      OBVIOUS
  <2> QED
      BY <2>1, <2>2
<1>7. PICK w : w = [EmptyView EXCEPT !.message = message, !.count = count, !.delivery = delivery,
                      !.read = s.read, !.conversation = s.conversation, !.total = s.total,
                      !.cursor = s.page.cursor, !.more = s.page.more,
                      !.connected = connected, !.epoch = epoch]
    OBVIOUS
<1>8. Initial(v, s) = w
  <2>1. [m \in Messages |-> IF m \in DOMAIN s.page.messages THEN s.page.messages[m] ELSE NoItem] = message
      BY <1>1, <1>2
  <2>2. [m \in Messages |-> IF m \in DOMAIN s.page.deliveries THEN s.page.deliveries[m] ELSE 0] = delivery
      BY <1>1, <1>2
  <2>3. Initial(v, s) =
          [EmptyView EXCEPT !.message = message, !.count = [m \in Messages |-> message[m].count],
             !.delivery = delivery, !.read = s.read, !.conversation = s.conversation, !.total = s.total,
             !.cursor = s.page.cursor, !.more = s.page.more,
             !.connected = v.connected, !.epoch = v.epoch + 1]
      BY <2>1, <2>2, Zenon DEF Initial
  <2> QED
      BY <1>2, <1>6, <1>7, <2>3
<1>9. w = [message |-> message, ended |-> ended, count |-> count, delivery |-> delivery,
           read |-> s.read, conversation |-> s.conversation, total |-> s.total,
           cursor |-> s.page.cursor, more |-> s.page.more,
           connected |-> connected, loading |-> FALSE, epoch |-> epoch]
    BY <1>6, <1>7 DEF EmptyView
<1>10. w \in Views
    BY <1>1, <1>4, <1>5, <1>6, <1>9 DEF Views
<1>11. InitialTaken(v, s, S, w)
    BY <1>2, <1>6, <1>9 DEF InitialTaken
<1> QED
    BY <1>8, <1>10, <1>11

-----------------------------------------------------------------------------
(* What the core tells *)

LEMMA LeastExists ==
    ASSUME NEW T \in SUBSET Nat, T # {}
    PROVE  Min(T) \in T /\ \A n \in T : Min(T) <= n
<1> DEFINE R == OpToRel(<, Nat)
<1>1. IsWellFoundedOn(R, Nat)
    BY NatLessThanWellFounded
<1>2. PICK x \in T : \A y \in T : ~(<<y, x>> \in R)
  <2> HIDE DEF R
  <2> QED
      BY <1>1, WFMin
<1>3. \A y \in T : ~(y < x)
    BY <1>2 DEF OpToRel
<1>4. \E n \in T : \A y \in T : n =< y
    BY <1>3
<1> QED
    BY <1>4, Zenon DEF Min

LEMMA GreatestExists ==
    ASSUME NEW T \in SUBSET Messages, T # {}
    PROVE  \E n \in T : \A k \in T : k <= n
<1>1. PICK U \in SUBSET Nat : U = {MaxSeq - n : n \in T}
  <2>1. \A n \in T : MaxSeq - n \in Nat
      BY ProjectionAssumption DEF Messages
  <2>2. {MaxSeq - n : n \in T} \in SUBSET Nat
      BY <2>1
  <2> QED
      BY <2>2
<1>2. U # {}
    BY <1>1
<1>3. PICK d \in U : \A e \in U : d <= e
    BY <1>2, LeastExists
<1>4. PICK n \in T : d = MaxSeq - n
    BY <1>1, <1>3
<1>5. \A k \in T : MaxSeq - n <= MaxSeq - k
    BY <1>1, <1>3, <1>4
<1> QED
    BY <1>5, ProjectionAssumption DEF Messages

LEMMA ItemShape ==
    ASSUME NEW o \in Objects, NEW m \in Messages
    PROVE  /\ Item(o, m) \in Shown
           /\ Item(o, m).by = o.message[m].by /\ Item(o, m).text = o.message[m].text
           /\ Item(o, m).recalled = o.message[m].recalled
           /\ Item(o, m).burned = o.message[m].burned
           /\ Item(o, m).count = o.count[m]
BY DEF Item, Objects, Items, Shown

\* A page has the latest messages before the boundary, down to its cursor, and
\* promises more if there are any.
LEMMA PageShape ==
    ASSUME NEW o \in Objects, NEW b \in Nat
    PROVE  \E S \in SUBSET Held(o) :
             /\ PageBefore(o, b) \in Pages(S)
             /\ \A m \in S : /\ PageBefore(o, b).messages[m] = Item(o, m)
                             /\ PageBefore(o, b).deliveries[m] = o.delivery[m]
             /\ \A m \in Held(o) :
                  m < b /\ (m >= PageBefore(o, b).cursor \/ ~PageBefore(o, b).more) => m \in S
<1>1. PICK older, page :
        /\ older = {m \in Held(o) : m < b}
        /\ page = {m \in older : Cardinality({n \in older : n > m}) < Page}
    OBVIOUS
<1>2. Held(o) \subseteq Messages /\ Messages \subseteq Nat /\ older \subseteq Messages /\ page \subseteq older
    BY <1>1 DEF Held, Messages
<1>3. IsFiniteSet(older) /\ IsFiniteSet(Messages)
  <2>1. IsFiniteSet(Messages)
      BY ProjectionAssumption, FS_Interval DEF Messages
  <2> QED
      BY <1>2, <2>1, FS_Subset
<1>4. \A m \in older : Cardinality({n \in older : n > m}) \in Nat
  <2>1. \A m \in older : IsFiniteSet({n \in older : n > m})
      BY <1>3, FS_Subset
  <2> QED
      BY <2>1, FS_CardinalityType
<1>5. ASSUME NEW m \in older, NEW k \in page, m >= k
      PROVE  m \in page
  <2>1. PICK M, K : M = {n \in older : n > m} /\ K = {n \in older : n > k}
      OBVIOUS
  <2>2. M \subseteq K
    <3>1. m \in Nat /\ k \in Nat /\ older \subseteq Nat
        BY <1>2
    <3>2. \A n \in Nat : n > m => n > k
        BY <1>5, <3>1
    <3> QED
        BY <2>1, <3>1, <3>2
  <2>3. IsFiniteSet(K)
      BY <1>3, <2>1, FS_Subset
  <2>4. Cardinality(M) <= Cardinality(K)
      BY <2>2, <2>3, FS_Subset
  <2>5. Cardinality(K) < Page /\ Cardinality(K) \in Nat /\ Cardinality(M) \in Nat
      BY <1>1, <1>2, <1>4, <2>1
  <2>6. Cardinality(M) < Page
      BY <2>4, <2>5, ProjectionAssumption
  <2> QED
      BY <1>1, <2>1, <2>6
<1>6. older # {} => page # {}
  <2> SUFFICES ASSUME older # {} PROVE page # {}
      OBVIOUS
  <2>1. PICK g \in older : \A k \in older : k <= g
      BY <1>2, GreatestExists
  <2>2. \A n \in older : ~(n > g)
    <3>1. g \in Nat /\ older \subseteq Nat
        BY <1>2
    <3> QED
        BY <2>1, <3>1
  <2>3. {n \in older : n > g} = {}
      BY <2>2
  <2>4. Cardinality({n \in older : n > g}) = 0
      BY <2>3, FS_EmptySet, Zenon
  <2>5. Cardinality({n \in older : n > g}) < Page
      BY <2>4, ProjectionAssumption
  <2>6. g \in page
      BY <1>1, <2>1, <2>5
  <2> QED
      BY <2>6
<1>7. PICK cursor, more : cursor = (IF page = {} THEN 0 ELSE Min(page)) /\ more = (older # page)
    OBVIOUS
<1>8. /\ cursor \in Nat /\ more \in BOOLEAN
      /\ page # {} => cursor \in page
    BY <1>2, <1>7, LeastExists
<1>9. ASSUME NEW m \in Held(o), m < b, m >= cursor \/ ~more
      PROVE  m \in page
  <2>1. m \in older
      BY <1>1, <1>9
  <2>2. page # {}
      BY <1>6, <2>1
  <2>3. CASE m >= cursor
      BY <1>5, <1>8, <2>1, <2>2, <2>3
  <2>4. CASE ~more
      BY <1>7, <2>1, <2>4
  <2> QED
      BY <1>9, <2>3, <2>4
<1>10. PICK messages, deliveries : /\ messages = [m \in page |-> Item(o, m)]
                                   /\ deliveries = [m \in page |-> o.delivery[m]]
    OBVIOUS
<1>11. PageBefore(o, b) = [messages |-> messages, deliveries |-> deliveries,
                           cursor |-> cursor, more |-> more]
    BY <1>1, <1>7, <1>10 DEF PageBefore
<1>12. messages \in [page -> Shown] /\ deliveries \in [page -> Nat]
  <2>1. \A m \in page : Item(o, m) \in Shown /\ o.delivery[m] \in Nat
      BY <1>2, ItemShape DEF Objects
  <2> QED
      BY <1>10, <2>1
<1>13. page \in SUBSET Held(o) /\ PageBefore(o, b) \in Pages(page)
    BY <1>1, <1>2, <1>8, <1>11, <1>12 DEF Pages
<1>14. /\ PageBefore(o, b).cursor = cursor /\ PageBefore(o, b).more = more
       /\ PageBefore(o, b).messages = messages /\ PageBefore(o, b).deliveries = deliveries
    BY <1>11
<1>15. \A m \in page : /\ PageBefore(o, b).messages[m] = Item(o, m)
                       /\ PageBefore(o, b).deliveries[m] = o.delivery[m]
    BY <1>10, <1>14
<1>16. \A m \in Held(o) :
         m < b /\ (m >= PageBefore(o, b).cursor \/ ~PageBefore(o, b).more) => m \in page
    BY <1>9, <1>14
<1> QED
    BY <1>13, <1>15, <1>16

\* The signal of an event.
LEMMA ToldShape ==
    ASSUME NEW o \in Objects, NEW e \in Event, e.of \in Messages \/ e.kind \in {"receipt", "conversation"},
           e.kind = "readCount" => o.count[e.of] # 0,
           NEW s, s = Told(o, e)
    PROVE  /\ s \in Signals /\ s.kind = e.kind
           /\ e.kind = "message" => s \in MessageSignals(e.of) /\ s.data = Item(o, e.of)
           /\ e.kind \in Ends => s \in EndSignals(e.of, {e.kind})
           /\ e.kind = "readCount" => s \in CountSignals(e.of, o.count[e.of])
           /\ e.kind = "delivery" => s \in DeliverySignals(e.of, o.delivery[e.of])
           /\ e.kind = "receipt" => s \in ReadSignals(e.by, o.read[e.by])
           /\ e.kind = "conversation" => s \in ConversationSignals(o.conversation)
<1>0. /\ e.of \in 0 .. MaxSeq /\ e.by \in People
      /\ o.read \in [People -> Nat] /\ o.conversation \in Nat
      /\ o.count \in [Messages -> Nat] /\ o.delivery \in [Messages -> Nat]
    BY DEF Event, Objects
<1>1. CASE e.kind = "message"
  <2>1. Item(o, e.of) \in Shown
      BY <1>1, ItemShape
  <2>2. s = [kind |-> e.kind, of |-> e.of, by |-> e.by, data |-> Item(o, e.of)]
      BY <1>1 DEF Told, Ends
  <2> QED
      BY <1>0, <1>1, <2>1, <2>2 DEF Signals, MessageSignals, Ends
<1>2. CASE e.kind \in Ends
  <2>1. s = [kind |-> e.kind, of |-> e.of, by |-> e.by, data |-> 0]
      BY <1>2 DEF Told, Ends
  <2> QED
      BY <1>0, <1>2, <2>1 DEF Signals, EndSignals, Ends
<1>3. CASE e.kind = "readCount"
  <2>1. s = [kind |-> e.kind, of |-> e.of, by |-> e.by, data |-> o.count[e.of]]
      BY <1>3 DEF Told, Ends
  <2>2. o.count[e.of] \in Nat \ {0}
      BY <1>0, <1>3
  <2> QED
      BY <1>0, <1>3, <2>1, <2>2 DEF Signals, CountSignals, Ends
<1>4. CASE e.kind = "delivery"
  <2>1. s = [kind |-> e.kind, of |-> e.of, by |-> e.by, data |-> o.delivery[e.of]]
      BY <1>4 DEF Told, Ends
  <2>2. o.delivery[e.of] \in Nat
      BY <1>0, <1>4
  <2> QED
      BY <1>0, <1>4, <2>1, <2>2 DEF Signals, DeliverySignals, Ends
<1>5. CASE e.kind = "receipt"
  <2>1. s = [kind |-> e.kind, of |-> e.of, by |-> e.by, data |-> o.read[e.by]]
      BY <1>5 DEF Told, Ends
  <2>2. o.read[e.by] \in Nat
      BY <1>0
  <2> QED
      BY <1>0, <1>5, <2>1, <2>2 DEF Signals, ReadSignals, Ends
<1>6. CASE e.kind = "conversation"
  <2>1. s = [kind |-> e.kind, of |-> e.of, by |-> e.by, data |-> o.conversation]
      BY <1>6 DEF Told, Ends
  <2> QED
      BY <1>0, <1>6, <2>1 DEF Signals, ConversationSignals, Ends
<1> QED
    BY <1>1, <1>2, <1>3, <1>4, <1>5, <1>6 DEF Event

-----------------------------------------------------------------------------
(* The core's steps: what changes in the store is told *)

Has(t, signals) == \E k \in DOMAIN t : t[k] \in signals

Tells(o, o2, t, before, before2, total, total2) ==
  /\ o \in Objects /\ o2 \in Objects
  /\ \A m \in Messages :
       /\ o.message[m].by # Nobody =>
            /\ o2.message[m].by = o.message[m].by
            /\ o.message[m].recalled => o2.message[m].recalled
            /\ o.message[m].burned => o2.message[m].burned
            /\ o2.message[m].recalled => o.message[m].recalled \/ Has(t, EndSignals(m, Ends))
            /\ o2.message[m].burned => o.message[m].burned \/ Has(t, EndSignals(m, {"burn"}))
       /\ o.message[m].by = Nobody /\ o2.message[m].by # Nobody => Has(t, MessageSignals(m))
       /\ EndIsSound(o.ended[m], m, o2)
       /\ o.count[m] <= o2.count[m]
       /\ \/ o2.count[m] = o.count[m]
          \/ o.count[m] = 0 /\ o.message[m].by = Nobody
          \/ Has(t, CountSignals(m, o2.count[m]))
       /\ o.delivery[m] <= o2.delivery[m]
       /\ o2.delivery[m] = o.delivery[m] \/ Has(t, DeliverySignals(m, o2.delivery[m]))
  /\ \A u \in People :
       /\ o.read[u] <= o2.read[u]
       /\ o2.read[u] = o.read[u] \/ Has(t, ReadSignals(u, o2.read[u]))
  /\ o2.conversation = o.conversation \/ Has(t, ConversationSignals(o2.conversation))
  /\ total # Unknown =>
       total2 # Unknown /\ (total2 = total \/ Has(t, ProgressSignals(total2)))
  /\ before \subseteq before2

LEMMA ToldIsAhead ==
    ASSUME NEW ch \in Seq(Signals), NEW t \in Seq(Signals), NEW i \in Nat, i <= Len(ch),
           NEW signals, Ahead(ch, i, signals) \/ Has(t, signals)
    PROVE  Ahead(ch \o t, i, signals)
<1>1. CASE Ahead(ch, i, signals)
    BY <1>1, AheadGrows
<1>2. CASE Has(t, signals)
  <2>1. PICK k \in DOMAIN t : t[k] \in signals
      BY <1>2 DEF Has
  <2> QED
      BY <2>1, NewIsAhead
<1> QED
    BY <1>1, <1>2

LEMMA CountedLater ==
    ASSUME NEW ch \in Seq(Signals), NEW t \in Seq(Signals), NEW i \in Nat, i <= Len(ch),
           NEW o, NEW o2, NEW before, NEW before2, NEW total, NEW total2,
           Tells(o, o2, t, before, before2, total, total2),
           NEW m \in Messages, NEW n \in Nat, n # 0 \/ o.message[m].by # Nobody,
           Counted(n, m, ch, i, o)
    PROVE  Counted(n, m, ch \o t, i, o2)
<1>1. PICK old \in Nat, new \in Nat : old = o.count[m] /\ new = o2.count[m]
    BY DEF Tells, Objects
<1>2. /\ old <= new
      /\ new = old \/ (old = 0 /\ o.message[m].by = Nobody) \/ Has(t, CountSignals(m, new))
    BY <1>1 DEF Tells
<1>3. n <= old /\ (n = old \/ Ahead(ch, i, CountSignals(m, old)))
    BY <1>1 DEF Counted
<1>4. n <= new /\ (n = new \/ Ahead(ch \o t, i, CountSignals(m, new)))
  <2>1. CASE new = old
      BY <1>3, <2>1, ToldIsAhead
  <2>2. CASE old = 0 /\ o.message[m].by = Nobody
      BY <1>3, <2>2
  <2>3. CASE Has(t, CountSignals(m, new))
      BY <1>2, <1>3, <2>3, ToldIsAhead
  <2> QED
      BY <1>2, <2>1, <2>2, <2>3
<1> QED
    BY <1>1, <1>4 DEF Counted

LEMMA FaithfulLater ==
    ASSUME NEW ch \in Seq(Signals), NEW t \in Seq(Signals), NEW i \in Nat, i <= Len(ch),
           NEW o, NEW o2, NEW before, NEW before2, NEW total, NEW total2,
           Tells(o, o2, t, before, before2, total, total2),
           NEW m \in Messages, NEW x \in Shown,
           Faithful(x, m, ch, i, o)
    PROVE  Faithful(x, m, ch \o t, i, o2)
<1>1. x.count \in Nat
    BY DEF Shown
<1>2. o.message[m].by # Nobody
    BY DEF Faithful
<1>3. Counted(x.count, m, ch \o t, i, o2)
  <2>1. Counted(x.count, m, ch, i, o)
      BY DEF Faithful
  <2> QED
      BY <1>1, <1>2, <2>1, CountedLater
<1>4. /\ o2.message[m].by = o.message[m].by
      /\ o.message[m].recalled => o2.message[m].recalled
      /\ o.message[m].burned => o2.message[m].burned
      /\ o2.message[m].recalled => o.message[m].recalled \/ Has(t, EndSignals(m, Ends))
      /\ o2.message[m].burned => o.message[m].burned \/ Has(t, EndSignals(m, {"burn"}))
    BY <1>2 DEF Tells
<1>5. o2.message[m].recalled => x.recalled \/ Ahead(ch \o t, i, EndSignals(m, Ends))
  <2>1. o.message[m].recalled => x.recalled \/ Ahead(ch, i, EndSignals(m, Ends))
      BY DEF Faithful
  <2> QED
      BY <1>4, <2>1, ToldIsAhead
<1>6. o2.message[m].burned => x.burned \/ Ahead(ch \o t, i, EndSignals(m, {"burn"}))
  <2>1. o.message[m].burned => x.burned \/ Ahead(ch, i, EndSignals(m, {"burn"}))
      BY DEF Faithful
  <2> QED
      BY <1>4, <2>1, ToldIsAhead
<1> QED
    BY <1>3, <1>4, <1>5, <1>6 DEF Faithful

LEMMA OthersLater ==
    ASSUME NEW ch \in Seq(Signals), NEW t \in Seq(Signals), NEW i \in Nat, i <= Len(ch),
           NEW o, NEW o2, NEW before, NEW before2, NEW total, NEW total2,
           Tells(o, o2, t, before, before2, total, total2)
    PROVE  /\ \A m \in Messages, n \in Nat :
                n <= o.delivery[m] => n <= o2.delivery[m]
           /\ \A m \in Messages, n \in Nat :
                Delivered(n, m, ch, i, o, before) => Delivered(n, m, ch \o t, i, o2, before2)
           /\ \A u \in People, n \in Nat : n <= o.read[u] => n <= o2.read[u]
           /\ \A u \in People, n \in Nat : IsRead(n, u, ch, i, o) => IsRead(n, u, ch \o t, i, o2)
           /\ \A n : IsVersion(n, ch, i, o) => IsVersion(n, ch \o t, i, o2)
           /\ \A n : IsTotal(n, ch, i, total) => IsTotal(n, ch \o t, i, total2)
           /\ \A m \in Messages : \A end : EndIsSound(end, m, o) => EndIsSound(end, m, o2)
<1>1. ASSUME NEW m \in Messages, NEW n \in Nat
      PROVE  /\ n <= o.delivery[m] => n <= o2.delivery[m]
             /\ Delivered(n, m, ch, i, o, before) => Delivered(n, m, ch \o t, i, o2, before2)
  <2>1. PICK old \in Nat, new \in Nat : old = o.delivery[m] /\ new = o2.delivery[m]
      BY DEF Tells, Objects
  <2>2. old <= new /\ (new = old \/ Has(t, DeliverySignals(m, new))) /\ before \subseteq before2
      BY <2>1 DEF Tells
  <2>3. n = old \/ m \in before \/ Ahead(ch, i, DeliverySignals(m, old))
          => n = new \/ m \in before2 \/ Ahead(ch \o t, i, DeliverySignals(m, new))
      BY <2>2, ToldIsAhead
  <2> QED
      BY <2>1, <2>2, <2>3 DEF Delivered
<1>2. ASSUME NEW u \in People, NEW n \in Nat
      PROVE  /\ n <= o.read[u] => n <= o2.read[u]
             /\ IsRead(n, u, ch, i, o) => IsRead(n, u, ch \o t, i, o2)
  <2>1. PICK old \in Nat, new \in Nat : old = o.read[u] /\ new = o2.read[u]
      BY DEF Tells, Objects
  <2>2. old <= new /\ (new = old \/ Has(t, ReadSignals(u, new)))
      BY <2>1 DEF Tells
  <2>3. n = old \/ Ahead(ch, i, ReadSignals(u, old)) => n = new \/ Ahead(ch \o t, i, ReadSignals(u, new))
      BY <2>2, ToldIsAhead
  <2> QED
      BY <2>1, <2>2, <2>3 DEF IsRead
<1>3. ASSUME NEW n
      PROVE  /\ IsVersion(n, ch, i, o) => IsVersion(n, ch \o t, i, o2)
             /\ IsTotal(n, ch, i, total) => IsTotal(n, ch \o t, i, total2)
  <2>1. o2.conversation = o.conversation \/ Has(t, ConversationSignals(o2.conversation))
      BY DEF Tells
  <2>2. total # Unknown => total2 # Unknown /\ (total2 = total \/ Has(t, ProgressSignals(total2)))
      BY DEF Tells
  <2> QED
      BY <2>1, <2>2, ToldIsAhead DEF IsVersion, IsTotal
<1>4. ASSUME NEW m \in Messages, NEW end
      PROVE  EndIsSound(end, m, o) => EndIsSound(end, m, o2)
    BY DEF Tells, EndIsSound
<1> QED
    BY <1>1, <1>2, <1>3, <1>4

LEMMA SignalShape ==
    ASSUME NEW s \in Signals
    PROVE  /\ s.kind = "message" => s.of \in Messages /\ s.data \in Shown /\ s \in MessageSignals(s.of)
           /\ s.kind = "readCount" => s.of \in Messages /\ s.data \in Nat /\ s.data # 0
           /\ s.kind = "delivery" => s.of \in Messages /\ s.data \in Nat
           /\ s.kind = "receipt" => s.by \in People /\ s.data \in Nat
           /\ s.kind = "conversation" => s.data \in Nat
           /\ s.kind \in Ends => s.of \in Messages
           /\ s.kind = "progress" => s.total \in Int
           /\ s.kind \in {"initial", "page"} => s.page \in SomePages
           /\ s.kind = "initial" => s.read \in [People -> Nat] /\ s.conversation \in Nat /\ s.total \in Int
           /\ s.kind = "page" => s.epoch \in Nat /\ s.ok \in BOOLEAN
           /\ s.kind \in {"connected", "lost", "progress", "message", "readCount", "delivery", "receipt",
                          "conversation", "initial", "page"} \cup Ends
BY DEF Signals, MessageSignals, Ends

LEMMA PageFairLater ==
    ASSUME NEW ch \in Seq(Signals), NEW t \in Seq(Signals), NEW i \in Nat, i <= Len(ch),
           NEW o, NEW o2, NEW before, NEW before2, NEW total, NEW total2,
           Tells(o, o2, t, before, before2, total, total2),
           NEW page \in SomePages, PageFair(page, ch, i, o, before)
    PROVE  PageFair(page, ch \o t, i, o2, before2)
<1>1. PICK S \in SUBSET Messages : page \in Pages(S)
    BY DEF SomePages
<1>2. ASSUME NEW m \in DOMAIN page.messages
      PROVE  /\ Faithful(page.messages[m], m, ch \o t, i, o2)
             /\ page.deliveries[m] <= o2.delivery[m]
             /\ Delivered(page.deliveries[m], m, ch \o t, i, o2, before2)
  <2>1. m \in Messages /\ page.messages[m] \in Shown /\ page.deliveries[m] \in Nat
      BY <1>1 DEF Pages
  <2>2. /\ Faithful(page.messages[m], m, ch, i, o)
        /\ page.deliveries[m] <= o.delivery[m]
        /\ Delivered(page.deliveries[m], m, ch, i, o, before)
      BY DEF PageFair
  <2>3. Faithful(page.messages[m], m, ch \o t, i, o2)
      BY <2>1, <2>2, FaithfulLater
  <2> QED
      BY <2>1, <2>2, <2>3, OthersLater
<1> QED
    BY <1>2 DEF PageFair

\* What a message signal ahead completes stays complete: a new message is told.
LEMMA CompleteLater ==
    ASSUME NEW ch \in Seq(Signals), NEW t \in Seq(Signals), NEW i \in Nat, i <= Len(ch),
           NEW o, NEW o2, NEW before, NEW before2, NEW total, NEW total2,
           Tells(o, o2, t, before, before2, total, total2),
           NEW m \in Held(o2)
    PROVE  /\ m \in Held(o) \/ Ahead(ch \o t, i, MessageSignals(m))
           /\ Ahead(ch, i, MessageSignals(m)) => Ahead(ch \o t, i, MessageSignals(m))
<1>1. m \in Messages /\ o2.message[m].by # Nobody
    BY DEF Held
<1>2. o.message[m].by = Nobody => Has(t, MessageSignals(m))
    BY <1>1 DEF Tells
<1>3. Has(t, MessageSignals(m)) \/ Ahead(ch, i, MessageSignals(m)) => Ahead(ch \o t, i, MessageSignals(m))
    BY ToldIsAhead
<1> QED
    BY <1>1, <1>2, <1>3 DEF Held

LEMMA SignalFairLater ==
    ASSUME NEW ch \in Seq(Signals), NEW t \in Seq(Signals), NEW i \in Nat, i <= Len(ch),
           NEW o, NEW o2, NEW before, NEW before2, NEW total, NEW total2,
           Tells(o, o2, t, before, before2, total, total2),
           NEW s \in Signals, SignalFair(s, ch, i, o, before, total)
    PROVE  SignalFair(s, ch \o t, i, o2, before2, total2)
<1>1. CASE s.kind = "message"
  <2>1. s.of \in Messages /\ s.data \in Shown
      BY <1>1, SignalShape
  <2>2. Faithful(s.data, s.of, ch, i, o) /\ Delivered(0, s.of, ch, i, o, before)
      BY <1>1 DEF SignalFair
  <2>3. Faithful(s.data, s.of, ch \o t, i, o2)
      BY <2>1, <2>2, FaithfulLater
  <2>4. Delivered(0, s.of, ch \o t, i, o2, before2)
      BY <2>1, <2>2, OthersLater
  <2> QED
      BY <1>1, <2>3, <2>4 DEF SignalFair, Ends
<1>2. CASE s.kind = "readCount"
  <2>1. s.of \in Messages /\ s.data \in Nat /\ s.data # 0
      BY <1>2, SignalShape
  <2>2. Counted(s.data, s.of, ch, i, o)
      BY <1>2 DEF SignalFair
  <2>3. Counted(s.data, s.of, ch \o t, i, o2)
      BY <2>1, <2>2, CountedLater
  <2> QED
      BY <1>2, <2>3 DEF SignalFair, Ends
<1>3. CASE s.kind = "delivery"
  <2>1. s.of \in Messages /\ s.data \in Nat
      BY <1>3, SignalShape
  <2>2. s.data <= o2.delivery[s.of]
      BY <1>3, <2>1, OthersLater DEF SignalFair
  <2> QED
      BY <1>3, <2>2 DEF SignalFair, Ends
<1>4. CASE s.kind = "receipt"
  <2>1. s.by \in People /\ s.data \in Nat
      BY <1>4, SignalShape
  <2>2. s.data <= o2.read[s.by]
      BY <1>4, <2>1, OthersLater DEF SignalFair
  <2> QED
      BY <1>4, <2>2 DEF SignalFair, Ends
<1>5. CASE s.kind = "conversation"
  <2>1. IsVersion(s.data, ch \o t, i, o2)
      BY <1>5, OthersLater DEF SignalFair
  <2> QED
      BY <1>5, <2>1 DEF SignalFair, Ends
<1>6. CASE s.kind \in Ends
  <2>1. EndIsSound(s.kind, s.of, o2)
      BY <1>6, SignalShape, OthersLater DEF SignalFair
  <2> QED
      BY <1>6, <2>1 DEF SignalFair, Ends
<1>7. CASE s.kind = "progress"
  <2>1. IsTotal(s.total, ch \o t, i, total2)
      BY <1>7, OthersLater DEF SignalFair
  <2> QED
      BY <1>7, <2>1 DEF SignalFair, Ends
<1>8. CASE s.kind = "page"
  <2>1. s.page \in SomePages /\ PageFair(s.page, ch, i, o, before)
      BY <1>8, SignalShape DEF SignalFair
  <2>2. PageFair(s.page, ch \o t, i, o2, before2)
      BY <2>1, PageFairLater
  <2> QED
      BY <1>8, <2>2 DEF SignalFair, Ends
<1>9. CASE s.kind = "initial"
  <2>1. /\ s.page \in SomePages /\ s.read \in [People -> Nat]
        /\ PageFair(s.page, ch, i, o, before)
        /\ \A u \in People : IsRead(s.read[u], u, ch, i, o)
        /\ IsVersion(s.conversation, ch, i, o)
        /\ IsTotal(s.total, ch, i, total)
        /\ \A m \in Held(o) : m >= s.page.cursor \/ ~s.page.more =>
             m \in DOMAIN s.page.messages \/ Ahead(ch, i, MessageSignals(m))
      BY <1>9, SignalShape DEF SignalFair
  <2>2. PageFair(s.page, ch \o t, i, o2, before2)
      BY <2>1, PageFairLater
  <2>3. \A u \in People : IsRead(s.read[u], u, ch \o t, i, o2)
    <3>1. \A u \in People : s.read[u] \in Nat
        BY <2>1
    <3> QED
        BY <2>1, <3>1, OthersLater
  <2>4. IsVersion(s.conversation, ch \o t, i, o2) /\ IsTotal(s.total, ch \o t, i, total2)
      BY <2>1, OthersLater
  <2>5. ASSUME NEW m \in Held(o2), m >= s.page.cursor \/ ~s.page.more
        PROVE  m \in DOMAIN s.page.messages \/ Ahead(ch \o t, i, MessageSignals(m))
      BY <2>1, <2>5, CompleteLater
  <2> QED
      BY <1>9, <2>2, <2>3, <2>4, <2>5 DEF SignalFair, Ends
<1>10. CASE s.kind \in {"connected", "lost"}
    BY <1>10 DEF SignalFair, Ends
<1> QED
    BY <1>1, <1>2, <1>3, <1>4, <1>5, <1>6, <1>7, <1>8, <1>9, <1>10, SignalShape

LEMMA ChannelFairLater ==
    ASSUME NEW ch \in Seq(Signals), NEW t \in Seq(Signals),
           NEW o, NEW o2, NEW before, NEW before2, NEW total, NEW total2,
           Tells(o, o2, t, before, before2, total, total2),
           ChannelFair(ch, o, before, total),
           \A k \in DOMAIN t : SignalFair(t[k], ch \o t, Len(ch) + k, o2, before2, total2)
    PROVE  ChannelFair(ch \o t, o2, before2, total2)
<1>1. ASSUME NEW i \in DOMAIN (ch \o t)
      PROVE  SignalFair((ch \o t)[i], ch \o t, i, o2, before2, total2)
  <2>1. CASE i <= Len(ch)
    <3>1. i \in Nat /\ i \in DOMAIN ch /\ ch[i] \in Signals /\ (ch \o t)[i] = ch[i]
        BY <2>1
    <3>2. SignalFair(ch[i], ch, i, o, before, total)
        BY <3>1 DEF ChannelFair
    <3>3. SignalFair(ch[i], ch \o t, i, o2, before2, total2)
        BY <2>1, <3>1, <3>2, SignalFairLater
    <3> QED
        BY <3>1, <3>3
  <2>2. CASE i > Len(ch)
    <3>1. PICK k \in DOMAIN t : i = Len(ch) + k /\ (ch \o t)[i] = t[k]
      <4>1. i - Len(ch) \in DOMAIN t /\ i = Len(ch) + (i - Len(ch)) /\ (ch \o t)[i] = t[i - Len(ch)]
          BY <2>2
      <4> QED
          BY <4>1
    <3> QED
        BY <3>1
  <2> QED
      BY <2>1, <2>2
<1> QED
    BY <1>1 DEF ChannelFair

LEMMA WindowFairLater ==
    ASSUME NEW v \in Views, NEW q, IsQueue(q), NEW ch \in Seq(Signals), NEW t \in Seq(Signals),
           NEW o, NEW o2, NEW before, NEW before2, NEW total, NEW total2,
           Tells(o, o2, t, before, before2, total, total2),
           WindowFair(v, q, ch, o, before, total)
    PROVE  WindowFair(v, q, ch \o t, o2, before2, total2)
<1>0. 0 \in Nat /\ 0 <= Len(ch)
    OBVIOUS
<1>1. ASSUME NEW m \in Messages
      PROVE  /\ IF v.message[m].by = Nobody THEN ~v.message[m].recalled /\ ~v.message[m].burned
                ELSE Faithful(v.message[m], m, ch \o t, 0, o2)
             /\ EndIsSound(v.ended[m], m, o2)
             /\ v.count[m] # 0 => /\ Counted(v.count[m], m, ch \o t, 0, o2)
                                  /\ v.message[m].by # Nobody => v.message[m].count = v.count[m]
             /\ v.delivery[m] <= o2.delivery[m]
             /\ v.message[m].by # Nobody \/ m \in DOMAIN q =>
                  Delivered(v.delivery[m], m, ch \o t, 0, o2, before2)
  <2>1. v.message[m] \in Shown /\ v.count[m] \in Nat /\ v.delivery[m] \in Nat
      BY DEF Views
  <2>2. /\ IF v.message[m].by = Nobody THEN ~v.message[m].recalled /\ ~v.message[m].burned
           ELSE Faithful(v.message[m], m, ch, 0, o)
        /\ EndIsSound(v.ended[m], m, o)
        /\ v.count[m] # 0 => /\ Counted(v.count[m], m, ch, 0, o)
                             /\ v.message[m].by # Nobody => v.message[m].count = v.count[m]
        /\ v.delivery[m] <= o.delivery[m]
        /\ v.message[m].by # Nobody \/ m \in DOMAIN q => Delivered(v.delivery[m], m, ch, 0, o, before)
      BY DEF WindowFair, ShownFair, WholeFair
  <2>3. v.message[m].by # Nobody => Faithful(v.message[m], m, ch \o t, 0, o2)
      BY <1>0, <2>1, <2>2, FaithfulLater
  <2>4. v.count[m] # 0 => Counted(v.count[m], m, ch \o t, 0, o2)
      BY <1>0, <2>1, <2>2, CountedLater
  <2>5. /\ EndIsSound(v.ended[m], m, o2)
        /\ v.delivery[m] <= o2.delivery[m]
        /\ v.message[m].by # Nobody \/ m \in DOMAIN q =>
             Delivered(v.delivery[m], m, ch \o t, 0, o2, before2)
      BY <1>0, <2>1, <2>2, OthersLater
  <2> QED
      BY <2>2, <2>3, <2>4, <2>5
<1>2. ASSUME NEW m \in DOMAIN q
      PROVE  Faithful(q[m], m, ch \o t, 0, o2)
  <2>1. m \in Messages /\ q[m] \in Shown
      BY DEF IsQueue
  <2>2. Faithful(q[m], m, ch, 0, o)
      BY DEF WindowFair, ShownFair, WholeFair
  <2> QED
      BY <1>0, <2>1, <2>2, FaithfulLater
<1>3. ASSUME v.epoch > 0
      PROVE  /\ \A u \in People : IsRead(v.read[u], u, ch \o t, 0, o2)
             /\ IsVersion(v.conversation, ch \o t, 0, o2)
             /\ IsTotal(v.total, ch \o t, 0, total2)
             /\ \A m \in Held(o2) : m >= v.cursor \/ ~v.more =>
                  m \in Held(v) \/ m \in DOMAIN q \/ Ahead(ch \o t, 0, MessageSignals(m))
  <2>1. /\ \A u \in People : IsRead(v.read[u], u, ch, 0, o)
        /\ IsVersion(v.conversation, ch, 0, o)
        /\ IsTotal(v.total, ch, 0, total)
        /\ \A m \in Held(o) : m >= v.cursor \/ ~v.more =>
             m \in Held(v) \/ m \in DOMAIN q \/ Ahead(ch, 0, MessageSignals(m))
      BY <1>3 DEF WindowFair, ShownFair, WholeFair
  <2>2. \A u \in People : v.read[u] \in Nat
      BY DEF Views
  <2>3. \A u \in People : IsRead(v.read[u], u, ch \o t, 0, o2)
      BY <1>0, <2>1, <2>2, OthersLater
  <2>4. IsVersion(v.conversation, ch \o t, 0, o2) /\ IsTotal(v.total, ch \o t, 0, total2)
      BY <1>0, <2>1, OthersLater
  <2>5. ASSUME NEW m \in Held(o2), m >= v.cursor \/ ~v.more
        PROVE  m \in Held(v) \/ m \in DOMAIN q \/ Ahead(ch \o t, 0, MessageSignals(m))
      BY <1>0, <2>1, <2>5, CompleteLater
  <2> QED
      BY <2>3, <2>4, <2>5
<1> QED
    BY <1>1, <1>2, <1>3 DEF WindowFair, ShownFair, WholeFair

LEMMA HistoryFairLater ==
    ASSUME NEW v \in Views, NEW qs \in Seq(Asks), NEW ch \in Seq(Signals), NEW t \in Seq(Signals),
           NEW o, NEW o2, NEW before, NEW before2, NEW total, NEW total2,
           Tells(o, o2, t, before, before2, total, total2),
           HistoryFair(v, ch, qs, o), \A k \in DOMAIN t : t[k].kind # "page"
    PROVE  HistoryFair(v, ch \o t, qs, o2)
<1>1. ASSUME NEW i \in DOMAIN (ch \o t), (ch \o t)[i].kind = "page"
      PROVE  i \in DOMAIN ch /\ (ch \o t)[i] = ch[i] /\ i \in Nat /\ i <= Len(ch)
  <2>1. CASE i <= Len(ch)
      BY <2>1
  <2>2. CASE i > Len(ch)
    <3>1. i - Len(ch) \in DOMAIN t /\ (ch \o t)[i] = t[i - Len(ch)]
        BY <2>2
    <3> QED
        BY <1>1, <3>1
  <2> QED
      BY <2>1, <2>2
<1>2. ASSUME NEW i \in DOMAIN (ch \o t)
      PROVE  /\ (ch \o t)[i].kind = "page" => (ch \o t)[i].epoch <= v.epoch
             /\ IsPage((ch \o t)[i], v.epoch) =>
                  /\ v.loading
                  /\ \A m \in Held(o2) :
                       m < v.cursor /\ (m >= (ch \o t)[i].page.cursor \/ ~(ch \o t)[i].page.more) =>
                         m \in DOMAIN (ch \o t)[i].page.messages \/ Ahead(ch \o t, i, MessageSignals(m))
  <2> SUFFICES ASSUME (ch \o t)[i].kind = "page"
               PROVE  /\ (ch \o t)[i].epoch <= v.epoch
                      /\ (ch \o t)[i].epoch = v.epoch =>
                           /\ v.loading
                           /\ \A m \in Held(o2) :
                                m < v.cursor /\ (m >= (ch \o t)[i].page.cursor \/ ~(ch \o t)[i].page.more) =>
                                  m \in DOMAIN (ch \o t)[i].page.messages
                                    \/ Ahead(ch \o t, i, MessageSignals(m))
      BY DEF IsPage
  <2>1. PICK s \in Signals : s = ch[i] /\ s = (ch \o t)[i] /\ s.kind = "page"
      BY <1>1
  <2>2. i \in DOMAIN ch /\ i \in Nat /\ i <= Len(ch)
      BY <1>1
  <2>3. /\ s.epoch <= v.epoch
        /\ s.epoch = v.epoch =>
             /\ v.loading
             /\ \A m \in Held(o) : m < v.cursor /\ (m >= s.page.cursor \/ ~s.page.more) =>
                  m \in DOMAIN s.page.messages \/ Ahead(ch, i, MessageSignals(m))
      BY <2>1, <2>2 DEF HistoryFair, IsPage
  <2>4. ASSUME s.epoch = v.epoch, NEW m \in Held(o2), m < v.cursor, m >= s.page.cursor \/ ~s.page.more
        PROVE  m \in DOMAIN s.page.messages \/ Ahead(ch \o t, i, MessageSignals(m))
      BY <2>2, <2>3, <2>4, CompleteLater
  <2> QED
      BY <2>1, <2>3, <2>4
<1>3. \A i, j \in DOMAIN (ch \o t) :
        IsPage((ch \o t)[i], v.epoch) /\ IsPage((ch \o t)[j], v.epoch) => i = j
  <2>1. \A i, j \in DOMAIN ch : IsPage(ch[i], v.epoch) /\ IsPage(ch[j], v.epoch) => i = j
      BY DEF HistoryFair
  <2>2. \A i \in DOMAIN (ch \o t) :
          IsPage((ch \o t)[i], v.epoch) => i \in DOMAIN ch /\ IsPage(ch[i], v.epoch)
      BY <1>1 DEF IsPage
  <2> QED
      BY <2>1, <2>2
<1>4. \A i \in DOMAIN (ch \o t), j \in DOMAIN qs : ~(IsPage((ch \o t)[i], v.epoch) /\ qs[j].epoch = v.epoch)
  <2>1. \A i \in DOMAIN ch, j \in DOMAIN qs : ~(IsPage(ch[i], v.epoch) /\ qs[j].epoch = v.epoch)
      BY DEF HistoryFair
  <2> QED
      BY <1>1, <2>1 DEF IsPage
<1>5. /\ \A j \in DOMAIN qs : /\ qs[j].epoch <= v.epoch
                              /\ qs[j].epoch = v.epoch => v.loading /\ qs[j].before = v.cursor
      /\ \A i, j \in DOMAIN qs : qs[i].epoch = v.epoch /\ qs[j].epoch = v.epoch => i = j
    BY DEF HistoryFair
<1> QED
    BY <1>2, <1>3, <1>4, <1>5 DEF HistoryFair

\* The answer takes the place of the request.
LEMMA AnswerIsFair ==
    ASSUME NEW v \in Views, NEW qs \in Seq(Asks), qs # <<>>, NEW ch \in Seq(Signals),
           NEW o \in Objects, HistoryFair(v, ch, qs, o),
           NEW s \in Signals, s.kind = "page", s.epoch = Head(qs).epoch,
           s.page = PageBefore(o, Head(qs).before)
    PROVE  HistoryFair(v, ch \o <<s>>, Tail(qs), o)
<1>1. PICK c : c = ch \o <<s>>
    OBVIOUS
<1>2. PICK n \in Nat : n = Len(ch) + 1
    OBVIOUS
<1>3. /\ DOMAIN c = DOMAIN ch \cup {n} /\ n \notin DOMAIN ch
      /\ c[n] = s /\ \A i \in DOMAIN ch : c[i] = ch[i]
    BY <1>1, <1>2
<1>4. \A j \in DOMAIN Tail(qs) : /\ j + 1 \in DOMAIN qs /\ Tail(qs)[j] = qs[j + 1] /\ j + 1 # 1
                                 /\ j \in Nat
    OBVIOUS
<1>5. 1 \in DOMAIN qs /\ Head(qs) = qs[1] /\ Head(qs) \in Asks
    OBVIOUS
<1>6. /\ \A j \in DOMAIN qs : /\ qs[j].epoch <= v.epoch
                              /\ qs[j].epoch = v.epoch => v.loading /\ qs[j].before = v.cursor
      /\ \A i, j \in DOMAIN qs : qs[i].epoch = v.epoch /\ qs[j].epoch = v.epoch => i = j
      /\ \A i \in DOMAIN ch, j \in DOMAIN qs : ~(IsPage(ch[i], v.epoch) /\ qs[j].epoch = v.epoch)
      /\ \A i, j \in DOMAIN ch : IsPage(ch[i], v.epoch) /\ IsPage(ch[j], v.epoch) => i = j
    BY DEF HistoryFair
<1>7. /\ \A j \in DOMAIN Tail(qs) : /\ Tail(qs)[j].epoch <= v.epoch
                                    /\ Tail(qs)[j].epoch = v.epoch =>
                                         v.loading /\ Tail(qs)[j].before = v.cursor
      /\ \A i, j \in DOMAIN Tail(qs) :
           Tail(qs)[i].epoch = v.epoch /\ Tail(qs)[j].epoch = v.epoch => i = j
  <2>1. \A j \in DOMAIN Tail(qs) : /\ Tail(qs)[j].epoch <= v.epoch
                                   /\ Tail(qs)[j].epoch = v.epoch =>
                                        v.loading /\ Tail(qs)[j].before = v.cursor
      BY <1>4, <1>6
  <2>2. ASSUME NEW i \in DOMAIN Tail(qs), NEW j \in DOMAIN Tail(qs),
               Tail(qs)[i].epoch = v.epoch, Tail(qs)[j].epoch = v.epoch
        PROVE  i = j
    <3>1. i + 1 = j + 1 /\ i \in Nat /\ j \in Nat
        BY <1>4, <1>6, <2>2
    <3> QED
        BY <3>1
  <2> QED
      BY <2>1, <2>2
<1>8. IsPage(s, v.epoch) => /\ \A j \in DOMAIN Tail(qs) : Tail(qs)[j].epoch # v.epoch
                            /\ \A i \in DOMAIN ch : ~IsPage(ch[i], v.epoch)
    BY <1>4, <1>5, <1>6 DEF IsPage
<1>9. ASSUME NEW i \in DOMAIN ch
      PROVE  /\ ch[i].kind = "page" => ch[i].epoch <= v.epoch
             /\ IsPage(ch[i], v.epoch) =>
                  /\ v.loading
                  /\ \A m \in Held(o) : m < v.cursor /\ (m >= ch[i].page.cursor \/ ~ch[i].page.more) =>
                       m \in DOMAIN ch[i].page.messages \/ Ahead(c, i, MessageSignals(m))
  <2>1. \A m : Ahead(ch, i, MessageSignals(m)) => Ahead(c, i, MessageSignals(m))
    <3>1. <<s>> \in Seq(Signals)
        OBVIOUS
    <3> QED
        BY <1>1, <3>1, AheadGrows
  <2> QED
      BY <2>1 DEF HistoryFair
<1>10. /\ s.epoch <= v.epoch
       /\ IsPage(s, v.epoch) =>
            /\ v.loading
            /\ \A m \in Held(o) : m < v.cursor /\ (m >= s.page.cursor \/ ~s.page.more) =>
                 m \in DOMAIN s.page.messages
  <2>1. s.epoch <= v.epoch /\ (s.epoch = v.epoch => v.loading /\ Head(qs).before = v.cursor)
      BY <1>5, <1>6
  <2>2. Head(qs).before \in Nat
      BY <1>5 DEF Asks
  <2>3. PICK S : /\ s.page \in Pages(S)
                 /\ \A m \in Held(o) : m < Head(qs).before /\ (m >= s.page.cursor \/ ~s.page.more) => m \in S
      BY <2>2, PageShape
  <2>4. DOMAIN s.page.messages = S
      BY <2>3 DEF Pages
  <2> QED
      BY <2>1, <2>3, <2>4 DEF IsPage
<1>11. \A i \in DOMAIN c :
         /\ c[i].kind = "page" => c[i].epoch <= v.epoch
         /\ IsPage(c[i], v.epoch) =>
              /\ v.loading
              /\ \A m \in Held(o) : m < v.cursor /\ (m >= c[i].page.cursor \/ ~c[i].page.more) =>
                   m \in DOMAIN c[i].page.messages \/ Ahead(c, i, MessageSignals(m))
    BY <1>3, <1>9, <1>10
<1>12. \A i, j \in DOMAIN c : IsPage(c[i], v.epoch) /\ IsPage(c[j], v.epoch) => i = j
    BY <1>3, <1>6, <1>8
<1>13. \A i \in DOMAIN c, j \in DOMAIN Tail(qs) : ~(IsPage(c[i], v.epoch) /\ Tail(qs)[j].epoch = v.epoch)
    BY <1>3, <1>4, <1>6, <1>8
<1> QED
    BY <1>1, <1>7, <1>11, <1>12, <1>13 DEF HistoryFair

-----------------------------------------------------------------------------
(* What leaves the core is true of the store *)

LEMMA ExactIsFaithful ==
    ASSUME NEW o \in Objects, NEW before, StoreFair(o, before), NEW m \in Held(o), NEW ch, NEW i
    PROVE  Faithful(Item(o, m), m, ch, i, o)
<1>1. m \in Messages /\ o.message[m].by # Nobody
    BY DEF Held
<1>2. o.message[m].text <=> ~o.message[m].recalled /\ ~o.message[m].burned
    BY <1>1 DEF StoreFair
<1>3. o.count[m] \in Nat
    BY <1>1 DEF Objects
<1> QED
    BY <1>1, <1>2, <1>3, ItemShape DEF Faithful, Counted

LEMMA PageIsFair ==
    ASSUME NEW o \in Objects, NEW before, StoreFair(o, before), NEW b \in Nat, NEW ch, NEW i
    PROVE  PageBefore(o, b) \in SomePages /\ PageFair(PageBefore(o, b), ch, i, o, before)
<1>1. PICK S \in SUBSET Held(o) :
         /\ PageBefore(o, b) \in Pages(S)
         /\ \A m \in S : /\ PageBefore(o, b).messages[m] = Item(o, m)
                         /\ PageBefore(o, b).deliveries[m] = o.delivery[m]
    BY PageShape
<1>2. S \in SUBSET Messages /\ DOMAIN PageBefore(o, b).messages = S
    BY <1>1 DEF Pages, Held
<1>3. ASSUME NEW m \in S
      PROVE  /\ Faithful(PageBefore(o, b).messages[m], m, ch, i, o)
             /\ PageBefore(o, b).deliveries[m] <= o.delivery[m]
             /\ Delivered(PageBefore(o, b).deliveries[m], m, ch, i, o, before)
  <2>1. Faithful(Item(o, m), m, ch, i, o)
      BY ExactIsFaithful
  <2>2. o.delivery[m] \in Nat
      BY <1>2 DEF Objects
  <2> QED
      BY <1>1, <2>1, <2>2 DEF Delivered
<1>4. PageBefore(o, b) \in SomePages
    BY <1>1, <1>2 DEF SomePages
<1> QED
    BY <1>2, <1>3, <1>4 DEF PageFair

\* A message's own event finds it absent.
LEMMA OwnEventComesOnce ==
    ASSUME NEW o, NEW s \in Seq(Event), WellFormed(s), NEW done \in SUBSET DOMAIN s,
           NEW p \in DOMAIN s, p \notin done, Sound(o, s, done),
           s[p].kind = "message", s[p].of \in Messages
    PROVE  o.message[s[p].of].by = Nobody
<1>1. SUFFICES ASSUME o.message[s[p].of].by # Nobody PROVE FALSE
    OBVIOUS
<1>2. PICK q \in done : s[q].kind = "message" /\ s[q].of = s[p].of
    BY <1>1 DEF Sound, MessageIsSound, Positions
<1>3. q # p /\ q \in DOMAIN s /\ p \in Nat /\ q \in Nat
    BY <1>2
<1>4. q < p \/ p < q
    BY <1>3
<1> QED
    BY <1>2, <1>3, <1>4 DEF WellFormed

\* What an event changes of a message.
LEMMA MessageProjected ==
    ASSUME NEW o \in Objects, NEW p \in Nat, NEW e \in Event, NEW redacted \in BOOLEAN,
           NEW o2, o2 = Projected(o, p, e, redacted), NEW m \in Messages
    PROVE  /\ o2.message[m] =
                IF e.kind = "message" /\ e.of = m
                THEN Protected(Arrived(e, redacted), o.ended[m])
                ELSE IF e.kind \in Ends /\ e.of = m /\ o.message[m].by # Nobody
                     THEN Protected(o.message[m], Ended(o.ended[m], e.kind))
                     ELSE o.message[m]
           /\ o2.ended[m] = IF e.kind \in Ends /\ e.of = m THEN Ended(o.ended[m], e.kind) ELSE o.ended[m]
           /\ o2 \in Objects
BY EveryEventProjects

\* What it changes of a message, and what it tells of it.
MessageTold(o, o2, e, t, m) ==
   /\ o.message[m].by # Nobody =>
        /\ o2.message[m].by = o.message[m].by
        /\ o.message[m].recalled => o2.message[m].recalled
        /\ o.message[m].burned => o2.message[m].burned
        /\ o2.message[m].recalled => o.message[m].recalled \/ Has(t, EndSignals(m, Ends))
        /\ o2.message[m].burned => o.message[m].burned \/ Has(t, EndSignals(m, {"burn"}))
        /\ (o.message[m].text <=> ~o.message[m].recalled /\ ~o.message[m].burned)
             => (o2.message[m].text <=> ~o2.message[m].recalled /\ ~o2.message[m].burned)
   /\ o.message[m].by = Nobody /\ o2.message[m].by # Nobody =>
        /\ e.kind = "message" /\ e.of = m
        /\ Has(t, MessageSignals(m))
        /\ o2.message[m].text <=> ~o2.message[m].recalled /\ ~o2.message[m].burned
   /\ EndIsSound(o.ended[m], m, o2)
   /\ e.kind \in Ends /\ e.of = m => EndIsSound(e.kind, m, o2)

LEMMA MessageIsTold ==
    ASSUME NEW o \in Objects, NEW s \in Seq(Event), WellFormed(s), NEW done \in SUBSET DOMAIN s,
           NEW p \in DOMAIN s, p \notin done, Sound(o, s, done), NEW redacted \in BOOLEAN,
           NEW e \in Event, e = s[p], NEW o2, o2 = Projected(o, p, e, redacted),
           NEW t, Has(t, {Told(o2, e)}), NEW m \in Messages
    PROVE  MessageTold(o, o2, e, t, m)
<1>1. PICK old \in Items, end \in {"none"} \cup Ends : old = o.message[m] /\ end = o.ended[m]
    BY DEF Objects
<1>2. PICK new, end2 : new = o2.message[m] /\ end2 = o2.ended[m]
    OBVIOUS
<1>3. PICK at \in Nat : o2 = Projected(o, at, e, redacted)
    OBVIOUS
<1>4. /\ new = IF e.kind = "message" /\ e.of = m THEN Protected(Arrived(e, redacted), end)
               ELSE IF e.kind \in Ends /\ e.of = m /\ old.by # Nobody
                    THEN Protected(old, Ended(end, e.kind)) ELSE old
      /\ end2 = IF e.kind \in Ends /\ e.of = m THEN Ended(end, e.kind) ELSE end
      /\ o2 \in Objects
  <2>1. /\ o2.message[m] =
             IF e.kind = "message" /\ e.of = m
             THEN Protected(Arrived(e, redacted), o.ended[m])
             ELSE IF e.kind \in Ends /\ e.of = m /\ o.message[m].by # Nobody
                  THEN Protected(o.message[m], Ended(o.ended[m], e.kind))
                  ELSE o.message[m]
        /\ o2.ended[m] = IF e.kind \in Ends /\ e.of = m THEN Ended(o.ended[m], e.kind) ELSE o.ended[m]
        /\ o2 \in Objects
      BY <1>3, MessageProjected
  <2> QED
      BY <1>1, <1>2, <2>1
<1>5. old.by # Nobody => (old.burned <=> end = "burn")
    BY <1>1 DEF Sound, MessageIsSound
<1>6. \A signals : Told(o2, e) \in signals => Has(t, signals)
    BY DEF Has
<1>7. /\ old.by # Nobody =>
           /\ new.by = old.by
           /\ old.recalled => new.recalled
           /\ old.burned => new.burned
           /\ new.recalled => old.recalled \/ Has(t, EndSignals(m, Ends))
           /\ new.burned => old.burned \/ Has(t, EndSignals(m, {"burn"}))
           /\ (old.text <=> ~old.recalled /\ ~old.burned) => (new.text <=> ~new.recalled /\ ~new.burned)
      /\ old.by = Nobody /\ new.by # Nobody =>
           /\ e.kind = "message" /\ e.of = m
           /\ Has(t, MessageSignals(m))
           /\ new.text <=> ~new.recalled /\ ~new.burned
      /\ end # "none" => end2 # "none"
      /\ end = "burn" => end2 = "burn"
      /\ e.kind \in Ends /\ e.of = m => end2 # "none" /\ (e.kind = "burn" => end2 = "burn")
  <2>1. CASE e.kind = "message" /\ e.of = m
    <3>1. old.by = Nobody
        BY <1>1, <2>1, OwnEventComesOnce
    <3>2. Arrived(e, redacted) \in Items
        BY ArrivedShape
    <3>3. PICK item \in Items : item = Arrived(e, redacted)
        BY <3>2
    <3>4. item.burned = FALSE /\ (item.text <=> ~item.recalled)
        BY <3>3, ArrivedShape
    <3>5. /\ new.recalled <=> item.recalled \/ end # "none"
          /\ new.burned <=> item.burned \/ end = "burn"
          /\ new.text <=> item.text /\ ~new.recalled /\ ~new.burned
        BY <1>4, <2>1, <3>3, ProtectedShape
    <3>6. new.text <=> ~new.recalled /\ ~new.burned
        BY <3>4, <3>5
    <3>7. Told(o2, e) \in MessageSignals(m)
      <4>1. e.kind # "readCount"
          BY <2>1
      <4> QED
          BY <1>4, <2>1, <4>1, ToldShape
    <3>8. end2 = end /\ e.kind \notin Ends
        BY <1>4, <2>1 DEF Ends
    <3> QED
        BY <1>6, <2>1, <3>1, <3>6, <3>7, <3>8
  <2>2. CASE e.kind \in Ends /\ e.of = m
    <3>1. PICK next \in Ends : /\ next = Ended(end, e.kind) /\ next # "none"
                               /\ next = "burn" <=> end = "burn" \/ e.kind = "burn"
        BY <2>2, EndedShape
    <3>2. Told(o2, e) \in EndSignals(m, {e.kind})
      <4>1. e.kind # "readCount" /\ e.of \in Messages
          BY <2>2 DEF Ends
      <4> QED
          BY <1>4, <2>2, <4>1, ToldShape
    <3>3. Has(t, EndSignals(m, Ends)) /\ (e.kind = "burn" => Has(t, EndSignals(m, {"burn"})))
      <4>1. Told(o2, e) \in EndSignals(m, Ends)
          BY <2>2, <3>2 DEF EndSignals
      <4>2. e.kind = "burn" => Told(o2, e) \in EndSignals(m, {"burn"})
          BY <3>2
      <4> QED
          BY <1>6, <4>1, <4>2
    <3>4. end2 = next /\ e.kind # "message"
        BY <1>4, <2>2, <3>1 DEF Ends
    <3>5. CASE old.by = Nobody
      <4>1. new = old
          BY <1>4, <3>4, <3>5
      <4> QED
          BY <3>1, <3>4, <3>5, <4>1
    <3>6. CASE old.by # Nobody
      <4>1. new = Protected(old, next)
          BY <1>4, <2>2, <3>1, <3>4, <3>6
      <4>2. /\ new.by = old.by
            /\ new.recalled <=> old.recalled \/ next # "none"
            /\ new.burned <=> old.burned \/ next = "burn"
            /\ new.text <=> old.text /\ ~new.recalled /\ ~new.burned
          BY <4>1, ProtectedShape
      <4> QED
          BY <1>5, <3>1, <3>3, <3>4, <3>6, <4>2
    <3> QED
        BY <3>5, <3>6
  <2>3. CASE ~((e.kind = "message" \/ e.kind \in Ends) /\ e.of = m)
    <3>1. new = old /\ end2 = end
        BY <1>4, <2>3
    <3> QED
        BY <2>3, <3>1
  <2> QED
      BY <2>1, <2>2, <2>3
<1> QED
    BY <1>1, <1>2, <1>7 DEF EndIsSound, MessageTold

LEMMA NumbersProjected ==
    ASSUME NEW o \in Objects, NEW p \in Nat, NEW e \in Event, NEW redacted \in BOOLEAN,
           NEW o2, o2 = Projected(o, p, e, redacted)
    PROVE  /\ \A m \in Messages :
                /\ o2.count[m] = IF e.kind = "message" /\ e.of = m /\ o.count[m] = 0 THEN p
                                 ELSE IF e.kind = "readCount" /\ e.of = m THEN Later(o.count[m], p)
                                 ELSE o.count[m]
                /\ o2.delivery[m] = IF e.kind = "delivery" /\ e.of = m THEN Later(o.delivery[m], p)
                                    ELSE o.delivery[m]
           /\ \A u \in People :
                o2.read[u] = IF e.kind = "receipt" /\ e.by = u THEN Later(o.read[u], e.of) ELSE o.read[u]
           /\ o2.conversation = IF e.kind = "conversation" THEN Later(o.conversation, p)
                                ELSE o.conversation
           /\ o2 \in Objects
BY EveryEventProjects

NumbersTold(o, o2, e, t) ==
   /\ \A m \in Messages :
        /\ o.count[m] <= o2.count[m]
        /\ \/ o2.count[m] = o.count[m]
           \/ o.count[m] = 0 /\ o.message[m].by = Nobody
           \/ Has(t, CountSignals(m, o2.count[m]))
        /\ o.delivery[m] <= o2.delivery[m]
        /\ \/ o2.delivery[m] = o.delivery[m]
           \/ e.kind = "delivery" /\ e.of = m /\ Has(t, DeliverySignals(m, o2.delivery[m]))
   /\ \A u \in People :
        /\ o.read[u] <= o2.read[u]
        /\ o2.read[u] = o.read[u] \/ Has(t, ReadSignals(u, o2.read[u]))
   /\ o2.conversation = o.conversation \/ Has(t, ConversationSignals(o2.conversation))
   /\ e.kind = "readCount" => o2.count[e.of] # 0

\* Counts, deliveries, receipts and the conversation only grow, and are told.
LEMMA NumbersAreTold ==
    ASSUME NEW o \in Objects, NEW p \in Nat, p > 0, NEW redacted \in BOOLEAN,
           NEW e \in Event, e.of \in Messages \/ e.kind \in {"receipt", "conversation"},
           e.kind = "message" => o.message[e.of].by = Nobody,
           NEW o2, o2 = Projected(o, p, e, redacted), NEW t, Has(t, {Told(o2, e)})
    PROVE  NumbersTold(o, o2, e, t) /\ o2 \in Objects
<1>1. \A signals : Told(o2, e) \in signals => Has(t, signals)
    BY DEF Has
<1>2. o2 \in Objects
    BY NumbersProjected
<1>3. ASSUME e.kind = "readCount"
      PROVE  o2.count[e.of] # 0
  <2>1. PICK n \in Nat : n = o.count[e.of] /\ e.of \in Messages
      BY <1>3 DEF Objects
  <2>2. o2.count[e.of] = Later(n, p)
      BY <1>3, <2>1, NumbersProjected, SMTT(30)
  <2> QED
      BY <2>2 DEF Later
<1>4. ASSUME NEW m \in Messages
      PROVE  /\ o.count[m] <= o2.count[m]
             /\ \/ o2.count[m] = o.count[m]
                \/ o.count[m] = 0 /\ o.message[m].by = Nobody
                \/ Has(t, CountSignals(m, o2.count[m]))
             /\ o.delivery[m] <= o2.delivery[m]
             /\ \/ o2.delivery[m] = o.delivery[m]
                \/ e.kind = "delivery" /\ e.of = m /\ Has(t, DeliverySignals(m, o2.delivery[m]))
  <2>1. PICK n \in Nat, d \in Nat : n = o.count[m] /\ d = o.delivery[m]
      BY DEF Objects
  <2>2. /\ o2.count[m] = IF e.kind = "message" /\ e.of = m /\ n = 0 THEN p
                         ELSE IF e.kind = "readCount" /\ e.of = m THEN Later(n, p) ELSE n
        /\ o2.delivery[m] = IF e.kind = "delivery" /\ e.of = m THEN Later(d, p) ELSE d
      BY <2>1, NumbersProjected
  <2>3. n <= o2.count[m] /\ d <= o2.delivery[m]
      BY <2>2 DEF Later
  <2>4. e.kind = "readCount" /\ e.of = m => Has(t, CountSignals(m, o2.count[m]))
      BY <1>1, <1>2, <1>3, ToldShape
  <2>5. e.kind = "delivery" /\ e.of = m => Has(t, DeliverySignals(m, o2.delivery[m]))
    <3>1. e.kind = "delivery" => Told(o2, e) \in DeliverySignals(e.of, o2.delivery[e.of])
        BY <1>2, ToldShape
    <3> QED
        BY <1>1, <3>1
  <2> QED
      BY <2>1, <2>2, <2>3, <2>4, <2>5
<1>5. ASSUME NEW u \in People
      PROVE  /\ o.read[u] <= o2.read[u]
             /\ o2.read[u] = o.read[u] \/ Has(t, ReadSignals(u, o2.read[u]))
  <2>1. PICK n \in Nat, of \in Nat : n = o.read[u] /\ of = e.of
      BY ProjectionAssumption DEF Objects, Event
  <2>2. o2.read[u] = IF e.kind = "receipt" /\ e.by = u THEN Later(n, of) ELSE n
      BY <2>1, NumbersProjected
  <2>3. e.kind = "receipt" /\ e.by = u => Has(t, ReadSignals(u, o2.read[u]))
    <3>1. e.kind = "receipt" => Told(o2, e) \in ReadSignals(e.by, o2.read[e.by])
        BY <1>2, ToldShape
    <3> QED
        BY <1>1, <3>1
  <2> QED
      BY <2>1, <2>2, <2>3 DEF Later
<1>6. o2.conversation = o.conversation \/ Has(t, ConversationSignals(o2.conversation))
  <2>1. e.kind = "conversation" => Told(o2, e) \in ConversationSignals(o2.conversation)
      BY <1>2, ToldShape
  <2> QED
      BY <1>1, <2>1, NumbersProjected
<1> QED
    BY <1>2, <1>3, <1>4, <1>5, <1>6 DEF NumbersTold

\* An event's step tells what it changes, and what it tells is true.
EventTold(o, o2, t, before, before2, total, total2) ==
  /\ \A k \in DOMAIN t : t[k] \in Signals /\ t[k].kind # "page"
  /\ Tells(o, o2, t, before, before2, total, total2)
  /\ StoreFair(o2, before2)
  /\ \A c, i, k : k \in DOMAIN t => SignalFair(t[k], c, i, o2, before2, total2)

LEMMA EventIsTold ==
    ASSUME NEW o \in Objects, NEW s \in Seq(Event), WellFormed(s), NEW done \in SUBSET DOMAIN s,
           NEW p \in DOMAIN s, p \notin done, Sound(o, s, done), NEW redacted \in BOOLEAN,
           NEW e \in Event, e = s[p], NEW o2, o2 = Projected(o, p, e, redacted),
           NEW before, StoreFair(o, before), NEW before2, before \subseteq before2,
           e.kind = "delivery" /\ e.of \notin Held(o) => e.of \in before2,
           NEW total \in Int, NEW total2 \in Int, total2 # Unknown,
           NEW s1, s1 = Told(o2, e), NEW s2 \in ProgressSignals(total2),
           NEW t, DOMAIN t = {1, 2}, t[1] = s1, t[2] = s2
    PROVE  EventTold(o, o2, t, before, before2, total, total2)
<1>1. e.of \in Messages \/ e.kind \in {"receipt", "conversation"}
    BY DEF WellFormed
<1>2. PICK at \in Nat : at > 0 /\ o2 = Projected(o, at, e, redacted)
    OBVIOUS
<1>3. e.kind = "message" => o.message[e.of].by = Nobody
    BY <1>1, OwnEventComesOnce, ZenonT(30)
<1>4. Has(t, {Told(o2, e)}) /\ Has(t, ProgressSignals(total2))
    BY DEF Has
<1>5. /\ \A m \in Messages :
           /\ o.count[m] <= o2.count[m]
           /\ \/ o2.count[m] = o.count[m]
              \/ o.count[m] = 0 /\ o.message[m].by = Nobody
              \/ Has(t, CountSignals(m, o2.count[m]))
           /\ o.delivery[m] <= o2.delivery[m]
           /\ \/ o2.delivery[m] = o.delivery[m]
              \/ e.kind = "delivery" /\ e.of = m /\ Has(t, DeliverySignals(m, o2.delivery[m]))
      /\ \A u \in People :
           /\ o.read[u] <= o2.read[u]
           /\ o2.read[u] = o.read[u] \/ Has(t, ReadSignals(u, o2.read[u]))
      /\ o2.conversation = o.conversation \/ Has(t, ConversationSignals(o2.conversation))
      /\ e.kind = "readCount" => o2.count[e.of] # 0
      /\ o2 \in Objects
  <2>1. NumbersTold(o, o2, e, t)
      BY <1>1, <1>2, <1>3, <1>4, NumbersAreTold
  <2>2. o2 \in Objects
      BY NumbersProjected
  <2> QED
      BY <2>1, <2>2 DEF NumbersTold
<1>6. ASSUME NEW m \in Messages
      PROVE  /\ o.message[m].by # Nobody =>
                  /\ o2.message[m].by = o.message[m].by
                  /\ o.message[m].recalled => o2.message[m].recalled
                  /\ o.message[m].burned => o2.message[m].burned
                  /\ o2.message[m].recalled => o.message[m].recalled \/ Has(t, EndSignals(m, Ends))
                  /\ o2.message[m].burned => o.message[m].burned \/ Has(t, EndSignals(m, {"burn"}))
                  /\ (o.message[m].text <=> ~o.message[m].recalled /\ ~o.message[m].burned)
                       => (o2.message[m].text <=> ~o2.message[m].recalled /\ ~o2.message[m].burned)
             /\ o.message[m].by = Nobody /\ o2.message[m].by # Nobody =>
                  /\ e.kind = "message" /\ e.of = m
                  /\ Has(t, MessageSignals(m))
                  /\ o2.message[m].text <=> ~o2.message[m].recalled /\ ~o2.message[m].burned
             /\ EndIsSound(o.ended[m], m, o2)
             /\ e.kind \in Ends /\ e.of = m => EndIsSound(e.kind, m, o2)
  <2>1. MessageTold(o, o2, e, t, m)
      BY <1>4, MessageIsTold
  <2> QED
      BY <2>1 DEF MessageTold
<1>7. StoreFair(o2, before2)
  <2>1. ASSUME NEW m \in Messages
        PROVE  /\ o2.message[m].by # Nobody =>
                    (o2.message[m].text <=> ~o2.message[m].recalled /\ ~o2.message[m].burned)
               /\ o2.message[m].by = Nobody /\ o2.delivery[m] # 0 => m \in before2
    <3>1. /\ o.message[m].by # Nobody =>
               (o.message[m].text <=> ~o.message[m].recalled /\ ~o.message[m].burned)
          /\ o.message[m].by = Nobody /\ o.delivery[m] # 0 => m \in before
        BY DEF StoreFair
    <3>2. o2.message[m].by # Nobody =>
            (o2.message[m].text <=> ~o2.message[m].recalled /\ ~o2.message[m].burned)
        BY <1>6, <3>1
    <3>3. ASSUME o2.message[m].by = Nobody, o2.delivery[m] # 0
          PROVE  m \in before2
      <4>1. o.message[m].by = Nobody
          BY <1>6, <3>3
      <4>2. CASE o2.delivery[m] = o.delivery[m]
          BY <3>1, <3>3, <4>1, <4>2
      <4>3. CASE e.kind = "delivery" /\ e.of = m
          BY <4>1, <4>3 DEF Held
      <4> QED
          BY <1>5, <4>2, <4>3
    <3> QED
        BY <3>2, <3>3
  <2> QED
      BY <2>1 DEF StoreFair
<1>8. Tells(o, o2, t, before, before2, total, total2)
    BY <1>4, <1>5, <1>6 DEF Tells
<1>9. /\ s1 \in Signals /\ s1.kind = e.kind
      /\ e.kind = "message" => s1 \in MessageSignals(e.of) /\ s1.data = Item(o2, e.of)
      /\ e.kind \in Ends => s1 \in EndSignals(e.of, {e.kind})
      /\ e.kind = "readCount" => s1 \in CountSignals(e.of, o2.count[e.of])
      /\ e.kind = "delivery" => s1 \in DeliverySignals(e.of, o2.delivery[e.of])
      /\ e.kind = "receipt" => s1 \in ReadSignals(e.by, o2.read[e.by])
      /\ e.kind = "conversation" => s1 \in ConversationSignals(o2.conversation)
  <2>1. o2 \in Objects
      BY <1>5
  <2>2. e.kind = "readCount" => o2.count[e.of] # 0
      BY <1>5
  <2>3. s1 \in Signals
      BY <1>1, <2>1, <2>2, ToldShape
  <2>4. s1.kind = e.kind
      BY <1>1, <2>1, <2>2, ToldShape
  <2>5. e.kind = "message" => s1 \in MessageSignals(e.of) /\ s1.data = Item(o2, e.of)
      BY <1>1, <2>1, <2>2, ToldShape
  <2>6. e.kind \in Ends => s1 \in EndSignals(e.of, {e.kind})
      BY <1>1, <2>1, <2>2, ToldShape
  <2>7. e.kind = "readCount" => s1 \in CountSignals(e.of, o2.count[e.of])
      BY <1>1, <2>1, <2>2, ToldShape
  <2>8. e.kind = "delivery" => s1 \in DeliverySignals(e.of, o2.delivery[e.of])
      BY <1>1, <2>1, <2>2, ToldShape
  <2>9. e.kind = "receipt" => s1 \in ReadSignals(e.by, o2.read[e.by])
      BY <1>1, <2>1, <2>2, ToldShape
  <2>10. e.kind = "conversation" => s1 \in ConversationSignals(o2.conversation)
      BY <1>1, <2>1, <2>2, ToldShape
  <2> QED
      BY <2>3, <2>4, <2>5, <2>6, <2>7, <2>8, <2>9, <2>10
<1>10. s2 \in Signals /\ s2.kind = "progress" /\ s2.total = total2
    BY DEF Signals, ProgressSignals
<1>11. \A k \in DOMAIN t : t[k].kind # "page"
  <2>1. s1.kind # "page" /\ s2.kind # "page"
      BY <1>9, <1>10 DEF Event, Ends
  <2> QED
      BY <2>1
<1>12. ASSUME NEW ch, NEW i
       PROVE  SignalFair(s1, ch, i, o2, before2, total2)
  <2>1. CASE e.kind = "message"
    <3>1. s1.of = e.of /\ e.of \in Messages /\ s1.data = Item(o2, e.of)
        BY <1>1, <1>9, <2>1 DEF MessageSignals
    <3>2. o.message[e.of].by = Nobody /\ e.of \in Held(o2)
      <4>1. /\ Told(o2, e) \in MessageSignals(e.of)
            /\ o2.message[e.of] = Protected(Arrived(e, redacted), o.ended[e.of])
          BY <1>2, <1>9, <2>1, <3>1, MessageProjected
      <4>2. o.ended[e.of] \in {"none"} \cup Ends /\ Arrived(e, redacted) \in Items
          BY <3>1, ArrivedShape DEF Objects
      <4>3. PICK item \in Items : item = Arrived(e, redacted)
          BY <4>2
      <4>4. item.by # Nobody
          BY <4>3, ArrivedShape
      <4>5. Protected(item, o.ended[e.of]).by = item.by
          BY <4>2, ProtectedShape
      <4> QED
          BY <1>3, <2>1, <3>1, <4>1, <4>3, <4>4, <4>5 DEF Held
    <3>3. Faithful(Item(o2, e.of), e.of, ch, i, o2)
        BY <1>5, <1>7, <3>2, ExactIsFaithful
    <3>4. Delivered(0, e.of, ch, i, o2, before2)
      <4>1. o2.delivery[e.of] = o.delivery[e.of]
          BY <1>5, <2>1, <3>1
      <4>2. o.delivery[e.of] # 0 => e.of \in before
          BY <3>1, <3>2 DEF StoreFair
      <4> QED
          BY <4>1, <4>2 DEF Delivered
    <3> QED
        BY <1>9, <2>1, <3>1, <3>3, <3>4 DEF SignalFair, Ends
  <2>2. CASE e.kind \in Ends
    <3>1. s1.of = e.of /\ e.of \in Messages
        BY <1>1, <1>9, <2>2 DEF EndSignals, Ends
    <3>2. EndIsSound(e.kind, e.of, o2)
        BY <1>6, <2>2, <3>1
    <3> QED
        BY <1>9, <2>2, <3>1, <3>2 DEF SignalFair, Ends
  <2>3. CASE e.kind = "readCount"
    <3>1. s1.of = e.of /\ s1.data = o2.count[e.of] /\ o2.count[e.of] \in Nat
        BY <1>1, <1>5, <1>9, <2>3 DEF CountSignals, Objects
    <3> QED
        BY <1>9, <2>3, <3>1 DEF SignalFair, Ends, Counted
  <2>4. CASE e.kind = "delivery"
    <3>1. s1.of = e.of /\ s1.data = o2.delivery[e.of] /\ o2.delivery[e.of] \in Nat
        BY <1>1, <1>5, <1>9, <2>4 DEF DeliverySignals, Objects
    <3> QED
        BY <1>9, <2>4, <3>1 DEF SignalFair, Ends
  <2>5. CASE e.kind = "receipt"
    <3>1. s1.by = e.by /\ s1.data = o2.read[e.by] /\ o2.read[e.by] \in Nat
        BY <1>5, <1>9, <2>5 DEF ReadSignals, Objects, Event
    <3> QED
        BY <1>9, <2>5, <3>1 DEF SignalFair, Ends
  <2>6. CASE e.kind = "conversation"
    <3>1. s1.data = o2.conversation
        BY <1>9, <2>6 DEF ConversationSignals
    <3> QED
        BY <1>9, <2>6, <3>1 DEF SignalFair, Ends, IsVersion
  <2> QED
      BY <2>1, <2>2, <2>3, <2>4, <2>5, <2>6 DEF Event
<1>13. ASSUME NEW ch, NEW i
       PROVE  SignalFair(s2, ch, i, o2, before2, total2)
    BY <1>10 DEF SignalFair, Ends, IsTotal
<1>14. \A ch, i, k : k \in DOMAIN t => SignalFair(t[k], ch, i, o2, before2, total2)
    BY <1>12, <1>13
<1> QED
    BY <1>7, <1>8, <1>9, <1>10, <1>11, <1>14 DEF EventTold

-----------------------------------------------------------------------------
(* Showing what was queued, or what a page has *)

\* Of a stored message that ended, the store shows the end.
EndsShow(o) ==
  \A m \in Messages : o.message[m].by # Nobody =>
    /\ o.ended[m] # "none" => o.message[m].recalled
    /\ o.ended[m] = "burn" => o.message[m].burned

LEMMA SoundEndsShow ==
    ASSUME NEW o, NEW s, NEW done, Sound(o, s, done)
    PROVE  EndsShow(o)
BY DEF Sound, MessageIsSound, EndsShow

\* What the window has of m before it shows it, or shows it again.
MessageFair(v, m, ch, i, o) ==
  /\ v.message[m].by = Nobody => ~v.message[m].recalled /\ ~v.message[m].burned
  /\ v.message[m].by # Nobody => Faithful(v.message[m], m, ch, i, o)
  /\ EndIsSound(v.ended[m], m, o)
  /\ v.count[m] # 0 => Counted(v.count[m], m, ch, i, o)

LEMMA MergedIsFaithful ==
    ASSUME NEW v \in Views, NEW m \in Messages, NEW item \in Shown, NEW ch, NEW i,
           NEW o, EndsShow(o), MessageFair(v, m, ch, i, o), Faithful(item, m, ch, i, o),
           NEW x, x = Merged(v.message[m], Known(v, m, item))
    PROVE  /\ x \in Shown /\ Faithful(x, m, ch, i, o)
           /\ v.count[m] # 0 => x.count = v.count[m]
<1>1. PICK old \in Shown : old = v.message[m]
    BY DEF Views
<1>2. Known(v, m, item) \in Shown
    BY KnownShape
<1>3. PICK new \in Shown : new = Known(v, m, item)
    BY <1>2
<1>4. /\ new.by = item.by /\ new.text = item.text
      /\ new.recalled <=> item.recalled \/ v.ended[m] # "none"
      /\ new.burned <=> item.burned \/ v.ended[m] = "burn"
      /\ new.count = IF v.count[m] # 0 THEN v.count[m] ELSE item.count
    BY <1>3, KnownShape
<1>5. x = Merged(old, new)
    BY <1>1, <1>3
<1>6. /\ x \in Shown /\ x.by = new.by /\ x.count = new.count
      /\ x.recalled <=> old.recalled \/ new.recalled
      /\ x.burned <=> old.burned \/ new.burned
      /\ x.text <=> new.text /\ ~x.recalled /\ ~x.burned
    BY <1>5, MergedShape
<1>7. /\ item.by = o.message[m].by /\ item.by # Nobody
      /\ item.recalled => o.message[m].recalled
      /\ item.burned => o.message[m].burned
      /\ o.message[m].recalled => item.recalled \/ Ahead(ch, i, EndSignals(m, Ends))
      /\ o.message[m].burned => item.burned \/ Ahead(ch, i, EndSignals(m, {"burn"}))
      /\ item.text <=> ~item.recalled /\ ~item.burned
      /\ Counted(item.count, m, ch, i, o)
    BY DEF Faithful
<1>8. /\ old.recalled => o.message[m].recalled
      /\ old.burned => o.message[m].burned
    BY <1>1 DEF MessageFair, Faithful
<1>9. /\ v.ended[m] # "none" => o.message[m].recalled
      /\ v.ended[m] = "burn" => o.message[m].burned
    BY <1>7 DEF MessageFair, EndIsSound, EndsShow
<1>10. Counted(x.count, m, ch, i, o) /\ (v.count[m] # 0 => x.count = v.count[m])
  <2>1. CASE v.count[m] # 0
    <3>1. x.count = v.count[m]
        BY <1>4, <1>6, <2>1
    <3>2. Counted(v.count[m], m, ch, i, o)
        BY <2>1 DEF MessageFair
    <3> QED
        BY <3>1, <3>2
  <2>2. CASE ~(v.count[m] # 0)
    <3>1. x.count = item.count
        BY <1>4, <1>6, <2>2
    <3> QED
        BY <1>7, <2>2, <3>1
  <2> QED
      BY <2>1, <2>2
<1>11. /\ x.by = o.message[m].by /\ x.by # Nobody
       /\ x.recalled => o.message[m].recalled
       /\ x.burned => o.message[m].burned
       /\ o.message[m].recalled => x.recalled \/ Ahead(ch, i, EndSignals(m, Ends))
       /\ o.message[m].burned => x.burned \/ Ahead(ch, i, EndSignals(m, {"burn"}))
       /\ x.text <=> ~x.recalled /\ ~x.burned
    BY <1>4, <1>6, <1>7, <1>8, <1>9
<1> QED
    BY <1>6, <1>10, <1>11 DEF Faithful

\* What the window may show next to be fair afterwards.
CanPush(v, items, ch, o, before, total) ==
  /\ \A m \in Messages :
       /\ MessageFair(v, m, ch, 0, o)
       /\ v.message[m].by # Nobody /\ m \notin DOMAIN items /\ v.count[m] # 0 =>
            v.message[m].count = v.count[m]
       /\ v.delivery[m] <= o.delivery[m]
       /\ v.message[m].by # Nobody \/ m \in DOMAIN items => Delivered(v.delivery[m], m, ch, 0, o, before)
  /\ \A m \in DOMAIN items : Faithful(items[m], m, ch, 0, o)
  /\ v.epoch > 0 => WholeFair(v, items, ch, o, total)

LEMMA PushIsFair ==
    ASSUME NEW v \in Views, NEW items, IsQueue(items), NEW ch, NEW o, EndsShow(o),
           NEW before, NEW total, CanPush(v, items, ch, o, before, total),
           NEW w, w = Pushed(v, items)
    PROVE  w \in Views /\ WindowFair(w, NoMessages, ch, o, before, total)
<1>1. /\ w \in Views
      /\ \A m \in Messages :
           /\ w.message[m] = IF m \in DOMAIN items THEN Merged(v.message[m], Known(v, m, items[m]))
                             ELSE v.message[m]
           /\ w.ended[m] = IF m \in DOMAIN items THEN "none" ELSE v.ended[m]
      /\ w.count = v.count /\ w.delivery = v.delivery /\ w.read = v.read
      /\ w.conversation = v.conversation /\ w.total = v.total
      /\ w.cursor = v.cursor /\ w.more = v.more /\ w.epoch = v.epoch
    BY PushedShape
<1>2. ASSUME NEW m \in DOMAIN items
      PROVE  /\ m \in Messages
             /\ Faithful(w.message[m], m, ch, 0, o)
             /\ w.message[m].by # Nobody
             /\ v.count[m] # 0 => w.message[m].count = v.count[m]
  <2>1. m \in Messages /\ items[m] \in Shown
      BY DEF IsQueue
  <2>2. MessageFair(v, m, ch, 0, o) /\ Faithful(items[m], m, ch, 0, o)
      BY <2>1 DEF CanPush
  <2>3. w.message[m] = Merged(v.message[m], Known(v, m, items[m]))
      BY <1>1, <2>1
  <2>4. Faithful(w.message[m], m, ch, 0, o) /\ (v.count[m] # 0 => w.message[m].count = v.count[m])
      BY <2>1, <2>2, <2>3, MergedIsFaithful
  <2> QED
      BY <2>1, <2>4 DEF Faithful
<1>3. \A m \in Messages : m \notin DOMAIN items => w.message[m] = v.message[m] /\ w.ended[m] = v.ended[m]
    BY <1>1
<1>4. ASSUME NEW m \in Messages
      PROVE  /\ IF w.message[m].by = Nobody THEN ~w.message[m].recalled /\ ~w.message[m].burned
                ELSE Faithful(w.message[m], m, ch, 0, o)
             /\ EndIsSound(w.ended[m], m, o)
             /\ w.count[m] # 0 => /\ Counted(w.count[m], m, ch, 0, o)
                                  /\ w.message[m].by # Nobody => w.message[m].count = w.count[m]
             /\ w.delivery[m] <= o.delivery[m]
             /\ w.message[m].by # Nobody \/ m \in DOMAIN NoMessages =>
                  Delivered(w.delivery[m], m, ch, 0, o, before)
  <2>1. /\ v.message[m].by = Nobody => ~v.message[m].recalled /\ ~v.message[m].burned
        /\ v.message[m].by # Nobody => Faithful(v.message[m], m, ch, 0, o)
        /\ EndIsSound(v.ended[m], m, o)
        /\ v.count[m] # 0 => Counted(v.count[m], m, ch, 0, o)
        /\ v.message[m].by # Nobody /\ m \notin DOMAIN items /\ v.count[m] # 0 =>
             v.message[m].count = v.count[m]
        /\ v.delivery[m] <= o.delivery[m]
        /\ v.message[m].by # Nobody \/ m \in DOMAIN items => Delivered(v.delivery[m], m, ch, 0, o, before)
      BY DEF CanPush, MessageFair
  <2>2. w.count[m] = v.count[m] /\ w.delivery[m] = v.delivery[m]
      BY <1>1
  <2>3. m \notin DOMAIN NoMessages
      BY DEF NoMessages
  <2>4. CASE m \in DOMAIN items
    <3>1. EndIsSound(w.ended[m], m, o)
      <4>1. w.ended[m] = "none"
          BY <1>1, <2>4
      <4> QED
          BY <4>1 DEF EndIsSound
    <3> QED
        BY <1>2, <2>1, <2>2, <2>3, <2>4, <3>1
  <2>5. CASE m \notin DOMAIN items
      BY <1>3, <2>1, <2>2, <2>3, <2>5
  <2> QED
      BY <2>4, <2>5
<1>5. \A m \in DOMAIN NoMessages : Faithful(NoMessages[m], m, ch, 0, o)
    BY DEF NoMessages
<1>6. ASSUME w.epoch > 0
      PROVE  /\ \A u \in People : IsRead(w.read[u], u, ch, 0, o)
             /\ IsVersion(w.conversation, ch, 0, o)
             /\ IsTotal(w.total, ch, 0, total)
             /\ \A m \in Held(o) : m >= w.cursor \/ ~w.more =>
                  m \in Held(w) \/ m \in DOMAIN NoMessages \/ Ahead(ch, 0, MessageSignals(m))
  <2>1. /\ \A u \in People : IsRead(v.read[u], u, ch, 0, o)
        /\ IsVersion(v.conversation, ch, 0, o)
        /\ IsTotal(v.total, ch, 0, total)
        /\ \A m \in Held(o) : m >= v.cursor \/ ~v.more =>
             m \in Held(v) \/ m \in DOMAIN items \/ Ahead(ch, 0, MessageSignals(m))
      BY <1>1, <1>6 DEF CanPush, WholeFair
  <2>2. \A m : m \in Held(v) \/ m \in DOMAIN items => m \in Held(w)
      BY <1>2, <1>3 DEF Held
  <2> QED
      BY <1>1, <2>1, <2>2
<1> QED
    BY <1>1, <1>4, <1>5, <1>6 DEF WindowFair, ShownFair, WholeFair

\* The next frame.
LEMMA FlushIsFair ==
    ASSUME NEW v \in Views, NEW q, IsQueue(q), NEW ch, NEW o, EndsShow(o),
           NEW before, NEW total, WindowFair(v, q, ch, o, before, total),
           NEW w, w = Pushed(v, q)
    PROVE  w \in Views /\ WindowFair(w, NoMessages, ch, o, before, total)
<1>1. CanPush(v, q, ch, o, before, total)
    BY DEF CanPush, WindowFair, ShownFair, WholeFair, MessageFair
<1> QED
    BY <1>1, PushIsFair

-----------------------------------------------------------------------------
(* The window takes the first signal *)

\* What is ahead in one channel is ahead in the other.
Closer(ch, i, c, j) == \A signals : Ahead(ch, i, signals) => Ahead(c, j, signals)

LEMMA NextIsCloser ==
    ASSUME NEW ch \in Seq(Signals), ch # <<>>, NEW i \in Nat
    PROVE  Closer(ch, i + 1, Tail(ch), i)
BY AheadNext DEF Closer

LEMMA PageFairCloser ==
    ASSUME NEW ch, NEW i, NEW c, NEW j, Closer(ch, i, c, j), NEW o, NEW before,
           NEW page, PageFair(page, ch, i, o, before)
    PROVE  PageFair(page, c, j, o, before)
BY DEF PageFair, Closer, Faithful, Counted, Delivered

LEMMA SignalFairCloser ==
    ASSUME NEW ch, NEW i, NEW c, NEW j, Closer(ch, i, c, j), NEW o, NEW before, NEW total,
           NEW s, SignalFair(s, ch, i, o, before, total)
    PROVE  SignalFair(s, c, j, o, before, total)
<1>1. s.kind = "message" => Faithful(s.data, s.of, c, j, o) /\ Delivered(0, s.of, c, j, o, before)
    BY DEF SignalFair, Closer, Faithful, Counted, Delivered
<1>2. s.kind = "readCount" => Counted(s.data, s.of, c, j, o)
    BY DEF SignalFair, Closer, Counted
<1>3. /\ s.kind = "conversation" => IsVersion(s.data, c, j, o)
      /\ s.kind = "progress" => IsTotal(s.total, c, j, total)
    BY DEF SignalFair, Closer, IsVersion, IsTotal
<1>4. s.kind \in {"page", "initial"} => PageFair(s.page, c, j, o, before)
    BY PageFairCloser DEF SignalFair
<1>5. s.kind = "initial" =>
        /\ \A u \in People : IsRead(s.read[u], u, c, j, o)
        /\ IsVersion(s.conversation, c, j, o)
        /\ IsTotal(s.total, c, j, total)
        /\ \A m \in Held(o) : m >= s.page.cursor \/ ~s.page.more =>
             m \in DOMAIN s.page.messages \/ Ahead(c, j, MessageSignals(m))
    BY DEF SignalFair, Closer, IsRead, IsVersion, IsTotal
<1> QED
    BY <1>1, <1>2, <1>3, <1>4, <1>5 DEF SignalFair

LEMMA ChannelFairNext ==
    ASSUME NEW ch \in Seq(Signals), ch # <<>>, NEW o, NEW before, NEW total,
           ChannelFair(ch, o, before, total)
    PROVE  /\ ChannelFair(Tail(ch), o, before, total)
           /\ SignalFair(Head(ch), Tail(ch), 0, o, before, total)
<1>1. ASSUME NEW i \in Nat, i + 1 \in DOMAIN ch
      PROVE  SignalFair(ch[i + 1], Tail(ch), i, o, before, total)
  <2>1. SignalFair(ch[i + 1], ch, i + 1, o, before, total)
      BY <1>1 DEF ChannelFair
  <2> QED
      BY <2>1, NextIsCloser, SignalFairCloser
<1>2. ASSUME NEW i \in DOMAIN Tail(ch)
      PROVE  SignalFair(Tail(ch)[i], Tail(ch), i, o, before, total)
  <2>1. i \in Nat /\ i + 1 \in DOMAIN ch /\ Tail(ch)[i] = ch[i + 1]
      OBVIOUS
  <2> QED
      BY <1>1, <2>1
<1>3. SignalFair(Head(ch), Tail(ch), 0, o, before, total)
  <2>1. 0 \in Nat /\ 0 + 1 \in DOMAIN ch /\ ch[0 + 1] = Head(ch)
      OBVIOUS
  <2> QED
      BY <1>1, <2>1
<1> QED
    BY <1>2, <1>3 DEF ChannelFair

LEMMA OnlyOfItsKind ==
    ASSUME NEW h
    PROVE  /\ \A m : h \in MessageSignals(m) => h.kind = "message" /\ h.of = m
           /\ \A m, kinds : h \in EndSignals(m, kinds) => h.kind \in kinds /\ h.of = m
           /\ \A m, n : h \in CountSignals(m, n) => h.kind = "readCount" /\ h.of = m /\ h.data = n
           /\ \A m, n : h \in DeliverySignals(m, n) => h.kind = "delivery" /\ h.of = m /\ h.data = n
           /\ \A u, n : h \in ReadSignals(u, n) => h.kind = "receipt" /\ h.by = u /\ h.data = n
           /\ \A n : h \in ConversationSignals(n) => h.kind = "conversation" /\ h.data = n
           /\ \A n : h \in ProgressSignals(n) => h.kind = "progress" /\ h.total = n
BY DEF MessageSignals, EndSignals, CountSignals, DeliverySignals, ReadSignals, ConversationSignals,
       ProgressSignals

\* What the first signal does not tell, the rest does.
LEMMA PastTheFirst ==
    ASSUME NEW ch \in Seq(Signals), ch # <<>>, NEW h, h = Head(ch), NEW o
    PROVE  /\ \A m, n : Counted(n, m, ch, 0, o) =>
                \/ Counted(n, m, Tail(ch), 0, o)
                \/ h.kind = "readCount" /\ h.of = m /\ h.data = o.count[m]
           /\ \A m, n, before : Delivered(n, m, ch, 0, o, before) =>
                \/ Delivered(n, m, Tail(ch), 0, o, before)
                \/ h.kind = "delivery" /\ h.of = m /\ h.data = o.delivery[m]
           /\ \A u, n : IsRead(n, u, ch, 0, o) =>
                \/ IsRead(n, u, Tail(ch), 0, o)
                \/ h.kind = "receipt" /\ h.by = u /\ h.data = o.read[u]
           /\ \A n : IsVersion(n, ch, 0, o) => IsVersion(n, Tail(ch), 0, o) \/ h.kind = "conversation"
           /\ \A n, total : IsTotal(n, ch, 0, total) =>
                IsTotal(n, Tail(ch), 0, total) \/ h.kind = "progress"
           /\ \A m, kinds : Ahead(ch, 0, EndSignals(m, kinds)) =>
                Ahead(Tail(ch), 0, EndSignals(m, kinds)) \/ (h.kind \in kinds /\ h.of = m)
           /\ \A m : Ahead(ch, 0, MessageSignals(m)) =>
                Ahead(Tail(ch), 0, MessageSignals(m)) \/ (h.kind = "message" /\ h.of = m)
<1>1. \A signals : Ahead(ch, 0, signals) => Ahead(Tail(ch), 0, signals) \/ h \in signals
    BY AheadOrHead
<1>2. \A m, n : Counted(n, m, ch, 0, o) =>
        \/ Counted(n, m, Tail(ch), 0, o)
        \/ h.kind = "readCount" /\ h.of = m /\ h.data = o.count[m]
    BY <1>1, OnlyOfItsKind DEF Counted
<1>3. \A m, n, before : Delivered(n, m, ch, 0, o, before) =>
        \/ Delivered(n, m, Tail(ch), 0, o, before)
        \/ h.kind = "delivery" /\ h.of = m /\ h.data = o.delivery[m]
    BY <1>1, OnlyOfItsKind DEF Delivered
<1>4. \A u, n : IsRead(n, u, ch, 0, o) =>
        \/ IsRead(n, u, Tail(ch), 0, o)
        \/ h.kind = "receipt" /\ h.by = u /\ h.data = o.read[u]
    BY <1>1, OnlyOfItsKind DEF IsRead
<1>5. /\ \A n : IsVersion(n, ch, 0, o) => IsVersion(n, Tail(ch), 0, o) \/ h.kind = "conversation"
      /\ \A n, total : IsTotal(n, ch, 0, total) => IsTotal(n, Tail(ch), 0, total) \/ h.kind = "progress"
    BY <1>1, OnlyOfItsKind DEF IsVersion, IsTotal
<1>6. /\ \A m, kinds : Ahead(ch, 0, EndSignals(m, kinds)) =>
           Ahead(Tail(ch), 0, EndSignals(m, kinds)) \/ (h.kind \in kinds /\ h.of = m)
      /\ \A m : Ahead(ch, 0, MessageSignals(m)) =>
           Ahead(Tail(ch), 0, MessageSignals(m)) \/ (h.kind = "message" /\ h.of = m)
    BY <1>1, OnlyOfItsKind
<1> QED
    BY <1>2, <1>3, <1>4, <1>5, <1>6

LEMMA FaithfulPast ==
    ASSUME NEW ch \in Seq(Signals), ch # <<>>, NEW h, h = Head(ch), NEW o, NEW m, NEW x,
           Faithful(x, m, ch, 0, o), h.kind \in {"readCount"} \cup Ends => h.of # m
    PROVE  Faithful(x, m, Tail(ch), 0, o)
<1>1. Counted(x.count, m, Tail(ch), 0, o)
  <2>1. Counted(x.count, m, ch, 0, o)
      BY DEF Faithful
  <2> QED
      BY <2>1, PastTheFirst
<1>2. /\ Ahead(ch, 0, EndSignals(m, Ends)) => Ahead(Tail(ch), 0, EndSignals(m, Ends))
      /\ Ahead(ch, 0, EndSignals(m, {"burn"})) => Ahead(Tail(ch), 0, EndSignals(m, {"burn"}))
    BY PastTheFirst DEF Ends
<1> QED
    BY <1>1, <1>2 DEF Faithful

\* The window as it is, but for what the first signal is about.
LEMMA ShownPast ==
    ASSUME NEW v \in Views, NEW q, IsQueue(q), NEW ch \in Seq(Signals), ch # <<>>, NEW h, h = Head(ch),
           NEW o, NEW before, ShownFair(v, q, ch, o, before),
           h.kind \notin {"readCount", "delivery"} \cup Ends
    PROVE  ShownFair(v, q, Tail(ch), o, before)
<1>1. \A m, x : Faithful(x, m, ch, 0, o) => Faithful(x, m, Tail(ch), 0, o)
    BY FaithfulPast
<1>2. \A m, n : Counted(n, m, ch, 0, o) => Counted(n, m, Tail(ch), 0, o)
    BY PastTheFirst
<1>3. \A m, n : Delivered(n, m, ch, 0, o, before) => Delivered(n, m, Tail(ch), 0, o, before)
    BY PastTheFirst
<1> QED
    BY <1>1, <1>2, <1>3 DEF ShownFair

LEMMA WholePast ==
    ASSUME NEW v, NEW q, NEW ch \in Seq(Signals), ch # <<>>, NEW h, h = Head(ch),
           NEW o, NEW total, WholeFair(v, q, ch, o, total)
    PROVE  /\ h.kind # "receipt" => \A u \in People : IsRead(v.read[u], u, Tail(ch), 0, o)
           /\ h.kind # "conversation" => IsVersion(v.conversation, Tail(ch), 0, o)
           /\ h.kind # "progress" => IsTotal(v.total, Tail(ch), 0, total)
           /\ \A m \in Held(o) : m >= v.cursor \/ ~v.more =>
                \/ m \in Held(v) \/ m \in DOMAIN q \/ Ahead(Tail(ch), 0, MessageSignals(m))
                \/ h.kind = "message" /\ h.of = m
<1>1. h.kind # "receipt" => \A u \in People : IsRead(v.read[u], u, Tail(ch), 0, o)
    BY PastTheFirst DEF WholeFair
<1>2. /\ h.kind # "conversation" => IsVersion(v.conversation, Tail(ch), 0, o)
      /\ h.kind # "progress" => IsTotal(v.total, Tail(ch), 0, total)
    BY PastTheFirst DEF WholeFair
<1>3. ASSUME NEW m \in Held(o), m >= v.cursor \/ ~v.more
      PROVE  \/ m \in Held(v) \/ m \in DOMAIN q \/ Ahead(Tail(ch), 0, MessageSignals(m))
             \/ h.kind = "message" /\ h.of = m
    BY <1>3, PastTheFirst DEF WholeFair
<1> QED
    BY <1>1, <1>2, <1>3

LEMMA WholeStays ==
    ASSUME NEW v, NEW q, NEW ch \in Seq(Signals), ch # <<>>, NEW h, h = Head(ch),
           h.kind \notin {"receipt", "conversation", "progress", "message"},
           NEW o, NEW total, WholeFair(v, q, ch, o, total)
    PROVE  WholeFair(v, q, Tail(ch), o, total)
<1>1. \A u \in People : IsRead(v.read[u], u, Tail(ch), 0, o)
    BY WholePast
<1>2. IsVersion(v.conversation, Tail(ch), 0, o)
    BY WholePast
<1>3. IsTotal(v.total, Tail(ch), 0, total)
    BY WholePast
<1>4. \A m \in Held(o) : m >= v.cursor \/ ~v.more =>
        m \in Held(v) \/ m \in DOMAIN q \/ Ahead(Tail(ch), 0, MessageSignals(m))
    BY WholePast
<1> QED
    BY <1>1, <1>2, <1>3, <1>4 DEF WholeFair

\* What the window shows, apart from its connection and what it waits for.
ShowsTheSame(v, w) ==
  /\ w.message = v.message /\ w.ended = v.ended /\ w.count = v.count /\ w.delivery = v.delivery
  /\ w.read = v.read /\ w.conversation = v.conversation
  /\ w.cursor = v.cursor /\ w.more = v.more /\ w.epoch = v.epoch

LEMMA QuietIsFair ==
    ASSUME NEW v \in Views, NEW q, IsQueue(q), NEW ch \in Seq(Signals), ch # <<>>, NEW h, h = Head(ch),
           NEW o, NEW before, NEW total, WindowFair(v, q, ch, o, before, total),
           h.kind \in {"connected", "lost", "page"},
           NEW w, ShowsTheSame(v, w), w.total = v.total
    PROVE  WindowFair(w, q, Tail(ch), o, before, total)
<1>1. ShownFair(v, q, Tail(ch), o, before)
    BY ShownPast DEF WindowFair, Ends
<1>2. v.epoch > 0 => WholeFair(v, q, Tail(ch), o, total)
    BY WholeStays DEF WindowFair
<1> QED
    BY <1>1, <1>2 DEF WindowFair, ShownFair, WholeFair, ShowsTheSame, Held

LEMMA ProgressIsFair ==
    ASSUME NEW v \in Views, NEW q, IsQueue(q), NEW ch \in Seq(Signals), ch # <<>>, NEW h, h = Head(ch),
           NEW o, NEW before, NEW total, WindowFair(v, q, ch, o, before, total),
           h.kind = "progress", SignalFair(h, Tail(ch), 0, o, before, total),
           NEW w, ShowsTheSame(v, w), w.total = h.total
    PROVE  WindowFair(w, q, Tail(ch), o, before, total)
<1>1. ShownFair(v, q, Tail(ch), o, before)
    BY ShownPast DEF WindowFair, Ends
<1>2. IsTotal(w.total, Tail(ch), 0, total)
    BY DEF SignalFair
<1>3. ASSUME v.epoch > 0
      PROVE  /\ \A u \in People : IsRead(v.read[u], u, Tail(ch), 0, o)
             /\ IsVersion(v.conversation, Tail(ch), 0, o)
             /\ \A m \in Held(o) : m >= v.cursor \/ ~v.more =>
                  m \in Held(v) \/ m \in DOMAIN q \/ Ahead(Tail(ch), 0, MessageSignals(m))
  <2>1. WholeFair(v, q, ch, o, total)
      BY <1>3 DEF WindowFair
  <2> QED
      BY <2>1, WholePast
<1> QED
    BY <1>1, <1>2, <1>3 DEF WindowFair, ShownFair, WholeFair, ShowsTheSame, Held

Kept(q, s) == [m \in DOMAIN q \cup {s.of} |-> IF m = s.of THEN s.data ELSE q[m]]

\* A message is kept until the next frame.
LEMMA MessageIsKept ==
    ASSUME NEW v \in Views, NEW q, IsQueue(q), NEW ch \in Seq(Signals), ch # <<>>, NEW h, h = Head(ch),
           NEW o \in Objects, NEW before, NEW total, WindowFair(v, q, ch, o, before, total),
           h.kind = "message", SignalFair(h, Tail(ch), 0, o, before, total),
           NEW q2, q2 = Kept(q, h)
    PROVE  IsQueue(q2) /\ WindowFair(v, q2, Tail(ch), o, before, total)
<1>1. /\ h.of \in Messages /\ h.data \in Shown
      /\ Faithful(h.data, h.of, Tail(ch), 0, o)
      /\ Delivered(0, h.of, Tail(ch), 0, o, before)
    BY SignalShape DEF SignalFair
<1>2. /\ DOMAIN q2 = DOMAIN q \cup {h.of}
      /\ \A m \in DOMAIN q2 : q2[m] = IF m = h.of THEN h.data ELSE q[m]
    BY DEF Kept
<1>3. IsQueue(q2)
    BY <1>1, <1>2 DEF IsQueue, Kept
<1>4. ShownFair(v, q, Tail(ch), o, before)
    BY ShownPast DEF WindowFair, Ends
<1>5. Delivered(v.delivery[h.of], h.of, Tail(ch), 0, o, before)
  <2>1. v.delivery[h.of] <= o.delivery[h.of]
      BY <1>1, <1>4 DEF ShownFair
  <2>2. v.delivery[h.of] \in Nat /\ o.delivery[h.of] \in Nat
      BY <1>1 DEF Views, Objects
  <2>3. o.delivery[h.of] = 0 => v.delivery[h.of] = o.delivery[h.of]
      BY <2>1, <2>2
  <2> QED
      BY <1>1, <2>3 DEF Delivered
<1>6. ShownFair(v, q2, Tail(ch), o, before)
  <2>1. \A m \in DOMAIN q2 : Faithful(q2[m], m, Tail(ch), 0, o)
      BY <1>1, <1>2, <1>4 DEF ShownFair
  <2>2. \A m \in Messages : v.message[m].by # Nobody \/ m \in DOMAIN q2 =>
          Delivered(v.delivery[m], m, Tail(ch), 0, o, before)
      BY <1>2, <1>4, <1>5 DEF ShownFair
  <2> QED
      BY <1>4, <2>1, <2>2 DEF ShownFair
<1>7. ASSUME v.epoch > 0
      PROVE  WholeFair(v, q2, Tail(ch), o, total)
  <2>1. WholeFair(v, q, ch, o, total)
      BY <1>7 DEF WindowFair
  <2>2. /\ \A u \in People : IsRead(v.read[u], u, Tail(ch), 0, o)
        /\ IsVersion(v.conversation, Tail(ch), 0, o)
        /\ IsTotal(v.total, Tail(ch), 0, total)
      BY <2>1, WholePast
  <2>3. \A m \in Held(o) : m >= v.cursor \/ ~v.more =>
          \/ m \in Held(v) \/ m \in DOMAIN q \/ Ahead(Tail(ch), 0, MessageSignals(m))
          \/ h.kind = "message" /\ h.of = m
      BY <2>1, WholePast
  <2> QED
      BY <1>2, <2>2, <2>3 DEF WholeFair
<1> QED
    BY <1>3, <1>6, <1>7 DEF WindowFair

-----------------------------------------------------------------------------
(* An update, on what was kept *)

LEMMA CountIsFair ==
    ASSUME NEW v \in Views, NEW ch \in Seq(Signals), ch # <<>>, NEW h \in Signals, h = Head(ch),
           NEW o \in Objects, NEW before, NEW total, WindowFair(v, NoMessages, ch, o, before, total),
           h.kind = "readCount", SignalFair(h, Tail(ch), 0, o, before, total),
           NEW w, w = Updated(v, h)
    PROVE  w \in Views /\ WindowFair(w, NoMessages, Tail(ch), o, before, total)
<1>1. h.of \in Messages /\ h.data \in Nat /\ h.data # 0 /\ Counted(h.data, h.of, Tail(ch), 0, o)
    BY SignalShape DEF SignalFair
<1>2. PICK at \in Nat, of \in Messages : at = h.data /\ of = h.of
    BY <1>1
<1>3. w = Count(v, of, at)
    BY <1>2, NewestShape
<1>4. PICK message \in [Messages -> Shown], count \in [Messages -> Nat] :
         CountTaken(v, of, at, message, count)
    BY CountShape
<1>5. /\ w \in Views /\ w.message = message /\ w.count = count
      /\ w.ended = v.ended /\ w.delivery = v.delivery /\ w.read = v.read
      /\ w.conversation = v.conversation /\ w.total = v.total /\ w.cursor = v.cursor
      /\ w.more = v.more /\ w.epoch = v.epoch
  <2>1. w = [v EXCEPT !.message = message, !.count = count]
      BY <1>3, <1>4 DEF CountTaken
  <2> QED
      BY <2>1 DEF Views
<1>6. ShownFair(v, NoMessages, ch, o, before)
    BY DEF WindowFair
<1>7. ASSUME NEW m \in Messages
      PROVE  /\ count[m] # 0 => /\ Counted(count[m], m, Tail(ch), 0, o)
                                /\ message[m].by # Nobody => message[m].count = count[m]
             /\ message[m].by # Nobody => Counted(message[m].count, m, Tail(ch), 0, o)
  <2>1. PICK n \in Nat, k \in Nat : n = v.count[m] /\ k = v.message[m].count
      BY DEF Views, Shown
  <2>2. /\ n # 0 => Counted(n, m, ch, 0, o) /\ (v.message[m].by # Nobody => k = n)
        /\ v.message[m].by # Nobody => Counted(k, m, ch, 0, o)
      BY <1>6, <2>1 DEF ShownFair, Faithful
  <2>3. CASE m # of
    <3>1. \A x : Counted(x, m, ch, 0, o) => Counted(x, m, Tail(ch), 0, o)
        BY <1>2, <2>3, PastTheFirst, SMTT(30)
    <3>2. count[m] = n /\ message[m].by = v.message[m].by /\ message[m].count = k
        BY <1>4, <2>1, <2>3 DEF CountTaken
    <3> QED
        BY <2>2, <3>1, <3>2
  <2>4. CASE m = of
    <3>1. PICK newest \in Nat : newest = o.count[m]
        BY DEF Objects
    <3>2. Counted(at, m, Tail(ch), 0, o)
        BY <1>1, <1>2, <2>4
    <3>3. at <= newest
        BY <3>1, <3>2 DEF Counted
    <3>4. \A x \in Nat : Counted(x, m, ch, 0, o) /\ x >= at => Counted(x, m, Tail(ch), 0, o)
      <4>1. ASSUME NEW x \in Nat, Counted(x, m, ch, 0, o), x >= at
            PROVE  Counted(x, m, Tail(ch), 0, o)
        <5>1. x <= newest
            BY <3>1, <4>1 DEF Counted
        <5>2. CASE at = newest
          <6>1. x = newest
              BY <4>1, <5>1, <5>2
          <6> QED
              BY <3>1, <5>1, <6>1 DEF Counted
        <5>3. CASE at # newest
          <6>1. Ahead(Tail(ch), 0, CountSignals(m, newest))
              BY <3>1, <3>2, <5>3 DEF Counted
          <6> QED
              BY <3>1, <5>1, <6>1 DEF Counted
        <5> QED
            BY <5>2, <5>3
      <4> QED
          BY <4>1
    <3>5. CASE at > n
      <4>1. count[m] = at /\ message[m].by = v.message[m].by
            /\ (message[m].by # Nobody => message[m].count = at)
          BY <1>4, <2>1, <2>4, <3>5 DEF CountTaken
      <4> QED
          BY <3>2, <4>1
    <3>6. CASE ~(at > n)
      <4>1. count[m] = n /\ message[m].by = v.message[m].by /\ message[m].count = k
          BY <1>4, <2>1, <2>4, <3>6 DEF CountTaken
      <4>2. n # 0 /\ n >= at
          BY <1>1, <1>2, <3>6
      <4>3. Counted(n, m, Tail(ch), 0, o)
          BY <2>2, <3>4, <4>2
      <4> QED
          BY <2>2, <4>1, <4>2, <4>3
    <3> QED
        BY <3>5, <3>6
  <2> QED
      BY <2>3, <2>4
<1>8. ASSUME NEW m \in Messages
      PROVE  /\ IF message[m].by = Nobody THEN ~message[m].recalled /\ ~message[m].burned
                ELSE Faithful(message[m], m, Tail(ch), 0, o)
             /\ EndIsSound(v.ended[m], m, o)
             /\ v.delivery[m] <= o.delivery[m]
             /\ message[m].by # Nobody \/ m \in DOMAIN NoMessages =>
                  Delivered(v.delivery[m], m, Tail(ch), 0, o, before)
  <2>1. /\ IF v.message[m].by = Nobody THEN ~v.message[m].recalled /\ ~v.message[m].burned
           ELSE Faithful(v.message[m], m, ch, 0, o)
        /\ EndIsSound(v.ended[m], m, o)
        /\ v.delivery[m] <= o.delivery[m]
        /\ v.message[m].by # Nobody \/ m \in DOMAIN NoMessages =>
             Delivered(v.delivery[m], m, ch, 0, o, before)
      BY <1>6 DEF ShownFair
  <2>2. /\ message[m].by = v.message[m].by /\ message[m].text = v.message[m].text
        /\ message[m].recalled = v.message[m].recalled /\ message[m].burned = v.message[m].burned
      BY <1>4 DEF CountTaken
  <2>3. /\ Ahead(ch, 0, EndSignals(m, Ends)) => Ahead(Tail(ch), 0, EndSignals(m, Ends))
        /\ Ahead(ch, 0, EndSignals(m, {"burn"})) => Ahead(Tail(ch), 0, EndSignals(m, {"burn"}))
        /\ \A n : Delivered(n, m, ch, 0, o, before) => Delivered(n, m, Tail(ch), 0, o, before)
      BY PastTheFirst DEF Ends
  <2>4. message[m].by # Nobody => Faithful(message[m], m, Tail(ch), 0, o)
      BY <1>7, <2>1, <2>2, <2>3 DEF Faithful
  <2> QED
      BY <2>1, <2>2, <2>3, <2>4
<1>9. ShownFair(w, NoMessages, Tail(ch), o, before)
  <2>1. \A m \in DOMAIN NoMessages : Faithful(NoMessages[m], m, Tail(ch), 0, o)
      BY DEF NoMessages
  <2> QED
      BY <1>5, <1>7, <1>8, <2>1 DEF ShownFair
<1>10. Held(w) = Held(v)
    BY <1>4, <1>5 DEF CountTaken, Held
<1>11. v.epoch > 0 => WholeFair(w, NoMessages, Tail(ch), o, total)
  <2>1. v.epoch > 0 => WholeFair(v, NoMessages, Tail(ch), o, total)
      BY WholeStays DEF WindowFair
  <2> QED
      BY <1>5, <1>10, <2>1 DEF WholeFair
<1> QED
    BY <1>5, <1>9, <1>11 DEF WindowFair

LEMMA DeliveryIsFair ==
    ASSUME NEW v \in Views, NEW ch \in Seq(Signals), ch # <<>>, NEW h \in Signals, h = Head(ch),
           NEW o \in Objects, NEW before, NEW total, WindowFair(v, NoMessages, ch, o, before, total),
           h.kind = "delivery", SignalFair(h, Tail(ch), 0, o, before, total),
           NEW w, w = Updated(v, h)
    PROVE  w \in Views /\ WindowFair(w, NoMessages, Tail(ch), o, before, total)
<1>1. h.of \in Messages /\ h.data \in Nat /\ h.data <= o.delivery[h.of]
    BY SignalShape DEF SignalFair
<1>2. PICK delivery \in [Messages -> Nat] : DeliveryTaken(v, h, delivery)
    BY <1>1, NewestShape
<1>3. /\ w \in Views /\ w.delivery = delivery
      /\ w.message = v.message /\ w.count = v.count /\ w.ended = v.ended /\ w.read = v.read
      /\ w.conversation = v.conversation /\ w.total = v.total /\ w.cursor = v.cursor
      /\ w.more = v.more /\ w.epoch = v.epoch
  <2>1. w = [v EXCEPT !.delivery = delivery]
      BY <1>2 DEF DeliveryTaken
  <2> QED
      BY <2>1 DEF Views
<1>4. ShownFair(v, NoMessages, ch, o, before)
    BY DEF WindowFair
<1>5. ASSUME NEW m \in Messages
      PROVE  /\ delivery[m] <= o.delivery[m]
             /\ v.message[m].by # Nobody => Delivered(delivery[m], m, Tail(ch), 0, o, before)
  <2>1. PICK old \in Nat, at \in Nat, newest \in Nat :
          old = v.delivery[m] /\ at = h.data /\ newest = o.delivery[m]
      BY <1>1 DEF Views, Objects
  <2>2. /\ old <= newest
        /\ v.message[m].by # Nobody => Delivered(old, m, ch, 0, o, before)
      BY <1>4, <2>1 DEF ShownFair
  <2>3. delivery[m] = IF m = h.of THEN Later(old, at) ELSE old
      BY <1>2, <2>1 DEF DeliveryTaken
  <2>4. Delivered(old, m, ch, 0, o, before) =>
          Delivered(old, m, Tail(ch), 0, o, before) \/ (h.of = m /\ at = newest)
      BY <2>1, PastTheFirst
  <2>5. CASE m # h.of
      BY <2>1, <2>2, <2>3, <2>4, <2>5
  <2>6. CASE m = h.of
    <3>1. at <= newest
        BY <1>1, <2>1, <2>6
    <3>2. delivery[m] <= newest /\ (delivery[m] = old \/ (delivery[m] = at /\ at > old))
        BY <2>2, <2>3, <2>6, <3>1 DEF Later
    <3>3. CASE delivery[m] = newest
        BY <2>1, <3>3 DEF Delivered
    <3>4. CASE delivery[m] # newest
      <4>1. at # newest /\ old # newest
          BY <2>2, <2>3, <2>6, <3>1, <3>4 DEF Later
      <4>2. Delivered(old, m, ch, 0, o, before) => Delivered(delivery[m], m, Tail(ch), 0, o, before)
        <5>1. Delivered(old, m, ch, 0, o, before) => Delivered(old, m, Tail(ch), 0, o, before)
            BY <2>4, <4>1
        <5> QED
            BY <2>1, <4>1, <5>1 DEF Delivered
      <4> QED
          BY <2>1, <2>2, <3>2, <4>2
    <3> QED
        BY <2>1, <2>2, <3>2, <3>3, <3>4
  <2> QED
      BY <2>5, <2>6
<1>6. ShownFair(w, NoMessages, Tail(ch), o, before)
  <2>1. \A m, x : Faithful(x, m, ch, 0, o) => Faithful(x, m, Tail(ch), 0, o)
      BY FaithfulPast DEF Ends
  <2>2. \A m, n : Counted(n, m, ch, 0, o) => Counted(n, m, Tail(ch), 0, o)
      BY PastTheFirst
  <2>3. DOMAIN NoMessages = {}
      BY DEF NoMessages
  <2> QED
      BY <1>3, <1>4, <1>5, <2>1, <2>2, <2>3 DEF ShownFair
<1>7. Held(w) = Held(v)
    BY <1>3 DEF Held
<1>8. v.epoch > 0 => WholeFair(w, NoMessages, Tail(ch), o, total)
  <2>1. v.epoch > 0 => WholeFair(v, NoMessages, Tail(ch), o, total)
      BY WholeStays DEF WindowFair
  <2> QED
      BY <1>3, <1>7, <2>1 DEF WholeFair
<1> QED
    BY <1>3, <1>6, <1>8 DEF WindowFair

LEMMA ReceiptIsFair ==
    ASSUME NEW v \in Views, NEW ch \in Seq(Signals), ch # <<>>, NEW h \in Signals, h = Head(ch),
           NEW o \in Objects, NEW before, NEW total, WindowFair(v, NoMessages, ch, o, before, total),
           h.kind = "receipt", SignalFair(h, Tail(ch), 0, o, before, total),
           NEW w, w = Updated(v, h)
    PROVE  w \in Views /\ WindowFair(w, NoMessages, Tail(ch), o, before, total)
<1>1. h.by \in People /\ h.data \in Nat /\ h.data <= o.read[h.by]
    BY SignalShape DEF SignalFair
<1>2. PICK read \in [People -> Nat] : ReadTaken(v, h, read)
    BY <1>1, NewestShape
<1>3. /\ w \in Views /\ w.read = read
      /\ w.message = v.message /\ w.count = v.count /\ w.ended = v.ended /\ w.delivery = v.delivery
      /\ w.conversation = v.conversation /\ w.total = v.total /\ w.cursor = v.cursor
      /\ w.more = v.more /\ w.epoch = v.epoch
  <2>1. w = [v EXCEPT !.read = read]
      BY <1>2 DEF ReadTaken
  <2> QED
      BY <2>1 DEF Views
<1>4. ShownFair(v, NoMessages, Tail(ch), o, before)
  <2>1. NoMessages \in [{} -> Shown] /\ IsQueue(NoMessages)
      BY DEF NoMessages, IsQueue
  <2> QED
      BY <2>1, ShownPast DEF WindowFair, Ends
<1>5. ShownFair(w, NoMessages, Tail(ch), o, before)
    BY <1>3, <1>4 DEF ShownFair
<1>6. ASSUME NEW u \in People, IsRead(v.read[u], u, ch, 0, o)
      PROVE  IsRead(read[u], u, Tail(ch), 0, o)
  <2>1. PICK old \in Nat, at \in Nat, newest \in Nat :
          old = v.read[u] /\ at = h.data /\ newest = o.read[u]
      BY <1>1 DEF Views, Objects
  <2>2. old <= newest
      BY <1>6, <2>1 DEF IsRead
  <2>3. read[u] = IF u = h.by THEN Later(old, at) ELSE old
      BY <1>2, <2>1 DEF ReadTaken
  <2>4. IsRead(old, u, Tail(ch), 0, o) \/ (h.by = u /\ at = newest)
      BY <1>6, <2>1, PastTheFirst
  <2>5. CASE u # h.by
      BY <2>3, <2>4, <2>5
  <2>6. CASE u = h.by
    <3>1. at <= newest
        BY <1>1, <2>1, <2>6
    <3>2. read[u] <= newest /\ (at = newest \/ old = newest => read[u] = newest)
        BY <2>2, <2>3, <2>6, <3>1 DEF Later
    <3>3. CASE read[u] = newest
        BY <2>1, <3>2, <3>3 DEF IsRead
    <3>4. CASE read[u] # newest
      <4>1. Ahead(Tail(ch), 0, ReadSignals(u, newest))
          BY <2>1, <2>4, <3>2, <3>4 DEF IsRead
      <4> QED
          BY <2>1, <3>2, <4>1 DEF IsRead
    <3> QED
        BY <3>3, <3>4
  <2> QED
      BY <2>5, <2>6
<1>7. Held(w) = Held(v)
    BY <1>3 DEF Held
<1>8. ASSUME v.epoch > 0
      PROVE  WholeFair(w, NoMessages, Tail(ch), o, total)
  <2>1. WholeFair(v, NoMessages, ch, o, total)
      BY <1>8 DEF WindowFair
  <2>2. \A u \in People : IsRead(read[u], u, Tail(ch), 0, o)
      BY <1>6, <2>1 DEF WholeFair
  <2>3. /\ IsVersion(v.conversation, Tail(ch), 0, o)
        /\ IsTotal(v.total, Tail(ch), 0, total)
        /\ \A m \in Held(o) : m >= v.cursor \/ ~v.more =>
             m \in Held(v) \/ m \in DOMAIN NoMessages \/ Ahead(Tail(ch), 0, MessageSignals(m))
      BY <2>1, WholePast
  <2> QED
      BY <1>3, <1>7, <2>2, <2>3 DEF WholeFair
<1> QED
    BY <1>3, <1>5, <1>8 DEF WindowFair

LEMMA ConversationIsFair ==
    ASSUME NEW v \in Views, NEW ch \in Seq(Signals), ch # <<>>, NEW h \in Signals, h = Head(ch),
           NEW o \in Objects, NEW before, NEW total, WindowFair(v, NoMessages, ch, o, before, total),
           h.kind = "conversation", SignalFair(h, Tail(ch), 0, o, before, total),
           NEW w, w = Updated(v, h)
    PROVE  w \in Views /\ WindowFair(w, NoMessages, Tail(ch), o, before, total)
<1>1. h.data \in Nat /\ IsVersion(h.data, Tail(ch), 0, o)
    BY SignalShape DEF SignalFair
<1>2. w = [v EXCEPT !.conversation = h.data]
    BY NewestShape
<1>3. /\ w \in Views /\ w.conversation = h.data /\ w.read = v.read
      /\ w.message = v.message /\ w.count = v.count /\ w.ended = v.ended /\ w.delivery = v.delivery
      /\ w.total = v.total /\ w.cursor = v.cursor /\ w.more = v.more /\ w.epoch = v.epoch
    BY <1>1, <1>2 DEF Views
<1>4. ShownFair(v, NoMessages, Tail(ch), o, before)
  <2>1. IsQueue(NoMessages)
      BY DEF NoMessages, IsQueue
  <2> QED
      BY <2>1, ShownPast DEF WindowFair, Ends
<1>5. ShownFair(w, NoMessages, Tail(ch), o, before)
    BY <1>3, <1>4 DEF ShownFair
<1>6. Held(w) = Held(v)
    BY <1>3 DEF Held
<1>7. ASSUME v.epoch > 0
      PROVE  WholeFair(w, NoMessages, Tail(ch), o, total)
  <2>1. WholeFair(v, NoMessages, ch, o, total)
      BY <1>7 DEF WindowFair
  <2>2. /\ \A u \in People : IsRead(v.read[u], u, Tail(ch), 0, o)
        /\ IsTotal(v.total, Tail(ch), 0, total)
        /\ \A m \in Held(o) : m >= v.cursor \/ ~v.more =>
             m \in Held(v) \/ m \in DOMAIN NoMessages \/ Ahead(Tail(ch), 0, MessageSignals(m))
      BY <2>1, WholePast
  <2> QED
      BY <1>1, <1>3, <1>6, <2>2 DEF WholeFair
<1> QED
    BY <1>3, <1>5, <1>7 DEF WindowFair

LEMMA EndIsFair ==
    ASSUME NEW v \in Views, NEW ch \in Seq(Signals), ch # <<>>, NEW h \in Signals, h = Head(ch),
           NEW o \in Objects, EndsShow(o), NEW before, NEW total,
           WindowFair(v, NoMessages, ch, o, before, total),
           h.kind \in Ends, SignalFair(h, Tail(ch), 0, o, before, total),
           NEW w, w = Updated(v, h)
    PROVE  w \in Views /\ WindowFair(w, NoMessages, Tail(ch), o, before, total)
<1>1. h.of \in Messages /\ EndIsSound(h.kind, h.of, o) /\ h.kind # "none"
    BY SignalShape DEF SignalFair, Ends
<1>2. PICK message \in [Messages -> Shown], ended \in [Messages -> {"none"} \cup Ends] :
         EndTaken(v, h, message, ended)
    BY <1>1, EndShape
<1>3. /\ w \in Views /\ w.message = message /\ w.ended = ended
      /\ w.count = v.count /\ w.delivery = v.delivery /\ w.read = v.read
      /\ w.conversation = v.conversation /\ w.total = v.total /\ w.cursor = v.cursor
      /\ w.more = v.more /\ w.epoch = v.epoch
  <2>1. w = [v EXCEPT !.message = message, !.ended = ended]
      BY <1>2 DEF EndTaken
  <2> QED
      BY <2>1 DEF Views
<1>4. ShownFair(v, NoMessages, ch, o, before)
    BY DEF WindowFair
<1>5. ASSUME NEW m \in Messages
      PROVE  /\ IF message[m].by = Nobody THEN ~message[m].recalled /\ ~message[m].burned
                ELSE Faithful(message[m], m, Tail(ch), 0, o)
             /\ EndIsSound(ended[m], m, o)
             /\ message[m].by = v.message[m].by /\ message[m].count = v.message[m].count
  <2>1. PICK old \in Shown, end \in {"none"} \cup Ends : old = v.message[m] /\ end = v.ended[m]
      BY DEF Views
  <2>2. /\ IF old.by = Nobody THEN ~old.recalled /\ ~old.burned ELSE Faithful(old, m, ch, 0, o)
        /\ EndIsSound(end, m, o)
      BY <1>4, <2>1 DEF ShownFair
  <2>3. /\ message[m] = IF m = h.of /\ old.by # Nobody THEN Protected(old, h.kind) ELSE old
        /\ ended[m] = IF m = h.of /\ old.by = Nobody THEN Ended(end, h.kind) ELSE end
      BY <1>2, <2>1 DEF EndTaken
  <2>4. CASE m # h.of
    <3>1. message[m] = old /\ ended[m] = end
        BY <2>3, <2>4
    <3>2. Faithful(old, m, ch, 0, o) => Faithful(old, m, Tail(ch), 0, o)
        BY <2>4, FaithfulPast
    <3> QED
        BY <2>1, <2>2, <3>1, <3>2
  <2>5. CASE m = h.of /\ old.by = Nobody
    <3>1. message[m] = old /\ ended[m] = Ended(end, h.kind)
        BY <2>3, <2>5
    <3>2. PICK next \in Ends : /\ next = Ended(end, h.kind) /\ next # "none"
                               /\ next = "burn" <=> end = "burn" \/ h.kind = "burn"
        BY EndedShape
    <3>3. EndIsSound(next, m, o)
        BY <1>1, <2>2, <2>5, <3>2 DEF EndIsSound
    <3> QED
        BY <2>1, <2>2, <2>5, <3>1, <3>2, <3>3
  <2>6. CASE m = h.of /\ old.by # Nobody
    <3>1. message[m] = Protected(old, h.kind) /\ ended[m] = end
        BY <2>3, <2>6
    <3>2. PICK new \in Shown : new = Protected(old, h.kind)
        BY ProtectedShows
    <3>3. /\ new.by = old.by /\ new.count = old.count /\ new.recalled = TRUE /\ new.text = FALSE
          /\ new.burned <=> old.burned \/ h.kind = "burn"
        BY <3>2, ProtectedShows
    <3>4. /\ old.by = o.message[m].by
          /\ old.burned => o.message[m].burned
          /\ o.message[m].burned => old.burned \/ Ahead(ch, 0, EndSignals(m, {"burn"}))
          /\ Counted(old.count, m, ch, 0, o)
        BY <2>2, <2>6 DEF Faithful
    <3>5. o.message[m].recalled /\ (h.kind = "burn" => o.message[m].burned)
        BY <1>1, <2>6, <3>4 DEF EndIsSound, EndsShow
    <3>6. Ahead(ch, 0, EndSignals(m, {"burn"})) =>
            Ahead(Tail(ch), 0, EndSignals(m, {"burn"})) \/ h.kind = "burn"
        BY PastTheFirst
    <3>7. Counted(old.count, m, Tail(ch), 0, o)
        BY <3>4, PastTheFirst DEF Ends
    <3>8. Faithful(new, m, Tail(ch), 0, o)
        BY <2>6, <3>3, <3>4, <3>5, <3>6, <3>7 DEF Faithful
    <3> QED
        BY <2>1, <2>2, <2>6, <3>1, <3>2, <3>3, <3>8
  <2> QED
      BY <2>4, <2>5, <2>6
<1>6. ShownFair(w, NoMessages, Tail(ch), o, before)
  <2>1. \A m, n : Counted(n, m, ch, 0, o) => Counted(n, m, Tail(ch), 0, o)
      BY PastTheFirst DEF Ends
  <2>2. \A m, n : Delivered(n, m, ch, 0, o, before) => Delivered(n, m, Tail(ch), 0, o, before)
      BY PastTheFirst DEF Ends
  <2>3. DOMAIN NoMessages = {}
      BY DEF NoMessages
  <2> QED
      BY <1>3, <1>4, <1>5, <2>1, <2>2, <2>3 DEF ShownFair
<1>7. Held(w) = Held(v)
    BY <1>3, <1>5 DEF Held
<1>8. ASSUME v.epoch > 0
      PROVE  WholeFair(w, NoMessages, Tail(ch), o, total)
  <2>1. h.kind \notin {"message", "receipt", "conversation", "progress"}
      BY DEF Ends
  <2>2. WholeFair(v, NoMessages, ch, o, total)
      BY <1>8 DEF WindowFair
  <2>3. /\ \A u \in People : IsRead(v.read[u], u, Tail(ch), 0, o)
        /\ IsVersion(v.conversation, Tail(ch), 0, o)
        /\ IsTotal(v.total, Tail(ch), 0, total)
      BY <2>1, <2>2, WholePast
  <2>4. \A m \in Held(o) : m >= v.cursor \/ ~v.more =>
          m \in Held(v) \/ m \in DOMAIN NoMessages \/ Ahead(Tail(ch), 0, MessageSignals(m))
      BY <2>1, <2>2, WholePast
  <2> QED
      BY <1>3, <1>7, <2>3, <2>4 DEF WholeFair
<1> QED
    BY <1>3, <1>6, <1>8 DEF WindowFair

\* An update shows what was kept, then itself.
LEMMA UpdateIsFair ==
    ASSUME NEW v \in Views, NEW q, IsQueue(q), NEW ch \in Seq(Signals), ch # <<>>,
           NEW h \in Signals, h = Head(ch), NEW o \in Objects, EndsShow(o), NEW before, NEW total,
           WindowFair(v, q, ch, o, before, total), SignalFair(h, Tail(ch), 0, o, before, total),
           h.kind \in {"readCount", "delivery", "receipt", "conversation"} \cup Ends,
           NEW w, w = Updated(Pushed(v, q), h)
    PROVE  w \in Views /\ WindowFair(w, NoMessages, Tail(ch), o, before, total)
<1>1. PICK f : f = Pushed(v, q)
    OBVIOUS
<1>2. f \in Views /\ WindowFair(f, NoMessages, ch, o, before, total)
    BY <1>1, FlushIsFair
<1>3. w = Updated(f, h)
    BY <1>1
<1>4. h.kind = "readCount" => w \in Views /\ WindowFair(w, NoMessages, Tail(ch), o, before, total)
    BY <1>2, <1>3, CountIsFair
<1>5. h.kind = "delivery" => w \in Views /\ WindowFair(w, NoMessages, Tail(ch), o, before, total)
    BY <1>2, <1>3, DeliveryIsFair
<1>6. h.kind = "receipt" => w \in Views /\ WindowFair(w, NoMessages, Tail(ch), o, before, total)
    BY <1>2, <1>3, ReceiptIsFair
<1>7. h.kind = "conversation" => w \in Views /\ WindowFair(w, NoMessages, Tail(ch), o, before, total)
    BY <1>2, <1>3, ConversationIsFair
<1>8. h.kind \in Ends => w \in Views /\ WindowFair(w, NoMessages, Tail(ch), o, before, total)
    BY <1>2, <1>3, EndIsFair
<1> QED
    BY <1>4, <1>5, <1>6, <1>7, <1>8

-----------------------------------------------------------------------------
(* The snapshot, and a page of history *)

LEMMA SnapshotIsFair ==
    ASSUME NEW v \in Views, NEW h \in Signals, h.kind = "initial", NEW ch, NEW o \in Objects,
           NEW before, NEW total, SignalFair(h, ch, 0, o, before, total),
           NEW w, w = Initial(v, h)
    PROVE  w \in Views /\ WindowFair(w, NoMessages, ch, o, before, total)
<1>1. /\ h.page \in SomePages /\ h.read \in [People -> Nat] /\ h.conversation \in Nat /\ h.total \in Int
      /\ PageFair(h.page, ch, 0, o, before)
      /\ \A u \in People : IsRead(h.read[u], u, ch, 0, o)
      /\ IsVersion(h.conversation, ch, 0, o)
      /\ IsTotal(h.total, ch, 0, total)
      /\ \A m \in Held(o) : m >= h.page.cursor \/ ~h.page.more =>
           m \in DOMAIN h.page.messages \/ Ahead(ch, 0, MessageSignals(m))
    BY SignalShape DEF SignalFair
<1>2. PICK S \in SUBSET Messages : h.page \in Pages(S)
    BY <1>1 DEF SomePages
<1>3. DOMAIN h.page.messages = S
    BY <1>2 DEF Pages
<1>4. w \in Views /\ InitialTaken(v, h, S, w)
    BY <1>1, <1>2, InitialShape
<1>5. ASSUME NEW m \in Messages
      PROVE  /\ IF w.message[m].by = Nobody THEN ~w.message[m].recalled /\ ~w.message[m].burned
                ELSE Faithful(w.message[m], m, ch, 0, o)
             /\ EndIsSound(w.ended[m], m, o)
             /\ w.count[m] # 0 => /\ Counted(w.count[m], m, ch, 0, o)
                                  /\ w.message[m].by # Nobody => w.message[m].count = w.count[m]
             /\ w.delivery[m] <= o.delivery[m]
             /\ w.message[m].by # Nobody => Delivered(w.delivery[m], m, ch, 0, o, before)
             /\ m \in S => w.message[m].by # Nobody
  <2>1. EndIsSound(w.ended[m], m, o)
      BY <1>4 DEF InitialTaken, EndIsSound
  <2>2. CASE m \in S
    <3>1. /\ Faithful(h.page.messages[m], m, ch, 0, o)
          /\ h.page.deliveries[m] <= o.delivery[m]
          /\ Delivered(h.page.deliveries[m], m, ch, 0, o, before)
        BY <1>1, <1>3, <2>2 DEF PageFair
    <3>2. /\ w.message[m] = h.page.messages[m] /\ w.delivery[m] = h.page.deliveries[m]
          /\ w.count[m] = w.message[m].count
        BY <1>4, <2>2 DEF InitialTaken
    <3>3. w.message[m].by # Nobody /\ Counted(w.message[m].count, m, ch, 0, o)
        BY <3>1, <3>2 DEF Faithful
    <3> QED
        BY <2>1, <3>1, <3>2, <3>3
  <2>3. CASE m \notin S
    <3>1. w.message[m] = NoItem /\ w.delivery[m] = 0 /\ w.count[m] = w.message[m].count
        BY <1>4, <2>3 DEF InitialTaken
    <3>2. /\ w.message[m].by = Nobody /\ ~w.message[m].recalled /\ ~w.message[m].burned
          /\ w.message[m].count = 0
        BY <3>1 DEF NoItem
    <3>3. 0 <= o.delivery[m]
        BY DEF Objects
    <3> QED
        BY <2>1, <2>3, <3>1, <3>2, <3>3
  <2> QED
      BY <2>2, <2>3
<1>6. ShownFair(w, NoMessages, ch, o, before)
  <2>1. DOMAIN NoMessages = {}
      BY DEF NoMessages
  <2> QED
      BY <1>5, <2>1 DEF ShownFair
<1>7. WholeFair(w, NoMessages, ch, o, total)
  <2>1. \A m \in Messages : m \in S => m \in Held(w)
      BY <1>5 DEF Held
  <2>2. \A m \in Held(o) : m >= w.cursor \/ ~w.more =>
          m \in Held(w) \/ m \in DOMAIN NoMessages \/ Ahead(ch, 0, MessageSignals(m))
      BY <1>1, <1>3, <1>4, <2>1 DEF InitialTaken
  <2> QED
      BY <1>1, <1>4, <2>2 DEF InitialTaken, WholeFair
<1> QED
    BY <1>4, <1>6, <1>7 DEF WindowFair

LEMMA LaterIsCounted ==
    ASSUME NEW ch, NEW o, NEW m, NEW a \in Nat, NEW b \in Nat,
           a # 0 => Counted(a, m, ch, 0, o), Counted(b, m, ch, 0, o)
    PROVE  Counted(Later(a, b), m, ch, 0, o)
<1>1. CASE a > b
  <2>1. Later(a, b) = a /\ a # 0
      BY <1>1 DEF Later
  <2> QED
      BY <2>1
<1>2. CASE ~(a > b)
  <2>1. Later(a, b) = b
      BY <1>2 DEF Later
  <2> QED
      BY <2>1
<1> QED
    BY <1>1, <1>2

LEMMA LaterIsDelivered ==
    ASSUME NEW ch, NEW o \in Objects, NEW before, NEW m \in Messages, NEW a \in Nat, NEW b \in Nat,
           a <= o.delivery[m], b <= o.delivery[m], Delivered(b, m, ch, 0, o, before)
    PROVE  Later(a, b) <= o.delivery[m] /\ Delivered(Later(a, b), m, ch, 0, o, before)
<1>1. PICK newest \in Nat : newest = o.delivery[m]
    BY DEF Objects
<1>2. Later(a, b) <= newest /\ (b = newest => Later(a, b) = newest)
    BY <1>1 DEF Later
<1> QED
    BY <1>1, <1>2 DEF Delivered

LEMMA PageTakenIsFair ==
    ASSUME NEW v \in Views, NEW q, IsQueue(q), NEW ch \in Seq(Signals), ch # <<>>,
           NEW h \in Signals, h = Head(ch), NEW o \in Objects, EndsShow(o), NEW before, NEW total,
           WindowFair(v, q, ch, o, before, total), SignalFair(h, Tail(ch), 0, o, before, total),
           h.kind = "page",
           \A m \in Held(o) : m < v.cursor /\ (m >= h.page.cursor \/ ~h.page.more) =>
             m \in DOMAIN h.page.messages \/ Ahead(Tail(ch), 0, MessageSignals(m)),
           NEW w, w = WithHistory(Pushed(v, q), h.page)
    PROVE  w \in Views /\ WindowFair(w, NoMessages, Tail(ch), o, before, total)
<1>1. PICK f : f = Pushed(v, q)
    OBVIOUS
<1>2. f \in Views /\ WindowFair(f, NoMessages, ch, o, before, total)
    BY <1>1, FlushIsFair
<1>3. WindowFair(f, NoMessages, Tail(ch), o, before, total)
  <2>1. IsQueue(NoMessages) /\ ShowsTheSame(f, f) /\ f.total = f.total
      BY DEF NoMessages, IsQueue, ShowsTheSame
  <2> QED
      BY <1>2, <2>1, QuietIsFair
<1>4. PICK S \in SUBSET Messages : h.page \in Pages(S)
    BY SignalShape DEF SomePages
<1>5. /\ DOMAIN h.page.messages = S /\ h.page.messages \in [S -> Shown]
      /\ h.page.deliveries \in [S -> Nat] /\ h.page.cursor \in Nat
    BY <1>4 DEF Pages
<1>6. IsQueue(h.page.messages)
    BY <1>4, HistoryShape
<1>7. PICK g \in Views : HistoryTaken(f, S, h.page, g)
    BY <1>2, <1>4, HistoryShape
<1>8. PageFair(h.page, Tail(ch), 0, o, before)
    BY DEF SignalFair
<1>9. ShownFair(f, NoMessages, Tail(ch), o, before)
    BY <1>3 DEF WindowFair
<1>10. ASSUME NEW m \in Messages
       PROVE  /\ MessageFair(g, m, Tail(ch), 0, o)
              /\ g.message[m].by # Nobody /\ m \notin DOMAIN h.page.messages /\ g.count[m] # 0 =>
                   g.message[m].count = g.count[m]
              /\ g.delivery[m] <= o.delivery[m]
              /\ g.message[m].by # Nobody \/ m \in DOMAIN h.page.messages =>
                   Delivered(g.delivery[m], m, Tail(ch), 0, o, before)
  <2>1. PICK old \in Nat, sent \in Nat : old = f.count[m] /\ sent = f.delivery[m]
      BY <1>2 DEF Views
  <2>2. /\ f.message[m].by = Nobody => ~f.message[m].recalled /\ ~f.message[m].burned
        /\ f.message[m].by # Nobody => Faithful(f.message[m], m, Tail(ch), 0, o)
        /\ EndIsSound(f.ended[m], m, o)
        /\ old # 0 => Counted(old, m, Tail(ch), 0, o)
        /\ old # 0 /\ f.message[m].by # Nobody => f.message[m].count = old
        /\ sent <= o.delivery[m]
        /\ f.message[m].by # Nobody => Delivered(sent, m, Tail(ch), 0, o, before)
      BY <1>9, <2>1 DEF ShownFair
  <2>3. g.message[m] = f.message[m] /\ g.ended[m] = f.ended[m]
      BY <1>7 DEF HistoryTaken
  <2>4. CASE m \in S
    <3>1. PICK n \in Nat, d \in Nat : n = h.page.messages[m].count /\ d = h.page.deliveries[m]
        BY <1>5, <2>4 DEF Shown
    <3>2. Counted(n, m, Tail(ch), 0, o) /\ d <= o.delivery[m] /\ Delivered(d, m, Tail(ch), 0, o, before)
        BY <1>5, <1>8, <2>4, <3>1 DEF PageFair, Faithful
    <3>3. g.count[m] = Later(old, n) /\ g.delivery[m] = Later(sent, d)
        BY <1>7, <2>1, <2>4, <3>1 DEF HistoryTaken
    <3>4. Counted(Later(old, n), m, Tail(ch), 0, o)
        BY <2>2, <3>2, LaterIsCounted
    <3>5. Later(sent, d) <= o.delivery[m] /\ Delivered(Later(sent, d), m, Tail(ch), 0, o, before)
        BY <2>2, <3>2, LaterIsDelivered
    <3> QED
        BY <1>5, <2>2, <2>3, <2>4, <3>3, <3>4, <3>5 DEF MessageFair
  <2>5. CASE m \notin S
    <3>1. g.count[m] = old /\ g.delivery[m] = sent
        BY <1>7, <2>1, <2>5 DEF HistoryTaken
    <3> QED
        BY <1>5, <2>2, <2>3, <2>5, <3>1 DEF MessageFair
  <2> QED
      BY <2>4, <2>5
<1>11. \A m \in DOMAIN h.page.messages : Faithful(h.page.messages[m], m, Tail(ch), 0, o)
    BY <1>8 DEF PageFair
<1>12. ASSUME g.epoch > 0
       PROVE  WholeFair(g, h.page.messages, Tail(ch), o, total)
  <2>1. /\ g.read = f.read /\ g.conversation = f.conversation /\ g.total = f.total
        /\ g.epoch = f.epoch /\ g.message = f.message
        /\ g.cursor = h.page.cursor /\ g.more = h.page.more
      BY <1>7 DEF HistoryTaken
  <2>2. WholeFair(f, NoMessages, Tail(ch), o, total)
      BY <1>3, <1>12, <2>1 DEF WindowFair
  <2>3. f.cursor = v.cursor /\ v.cursor \in Nat /\ DOMAIN NoMessages = {}
    <3>1. f.cursor = v.cursor
        BY <1>1, PushedShape
    <3> QED
        BY <3>1 DEF Views, NoMessages
  <2>4. ASSUME NEW m \in Held(o), m >= g.cursor \/ ~g.more
        PROVE  m \in Held(g) \/ m \in DOMAIN h.page.messages \/ Ahead(Tail(ch), 0, MessageSignals(m))
    <3>1. m \in Nat
        BY DEF Held, Messages
    <3>2. CASE m >= v.cursor
      <4>1. m \in Held(f) \/ Ahead(Tail(ch), 0, MessageSignals(m))
          BY <2>2, <2>3, <3>2 DEF WholeFair
      <4> QED
          BY <2>1, <4>1 DEF Held
    <3>3. CASE m < v.cursor
        BY <2>1, <2>4, <3>3
    <3> QED
        BY <2>3, <3>1, <3>2, <3>3
  <2> QED
      BY <2>1, <2>2, <2>4 DEF WholeFair
<1>13. CanPush(g, h.page.messages, Tail(ch), o, before, total)
    BY <1>10, <1>11, <1>12 DEF CanPush
<1>14. w = Pushed(g, h.page.messages)
    BY <1>1, <1>7 DEF HistoryTaken
<1> QED
    BY <1>6, <1>13, <1>14, PushIsFair

-----------------------------------------------------------------------------
(* The page the window waits for *)

LEMMA HistoryNext ==
    ASSUME NEW v, NEW w, w.loading = v.loading, w.cursor = v.cursor, w.epoch = v.epoch,
           NEW ch \in Seq(Signals), ch # <<>>, NEW qs, NEW o, HistoryFair(v, ch, qs, o)
    PROVE  HistoryFair(w, Tail(ch), qs, o)
<1>1. \A i \in DOMAIN Tail(ch) : /\ i \in Nat /\ i + 1 \in DOMAIN ch /\ Tail(ch)[i] = ch[i + 1]
    OBVIOUS
<1>2. ASSUME NEW i \in DOMAIN Tail(ch)
      PROVE  /\ Tail(ch)[i].kind = "page" => Tail(ch)[i].epoch <= w.epoch
             /\ IsPage(Tail(ch)[i], w.epoch) =>
                  /\ w.loading
                  /\ \A m \in Held(o) :
                       m < w.cursor /\ (m >= Tail(ch)[i].page.cursor \/ ~Tail(ch)[i].page.more) =>
                         m \in DOMAIN Tail(ch)[i].page.messages \/ Ahead(Tail(ch), i, MessageSignals(m))
  <2>1. PICK s \in Signals : s = ch[i + 1] /\ s = Tail(ch)[i]
      BY <1>1
  <2>2. /\ s.kind = "page" => s.epoch <= v.epoch
        /\ IsPage(s, v.epoch) =>
             /\ v.loading
             /\ \A m \in Held(o) : m < v.cursor /\ (m >= s.page.cursor \/ ~s.page.more) =>
                  m \in DOMAIN s.page.messages \/ Ahead(ch, i + 1, MessageSignals(m))
      BY <1>1, <2>1 DEF HistoryFair
  <2>3. \A m : Ahead(ch, i + 1, MessageSignals(m)) => Ahead(Tail(ch), i, MessageSignals(m))
      BY <1>1, NextIsCloser DEF Closer
  <2> QED
      BY <2>1, <2>2, <2>3
<1>3. \A i, j \in DOMAIN Tail(ch) :
        IsPage(Tail(ch)[i], w.epoch) /\ IsPage(Tail(ch)[j], w.epoch) => i = j
  <2>1. ASSUME NEW i \in DOMAIN Tail(ch), NEW j \in DOMAIN Tail(ch),
               IsPage(Tail(ch)[i], w.epoch), IsPage(Tail(ch)[j], w.epoch)
        PROVE  i = j
    <3>1. i + 1 = j + 1
        BY <1>1, <2>1 DEF HistoryFair
    <3> QED
        BY <1>1, <3>1
  <2> QED
      BY <2>1
<1>4. \A i \in DOMAIN Tail(ch), j \in DOMAIN qs : ~(IsPage(Tail(ch)[i], w.epoch) /\ qs[j].epoch = w.epoch)
    BY <1>1 DEF HistoryFair
<1>5. /\ \A j \in DOMAIN qs : /\ qs[j].epoch <= w.epoch
                              /\ qs[j].epoch = w.epoch => w.loading /\ qs[j].before = w.cursor
      /\ \A i, j \in DOMAIN qs : qs[i].epoch = w.epoch /\ qs[j].epoch = w.epoch => i = j
    BY DEF HistoryFair
<1> QED
    BY <1>2, <1>3, <1>4, <1>5 DEF HistoryFair

\* Once it is there, the window waits for none.
LEMMA HistoryArrived ==
    ASSUME NEW v, NEW w, w.epoch = v.epoch, NEW ch \in Seq(Signals), ch # <<>>, NEW qs, NEW o,
           HistoryFair(v, ch, qs, o), IsPage(Head(ch), v.epoch)
    PROVE  HistoryFair(w, Tail(ch), qs, o)
<1>1. \A i \in DOMAIN Tail(ch) : /\ i \in Nat /\ i + 1 \in DOMAIN ch /\ Tail(ch)[i] = ch[i + 1]
    OBVIOUS
<1>2. 1 \in DOMAIN ch /\ Head(ch) = ch[1]
    OBVIOUS
<1>3. \A i \in DOMAIN Tail(ch) : ~IsPage(Tail(ch)[i], w.epoch)
  <2>1. ASSUME NEW i \in DOMAIN Tail(ch), IsPage(Tail(ch)[i], w.epoch)
        PROVE  FALSE
    <3>1. i + 1 = 1
        BY <1>1, <1>2, <2>1 DEF HistoryFair
    <3> QED
        BY <1>1, <3>1
  <2> QED
      BY <2>1
<1>4. \A j \in DOMAIN qs : qs[j].epoch <= w.epoch /\ qs[j].epoch # w.epoch
    BY <1>2 DEF HistoryFair
<1>5. \A i \in DOMAIN Tail(ch) : Tail(ch)[i].kind = "page" => Tail(ch)[i].epoch <= w.epoch
    BY <1>1 DEF HistoryFair
<1> QED
    BY <1>3, <1>4, <1>5 DEF HistoryFair

\* A snapshot makes what was asked for before it worthless.
LEMMA HistoryForgotten ==
    ASSUME NEW v \in Views, NEW w, w.epoch = v.epoch + 1, NEW ch \in Seq(Signals), ch # <<>>,
           NEW qs \in Seq(Asks), NEW o, HistoryFair(v, ch, qs, o)
    PROVE  HistoryFair(w, Tail(ch), qs, o)
<1>1. v.epoch \in Nat /\ w.epoch = v.epoch + 1
    BY DEF Views
<1>2. \A j \in DOMAIN qs : qs[j].epoch <= v.epoch /\ qs[j].epoch \in Nat
  <2>1. \A j \in DOMAIN qs : qs[j] \in Asks
      OBVIOUS
  <2> QED
      BY <2>1 DEF HistoryFair, Asks
<1>3. \A j \in DOMAIN qs : qs[j].epoch <= w.epoch /\ qs[j].epoch # w.epoch
    BY <1>1, <1>2
<1>4. ASSUME NEW i \in DOMAIN Tail(ch), Tail(ch)[i].kind = "page"
      PROVE  Tail(ch)[i].epoch <= w.epoch /\ Tail(ch)[i].epoch # w.epoch
  <2>1. PICK s \in Signals : s = ch[i + 1] /\ s = Tail(ch)[i] /\ i + 1 \in DOMAIN ch
      OBVIOUS
  <2>2. s.epoch \in Nat
      BY <1>4, <2>1, SignalShape
  <2>3. s.epoch <= v.epoch
      BY <1>4, <2>1 DEF HistoryFair
  <2> QED
      BY <1>1, <2>1, <2>2, <2>3
<1> QED
    BY <1>3, <1>4 DEF HistoryFair, IsPage

LEMMA HistoryAsked ==
    ASSUME NEW v \in Views, ~v.loading, NEW w, w.loading, w.cursor = v.cursor, w.epoch = v.epoch,
           NEW ch \in Seq(Signals), NEW qs \in Seq(Asks), NEW o, HistoryFair(v, ch, qs, o),
           NEW ask, ask.epoch = v.epoch, ask.before = v.cursor
    PROVE  HistoryFair(w, ch, Append(qs, ask), o)
<1>1. /\ \A j \in DOMAIN qs : qs[j].epoch <= v.epoch /\ qs[j].epoch # v.epoch
      /\ \A i \in DOMAIN ch : /\ ch[i].kind = "page" => ch[i].epoch <= v.epoch
                              /\ ~IsPage(ch[i], v.epoch)
    BY DEF HistoryFair
<1>2. PICK n \in Nat : n = Len(qs) + 1
    OBVIOUS
<1>3. \A j \in DOMAIN Append(qs, ask) :
        \/ j \in DOMAIN qs /\ Append(qs, ask)[j] = qs[j]
        \/ j = n /\ Append(qs, ask)[j] = ask
    BY <1>2
<1>4. v.epoch <= v.epoch
    BY DEF Views
<1>5. \A j \in DOMAIN Append(qs, ask) :
        /\ Append(qs, ask)[j].epoch <= w.epoch
        /\ Append(qs, ask)[j].epoch = w.epoch =>
             w.loading /\ Append(qs, ask)[j].before = w.cursor /\ j = n
    BY <1>1, <1>3, <1>4
<1> QED
    BY <1>1, <1>5 DEF HistoryFair

LEMMA HistorySame ==
    ASSUME NEW v, NEW w, w.loading = v.loading, w.cursor = v.cursor, w.epoch = v.epoch,
           NEW ch, NEW qs, NEW o, HistoryFair(v, ch, qs, o)
    PROVE  HistoryFair(w, ch, qs, o)
BY DEF HistoryFair

\* What the window waits for, when it takes the page.
LEMMA HistoryGiven ==
    ASSUME NEW v, NEW ch \in Seq(Signals), ch # <<>>, NEW h, h = Head(ch), NEW qs, NEW o,
           HistoryFair(v, ch, qs, o), IsPage(h, v.epoch)
    PROVE  \A m \in Held(o) : m < v.cursor /\ (m >= h.page.cursor \/ ~h.page.more) =>
             m \in DOMAIN h.page.messages \/ Ahead(Tail(ch), 0, MessageSignals(m))
<1>1. 0 + 1 \in DOMAIN ch /\ ch[0 + 1] = h
    OBVIOUS
<1>2. \A m \in Held(o) : m < v.cursor /\ (m >= h.page.cursor \/ ~h.page.more) =>
        m \in DOMAIN h.page.messages \/ Ahead(ch, 0 + 1, MessageSignals(m))
    BY <1>1 DEF HistoryFair
<1>3. \A m : Ahead(ch, 0 + 1, MessageSignals(m)) => Ahead(Tail(ch), 0, MessageSignals(m))
    BY NextIsCloser DEF Closer
<1> QED
    BY <1>2, <1>3

-----------------------------------------------------------------------------
(* The core's steps *)

LEMMA Becomes ==
    ASSUME NEW o, NEW before, NEW total \in Int, NEW on \in BOOLEAN, NEW ch \in Seq(Signals),
           NEW v \in Views, NEW q, IsQueue(q), NEW qs \in Seq(Asks),
           cache' = o, early' = before, unread' = total, online' = on, channel' = ch,
           view' = v, queue' = q, asks' = qs,
           StoreFair(o, before), ChannelFair(ch, o, before, total),
           WindowFair(v, q, ch, o, before, total), HistoryFair(v, ch, qs, o)
    PROVE  Typed' /\ Fair'
<1>1. Typed'
    BY Zenon DEF Typed
<1>2. Fair'
    BY Zenon DEF Fair
<1> QED
    BY <1>1, <1>2

LEMMA IsNow ==
    ASSUME Inductive, Typed, Fair,
           NEW o, NEW before, NEW total, NEW on, NEW ch, NEW v, NEW q, NEW qs,
           cache = o, early = before, unread = total, online = on, channel = ch,
           view = v, queue = q, asks = qs
    PROVE  /\ o \in Objects /\ EndsShow(o) /\ total \in Int /\ on \in BOOLEAN
           /\ ch \in Seq(Signals) /\ v \in Views /\ IsQueue(q) /\ qs \in Seq(Asks)
           /\ StoreFair(o, before) /\ ChannelFair(ch, o, before, total)
           /\ WindowFair(v, q, ch, o, before, total) /\ HistoryFair(v, ch, qs, o)
<1>1. /\ total \in Int /\ on \in BOOLEAN
      /\ ch \in Seq(Signals) /\ v \in Views /\ IsQueue(q) /\ qs \in Seq(Asks)
    BY Zenon DEF Typed
<1>2. /\ StoreFair(o, before) /\ ChannelFair(ch, o, before, total)
      /\ WindowFair(v, q, ch, o, before, total) /\ HistoryFair(v, ch, qs, o)
    BY Zenon DEF Fair
<1>3. o \in Objects
    BY DEF Inductive
<1>4. PICK s, done : s = stream /\ done = seen
    OBVIOUS
<1>5. Sound(o, s, done)
    BY <1>4 DEF Inductive, CacheIsSound
<1>6. EndsShow(o)
    BY <1>5, SoundEndsShow
<1> QED
    BY <1>1, <1>2, <1>3, <1>6

LEMMA TellingIsFair ==
    ASSUME NEW v \in Views, NEW q, IsQueue(q), NEW ch \in Seq(Signals), NEW qs \in Seq(Asks),
           NEW o, NEW o2, NEW before, NEW before2, NEW total, NEW total2, NEW t \in Seq(Signals),
           Tells(o, o2, t, before, before2, total, total2),
           ChannelFair(ch, o, before, total), WindowFair(v, q, ch, o, before, total),
           HistoryFair(v, ch, qs, o),
           \A c, i, k : k \in DOMAIN t => SignalFair(t[k], c, i, o2, before2, total2),
           \A k \in DOMAIN t : t[k].kind # "page"
    PROVE  /\ ch \o t \in Seq(Signals)
           /\ ChannelFair(ch \o t, o2, before2, total2)
           /\ WindowFair(v, q, ch \o t, o2, before2, total2)
           /\ HistoryFair(v, ch \o t, qs, o2)
<1>1. ch \o t \in Seq(Signals)
    OBVIOUS
<1>2. ChannelFair(ch \o t, o2, before2, total2)
  <2>1. \A k \in DOMAIN t : SignalFair(t[k], ch \o t, Len(ch) + k, o2, before2, total2)
      OBVIOUS
  <2> QED
      BY <2>1, ChannelFairLater
<1>3. WindowFair(v, q, ch \o t, o2, before2, total2)
    BY WindowFairLater
<1>4. HistoryFair(v, ch \o t, qs, o2)
    BY HistoryFairLater
<1> QED
    BY <1>1, <1>2, <1>3, <1>4

LEMMA NothingChanges ==
    ASSUME NEW o \in Objects, NEW t, NEW before, NEW total, NEW total2,
           total # Unknown => total2 = total
    PROVE  Tells(o, o, t, before, before, total, total2)
BY DEF Tells, EndIsSound, Objects

LEMMA SnapshotIsExact ==
    ASSUME NEW o \in Objects, NEW before, StoreFair(o, before), NEW total \in Int, total # Unknown,
           NEW s, s = [kind |-> "initial", page |-> PageBefore(o, Latest), read |-> o.read,
                       conversation |-> o.conversation, total |-> total]
    PROVE  s \in Signals /\ \A c, i : SignalFair(s, c, i, o, before, total)
<1>1. PICK b \in Nat : b = Latest
    BY ProjectionAssumption DEF Latest
<1>2. PICK page : page = PageBefore(o, b)
    OBVIOUS
<1>3. page \in SomePages /\ \A c, i : PageFair(page, c, i, o, before)
    BY <1>2, PageIsFair
<1>4. s = [kind |-> "initial", page |-> page, read |-> o.read, conversation |-> o.conversation,
           total |-> total]
    BY <1>1, <1>2
<1>5. o.read \in [People -> Nat] /\ o.conversation \in Nat
    BY DEF Objects
<1>6. s \in Signals
    BY <1>3, <1>4, <1>5 DEF Signals
<1>7. \A m \in Held(o) : m >= page.cursor \/ ~page.more => m \in DOMAIN page.messages
  <2>1. PICK S : /\ page \in Pages(S)
                 /\ \A m \in Held(o) : m < b /\ (m >= page.cursor \/ ~page.more) => m \in S
      BY <1>2, PageShape
  <2>2. DOMAIN page.messages = S
      BY <2>1 DEF Pages
  <2>3. \A m \in Held(o) : m < b
      BY <1>1, ProjectionAssumption DEF Held, Messages, Latest
  <2> QED
      BY <2>1, <2>2, <2>3
<1>8. ASSUME NEW c, NEW i
      PROVE  SignalFair(s, c, i, o, before, total)
  <2>1. /\ s.kind = "initial" /\ s.page = page /\ s.read = o.read
        /\ s.conversation = o.conversation /\ s.total = total
      BY <1>4
  <2>2. \A u \in People : IsRead(s.read[u], u, c, i, o)
      BY <1>5, <2>1 DEF IsRead
  <2>3. IsVersion(s.conversation, c, i, o) /\ IsTotal(s.total, c, i, total)
      BY <2>1 DEF IsVersion, IsTotal
  <2> QED
      BY <1>3, <1>7, <2>1, <2>2, <2>3 DEF SignalFair, Ends
<1> QED
    BY <1>6, <1>8

LEMMA LoginIsFair ==
    ASSUME Inductive, Typed, Fair, Login
    PROVE  Typed' /\ Fair'
<1>1. PICK o, before, total, on, ch, v, q, qs :
        /\ cache = o /\ early = before /\ unread = total /\ online = on /\ channel = ch
        /\ view = v /\ queue = q /\ asks = qs
    OBVIOUS
<1>2. /\ o \in Objects /\ total \in Int /\ ch \in Seq(Signals) /\ v \in Views /\ IsQueue(q)
      /\ qs \in Seq(Asks) /\ StoreFair(o, before) /\ ChannelFair(ch, o, before, total)
      /\ WindowFair(v, q, ch, o, before, total) /\ HistoryFair(v, ch, qs, o)
    BY <1>1, IsNow
<1>3. Cardinality(Unread(o)) \in Nat
    BY <1>2, UnreadIsFinite
<1>4. PICK total2 \in Int : /\ total2 = IF total = Unknown THEN Cardinality(Unread(o)) ELSE total
                            /\ total2 # Unknown
    BY <1>2, <1>3 DEF Unknown
<1>5. PICK s1, s2 :
        /\ s1 = [kind |-> "connected"]
        /\ s2 = [kind |-> "initial", page |-> PageBefore(o, Latest), read |-> o.read,
                 conversation |-> o.conversation, total |-> total2]
    OBVIOUS
<1>6. PICK t : t = <<s1, s2>>
    OBVIOUS
<1>7. /\ cache' = o /\ early' = before /\ unread' = total2 /\ online' = TRUE
      /\ view' = v /\ queue' = q /\ asks' = qs
    BY <1>1, <1>4 DEF Login, window
<1>8. channel' = ch \o t
    BY <1>1, <1>5, <1>6, <1>7 DEF Login, Emit
<1>9. s2 \in Signals /\ \A c, i : SignalFair(s2, c, i, o, before, total2)
    BY <1>2, <1>4, <1>5, SnapshotIsExact
<1>10. s1 \in Signals /\ \A c, i : SignalFair(s1, c, i, o, before, total2)
    BY <1>5 DEF Signals, SignalFair, Ends
<1>11. /\ t \in Seq(Signals)
       /\ \A c, i, k : k \in DOMAIN t => SignalFair(t[k], c, i, o, before, total2)
       /\ \A k \in DOMAIN t : t[k].kind # "page"
    BY <1>5, <1>6, <1>9, <1>10
<1>12. Tells(o, o, t, before, before, total, total2)
    BY <1>2, <1>4, NothingChanges
<1>13. /\ ch \o t \in Seq(Signals)
       /\ ChannelFair(ch \o t, o, before, total2)
       /\ WindowFair(v, q, ch \o t, o, before, total2)
       /\ HistoryFair(v, ch \o t, qs, o)
    BY <1>2, <1>11, <1>12, TellingIsFair
<1> QED
    BY <1>2, <1>7, <1>8, <1>13, Becomes

LEMMA LoseConnectionIsFair ==
    ASSUME Inductive, Typed, Fair, LoseConnection
    PROVE  Typed' /\ Fair'
<1>1. PICK o, before, total, on, ch, v, q, qs :
        /\ cache = o /\ early = before /\ unread = total /\ online = on /\ channel = ch
        /\ view = v /\ queue = q /\ asks = qs
    OBVIOUS
<1>2. /\ o \in Objects /\ total \in Int /\ ch \in Seq(Signals) /\ v \in Views /\ IsQueue(q)
      /\ qs \in Seq(Asks) /\ StoreFair(o, before) /\ ChannelFair(ch, o, before, total)
      /\ WindowFair(v, q, ch, o, before, total) /\ HistoryFair(v, ch, qs, o)
    BY <1>1, IsNow
<1>3. PICK s, t : s = [kind |-> "lost"] /\ t = <<s>>
    OBVIOUS
<1>4. /\ cache' = o /\ early' = before /\ unread' = total /\ online' = FALSE
      /\ channel' = ch \o t /\ view' = v /\ queue' = q /\ asks' = qs
    BY <1>1, <1>3 DEF LoseConnection, Emit, window
<1>5. s \in Signals /\ \A c, i : SignalFair(s, c, i, o, before, total)
    BY <1>3 DEF Signals, SignalFair, Ends
<1>6. /\ t \in Seq(Signals)
      /\ \A c, i, k : k \in DOMAIN t => SignalFair(t[k], c, i, o, before, total)
      /\ \A k \in DOMAIN t : t[k].kind # "page"
    BY <1>3, <1>5
<1>7. Tells(o, o, t, before, before, total, total)
    BY <1>2, NothingChanges
<1>8. /\ ch \o t \in Seq(Signals)
      /\ ChannelFair(ch \o t, o, before, total)
      /\ WindowFair(v, q, ch \o t, o, before, total)
      /\ HistoryFair(v, ch \o t, qs, o)
    BY <1>2, <1>6, <1>7, TellingIsFair
<1> QED
    BY <1>2, <1>4, <1>8, Becomes

\* An event is told of as it is applied.
LEMMA ApplyIsFair ==
    ASSUME Inductive, Typed, Fair, NEW p \in DOMAIN stream, Apply(p)
    PROVE  Typed' /\ Fair'
<1>1. PICK o, before, total, on, ch, v, q, qs :
        /\ cache = o /\ early = before /\ unread = total /\ online = on /\ channel = ch
        /\ view = v /\ queue = q /\ asks = qs
    OBVIOUS
<1>2. /\ o \in Objects /\ total \in Int /\ on \in BOOLEAN /\ ch \in Seq(Signals) /\ v \in Views
      /\ IsQueue(q) /\ qs \in Seq(Asks) /\ StoreFair(o, before) /\ ChannelFair(ch, o, before, total)
      /\ WindowFair(v, q, ch, o, before, total) /\ HistoryFair(v, ch, qs, o)
    BY <1>1, IsNow
<1>3. PICK s \in Seq(Event) : s = stream /\ WellFormed(s)
    BY StreamsAreWellFormed
<1>4. PICK done \in SUBSET DOMAIN s : done = seen
    BY <1>3 DEF Inductive
<1>5. p \in DOMAIN s /\ p \notin done /\ Sound(o, s, done)
    BY <1>1, <1>3, <1>4 DEF Inductive, CacheIsSound, Apply
<1>6. PICK redacted \in BOOLEAN : cache' = Projected(cache, p, stream[p], redacted)
    BY DEF Apply
<1>7. PICK e \in Event : e = s[p]
    BY <1>5
<1>8. PICK o2, before2, total2 : cache' = o2 /\ early' = before2 /\ unread' = total2
    OBVIOUS
<1>9. o2 = Projected(o, p, e, redacted)
    BY <1>1, <1>3, <1>6, <1>7, <1>8
<1>10. before \subseteq before2 /\ (e.kind = "delivery" /\ e.of \notin Held(o) => e.of \in before2)
    BY <1>1, <1>3, <1>7, <1>8 DEF Apply, Held
<1>11. total2 \in Int /\ total2 # Unknown
  <2>1. Inductive' /\ online'
      BY ApplyKeeps DEF Apply
  <2>2. total2 # Unknown /\ total2 = Cardinality(Unread(cache))'
      BY <1>8, <2>1 DEF Inductive, UnreadIsExact
  <2>3. total2 = Cardinality(Unread(o2))
      BY <1>8, <2>2 DEF Unread, Held
  <2> QED
      BY <2>2, <2>3, UnreadIsFinite
<1>12. PICK s1, s2 : s1 = Told(o2, e) /\ s2 = [kind |-> "progress", total |-> total2]
    OBVIOUS
<1>13. PICK t : t = <<s1, s2>>
    OBVIOUS
<1>14. s2 \in ProgressSignals(total2) /\ DOMAIN t = {1, 2} /\ t[1] = s1 /\ t[2] = s2
    BY <1>12, <1>13 DEF ProgressSignals
<1>15. /\ online' = on /\ channel' = ch \o t /\ view' = v /\ queue' = q /\ asks' = qs
    BY <1>1, <1>3, <1>7, <1>8, <1>12, <1>13 DEF Apply, Emit, window, Told, Item
<1>16. EventTold(o, o2, t, before, before2, total, total2)
  <2>1. o \in Objects /\ total \in Int /\ StoreFair(o, before)
      BY <1>2
  <2>2. s1 = Told(o2, e)
      BY <1>12
  <2> QED
      BY <1>3, <1>5, <1>7, <1>9, <1>10, <1>11, <1>14, <2>1, <2>2, EventIsTold, ZenonT(30)
<1>17. t \in Seq(Signals)
    BY <1>13, <1>14, <1>16 DEF EventTold
<1>18. /\ ch \o t \in Seq(Signals)
       /\ ChannelFair(ch \o t, o2, before2, total2)
       /\ WindowFair(v, q, ch \o t, o2, before2, total2)
       /\ HistoryFair(v, ch \o t, qs, o2)
    BY <1>2, <1>16, <1>17, TellingIsFair DEF EventTold
<1>19. StoreFair(o2, before2)
    BY <1>16 DEF EventTold
<1> QED
    BY <1>2, <1>8, <1>11, <1>15, <1>18, <1>19, Becomes

LEMMA AnswerHistoryIsFair ==
    ASSUME Inductive, Typed, Fair, AnswerHistory
    PROVE  Typed' /\ Fair'
<1>1. PICK o, before, total, on, ch, v, q, qs :
        /\ cache = o /\ early = before /\ unread = total /\ online = on /\ channel = ch
        /\ view = v /\ queue = q /\ asks = qs
    OBVIOUS
<1>2. /\ o \in Objects /\ total \in Int /\ on \in BOOLEAN /\ ch \in Seq(Signals) /\ v \in Views
      /\ IsQueue(q) /\ qs \in Seq(Asks) /\ StoreFair(o, before) /\ ChannelFair(ch, o, before, total)
      /\ WindowFair(v, q, ch, o, before, total) /\ HistoryFair(v, ch, qs, o)
    BY <1>1, IsNow
<1>3. qs # <<>>
    BY <1>1 DEF AnswerHistory
<1>4. PICK ask \in Asks : ask = Head(qs)
    BY <1>2, <1>3
<1>5. PICK page : page = PageBefore(o, ask.before)
    OBVIOUS
<1>6. page \in SomePages /\ \A c, i : PageFair(page, c, i, o, before)
    BY <1>2, <1>4, <1>5, PageIsFair DEF Asks
<1>7. PICK s, t : s = [kind |-> "page", ok |-> on, epoch |-> ask.epoch, page |-> page] /\ t = <<s>>
    OBVIOUS
<1>8. /\ cache' = o /\ early' = before /\ unread' = total /\ online' = on
      /\ channel' = ch \o t /\ view' = v /\ queue' = q /\ asks' = Tail(qs)
    BY <1>1, <1>4, <1>5, <1>7 DEF AnswerHistory, Emit, window, core
<1>9. /\ s.kind = "page" /\ s.epoch = Head(qs).epoch /\ s.page = PageBefore(o, Head(qs).before)
      /\ s.page = page /\ s \in Signals
  <2>1. ask.epoch \in Nat
      BY DEF Asks
  <2>2. s \in [kind : {"page"}, ok : BOOLEAN, epoch : Nat, page : SomePages]
      BY <1>2, <1>6, <1>7, <2>1
  <2> QED
      BY <1>4, <1>5, <1>7, <2>2 DEF Signals
<1>10. \A c, i : SignalFair(s, c, i, o, before, total)
    BY <1>6, <1>9 DEF SignalFair, Ends
<1>11. t \in Seq(Signals) /\ \A k \in DOMAIN t : t[k] = s
    BY <1>7, <1>9
<1>12. Tells(o, o, t, before, before, total, total)
    BY <1>2, NothingChanges
<1>13. ch \o t \in Seq(Signals) /\ Tail(qs) \in Seq(Asks)
    BY <1>2, <1>3, <1>11
<1>14. ChannelFair(ch \o t, o, before, total)
  <2>1. \A k \in DOMAIN t : SignalFair(t[k], ch \o t, Len(ch) + k, o, before, total)
      BY <1>10, <1>11
  <2> QED
      BY <1>2, <1>11, <1>12, <2>1, ChannelFairLater
<1>15. WindowFair(v, q, ch \o t, o, before, total)
    BY <1>2, <1>11, <1>12, WindowFairLater
<1>16. HistoryFair(v, ch \o t, Tail(qs), o)
    BY <1>2, <1>3, <1>7, <1>9, AnswerIsFair
<1> QED
    BY <1>2, <1>8, <1>13, <1>14, <1>15, <1>16, Becomes

StartsFair(o, before, total, on, ch, v, q, qs) ==
  /\ total = Unknown /\ on = FALSE /\ ch = <<>> /\ v = EmptyView /\ q = NoMessages /\ qs = <<>>
  /\ total \in Int /\ on \in BOOLEAN /\ ch \in Seq(Signals) /\ v \in Views /\ IsQueue(q)
  /\ qs \in Seq(Asks) /\ ChannelFair(ch, o, before, total)
  /\ WindowFair(v, q, ch, o, before, total) /\ HistoryFair(v, ch, qs, o)

\* The window of a program that starts.
LEMMA StartIsFair ==
    ASSUME NEW o \in Objects, NEW before
    PROVE  \E total, on, ch, v, q, qs : StartsFair(o, before, total, on, ch, v, q, qs)
<1>1. PICK total, on, ch, v, q, qs :
        total = Unknown /\ on = FALSE /\ ch = <<>> /\ v = EmptyView /\ q = NoMessages /\ qs = <<>>
    OBVIOUS
<1>2. DOMAIN q = {} /\ IsQueue(q)
    BY <1>1 DEF NoMessages, IsQueue
<1>3. total \in Int /\ on \in BOOLEAN
  <2>1. Unknown \in Int
      BY DEF Unknown
  <2> QED
      BY <1>1, <2>1
<1>4. ch \in Seq(Signals) /\ DOMAIN ch = {} /\ qs \in Seq(Asks) /\ DOMAIN qs = {}
    BY <1>1
<1>5. PICK message, ended, count, delivery, read :
        /\ message = [m \in Messages |-> NoItem] /\ ended = [m \in Messages |-> "none"]
        /\ count = [m \in Messages |-> 0] /\ delivery = [m \in Messages |-> 0]
        /\ read = [u \in People |-> 0]
    OBVIOUS
<1>6. /\ message \in [Messages -> Shown] /\ ended \in [Messages -> {"none"} \cup Ends]
      /\ count \in [Messages -> Nat] /\ delivery \in [Messages -> Nat] /\ read \in [People -> Nat]
  <2>1. NoItem \in Shown
      BY DEF NoItem, Shown
  <2> QED
      BY <1>5, <2>1
<1>7. v = [message |-> message, ended |-> ended, count |-> count, delivery |-> delivery, read |-> read,
           conversation |-> 0, total |-> 0, cursor |-> 0, more |-> FALSE,
           connected |-> FALSE, loading |-> FALSE, epoch |-> 0]
    BY <1>1, <1>5 DEF EmptyView
<1>8. /\ v \in Views /\ v.epoch = 0 /\ v.message = message /\ v.ended = ended
      /\ v.count = count /\ v.delivery = delivery
    BY <1>6, <1>7 DEF Views
<1>9. ShownFair(v, q, ch, o, before)
  <2>1. ASSUME NEW m \in Messages
        PROVE  /\ v.message[m].by = Nobody /\ ~v.message[m].recalled /\ ~v.message[m].burned
               /\ EndIsSound(v.ended[m], m, o) /\ v.count[m] = 0
               /\ v.delivery[m] <= o.delivery[m]
    <3>1. v.message[m] = NoItem /\ v.ended[m] = "none" /\ v.count[m] = 0 /\ v.delivery[m] = 0
        BY <1>5, <1>8
    <3>2. 0 <= o.delivery[m]
        BY DEF Objects
    <3> QED
        BY <3>1, <3>2 DEF NoItem, EndIsSound
  <2> QED
      BY <1>2, <2>1 DEF ShownFair
<1>10. WindowFair(v, q, ch, o, before, total) /\ ChannelFair(ch, o, before, total)
    BY <1>4, <1>8, <1>9 DEF WindowFair, ChannelFair
<1>11. HistoryFair(v, ch, qs, o)
    BY <1>4 DEF HistoryFair
<1> QED
    BY <1>1, <1>2, <1>3, <1>4, <1>8, <1>10, <1>11 DEF StartsFair

LEMMA RestartIsFair ==
    ASSUME Inductive, Typed, Fair, Restart
    PROVE  Typed' /\ Fair'
<1>1. PICK o, before : cache = o /\ early = before
    OBVIOUS
<1>2. o \in Objects /\ StoreFair(o, before)
    BY <1>1, IsNow
<1>3. PICK total, on, ch, v, q, qs : StartsFair(o, before, total, on, ch, v, q, qs)
    BY <1>2, StartIsFair
<1>4. /\ total = Unknown /\ on = FALSE /\ ch = <<>> /\ v = EmptyView /\ q = NoMessages /\ qs = <<>>
      /\ total \in Int /\ on \in BOOLEAN /\ ch \in Seq(Signals) /\ v \in Views /\ IsQueue(q)
      /\ qs \in Seq(Asks) /\ ChannelFair(ch, o, before, total)
      /\ WindowFair(v, q, ch, o, before, total) /\ HistoryFair(v, ch, qs, o)
    BY <1>3 DEF StartsFair
<1>5. /\ cache' = o /\ early' = before /\ unread' = total /\ online' = on /\ channel' = ch
      /\ view' = v /\ queue' = q /\ asks' = qs
    BY <1>1, <1>4 DEF Restart
<1> QED
    BY <1>2, <1>4, <1>5, Becomes

-----------------------------------------------------------------------------
(* The window's steps *)

LEMMA NoneQueued == IsQueue(NoMessages) /\ DOMAIN NoMessages = {}
BY DEF IsQueue, NoMessages

\* The first signal, and what is true of it when it is taken.
LEMMA FirstIsFair ==
    ASSUME NEW ch \in Seq(Signals), NEW o, NEW before, NEW total, ChannelFair(ch, o, before, total),
           ch # <<>>, NEW h, h = Head(ch)
    PROVE  /\ h \in Signals /\ Tail(ch) \in Seq(Signals)
           /\ ChannelFair(Tail(ch), o, before, total)
           /\ SignalFair(h, Tail(ch), 0, o, before, total)
<1>1. h \in Signals /\ Tail(ch) \in Seq(Signals)
    OBVIOUS
<1> QED
    BY <1>1, ChannelFairNext

\* An update leaves alone what is asked for.
LEMMA UpdateAsksNothing ==
    ASSUME NEW v \in Views, NEW h,
           h.kind \in {"readCount", "delivery", "receipt", "conversation"} \cup Ends,
           NEW w, w = Updated(v, h)
    PROVE  w.loading = v.loading /\ w.cursor = v.cursor /\ w.epoch = v.epoch
<1>1. CASE h.kind = "readCount"
  <2>1. w = Count(v, h.of, h.data)
      BY <1>1 DEF Updated, Ends
  <2> QED
      BY <2>1 DEF Count, Views
<1>2. CASE h.kind = "delivery"
  <2>1. w = [v EXCEPT !.delivery[h.of] = Later(@, h.data)]
      BY <1>2 DEF Updated, Ends
  <2> QED
      BY <2>1 DEF Views
<1>3. CASE h.kind = "receipt"
  <2>1. w = [v EXCEPT !.read[h.by] = Later(@, h.data)]
      BY <1>3 DEF Updated, Ends
  <2> QED
      BY <2>1 DEF Views
<1>4. CASE h.kind = "conversation"
  <2>1. w = [v EXCEPT !.conversation = h.data]
      BY <1>4 DEF Updated, Ends
  <2> QED
      BY <2>1 DEF Views
<1>5. CASE h.kind \in Ends
  <2>1. w = IF v.message[h.of].by = Nobody
            THEN [v EXCEPT !.ended[h.of] = Ended(@, h.kind)]
            ELSE [v EXCEPT !.message[h.of] = Protected(@, h.kind)]
      BY <1>5 DEF Updated, Ends
  <2> QED
      BY <2>1 DEF Views
<1> QED
    BY <1>1, <1>2, <1>3, <1>4, <1>5

LEMMA FrameIsFair ==
    ASSUME Inductive, Typed, Fair, Frame
    PROVE  Typed' /\ Fair'
<1>1. PICK o, before, total, on, ch, v, q, qs :
        /\ cache = o /\ early = before /\ unread = total /\ online = on /\ channel = ch
        /\ view = v /\ queue = q /\ asks = qs
    OBVIOUS
<1>2. /\ o \in Objects /\ EndsShow(o) /\ total \in Int /\ on \in BOOLEAN /\ ch \in Seq(Signals)
      /\ v \in Views /\ IsQueue(q) /\ qs \in Seq(Asks) /\ StoreFair(o, before)
      /\ ChannelFair(ch, o, before, total)
      /\ WindowFair(v, q, ch, o, before, total) /\ HistoryFair(v, ch, qs, o)
    BY <1>1, IsNow
<1>3. PICK w : w = Pushed(v, q)
    OBVIOUS
<1>4. w \in Views /\ WindowFair(w, NoMessages, ch, o, before, total)
    BY <1>2, <1>3, FlushIsFair
<1>5. w.loading = v.loading /\ w.cursor = v.cursor /\ w.epoch = v.epoch
    BY <1>2, <1>3, PushedShape
<1>6. HistoryFair(w, ch, qs, o)
    BY <1>2, <1>5, HistorySame
<1>7. PICK none : none = NoMessages
    OBVIOUS
<1>8. IsQueue(none) /\ WindowFair(w, none, ch, o, before, total)
    BY <1>4, <1>7, NoneQueued
<1>9. /\ cache' = o /\ early' = before /\ unread' = total /\ online' = on /\ channel' = ch
      /\ view' = w /\ queue' = none /\ asks' = qs
    BY <1>1, <1>3, <1>7 DEF Frame, Flushed, core
<1> QED
    BY <1>2, <1>4, <1>6, <1>8, <1>9, Becomes

LEMMA LoadHistoryIsFair ==
    ASSUME Inductive, Typed, Fair, LoadHistory
    PROVE  Typed' /\ Fair'
<1>1. PICK o, before, total, on, ch, v, q, qs :
        /\ cache = o /\ early = before /\ unread = total /\ online = on /\ channel = ch
        /\ view = v /\ queue = q /\ asks = qs
    OBVIOUS
<1>2. /\ o \in Objects /\ EndsShow(o) /\ total \in Int /\ on \in BOOLEAN /\ ch \in Seq(Signals)
      /\ v \in Views /\ IsQueue(q) /\ qs \in Seq(Asks) /\ StoreFair(o, before)
      /\ ChannelFair(ch, o, before, total)
      /\ WindowFair(v, q, ch, o, before, total) /\ HistoryFair(v, ch, qs, o)
    BY <1>1, IsNow
<1>3. PICK yes \in BOOLEAN : yes = TRUE
    OBVIOUS
<1>4. PICK w : w = [v EXCEPT !.loading = yes]
    OBVIOUS
<1>5. /\ w \in Views /\ ShowsTheSame(v, w) /\ w.total = v.total /\ w.loading
    BY <1>2, <1>3, <1>4 DEF Views, ShowsTheSame
<1>6. PICK ask : ask = [epoch |-> v.epoch, before |-> v.cursor]
    OBVIOUS
<1>7. ask.epoch = v.epoch /\ ask.before = v.cursor /\ ask \in Asks
    BY <1>2, <1>6 DEF Views, Asks
<1>8. /\ ~v.loading /\ view' = w /\ asks' = Append(qs, ask)
      /\ cache' = o /\ early' = before /\ unread' = total /\ online' = on /\ channel' = ch /\ queue' = q
    BY <1>1, <1>3, <1>4, <1>6 DEF LoadHistory, core
<1>9. Append(qs, ask) \in Seq(Asks)
    BY <1>2, <1>7
<1>10. HistoryFair(w, ch, Append(qs, ask), o)
  <2>1. w.cursor = v.cursor /\ w.epoch = v.epoch
      BY <1>5 DEF ShowsTheSame
  <2> QED
      BY <1>2, <1>5, <1>7, <1>8, <2>1, HistoryAsked
<1>11. WindowFair(w, q, ch, o, before, total)
    BY <1>2, <1>5 DEF WindowFair, ShownFair, WholeFair, ShowsTheSame, Held
<1> QED
    BY <1>2, <1>5, <1>8, <1>9, <1>10, <1>11, Becomes

LEMMA TakeConnectionIsFair ==
    ASSUME Inductive, Typed, Fair, TakeConnection
    PROVE  Typed' /\ Fair'
<1>1. PICK o, before, total, on, ch, v, q, qs :
        /\ cache = o /\ early = before /\ unread = total /\ online = on /\ channel = ch
        /\ view = v /\ queue = q /\ asks = qs
    OBVIOUS
<1>2. /\ o \in Objects /\ EndsShow(o) /\ total \in Int /\ on \in BOOLEAN /\ ch \in Seq(Signals)
      /\ v \in Views /\ IsQueue(q) /\ qs \in Seq(Asks) /\ StoreFair(o, before)
      /\ ChannelFair(ch, o, before, total)
      /\ WindowFair(v, q, ch, o, before, total) /\ HistoryFair(v, ch, qs, o)
    BY <1>1, IsNow
<1>3. PICK h : h = Head(ch)
    OBVIOUS
<1>4. ch # <<>> /\ h.kind \in {"connected", "lost"}
    BY <1>1, <1>3 DEF TakeConnection, Receives
<1>5. Tail(ch) \in Seq(Signals) /\ ChannelFair(Tail(ch), o, before, total)
    BY <1>2, <1>3, <1>4, FirstIsFair
<1>6. PICK yes \in BOOLEAN : yes = (h.kind = "connected")
    OBVIOUS
<1>7. PICK w : w = [v EXCEPT !.connected = yes]
    OBVIOUS
<1>8. w \in Views /\ ShowsTheSame(v, w) /\ w.total = v.total /\ w.loading = v.loading
    BY <1>2, <1>6, <1>7 DEF Views, ShowsTheSame
<1>9. WindowFair(w, q, Tail(ch), o, before, total)
    BY <1>2, <1>3, <1>4, <1>8, QuietIsFair
<1>10. HistoryFair(w, Tail(ch), qs, o)
    BY <1>2, <1>4, <1>8, HistoryNext DEF ShowsTheSame
<1>11. /\ cache' = o /\ early' = before /\ unread' = total /\ online' = on /\ channel' = Tail(ch)
       /\ view' = w /\ queue' = q /\ asks' = qs
    BY <1>1, <1>3, <1>6, <1>7 DEF TakeConnection, Took, core
<1> QED
    BY <1>2, <1>5, <1>8, <1>9, <1>10, <1>11, Becomes

LEMMA TakeInitialIsFair ==
    ASSUME Inductive, Typed, Fair, TakeInitial
    PROVE  Typed' /\ Fair'
<1>1. PICK o, before, total, on, ch, v, q, qs :
        /\ cache = o /\ early = before /\ unread = total /\ online = on /\ channel = ch
        /\ view = v /\ queue = q /\ asks = qs
    OBVIOUS
<1>2. /\ o \in Objects /\ EndsShow(o) /\ total \in Int /\ on \in BOOLEAN /\ ch \in Seq(Signals)
      /\ v \in Views /\ IsQueue(q) /\ qs \in Seq(Asks) /\ StoreFair(o, before)
      /\ ChannelFair(ch, o, before, total)
      /\ WindowFair(v, q, ch, o, before, total) /\ HistoryFair(v, ch, qs, o)
    BY <1>1, IsNow
<1>3. PICK h : h = Head(ch)
    OBVIOUS
<1>4. ch # <<>> /\ h.kind = "initial"
    BY <1>1, <1>3 DEF TakeInitial, Receives
<1>5. /\ h \in Signals /\ Tail(ch) \in Seq(Signals)
      /\ ChannelFair(Tail(ch), o, before, total) /\ SignalFair(h, Tail(ch), 0, o, before, total)
    BY <1>2, <1>3, <1>4, FirstIsFair
<1>6. PICK w, none : w = Initial(v, h) /\ none = NoMessages
    OBVIOUS
<1>7. w \in Views /\ IsQueue(none) /\ WindowFair(w, none, Tail(ch), o, before, total)
    BY <1>2, <1>4, <1>5, <1>6, SnapshotIsFair, NoneQueued
<1>8. w.epoch = v.epoch + 1
    BY <1>6 DEF Initial, EmptyView
<1>9. HistoryFair(w, Tail(ch), qs, o)
    BY <1>2, <1>4, <1>8, HistoryForgotten
<1>10. /\ cache' = o /\ early' = before /\ unread' = total /\ online' = on /\ channel' = Tail(ch)
       /\ view' = w /\ queue' = none /\ asks' = qs
    BY <1>1, <1>3, <1>6 DEF TakeInitial, Took, core
<1> QED
    BY <1>2, <1>5, <1>7, <1>9, <1>10, Becomes

LEMMA TakeMessageIsFair ==
    ASSUME Inductive, Typed, Fair, TakeMessage
    PROVE  Typed' /\ Fair'
<1>1. PICK o, before, total, on, ch, v, q, qs :
        /\ cache = o /\ early = before /\ unread = total /\ online = on /\ channel = ch
        /\ view = v /\ queue = q /\ asks = qs
    OBVIOUS
<1>2. /\ o \in Objects /\ EndsShow(o) /\ total \in Int /\ on \in BOOLEAN /\ ch \in Seq(Signals)
      /\ v \in Views /\ IsQueue(q) /\ qs \in Seq(Asks) /\ StoreFair(o, before)
      /\ ChannelFair(ch, o, before, total)
      /\ WindowFair(v, q, ch, o, before, total) /\ HistoryFair(v, ch, qs, o)
    BY <1>1, IsNow
<1>3. PICK h : h = Head(ch)
    OBVIOUS
<1>4. ch # <<>> /\ h.kind = "message"
    BY <1>1, <1>3 DEF TakeMessage, Receives
<1>5. /\ h \in Signals /\ Tail(ch) \in Seq(Signals)
      /\ ChannelFair(Tail(ch), o, before, total) /\ SignalFair(h, Tail(ch), 0, o, before, total)
    BY <1>2, <1>3, <1>4, FirstIsFair
<1>6. PICK kept : kept = Kept(q, h)
    OBVIOUS
<1>7. IsQueue(kept) /\ WindowFair(v, kept, Tail(ch), o, before, total)
    BY <1>2, <1>3, <1>4, <1>5, <1>6, MessageIsKept
<1>8. HistoryFair(v, Tail(ch), qs, o)
    BY <1>2, <1>4, HistoryNext
<1>9. /\ cache' = o /\ early' = before /\ unread' = total /\ online' = on /\ channel' = Tail(ch)
      /\ view' = v /\ queue' = kept /\ asks' = qs
    BY <1>1, <1>3, <1>6 DEF TakeMessage, Kept, Took, core
<1> QED
    BY <1>2, <1>5, <1>7, <1>8, <1>9, Becomes

LEMMA TakeUpdateIsFair ==
    ASSUME Inductive, Typed, Fair, TakeUpdate
    PROVE  Typed' /\ Fair'
<1>1. PICK o, before, total, on, ch, v, q, qs :
        /\ cache = o /\ early = before /\ unread = total /\ online = on /\ channel = ch
        /\ view = v /\ queue = q /\ asks = qs
    OBVIOUS
<1>2. /\ o \in Objects /\ EndsShow(o) /\ total \in Int /\ on \in BOOLEAN /\ ch \in Seq(Signals)
      /\ v \in Views /\ IsQueue(q) /\ qs \in Seq(Asks) /\ StoreFair(o, before)
      /\ ChannelFair(ch, o, before, total)
      /\ WindowFair(v, q, ch, o, before, total) /\ HistoryFair(v, ch, qs, o)
    BY <1>1, IsNow
<1>3. PICK h : h = Head(ch)
    OBVIOUS
<1>4. ch # <<>> /\ h.kind \in {"readCount", "delivery", "receipt", "conversation"} \cup Ends
    BY <1>1, <1>3 DEF TakeUpdate, Receives
<1>5. /\ h \in Signals /\ Tail(ch) \in Seq(Signals)
      /\ ChannelFair(Tail(ch), o, before, total) /\ SignalFair(h, Tail(ch), 0, o, before, total)
    BY <1>2, <1>3, <1>4, FirstIsFair
<1>6. PICK f, w, none : f = Pushed(v, q) /\ w = Updated(f, h) /\ none = NoMessages
    OBVIOUS
<1>7. w \in Views /\ WindowFair(w, NoMessages, Tail(ch), o, before, total)
    BY <1>2, <1>3, <1>4, <1>5, <1>6, UpdateIsFair
<1>8. IsQueue(none) /\ WindowFair(w, none, Tail(ch), o, before, total)
    BY <1>6, <1>7, NoneQueued
<1>9. w.loading = v.loading /\ w.cursor = v.cursor /\ w.epoch = v.epoch
  <2>1. f \in Views /\ f.loading = v.loading /\ f.cursor = v.cursor /\ f.epoch = v.epoch
      BY <1>2, <1>6, PushedShape
  <2>2. w.loading = f.loading /\ w.cursor = f.cursor /\ w.epoch = f.epoch
      BY <1>4, <1>6, <2>1, UpdateAsksNothing
  <2> QED
      BY <2>1, <2>2
<1>10. HistoryFair(w, Tail(ch), qs, o)
    BY <1>2, <1>4, <1>9, HistoryNext
<1>11. /\ cache' = o /\ early' = before /\ unread' = total /\ online' = on /\ channel' = Tail(ch)
       /\ view' = w /\ queue' = none /\ asks' = qs
    BY <1>1, <1>3, <1>6 DEF TakeUpdate, Flushed, Took, core
<1> QED
    BY <1>2, <1>5, <1>7, <1>8, <1>10, <1>11, Becomes

LEMMA TakeProgressIsFair ==
    ASSUME Inductive, Typed, Fair, TakeProgress
    PROVE  Typed' /\ Fair'
<1>1. PICK o, before, total, on, ch, v, q, qs :
        /\ cache = o /\ early = before /\ unread = total /\ online = on /\ channel = ch
        /\ view = v /\ queue = q /\ asks = qs
    OBVIOUS
<1>2. /\ o \in Objects /\ EndsShow(o) /\ total \in Int /\ on \in BOOLEAN /\ ch \in Seq(Signals)
      /\ v \in Views /\ IsQueue(q) /\ qs \in Seq(Asks) /\ StoreFair(o, before)
      /\ ChannelFair(ch, o, before, total)
      /\ WindowFair(v, q, ch, o, before, total) /\ HistoryFair(v, ch, qs, o)
    BY <1>1, IsNow
<1>3. PICK h : h = Head(ch)
    OBVIOUS
<1>4. ch # <<>> /\ h.kind = "progress"
    BY <1>1, <1>3 DEF TakeProgress, Receives
<1>5. /\ h \in Signals /\ Tail(ch) \in Seq(Signals)
      /\ ChannelFair(Tail(ch), o, before, total) /\ SignalFair(h, Tail(ch), 0, o, before, total)
    BY <1>2, <1>3, <1>4, FirstIsFair
<1>6. PICK n \in Int : n = h.total
    BY <1>4, <1>5, SignalShape
<1>7. PICK w : w = [v EXCEPT !.total = n]
    OBVIOUS
<1>8. w \in Views /\ ShowsTheSame(v, w) /\ w.total = n /\ w.loading = v.loading
    BY <1>2, <1>7 DEF Views, ShowsTheSame
<1>9. WindowFair(w, q, Tail(ch), o, before, total)
    BY <1>2, <1>3, <1>4, <1>5, <1>6, <1>8, ProgressIsFair
<1>10. HistoryFair(w, Tail(ch), qs, o)
    BY <1>2, <1>4, <1>8, HistoryNext DEF ShowsTheSame
<1>11. /\ cache' = o /\ early' = before /\ unread' = total /\ online' = on /\ channel' = Tail(ch)
       /\ view' = w /\ queue' = q /\ asks' = qs
    BY <1>1, <1>3, <1>6, <1>7 DEF TakeProgress, Took, core
<1> QED
    BY <1>2, <1>5, <1>8, <1>9, <1>10, <1>11, Becomes

\* Loading or not, the window shows the same.
LEMMA LoadingIsNotShown ==
    ASSUME NEW v \in Views, NEW loading \in BOOLEAN, NEW w, w = [v EXCEPT !.loading = loading]
    PROVE  /\ w \in Views /\ ShowsTheSame(v, w) /\ w.total = v.total /\ w.loading = loading
           /\ w.epoch = v.epoch /\ w.cursor = v.cursor
BY DEF Views, ShowsTheSame

\* A page is of the snapshot shown.
LEMMA PageAsksNothing ==
    ASSUME NEW v \in Views, NEW q, IsQueue(q), NEW h \in Signals, h.kind = "page",
           NEW w, w = WithHistory(Pushed(v, q), h.page)
    PROVE  w.epoch = v.epoch
<1>1. PICK f : f = Pushed(v, q)
    OBVIOUS
<1>2. f \in Views /\ f.epoch = v.epoch
    BY <1>1, PushedShape
<1>3. PICK S \in SUBSET Messages : h.page \in Pages(S)
    BY SignalShape DEF SomePages
<1>4. PICK page \in Pages(S) : page = h.page
    BY <1>3
<1>5. IsQueue(page.messages) /\ \E g \in Views : HistoryTaken(f, S, page, g)
    BY <1>2, HistoryShape
<1>6. PICK g \in Views : HistoryTaken(f, S, page, g)
    BY <1>5
<1>7. w = Pushed(g, page.messages) /\ g.epoch = f.epoch
    BY <1>1, <1>4, <1>6 DEF HistoryTaken
<1>8. w.epoch = g.epoch
    BY <1>5, <1>7, PushedShape
<1> QED
    BY <1>2, <1>7, <1>8

LEMMA TakePageIsFair ==
    ASSUME Inductive, Typed, Fair, TakePage
    PROVE  Typed' /\ Fair'
<1>1. PICK o, before, total, on, ch, v, q, qs :
        /\ cache = o /\ early = before /\ unread = total /\ online = on /\ channel = ch
        /\ view = v /\ queue = q /\ asks = qs
    OBVIOUS
<1>2. /\ o \in Objects /\ EndsShow(o) /\ total \in Int /\ on \in BOOLEAN /\ ch \in Seq(Signals)
      /\ v \in Views /\ IsQueue(q) /\ qs \in Seq(Asks) /\ StoreFair(o, before)
      /\ ChannelFair(ch, o, before, total)
      /\ WindowFair(v, q, ch, o, before, total) /\ HistoryFair(v, ch, qs, o)
    BY <1>1, IsNow
<1>3. PICK h : h = Head(ch)
    OBVIOUS
<1>4. ch # <<>> /\ h.kind = "page"
    BY <1>1, <1>3 DEF TakePage, Receives
<1>5. /\ h \in Signals /\ Tail(ch) \in Seq(Signals)
      /\ ChannelFair(Tail(ch), o, before, total) /\ SignalFair(h, Tail(ch), 0, o, before, total)
    BY <1>2, <1>3, <1>4, FirstIsFair
<1>6. /\ cache' = o /\ early' = before /\ unread' = total /\ online' = on /\ channel' = Tail(ch)
      /\ asks' = qs
    BY <1>1 DEF TakePage, Took, core
<1>7. CASE h.epoch = v.epoch /\ v.connected /\ h.ok
  <2>1. PICK shown, none : shown = WithHistory(Pushed(v, q), h.page) /\ none = NoMessages
      OBVIOUS
  <2>2. PICK no \in BOOLEAN : no = FALSE
      OBVIOUS
  <2>3. PICK w : w = [shown EXCEPT !.loading = no]
      OBVIOUS
  <2>4. view' = w /\ queue' = none
    <3>1. Welcome(h) /\ h.ok /\ h = Head(channel)
        BY <1>1, <1>3, <1>7 DEF Welcome
    <3>2. view' = [shown EXCEPT !.loading = @ /\ h.epoch # v.epoch] /\ queue' = none
        BY <1>1, <2>1, <3>1 DEF TakePage, Flushed
    <3>3. (shown.loading /\ h.epoch # v.epoch) = no
        BY <1>7, <2>2
    <3> QED
        BY <2>3, <3>2, <3>3
  <2>5. IsPage(h, v.epoch)
      BY <1>4, <1>7 DEF IsPage
  <2>6. \A m \in Held(o) : m < v.cursor /\ (m >= h.page.cursor \/ ~h.page.more) =>
          m \in DOMAIN h.page.messages \/ Ahead(Tail(ch), 0, MessageSignals(m))
      BY <1>2, <1>3, <1>4, <2>5, HistoryGiven
  <2>7. shown \in Views /\ WindowFair(shown, NoMessages, Tail(ch), o, before, total)
      BY <1>2, <1>3, <1>4, <1>5, <2>1, <2>6, PageTakenIsFair
  <2>8. shown.epoch = v.epoch
      BY <1>2, <1>4, <1>5, <2>1, PageAsksNothing
  <2>9. w \in Views /\ ShowsTheSame(shown, w) /\ w.total = shown.total /\ w.epoch = shown.epoch
      BY <2>2, <2>3, <2>7, LoadingIsNotShown
  <2>10. WindowFair(w, none, Tail(ch), o, before, total) /\ IsQueue(none)
      BY <2>1, <2>7, <2>9, NoneQueued DEF WindowFair, ShownFair, WholeFair, ShowsTheSame, Held
  <2>11. HistoryFair(w, Tail(ch), qs, o)
      BY <1>2, <1>3, <1>4, <2>5, <2>8, <2>9, HistoryArrived
  <2> QED
      BY <1>2, <1>5, <1>6, <2>4, <2>9, <2>10, <2>11, Becomes
<1>8. CASE ~(h.epoch = v.epoch /\ v.connected /\ h.ok)
  <2>1. v.loading \in BOOLEAN
      BY <1>2 DEF Views
  <2>2. PICK loading \in BOOLEAN : loading = (v.loading /\ h.epoch # v.epoch)
      BY <2>1
  <2>3. PICK w : w = [v EXCEPT !.loading = loading]
      OBVIOUS
  <2>4. view' = w /\ queue' = q
    <3>1. ~(Welcome(h) /\ h.ok) /\ h = Head(channel)
        BY <1>1, <1>3, <1>8 DEF Welcome
    <3>2. view' = [v EXCEPT !.loading = @ /\ h.epoch # v.epoch] /\ queue' = q
        BY <1>1, <3>1 DEF TakePage
    <3> QED
        BY <2>2, <2>3, <3>2
  <2>5. /\ w \in Views /\ ShowsTheSame(v, w) /\ w.total = v.total /\ w.loading = loading
        /\ w.epoch = v.epoch /\ w.cursor = v.cursor
      BY <1>2, <2>3, LoadingIsNotShown
  <2>6. WindowFair(w, q, Tail(ch), o, before, total)
      BY <1>2, <1>3, <1>4, <2>5, QuietIsFair
  <2>7. HistoryFair(w, Tail(ch), qs, o)
    <3>1. CASE h.epoch = v.epoch
      <4>1. IsPage(Head(ch), v.epoch)
          BY <1>3, <1>4, <3>1 DEF IsPage
      <4> QED
          BY <1>2, <1>4, <2>5, <4>1, HistoryArrived
    <3>2. CASE h.epoch # v.epoch
      <4>1. w.loading = v.loading
          BY <2>1, <2>2, <2>5, <3>2
      <4> QED
          BY <1>2, <1>4, <2>5, <4>1, HistoryNext
    <3> QED
        BY <3>1, <3>2
  <2> QED
      BY <1>2, <1>5, <1>6, <2>4, <2>5, <2>6, <2>7, Becomes
<1> QED
    BY <1>7, <1>8

LEMMA QuietKeepsFair ==
    ASSUME Inductive, Typed, Fair, UNCHANGED vars
    PROVE  Typed' /\ Fair'
<1>1. PICK o, before, total, on, ch, v, q, qs :
        /\ cache = o /\ early = before /\ unread = total /\ online = on /\ channel = ch
        /\ view = v /\ queue = q /\ asks = qs
    OBVIOUS
<1>2. /\ o \in Objects /\ EndsShow(o) /\ total \in Int /\ on \in BOOLEAN /\ ch \in Seq(Signals)
      /\ v \in Views /\ IsQueue(q) /\ qs \in Seq(Asks) /\ StoreFair(o, before)
      /\ ChannelFair(ch, o, before, total)
      /\ WindowFair(v, q, ch, o, before, total) /\ HistoryFair(v, ch, qs, o)
    BY <1>1, IsNow
<1>3. /\ cache' = o /\ early' = before /\ unread' = total /\ online' = on /\ channel' = ch
      /\ view' = v /\ queue' = q /\ asks' = qs
    BY <1>1 DEF vars, core, window
<1> QED
    BY <1>2, <1>3, Becomes

LEMMA InitIsFair == Init => Typed /\ Fair
<1> SUFFICES ASSUME Init PROVE Typed /\ Fair
    OBVIOUS
<1>1. PICK o, before : o = cache /\ before = early
    OBVIOUS
<1>2. o \in Objects
    BY <1>1, InitEstablishes DEF Inductive
<1>3. StoreFair(o, before)
  <2>1. o = Empty
      BY <1>1 DEF Init
  <2>2. ASSUME NEW m \in Messages
        PROVE  o.message[m].by = Nobody /\ o.delivery[m] = 0
      BY <2>1 DEF Empty, NoItem
  <2> QED
      BY <2>2 DEF StoreFair
<1>4. PICK total, on, ch, v, q, qs : StartsFair(o, before, total, on, ch, v, q, qs)
    BY <1>2, StartIsFair
<1>5. /\ total = Unknown /\ on = FALSE /\ ch = <<>> /\ v = EmptyView /\ q = NoMessages /\ qs = <<>>
      /\ total \in Int /\ on \in BOOLEAN /\ ch \in Seq(Signals) /\ v \in Views /\ IsQueue(q)
      /\ qs \in Seq(Asks) /\ ChannelFair(ch, o, before, total)
      /\ WindowFair(v, q, ch, o, before, total) /\ HistoryFair(v, ch, qs, o)
    BY <1>4 DEF StartsFair
<1>6. /\ cache = o /\ early = before /\ unread = total /\ online = on /\ channel = ch
      /\ view = v /\ queue = q /\ asks = qs
    BY <1>1, <1>5 DEF Init
<1>7. Typed
    BY <1>5, <1>6, Zenon DEF Typed
<1>8. Fair
    BY <1>3, <1>5, <1>6, Zenon DEF Fair
<1> QED
    BY <1>7, <1>8

LEMMA NextKeepsFair == Inductive /\ Typed /\ Fair /\ [Next]_vars => Typed' /\ Fair'
<1> SUFFICES ASSUME Inductive, Typed, Fair, [Next]_vars PROVE Typed' /\ Fair'
    OBVIOUS
<1>1. CASE Login \/ LoseConnection \/ Restart \/ AnswerHistory
    BY <1>1, LoginIsFair, LoseConnectionIsFair, RestartIsFair, AnswerHistoryIsFair
<1>2. CASE \E p \in DOMAIN stream : Apply(p)
    BY <1>2, ApplyIsFair
<1>3. CASE TakeConnection \/ TakeInitial \/ TakeMessage \/ TakeUpdate \/ TakeProgress \/ TakePage
    BY <1>3, TakeConnectionIsFair, TakeInitialIsFair, TakeMessageIsFair, TakeUpdateIsFair,
       TakeProgressIsFair, TakePageIsFair
<1>4. CASE Frame \/ LoadHistory
    BY <1>4, FrameIsFair, LoadHistoryIsFair
<1>5. CASE UNCHANGED vars
    BY <1>5, QuietKeepsFair
<1> QED
    BY <1>1, <1>2, <1>3, <1>4, <1>5 DEF Next

-----------------------------------------------------------------------------
(* What the window shows when nothing is under way *)

\* With nothing ahead of it, a faithful message is the stored one.
LEMMA FaithfulIsExact ==
    ASSUME NEW o \in Objects, NEW before, StoreFair(o, before), NEW m \in Messages, NEW x \in Shown,
           NEW ch, ch = <<>>, Faithful(x, m, ch, 0, o)
    PROVE  x = Item(o, m)
<1>1. \A i, signals : ~Ahead(ch, i, signals)
    BY NothingAhead
<1>2. /\ x.by = o.message[m].by /\ x.by # Nobody
      /\ x.recalled <=> o.message[m].recalled
      /\ x.burned <=> o.message[m].burned
      /\ x.text <=> ~x.recalled /\ ~x.burned
      /\ x.count = o.count[m]
    BY <1>1 DEF Faithful, Counted
<1>3. o.message[m].text <=> ~o.message[m].recalled /\ ~o.message[m].burned
    BY <1>2 DEF StoreFair
<1>4. PICK y \in Shown : y = Item(o, m)
    BY ItemShape
<1>5. /\ y.by = o.message[m].by /\ y.text = o.message[m].text
      /\ y.recalled = o.message[m].recalled /\ y.burned = o.message[m].burned
      /\ y.count = o.count[m]
    BY <1>4, ItemShape
<1>6. /\ x.by = y.by /\ x.count = y.count
      /\ x.recalled <=> y.recalled
      /\ x.burned <=> y.burned
      /\ x.text <=> y.text
    BY <1>2, <1>3, <1>5
<1>7. x = y
    BY <1>6 DEF Shown
<1> QED
    BY <1>4, <1>7

LEMMA FairShowsTheCache ==
    ASSUME Inductive, Typed, Fair
    PROVE  ViewShowsCache
<1>1. PICK o, before, total, on, ch, v, q, qs :
        /\ cache = o /\ early = before /\ unread = total /\ online = on /\ channel = ch
        /\ view = v /\ queue = q /\ asks = qs
    OBVIOUS
<1>2. /\ o \in Objects /\ EndsShow(o) /\ total \in Int /\ on \in BOOLEAN /\ ch \in Seq(Signals)
      /\ v \in Views /\ IsQueue(q) /\ qs \in Seq(Asks) /\ StoreFair(o, before)
      /\ ChannelFair(ch, o, before, total)
      /\ WindowFair(v, q, ch, o, before, total) /\ HistoryFair(v, ch, qs, o)
    BY <1>1, IsNow
<1> SUFFICES ASSUME v.epoch > 0, ch = <<>>, DOMAIN q = {}
             PROVE  /\ \A m \in Held(v) : /\ v.message[m] = Item(o, m)
                                          /\ v.delivery[m] = o.delivery[m] \/ m \in before
                    /\ \A m \in Held(o) : m >= v.cursor \/ ~v.more => m \in Held(v)
                    /\ v.read = o.read
                    /\ v.conversation = o.conversation
                    /\ v.total = Cardinality(Unread(o))
    BY <1>1 DEF ViewShowsCache
<1>3. \A i, signals : ~Ahead(ch, i, signals)
    BY NothingAhead
<1>4. ShownFair(v, q, ch, o, before) /\ WholeFair(v, q, ch, o, total)
    BY <1>2 DEF WindowFair
<1>5. ASSUME NEW m \in Held(v)
      PROVE  v.message[m] = Item(o, m) /\ (v.delivery[m] = o.delivery[m] \/ m \in before)
  <2>1. m \in Messages /\ v.message[m].by # Nobody
      BY DEF Held
  <2>2. v.message[m] \in Shown
      BY <1>2, <2>1 DEF Views
  <2>3. Faithful(v.message[m], m, ch, 0, o) /\ Delivered(v.delivery[m], m, ch, 0, o, before)
      BY <1>4, <2>1 DEF ShownFair
  <2>4. v.message[m] = Item(o, m)
      BY <1>2, <2>1, <2>2, <2>3, FaithfulIsExact
  <2> QED
      BY <1>3, <2>3, <2>4 DEF Delivered
<1>6. \A m \in Held(o) : m >= v.cursor \/ ~v.more => m \in Held(v)
    BY <1>3, <1>4 DEF WholeFair
<1>7. v.read = o.read
  <2>1. v.read \in [People -> Nat] /\ o.read \in [People -> Nat]
      BY <1>2 DEF Views, Objects
  <2>2. \A u \in People : v.read[u] = o.read[u]
      BY <1>3, <1>4 DEF WholeFair, IsRead
  <2> QED
      BY <2>1, <2>2
<1>8. v.conversation = o.conversation
    BY <1>3, <1>4 DEF WholeFair, IsVersion
<1>9. v.total = Cardinality(Unread(o))
  <2>1. total # Unknown /\ v.total = total
      BY <1>3, <1>4 DEF WholeFair, IsTotal
  <2>2. total # Unknown => total = Cardinality(Unread(o))
      BY <1>1 DEF Inductive, UnreadIsExact
  <2> QED
      BY <2>1, <2>2
<1> QED
    BY <1>5, <1>6, <1>7, <1>8, <1>9

-----------------------------------------------------------------------------
(* The theorem *)

\* Whatever the events, the order they come in, the logins, the restarts and the
\* pages of history: when nothing is under way to it, the window shows what the
\* device has stored (chat-view.vue, session.ts, MiniImStateStore::apply).
THEOREM WindowIsRight == Spec => []ViewShowsCache
<1>1. Init => Inductive /\ Typed /\ Fair
    BY InitEstablishes, InitIsFair
<1>2. Inductive /\ Typed /\ Fair /\ [Next]_vars => (Inductive /\ Typed /\ Fair)'
    BY NextKeepsInductive, NextKeepsFair
<1>3. Inductive /\ Typed /\ Fair => ViewShowsCache
    BY FairShowsTheCache
<1> QED
    BY <1>1, <1>2, <1>3, PTL DEF Spec

=============================================================================
