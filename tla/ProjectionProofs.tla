---------------------------- MODULE ProjectionProofs ----------------------------
(***************************************************************************)
(* Proofs about Projection: the objects a device stores are those of the   *)
(* events applied, in whatever order they came, and the number of unread   *)
(* messages it keeps up to date event by event is the exact one; for       *)
(* streams of any length, any number of messages, logins and restarts.     *)
(***************************************************************************)
EXTENDS Projection, FiniteSetTheorems, TLAPS

-----------------------------------------------------------------------------
(* The invariant, as a relation between objects and the events applied *)

Items == [by : People \cup {Nobody}, recalled : BOOLEAN, burned : BOOLEAN, text : BOOLEAN,
          count : {0}]

Objects ==
  [message : [Messages -> Items],
   ended : [Messages -> {"none"} \cup Ends],
   count : [Messages -> Nat],
   delivery : [Messages -> Nat],
   read : [People -> Nat],
   conversation : Nat]

\* The positions, among those applied, of the events of some kinds about m.
Positions(s, done, kinds, m) == {p \in done : s[p].kind \in kinds /\ s[p].of = m}

\* How far u's receipts among those applied reach, and the conversation's versions.
Receipts(s, done, u) == {s[p].of : p \in {q \in done : s[q].kind = "receipt" /\ s[q].by = u}}
Versions(s, done) == {p \in done : s[p].kind = "conversation"}

IsNewest(n, positions) == n \in positions \cup {0} /\ \A p \in positions : p <= n

-----------------------------------------------------------------------------
(* Facts about the newest of some positions *)

LEMMA NewestIsMax ==
    ASSUME NEW positions \in SUBSET Nat, NEW n \in Nat, IsNewest(n, positions)
    PROVE  Newest(positions) = n
<1>1. PICK S : S = positions \cup {0}
    OBVIOUS
<1>2. n \in S /\ S \subseteq Nat /\ \A y \in S : n >= y
    BY <1>1 DEF IsNewest
<1>3. \A x \in S : (\A y \in S : x >= y) => x = n
    BY <1>2
<1>4. (CHOOSE x \in S : \A y \in S : x >= y) = n
    BY <1>2, <1>3
<1> QED
    BY <1>1, <1>4 DEF Newest, Max

LEMMA LaterIsNewest ==
    ASSUME NEW positions \in SUBSET Nat, NEW n \in Nat, IsNewest(n, positions), NEW p \in Nat
    PROVE  IsNewest(Later(n, p), positions \cup {p}) /\ Later(n, p) \in Nat
BY DEF IsNewest, Later

-----------------------------------------------------------------------------
(* What an event makes of the objects *)

\* The message of an event as it arrives.
Arrived(e, redacted) == [NoItem EXCEPT !.by = e.by, !.recalled = redacted, !.text = ~redacted]

LEMMA ArrivedShape ==
    ASSUME NEW e \in Event, NEW redacted \in BOOLEAN
    PROVE  /\ Arrived(e, redacted) \in Items
           /\ Arrived(e, redacted).by = e.by /\ e.by # Nobody
           /\ Arrived(e, redacted).burned = FALSE
           /\ Arrived(e, redacted).recalled = redacted
           /\ Arrived(e, redacted).text <=> ~Arrived(e, redacted).recalled
BY DEF Arrived, Event, Items, NoItem, People, Me, Other, Nobody

\* A message that ended is recalled, burned by a burn only, and has no text.
LEMMA ProtectedShape ==
    ASSUME NEW item \in Items, NEW end \in {"none"} \cup Ends
    PROVE  /\ Protected(item, end) \in Items
           /\ Protected(item, end).by = item.by
           /\ Protected(item, end).recalled <=> item.recalled \/ end # "none"
           /\ Protected(item, end).burned <=> item.burned \/ end = "burn"
           /\ Protected(item, end).text <=>
                item.text /\ ~Protected(item, end).recalled /\ ~Protected(item, end).burned
<1>1. PICK recalled \in BOOLEAN, burned \in BOOLEAN, text \in BOOLEAN :
        /\ recalled <=> item.recalled \/ end # "none"
        /\ burned <=> item.burned \/ end = "burn"
        /\ text <=> item.text /\ ~recalled /\ ~burned
        /\ Protected(item, end) = [item EXCEPT !.recalled = recalled, !.burned = burned, !.text = text]
  <2>1. item.recalled \in BOOLEAN /\ item.burned \in BOOLEAN /\ item.text \in BOOLEAN
      BY DEF Items
  <2>2. /\ (item.recalled \/ end # "none") \in BOOLEAN
        /\ (item.burned \/ end = "burn") \in BOOLEAN
        /\ (item.text /\ ~(item.recalled \/ end # "none") /\ ~(item.burned \/ end = "burn")) \in BOOLEAN
      OBVIOUS
  <2> QED
      BY <2>1, <2>2 DEF Protected
<1>2. /\ Protected(item, end) \in Items /\ Protected(item, end).by = item.by
      /\ Protected(item, end).recalled = recalled
      /\ Protected(item, end).burned = burned
      /\ Protected(item, end).text = text
    BY <1>1 DEF Items
<1> QED
    BY <1>1, <1>2

LEMMA EndedShape ==
    ASSUME NEW old \in {"none"} \cup Ends, NEW new \in Ends
    PROVE  /\ Ended(old, new) \in Ends /\ Ended(old, new) # "none"
           /\ Ended(old, new) = "burn" <=> old = "burn" \/ new = "burn"
BY DEF Ended, Ends

\* A message's own event puts it there, ended if its end came first.
LEMMA MessageProjects ==
    ASSUME NEW objects \in Objects, NEW p \in Nat, NEW e \in Event, NEW redacted \in BOOLEAN,
           e.kind = "message"
    PROVE  LET o == Projected(objects, p, e, redacted)
           IN /\ o \in Objects
              /\ o.message = [objects.message EXCEPT ![e.of] =
                                 Protected(Arrived(e, redacted), objects.ended[e.of])]
              /\ o.count = [objects.count EXCEPT ![e.of] = IF @ = 0 THEN p ELSE @]
              /\ o.ended = objects.ended /\ o.delivery = objects.delivery
              /\ o.read = objects.read /\ o.conversation = objects.conversation
<1>1. PICK message, count :
        /\ message = [objects.message EXCEPT ![e.of] =
                         Protected(Arrived(e, redacted), objects.ended[e.of])]
        /\ count = [objects.count EXCEPT ![e.of] = IF @ = 0 THEN p ELSE @]
    OBVIOUS
<1>2. Projected(objects, p, e, redacted) = [objects EXCEPT !.message = message, !.count = count]
  <2>1. Projected(objects, p, e, redacted) =
          [objects EXCEPT !.message[e.of] = Protected(Arrived(e, redacted), objects.ended[e.of]),
                          !.count[e.of] = IF @ = 0 THEN p ELSE @]
      BY DEF Projected, Arrived, Ends
  <2> QED
      BY <1>1, <2>1 DEF Objects
<1>3. message \in [Messages -> Items]
  <2>1. e.of \in Messages => Protected(Arrived(e, redacted), objects.ended[e.of]) \in Items
    <3>1. Arrived(e, redacted) \in Items
        BY ArrivedShape
    <3>2. e.of \in Messages => objects.ended[e.of] \in {"none"} \cup Ends
        BY DEF Objects
    <3> QED
        BY <3>1, <3>2, ProtectedShape
  <2> QED
      BY <1>1, <2>1 DEF Objects
<1>4. count \in [Messages -> Nat]
    BY <1>1 DEF Objects
<1> QED
    BY <1>1, <1>2, <1>3, <1>4 DEF Objects

\* An end marks the message, if it is there, and is kept for it if not.
LEMMA EndProjects ==
    ASSUME NEW objects \in Objects, NEW p \in Nat, NEW e \in Event, NEW redacted \in BOOLEAN,
           e.kind \in Ends
    PROVE  LET o == Projected(objects, p, e, redacted)
           IN /\ o \in Objects
              /\ o.ended = [objects.ended EXCEPT ![e.of] = Ended(objects.ended[e.of], e.kind)]
              /\ o.message = [objects.message EXCEPT ![e.of] =
                                 IF @.by = Nobody THEN @
                                 ELSE Protected(@, Ended(objects.ended[e.of], e.kind))]
              /\ o.count = objects.count /\ o.delivery = objects.delivery
              /\ o.read = objects.read /\ o.conversation = objects.conversation
<1>1. PICK message, ended :
        /\ ended = [objects.ended EXCEPT ![e.of] = Ended(objects.ended[e.of], e.kind)]
        /\ message = [objects.message EXCEPT ![e.of] =
                         IF @.by = Nobody THEN @
                         ELSE Protected(@, Ended(objects.ended[e.of], e.kind))]
    OBVIOUS
<1>2. Projected(objects, p, e, redacted) = [objects EXCEPT !.ended = ended, !.message = message]
  <2>1. Projected(objects, p, e, redacted) =
          [objects EXCEPT !.ended[e.of] = Ended(objects.ended[e.of], e.kind),
                          !.message[e.of] = IF @.by = Nobody THEN @
                                            ELSE Protected(@, Ended(objects.ended[e.of], e.kind))]
      BY DEF Projected, Ends
  <2> QED
      BY <1>1, <2>1 DEF Objects
<1>3. e.of \in Messages => /\ Ended(objects.ended[e.of], e.kind) \in Ends
                           /\ objects.message[e.of] \in Items
  <2>1. e.of \in Messages => objects.ended[e.of] \in {"none"} \cup Ends /\ objects.message[e.of] \in Items
      BY DEF Objects
  <2> QED
      BY <2>1, EndedShape
<1>4. message \in [Messages -> Items]
  <2>1. e.of \in Messages => Protected(objects.message[e.of], Ended(objects.ended[e.of], e.kind)) \in Items
      BY <1>3, ProtectedShape
  <2> QED
      BY <1>1, <2>1 DEF Objects
<1>5. ended \in [Messages -> {"none"} \cup Ends]
    BY <1>1, <1>3 DEF Objects
<1> QED
    BY <1>1, <1>2, <1>4, <1>5 DEF Objects

\* Counts, deliveries, receipts and the conversation keep the newest.
LEMMA CountProjects ==
    ASSUME NEW objects \in Objects, NEW p \in Nat, NEW e \in Event, NEW redacted \in BOOLEAN,
           e.kind = "readCount"
    PROVE  LET o == Projected(objects, p, e, redacted)
           IN /\ o \in Objects
              /\ o.count = [objects.count EXCEPT ![e.of] = Later(@, p)]
              /\ o.message = objects.message /\ o.ended = objects.ended
              /\ o.delivery = objects.delivery
              /\ o.read = objects.read /\ o.conversation = objects.conversation
<1>1. PICK count : count = [objects.count EXCEPT ![e.of] = Later(@, p)]
    OBVIOUS
<1>2. Projected(objects, p, e, redacted) = [objects EXCEPT !.count = count]
  <2>1. Projected(objects, p, e, redacted) = [objects EXCEPT !.count[e.of] = Later(@, p)]
      BY DEF Projected, Ends
  <2> QED
      BY <1>1, <2>1 DEF Objects
<1>3. count \in [Messages -> Nat]
    BY <1>1 DEF Objects, Later
<1> QED
    BY <1>1, <1>2, <1>3 DEF Objects

LEMMA DeliveryProjects ==
    ASSUME NEW objects \in Objects, NEW p \in Nat, NEW e \in Event, NEW redacted \in BOOLEAN,
           e.kind = "delivery"
    PROVE  LET o == Projected(objects, p, e, redacted)
           IN /\ o \in Objects
              /\ o.delivery = [objects.delivery EXCEPT ![e.of] = Later(@, p)]
              /\ o.message = objects.message /\ o.ended = objects.ended
              /\ o.count = objects.count
              /\ o.read = objects.read /\ o.conversation = objects.conversation
<1>1. PICK delivery : delivery = [objects.delivery EXCEPT ![e.of] = Later(@, p)]
    OBVIOUS
<1>2. Projected(objects, p, e, redacted) = [objects EXCEPT !.delivery = delivery]
  <2>1. Projected(objects, p, e, redacted) = [objects EXCEPT !.delivery[e.of] = Later(@, p)]
      BY DEF Projected, Ends
  <2> QED
      BY <1>1, <2>1 DEF Objects
<1>3. delivery \in [Messages -> Nat]
    BY <1>1 DEF Objects, Later
<1> QED
    BY <1>1, <1>2, <1>3 DEF Objects

LEMMA ReceiptProjects ==
    ASSUME NEW objects \in Objects, NEW p \in Nat, NEW e \in Event, NEW redacted \in BOOLEAN,
           e.kind = "receipt"
    PROVE  LET o == Projected(objects, p, e, redacted)
           IN /\ o \in Objects
              /\ o.read = [objects.read EXCEPT ![e.by] = Later(@, e.of)]
              /\ o.message = objects.message /\ o.ended = objects.ended
              /\ o.count = objects.count /\ o.delivery = objects.delivery
              /\ o.conversation = objects.conversation
<1>1. PICK read : read = [objects.read EXCEPT ![e.by] = Later(@, e.of)]
    OBVIOUS
<1>2. Projected(objects, p, e, redacted) = [objects EXCEPT !.read = read]
  <2>1. Projected(objects, p, e, redacted) = [objects EXCEPT !.read[e.by] = Later(@, e.of)]
      BY DEF Projected, Ends
  <2> QED
      BY <1>1, <2>1 DEF Objects
<1>3. e.of \in Nat
    BY ProjectionAssumption DEF Event
<1>4. read \in [People -> Nat]
    BY <1>1, <1>3 DEF Objects, Later
<1> QED
    BY <1>1, <1>2, <1>4 DEF Objects

LEMMA ConversationProjects ==
    ASSUME NEW objects \in Objects, NEW p \in Nat, NEW e \in Event, NEW redacted \in BOOLEAN,
           e.kind = "conversation"
    PROVE  LET o == Projected(objects, p, e, redacted)
           IN /\ o \in Objects
              /\ o.conversation = Later(objects.conversation, p)
              /\ o.message = objects.message /\ o.ended = objects.ended
              /\ o.count = objects.count /\ o.delivery = objects.delivery
              /\ o.read = objects.read
<1>1. PICK conversation : conversation = Later(objects.conversation, p)
    OBVIOUS
<1>2. Projected(objects, p, e, redacted) = [objects EXCEPT !.conversation = conversation]
    BY <1>1 DEF Projected, Ends
<1>3. conversation \in Nat
    BY <1>1 DEF Objects, Later
<1> QED
    BY <1>1, <1>2, <1>3 DEF Objects

\* The same, object by object, for every kind of event.
LEMMA EveryEventProjects ==
    ASSUME NEW objects \in Objects, NEW p \in Nat, NEW e \in Event, NEW redacted \in BOOLEAN,
           NEW o, o = Projected(objects, p, e, redacted)
    PROVE  /\ o \in Objects
           /\ \A m \in Messages :
                /\ o.message[m] =
                     IF e.kind = "message" /\ e.of = m
                     THEN Protected(Arrived(e, redacted), objects.ended[m])
                     ELSE IF e.kind \in Ends /\ e.of = m /\ objects.message[m].by # Nobody
                          THEN Protected(objects.message[m], Ended(objects.ended[m], e.kind))
                          ELSE objects.message[m]
                /\ o.ended[m] = IF e.kind \in Ends /\ e.of = m THEN Ended(objects.ended[m], e.kind)
                                ELSE objects.ended[m]
                /\ o.count[m] = IF e.kind = "message" /\ e.of = m /\ objects.count[m] = 0 THEN p
                                ELSE IF e.kind = "readCount" /\ e.of = m THEN Later(objects.count[m], p)
                                ELSE objects.count[m]
                /\ o.delivery[m] = IF e.kind = "delivery" /\ e.of = m THEN Later(objects.delivery[m], p)
                                   ELSE objects.delivery[m]
           /\ \A u \in People :
                o.read[u] = IF e.kind = "receipt" /\ e.by = u THEN Later(objects.read[u], e.of)
                            ELSE objects.read[u]
           /\ o.conversation = IF e.kind = "conversation" THEN Later(objects.conversation, p)
                               ELSE objects.conversation
<1>0. /\ DOMAIN objects.message = Messages /\ DOMAIN objects.ended = Messages
      /\ DOMAIN objects.count = Messages /\ DOMAIN objects.delivery = Messages
      /\ DOMAIN objects.read = People
    BY DEF Objects
<1>1. CASE e.kind = "message"
  <2>1. /\ o \in Objects
        /\ o.message = [objects.message EXCEPT ![e.of] =
                           Protected(Arrived(e, redacted), objects.ended[e.of])]
        /\ o.count = [objects.count EXCEPT ![e.of] = IF @ = 0 THEN p ELSE @]
        /\ o.ended = objects.ended
        /\ o.delivery = objects.delivery
        /\ o.read = objects.read
        /\ o.conversation = objects.conversation
      BY <1>1, MessageProjects
  <2> QED
      BY <1>0, <1>1, <2>1 DEF Ends
<1>2. CASE e.kind \in Ends
  <2>1. /\ o \in Objects
        /\ o.ended = [objects.ended EXCEPT ![e.of] = Ended(objects.ended[e.of], e.kind)]
        /\ o.message = [objects.message EXCEPT ![e.of] =
                           IF @.by = Nobody THEN @
                           ELSE Protected(@, Ended(objects.ended[e.of], e.kind))]
        /\ o.count = objects.count
        /\ o.delivery = objects.delivery
        /\ o.read = objects.read
        /\ o.conversation = objects.conversation
      BY <1>2, EndProjects
  <2> QED
      BY <1>0, <1>2, <2>1 DEF Ends
<1>3. CASE e.kind = "readCount"
  <2>1. /\ o \in Objects
        /\ o.count = [objects.count EXCEPT ![e.of] = Later(@, p)]
        /\ o.message = objects.message
        /\ o.ended = objects.ended
        /\ o.delivery = objects.delivery
        /\ o.read = objects.read
        /\ o.conversation = objects.conversation
      BY <1>3, CountProjects
  <2> QED
      BY <1>0, <1>3, <2>1 DEF Ends
<1>4. CASE e.kind = "delivery"
  <2>1. /\ o \in Objects
        /\ o.delivery = [objects.delivery EXCEPT ![e.of] = Later(@, p)]
        /\ o.message = objects.message
        /\ o.ended = objects.ended
        /\ o.count = objects.count
        /\ o.read = objects.read
        /\ o.conversation = objects.conversation
      BY <1>4, DeliveryProjects, SMTT(30)
  <2> QED
      BY <1>0, <1>4, <2>1 DEF Ends
<1>5. CASE e.kind = "receipt"
  <2>1. /\ o \in Objects
        /\ o.read = [objects.read EXCEPT ![e.by] = Later(@, e.of)]
        /\ o.message = objects.message
        /\ o.ended = objects.ended
        /\ o.count = objects.count
        /\ o.delivery = objects.delivery
        /\ o.conversation = objects.conversation
      BY <1>5, ReceiptProjects
  <2> QED
      BY <1>0, <1>5, <2>1 DEF Ends
<1>6. CASE e.kind = "conversation"
  <2>1. /\ o \in Objects
        /\ o.conversation = Later(objects.conversation, p)
        /\ o.message = objects.message
        /\ o.ended = objects.ended
        /\ o.count = objects.count
        /\ o.delivery = objects.delivery
        /\ o.read = objects.read
      BY <1>6, ConversationProjects
  <2> QED
      BY <1>0, <1>6, <2>1 DEF Ends
<1> QED
    BY <1>1, <1>2, <1>3, <1>4, <1>5, <1>6 DEF Event

-----------------------------------------------------------------------------
(* The objects are those of the events applied *)

MessageIsSound(objects, s, done, m) ==
    /\ objects.message[m].by # Nobody <=> Positions(s, done, {"message"}, m) # {}
    /\ objects.ended[m] = "none" <=> Positions(s, done, Ends, m) = {}
    /\ objects.ended[m] = "burn" <=> Positions(s, done, {"burn"}, m) # {}
    /\ objects.message[m].by # Nobody =>
         /\ objects.ended[m] # "none" => objects.message[m].recalled
         /\ objects.message[m].burned <=> objects.ended[m] = "burn"
    /\ objects.message[m].text => ~objects.message[m].recalled /\ ~objects.message[m].burned

CountsAreSound(objects, s, done, m) ==
    /\ IsNewest(objects.count[m], Positions(s, done, {"message", "readCount"}, m))
    /\ IsNewest(objects.delivery[m], Positions(s, done, {"delivery"}, m))

Sound(objects, s, done) ==
    /\ \A m \in Messages : MessageIsSound(objects, s, done, m) /\ CountsAreSound(objects, s, done, m)
    /\ \A u \in People : IsNewest(objects.read[u], Receipts(s, done, u))
    /\ IsNewest(objects.conversation, Versions(s, done))

LEMMA ThesePositionsAreNumbers ==
    ASSUME NEW s \in Seq(Event), NEW done \in SUBSET DOMAIN s
    PROVE  /\ done \subseteq Nat
           /\ \A kinds, m : Positions(s, done, kinds, m) \in SUBSET Nat
           /\ \A u : Receipts(s, done, u) \in SUBSET Nat
           /\ Versions(s, done) \in SUBSET Nat
<1>1. DOMAIN s = 1 .. Len(s) /\ Len(s) \in Nat
    OBVIOUS
<1>2. \A p \in DOMAIN s : p \in Nat /\ s[p] \in Event
    BY <1>1
<1>3. \A e \in Event : e.of \in Nat
    BY ProjectionAssumption DEF Event
<1>4. \A u : Receipts(s, done, u) \subseteq Nat
    BY <1>2, <1>3 DEF Receipts
<1>5. (\A kinds, m : Positions(s, done, kinds, m) \subseteq Nat) /\ Versions(s, done) \subseteq Nat
    BY <1>2 DEF Positions, Versions
<1> QED
    BY <1>2, <1>4, <1>5

LEMMA MessageStaysSound ==
    ASSUME NEW objects \in Objects, NEW s, NEW done, NEW p \in Nat, s[p] \in Event,
           NEW redacted \in BOOLEAN, NEW o, o = Projected(objects, p, s[p], redacted),
           NEW m \in Messages, MessageIsSound(objects, s, done, m)
    PROVE  MessageIsSound(o, s, done \cup {p}, m)
<1>1. PICK e \in Event : e = s[p]
    OBVIOUS
<1>2. PICK old \in Items, end \in {"none"} \cup Ends : old = objects.message[m] /\ end = objects.ended[m]
    BY DEF Objects
<1>3. PICK own, ends, burns : /\ own = Positions(s, done, {"message"}, m)
                              /\ ends = Positions(s, done, Ends, m)
                              /\ burns = Positions(s, done, {"burn"}, m)
    OBVIOUS
<1>4. /\ old.by # Nobody <=> own # {}
      /\ end = "none" <=> ends = {}
      /\ end = "burn" <=> burns # {}
      /\ old.by # Nobody => /\ end # "none" => old.recalled
                            /\ old.burned <=> end = "burn"
      /\ old.text => ~old.recalled /\ ~old.burned
    BY <1>2, <1>3 DEF MessageIsSound
<1>5. PICK own1, ends1, burns1 : /\ own1 = Positions(s, done \cup {p}, {"message"}, m)
                                 /\ ends1 = Positions(s, done \cup {p}, Ends, m)
                                 /\ burns1 = Positions(s, done \cup {p}, {"burn"}, m)
    OBVIOUS
<1>6. /\ own1 = IF e.kind = "message" /\ e.of = m THEN own \cup {p} ELSE own
      /\ ends1 = IF e.kind \in Ends /\ e.of = m THEN ends \cup {p} ELSE ends
      /\ burns1 = IF e.kind = "burn" /\ e.of = m THEN burns \cup {p} ELSE burns
  <2>1. own1 = IF s[p].kind \in {"message"} /\ s[p].of = m THEN own \cup {p} ELSE own
      BY <1>3, <1>5 DEF Positions
  <2>2. ends1 = IF s[p].kind \in Ends /\ s[p].of = m THEN ends \cup {p} ELSE ends
      BY <1>3, <1>5 DEF Positions
  <2>3. burns1 = IF s[p].kind \in {"burn"} /\ s[p].of = m THEN burns \cup {p} ELSE burns
      BY <1>3, <1>5 DEF Positions
  <2> QED
      BY <1>1, <2>1, <2>2, <2>3
<1>7. PICK new, end1 : new = o.message[m] /\ end1 = o.ended[m]
    OBVIOUS
<1>8. /\ new = IF e.kind = "message" /\ e.of = m THEN Protected(Arrived(e, redacted), end)
               ELSE IF e.kind \in Ends /\ e.of = m /\ old.by # Nobody
                    THEN Protected(old, Ended(end, e.kind)) ELSE old
      /\ end1 = IF e.kind \in Ends /\ e.of = m THEN Ended(end, e.kind) ELSE end
    BY <1>1, <1>2, <1>7, EveryEventProjects
<1>9. /\ new.by # Nobody <=> own1 # {}
      /\ end1 = "none" <=> ends1 = {}
      /\ end1 = "burn" <=> burns1 # {}
      /\ new.by # Nobody => /\ end1 # "none" => new.recalled
                            /\ new.burned <=> end1 = "burn"
      /\ new.text => ~new.recalled /\ ~new.burned
  <2>1. CASE e.kind = "message" /\ e.of = m
    <3>1. PICK item \in Items : /\ item = Arrived(e, redacted) /\ item.by # Nobody
                                /\ item.burned = FALSE
        BY ArrivedShape
    <3>2. new = Protected(item, end) /\ end1 = end
        BY <1>8, <2>1, <3>1 DEF Ends
    <3>3. /\ new.by = item.by
          /\ new.recalled <=> item.recalled \/ end # "none"
          /\ new.burned <=> item.burned \/ end = "burn"
          /\ new.text => ~new.recalled /\ ~new.burned
        BY <3>2, ProtectedShape
    <3>4. own1 # {} /\ ends1 = ends /\ burns1 = burns
        BY <1>6, <2>1 DEF Ends
    <3> QED
        BY <1>4, <3>1, <3>2, <3>3, <3>4
  <2>2. CASE e.kind \in Ends /\ e.of = m
    <3>1. PICK next \in Ends : /\ next = Ended(end, e.kind) /\ next # "none"
                               /\ next = "burn" <=> end = "burn" \/ e.kind = "burn"
        BY <2>2, EndedShape
    <3>2. own1 = own /\ ends1 # {} /\ (burns1 # {} <=> burns # {} \/ e.kind = "burn")
        BY <1>6, <2>2 DEF Ends
    <3>3. end1 = next
        BY <1>8, <2>2, <3>1
    <3>4. CASE old.by = Nobody
      <4>1. new = old
          BY <1>8, <2>2, <3>4 DEF Ends
      <4> QED
          BY <1>4, <3>1, <3>2, <3>3, <3>4, <4>1
    <3>5. CASE old.by # Nobody
      <4>1. new = Protected(old, next)
          BY <1>8, <2>2, <3>1, <3>5 DEF Ends
      <4>2. /\ new.by = old.by
            /\ new.recalled <=> old.recalled \/ next # "none"
            /\ new.burned <=> old.burned \/ next = "burn"
            /\ new.text => ~new.recalled /\ ~new.burned
          BY <4>1, ProtectedShape
      <4> QED
          BY <1>4, <3>1, <3>2, <3>3, <3>5, <4>2
    <3> QED
        BY <3>4, <3>5
  <2>3. CASE ~((e.kind = "message" \/ e.kind \in Ends) /\ e.of = m)
    <3>1. new = old /\ end1 = end /\ own1 = own /\ ends1 = ends /\ burns1 = burns
        BY <1>6, <1>8, <2>3 DEF Ends
    <3> QED
        BY <1>4, <3>1
  <2> QED
      BY <2>1, <2>2, <2>3
<1> QED
    BY <1>5, <1>7, <1>9 DEF MessageIsSound

\* A message's own event is applied once, and no count of it precedes it.
LEMMA OwnEventIsFirst ==
    ASSUME NEW s \in Seq(Event), WellFormed(s), NEW done \in SUBSET DOMAIN s,
           NEW p \in DOMAIN s, p \notin done, s[p].kind = "message",
           NEW q \in Positions(s, done, {"message", "readCount"}, s[p].of)
    PROVE  p < q
<1>1. q \in done /\ q \in DOMAIN s /\ q # p /\ s[q].of = s[p].of /\ s[q].kind \in {"message", "readCount"}
    BY DEF Positions
<1>2. p \in Nat /\ q \in Nat
  <2>1. DOMAIN s = 1 .. Len(s) /\ Len(s) \in Nat
      OBVIOUS
  <2> QED
      BY <1>1, <2>1
<1>3. ~(q < p)
    BY <1>1 DEF WellFormed
<1> QED
    BY <1>1, <1>2, <1>3

LEMMA CountsStaySound ==
    ASSUME NEW objects \in Objects, NEW s \in Seq(Event), WellFormed(s),
           NEW done \in SUBSET DOMAIN s, NEW p \in DOMAIN s, p \notin done,
           NEW redacted \in BOOLEAN, NEW o, o = Projected(objects, p, s[p], redacted),
           NEW m \in Messages, CountsAreSound(objects, s, done, m)
    PROVE  CountsAreSound(o, s, done \cup {p}, m)
<1>1. PICK e \in Event : e = s[p]
    OBVIOUS
<1>2. p \in Nat
    OBVIOUS
<1>3. PICK count \in Nat, delivery \in Nat : count = objects.count[m] /\ delivery = objects.delivery[m]
    BY DEF Objects
<1>4. PICK counts \in SUBSET Nat, deliveries \in SUBSET Nat :
        /\ counts = Positions(s, done, {"message", "readCount"}, m)
        /\ deliveries = Positions(s, done, {"delivery"}, m)
    BY ThesePositionsAreNumbers
<1>5. IsNewest(count, counts) /\ IsNewest(delivery, deliveries)
    BY <1>3, <1>4 DEF CountsAreSound
<1>6. PICK counts1, deliveries1 :
        /\ counts1 = Positions(s, done \cup {p}, {"message", "readCount"}, m)
        /\ deliveries1 = Positions(s, done \cup {p}, {"delivery"}, m)
    OBVIOUS
<1>7. /\ counts1 = IF e.kind \in {"message", "readCount"} /\ e.of = m THEN counts \cup {p} ELSE counts
      /\ deliveries1 = IF e.kind \in {"delivery"} /\ e.of = m THEN deliveries \cup {p} ELSE deliveries
  <2>1. counts1 = IF s[p].kind \in {"message", "readCount"} /\ s[p].of = m THEN counts \cup {p}
                  ELSE counts
      BY <1>4, <1>6 DEF Positions
  <2>2. deliveries1 = IF s[p].kind \in {"delivery"} /\ s[p].of = m THEN deliveries \cup {p}
                      ELSE deliveries
      BY <1>4, <1>6 DEF Positions
  <2> QED
      BY <1>1, <2>1, <2>2
<1>8. /\ o.count[m] = IF e.kind = "message" /\ e.of = m /\ count = 0 THEN p
                      ELSE IF e.kind = "readCount" /\ e.of = m THEN Later(count, p)
                      ELSE count
      /\ o.delivery[m] = IF e.kind = "delivery" /\ e.of = m THEN Later(delivery, p) ELSE delivery
  <2>1. PICK at \in Nat : at = p /\ o = Projected(objects, at, e, redacted)
      BY <1>1, <1>2
  <2>2. /\ o.count[m] = IF e.kind = "message" /\ e.of = m /\ objects.count[m] = 0 THEN at
                         ELSE IF e.kind = "readCount" /\ e.of = m THEN Later(objects.count[m], at)
                         ELSE objects.count[m]
        /\ o.delivery[m] = IF e.kind = "delivery" /\ e.of = m THEN Later(objects.delivery[m], at)
                            ELSE objects.delivery[m]
      BY <2>1, EveryEventProjects
  <2> QED
      BY <1>3, <2>1, <2>2
<1>9. IsNewest(o.count[m], counts1)
  <2>1. CASE e.kind = "message" /\ e.of = m
    <3>1. \A q \in counts : p < q
        BY <1>1, <1>4, <2>1, OwnEventIsFirst
    <3>2. counts1 = counts \cup {p}
        BY <1>7, <2>1
    <3>3. CASE count = 0
      <4>1. o.count[m] = p
          BY <1>8, <2>1, <3>3
      <4>2. \A q \in counts : q <= 0
          BY <1>5, <3>3 DEF IsNewest
      <4>3. counts = {}
          BY <1>2, <3>1, <4>2
      <4> QED
          BY <1>2, <3>2, <4>1, <4>3 DEF IsNewest
    <3>4. CASE count # 0
      <4>1. o.count[m] = count
          BY <1>8, <2>1, <3>4
      <4>2. count \in counts /\ p < count
          BY <1>5, <3>1, <3>4 DEF IsNewest
      <4> QED
          BY <1>2, <1>5, <3>2, <4>1, <4>2 DEF IsNewest
    <3> QED
        BY <3>3, <3>4
  <2>2. CASE e.kind = "readCount" /\ e.of = m
      BY <1>2, <1>5, <1>7, <1>8, <2>2, LaterIsNewest
  <2>3. CASE ~(e.kind \in {"message", "readCount"} /\ e.of = m)
      BY <1>5, <1>7, <1>8, <2>3
  <2> QED
      BY <2>1, <2>2, <2>3
<1>10. IsNewest(o.delivery[m], deliveries1)
  <2>1. CASE e.kind = "delivery" /\ e.of = m
      BY <1>2, <1>5, <1>7, <1>8, <2>1, LaterIsNewest
  <2>2. CASE ~(e.kind = "delivery" /\ e.of = m)
      BY <1>5, <1>7, <1>8, <2>2
  <2> QED
      BY <2>1, <2>2
<1> QED
    BY <1>6, <1>9, <1>10 DEF CountsAreSound

LEMMA ReadsStaySound ==
    ASSUME NEW objects \in Objects, NEW at \in Nat, NEW e \in Event, NEW redacted \in BOOLEAN,
           NEW o, o = Projected(objects, at, e, redacted),
           NEW u \in People, NEW reads \in SUBSET Nat, IsNewest(objects.read[u], reads)
    PROVE  IsNewest(o.read[u], IF e.kind = "receipt" /\ e.by = u THEN reads \cup {e.of} ELSE reads)
<1>1. PICK n \in Nat, of \in Nat : n = objects.read[u] /\ of = e.of
    BY ProjectionAssumption DEF Objects, Event
<1>2. o.read[u] = IF e.kind = "receipt" /\ e.by = u THEN Later(n, of) ELSE n
    BY <1>1, EveryEventProjects
<1>3. IsNewest(n, reads)
    BY <1>1
<1>4. CASE e.kind = "receipt" /\ e.by = u
  <2>1. IsNewest(Later(n, of), reads \cup {of})
      BY <1>3, LaterIsNewest
  <2> QED
      BY <1>1, <1>2, <1>4, <2>1
<1>5. CASE ~(e.kind = "receipt" /\ e.by = u)
    BY <1>2, <1>3, <1>5
<1> QED
    BY <1>4, <1>5

LEMMA VersionsStaySound ==
    ASSUME NEW objects \in Objects, NEW at \in Nat, NEW e \in Event, NEW redacted \in BOOLEAN,
           NEW o, o = Projected(objects, at, e, redacted),
           NEW versions \in SUBSET Nat, IsNewest(objects.conversation, versions)
    PROVE  IsNewest(o.conversation, IF e.kind = "conversation" THEN versions \cup {at} ELSE versions)
<1>1. PICK n \in Nat : n = objects.conversation
    BY DEF Objects
<1>2. o.conversation = IF e.kind = "conversation" THEN Later(n, at) ELSE n
    BY <1>1, EveryEventProjects
<1>3. IsNewest(n, versions) /\ IsNewest(Later(n, at), versions \cup {at})
    BY <1>1, LaterIsNewest
<1> QED
    BY <1>2, <1>3

\* The next event, whichever it is, leaves the objects those of the events applied.
LEMMA ProjectedIsSound ==
    ASSUME NEW objects \in Objects, NEW s \in Seq(Event), WellFormed(s),
           NEW done \in SUBSET DOMAIN s, NEW p \in DOMAIN s, p \notin done,
           NEW redacted \in BOOLEAN, NEW o, o = Projected(objects, p, s[p], redacted),
           Sound(objects, s, done)
    PROVE  o \in Objects /\ Sound(o, s, done \cup {p})
<1>1. PICK e \in Event : e = s[p]
    OBVIOUS
<1>2. PICK at \in Nat : at = p /\ o = Projected(objects, at, e, redacted)
    BY <1>1
<1>3. o \in Objects
    BY <1>2, EveryEventProjects
<1>4. ASSUME NEW m \in Messages
      PROVE  MessageIsSound(o, s, done \cup {p}, m) /\ CountsAreSound(o, s, done \cup {p}, m)
  <2>1. MessageIsSound(objects, s, done, m) /\ CountsAreSound(objects, s, done, m)
      BY DEF Sound
  <2>2. CountsAreSound(o, s, done \cup {p}, m)
      BY <2>1, CountsStaySound
  <2>3. p \in Nat /\ s[p] \in Event
      OBVIOUS
  <2>4. MessageIsSound(o, s, done \cup {p}, m)
      BY <2>1, <2>3, MessageStaysSound
  <2> QED
      BY <2>2, <2>4
<1>5. ASSUME NEW u \in People
      PROVE  IsNewest(o.read[u], Receipts(s, done \cup {p}, u))
  <2>1. PICK reads \in SUBSET Nat : reads = Receipts(s, done, u) /\ IsNewest(objects.read[u], reads)
      BY ThesePositionsAreNumbers DEF Sound
  <2>2. IsNewest(o.read[u], IF e.kind = "receipt" /\ e.by = u THEN reads \cup {e.of} ELSE reads)
      BY <1>2, <2>1, ReadsStaySound
  <2>3. PICK reads1 : reads1 = Receipts(s, done \cup {p}, u)
      OBVIOUS
  <2>4. reads1 = IF e.kind = "receipt" /\ e.by = u THEN reads \cup {e.of} ELSE reads
      BY <1>1, <2>1, <2>3 DEF Receipts
  <2> QED
      BY <2>2, <2>3, <2>4
<1>6. IsNewest(o.conversation, Versions(s, done \cup {p}))
  <2>1. PICK versions \in SUBSET Nat :
          versions = Versions(s, done) /\ IsNewest(objects.conversation, versions)
      BY ThesePositionsAreNumbers DEF Sound
  <2>2. IsNewest(o.conversation, IF e.kind = "conversation" THEN versions \cup {at} ELSE versions)
      BY <1>2, <2>1, VersionsStaySound
  <2>3. PICK versions1 : versions1 = Versions(s, done \cup {p})
      OBVIOUS
  <2>4. versions1 = IF e.kind = "conversation" THEN versions \cup {at} ELSE versions
      BY <1>1, <1>2, <2>1, <2>3 DEF Versions
  <2> QED
      BY <2>2, <2>3, <2>4
<1> QED
    BY <1>3, <1>4, <1>5, <1>6 DEF Sound

LEMMA EmptyIsSound ==
    ASSUME NEW s
    PROVE  Empty \in Objects /\ Sound(Empty, s, {})
<1>1. NoItem \in Items /\ NoItem.by = Nobody /\ NoItem.text = FALSE
    BY DEF NoItem, Items
<1>2. Empty \in Objects
    BY <1>1 DEF Empty, Objects
<1>3. /\ \A kinds, m : Positions(s, {}, kinds, m) = {}
      /\ \A u : Receipts(s, {}, u) = {}
      /\ Versions(s, {}) = {}
    BY DEF Positions, Receipts, Versions
<1>4. /\ \A m \in Messages : /\ Empty.message[m] = NoItem /\ Empty.ended[m] = "none"
                             /\ Empty.count[m] = 0 /\ Empty.delivery[m] = 0
      /\ \A u \in People : Empty.read[u] = 0
      /\ Empty.conversation = 0
    BY DEF Empty
<1>5. IsNewest(0, {})
    BY DEF IsNewest
<1>6. ASSUME NEW m \in Messages
      PROVE  MessageIsSound(Empty, s, {}, m) /\ CountsAreSound(Empty, s, {}, m)
    BY <1>1, <1>3, <1>4, <1>5 DEF MessageIsSound, CountsAreSound
<1> QED
    BY <1>2, <1>3, <1>4, <1>5, <1>6 DEF Sound

-----------------------------------------------------------------------------
(* The number of unread messages *)

LEMMA UnreadIsFinite ==
    ASSUME NEW objects
    PROVE  /\ IsFiniteSet(Unread(objects)) /\ Cardinality(Unread(objects)) \in Nat
           /\ Unread(objects) \subseteq Messages
<1>1. IsFiniteSet(Messages)
    BY ProjectionAssumption, FS_Interval DEF Messages
<1>2. Unread(objects) \in SUBSET Messages
    BY DEF Unread, Held
<1>3. IsFiniteSet(Unread(objects))
    BY <1>1, <1>2, FS_Subset
<1> QED
    BY <1>2, <1>3, FS_CardinalityType

\* An event changes which messages are unread only among those it is about.
LEMMA OthersKeepTheirPlace ==
    ASSUME NEW objects \in Objects, NEW p \in Nat, NEW e \in Event, NEW redacted \in BOOLEAN,
           NEW o, o = Projected(objects, p, e, redacted)
    PROVE  Unread(o) \ About(e) = Unread(objects) \ About(e)
<1>1. ASSUME NEW m \in Messages, m \notin About(e)
      PROVE  m \in Unread(o) <=> m \in Unread(objects)
  <2>1. PICK n \in Nat, of \in Nat : n = objects.read[Me] /\ of = e.of
      BY ProjectionAssumption DEF Objects, Event, People
  <2>2. o.read[Me] = IF e.kind = "receipt" /\ e.by = Me THEN Later(n, of) ELSE n
      BY <2>1, EveryEventProjects DEF People
  <2>3. o.message[m] = objects.message[m]
    <3>1. ~((e.kind = "message" \/ e.kind \in Ends) /\ e.of = m)
        BY <1>1 DEF About, Ends
    <3>2. o.message[m] =
             IF e.kind = "message" /\ e.of = m
             THEN Protected(Arrived(e, redacted), objects.ended[m])
             ELSE IF e.kind \in Ends /\ e.of = m /\ objects.message[m].by # Nobody
                  THEN Protected(objects.message[m], Ended(objects.ended[m], e.kind))
                  ELSE objects.message[m]
        BY EveryEventProjects
    <3> QED
        BY <3>1, <3>2
  <2>4. m > o.read[Me] <=> m > objects.read[Me]
    <3>1. CASE e.kind = "receipt" /\ e.by = Me
      <4>1. m \notin 1 .. of /\ m \in Nat /\ m >= 1
        <5>1. m \notin 1 .. of
            BY <1>1, <2>1, <3>1 DEF About, Ends
        <5>2. m \in Nat /\ m >= 1
            BY ProjectionAssumption DEF Messages
        <5> QED
            BY <5>1, <5>2
      <4> QED
          BY <2>1, <2>2, <3>1, <4>1 DEF Later
    <3>2. CASE ~(e.kind = "receipt" /\ e.by = Me)
        BY <2>1, <2>2, <3>2
    <3> QED
        BY <3>1, <3>2
  <2> QED
      BY <2>3, <2>4 DEF Unread, Held
<1> QED
    BY <1>1, UnreadIsFinite

\* So counting before and after only those is enough.
LEMMA CountingTheAffectedIsEnough ==
    ASSUME NEW objects \in Objects, NEW p \in Nat, NEW e \in Event, NEW redacted \in BOOLEAN,
           NEW o, o = Projected(objects, p, e, redacted)
    PROVE  Cardinality(Unread(objects)) - Affected(e, objects) + Affected(e, o) = Cardinality(Unread(o))
<1>1. PICK before, after, about : before = Unread(objects) /\ after = Unread(o) /\ about = About(e)
    OBVIOUS
<1>2. IsFiniteSet(before) /\ IsFiniteSet(after)
    BY <1>1, UnreadIsFinite
<1>3. /\ Cardinality(before) \in Nat /\ Cardinality(before \cap about) \in Nat
      /\ Cardinality(before \ about) = Cardinality(before) - Cardinality(before \cap about)
    BY <1>2, FS_CardinalityType, FS_Intersection, FS_Difference
<1>4. /\ Cardinality(after) \in Nat /\ Cardinality(after \cap about) \in Nat
      /\ Cardinality(after \ about) = Cardinality(after) - Cardinality(after \cap about)
    BY <1>2, FS_CardinalityType, FS_Intersection, FS_Difference
<1>5. before \ about = after \ about
    BY <1>1, OthersKeepTheirPlace
<1>6. Affected(e, objects) = Cardinality(before \cap about) /\ Affected(e, o) = Cardinality(after \cap about)
    BY <1>1 DEF Affected
<1> QED
    BY <1>1, <1>3, <1>4, <1>5, <1>6

-----------------------------------------------------------------------------
(* The inductive invariant *)

CacheIsSound == Sound(cache, stream, seen)

Inductive ==
    /\ stream \in Streams
    /\ seen \subseteq DOMAIN stream
    /\ cache \in Objects
    /\ CacheIsSound
    /\ online => unread # Unknown
    /\ UnreadIsExact

LEMMA StreamsAreWellFormed ==
    ASSUME Inductive
    PROVE  stream \in Seq(Event) /\ WellFormed(stream)
BY ProjectionAssumption DEF Inductive

LEMMA SoundLater ==
    ASSUME NEW o, NEW s, NEW done, Sound(o, s, done), cache' = o, stream' = s, seen' = done
    PROVE  CacheIsSound'
BY DEF CacheIsSound, Sound, MessageIsSound, CountsAreSound, Positions, Receipts, Versions, IsNewest

LEMMA ExactLater ==
    ASSUME NEW o, cache' = o, unread' # Unknown => unread' = Cardinality(Unread(o))
    PROVE  UnreadIsExact'
BY DEF UnreadIsExact, Unread, Held

LEMMA InitEstablishes == Init => Inductive
<1> SUFFICES ASSUME Init PROVE Inductive
    OBVIOUS
<1>1. stream \in Streams /\ seen = {} /\ cache = Empty /\ unread = Unknown /\ online = FALSE
    BY DEF Init
<1>2. cache \in Objects /\ CacheIsSound
    BY <1>1, EmptyIsSound DEF CacheIsSound
<1> QED
    BY <1>1, <1>2 DEF Inductive, UnreadIsExact

\* A step that leaves the objects alone, and the unread number or its being known.
LEMMA ObjectsStay ==
    ASSUME Inductive, UNCHANGED <<stream, seen, cache>>,
           unread' # Unknown => unread' = Cardinality(Unread(cache)),
           online' => unread' # Unknown
    PROVE  Inductive'
<1>1. PICK o, s, done : o = cache /\ s = stream /\ done = seen
    OBVIOUS
<1>2. Sound(o, s, done)
    BY <1>1 DEF Inductive, CacheIsSound
<1>3. CacheIsSound'
    BY <1>1, <1>2, SoundLater
<1>4. UnreadIsExact'
    BY <1>1, ExactLater
<1> QED
    BY <1>3, <1>4 DEF Inductive

LEMMA CoreStays ==
    ASSUME Inductive, UNCHANGED <<stream, core>>
    PROVE  Inductive'
BY ObjectsStay DEF Inductive, UnreadIsExact, core

LEMMA LoginKeeps ==
    ASSUME Inductive, Login
    PROVE  Inductive'
<1>1. /\ UNCHANGED <<stream, seen, cache>>
      /\ unread' = IF unread = Unknown THEN Cardinality(Unread(cache)) ELSE unread
    BY DEF Login
<1>2. Cardinality(Unread(cache)) # Unknown
    BY UnreadIsFinite DEF Unknown
<1>3. unread' = Cardinality(Unread(cache))
    BY <1>1 DEF Inductive, UnreadIsExact
<1> QED
    BY <1>1, <1>2, <1>3, ObjectsStay

LEMMA ApplyKeeps ==
    ASSUME Inductive, NEW p \in DOMAIN stream, Apply(p)
    PROVE  Inductive'
<1>1. PICK s \in Seq(Event) : s = stream /\ WellFormed(s)
    BY StreamsAreWellFormed
<1>2. PICK objects \in Objects, done \in SUBSET DOMAIN s : objects = cache /\ done = seen
    BY <1>1 DEF Inductive
<1>3. PICK redacted \in BOOLEAN : cache' = Projected(cache, p, stream[p], redacted)
    BY DEF Apply
<1>4. PICK o, e : o = Projected(objects, p, e, redacted) /\ e = s[p]
    OBVIOUS
<1>5. /\ online /\ online' = online /\ p \notin done
      /\ cache' = o /\ seen' = done \cup {p} /\ stream' = s
      /\ unread' = unread - Affected(e, objects) + Affected(e, o)
    BY <1>1, <1>2, <1>3, <1>4 DEF Apply
<1>6. o \in Objects /\ Sound(o, s, done \cup {p})
  <2>1. Sound(objects, s, done)
      BY <1>1, <1>2 DEF Inductive, CacheIsSound
  <2>2. o = Projected(objects, p, s[p], redacted) /\ p \in DOMAIN s
      BY <1>1, <1>4
  <2> QED
      BY <1>1, <1>5, <2>1, <2>2, ProjectedIsSound
<1>7. CacheIsSound'
    BY <1>5, <1>6, SoundLater
<1>8. unread' = Cardinality(Unread(o)) /\ unread' # Unknown
  <2>1. unread = Cardinality(Unread(objects))
      BY <1>2, <1>5 DEF Inductive, UnreadIsExact
  <2>2. PICK at \in Nat : at = p
      BY <1>1
  <2>3. e \in Event
      BY <1>1, <1>4
  <2>4. Cardinality(Unread(objects)) - Affected(e, objects) + Affected(e, o) = Cardinality(Unread(o))
      BY <1>4, <2>2, <2>3, CountingTheAffectedIsEnough
  <2>5. Cardinality(Unread(o)) \in Nat
      BY UnreadIsFinite
  <2> QED
      BY <1>5, <2>1, <2>4, <2>5 DEF Unknown
<1>9. UnreadIsExact'
    BY <1>5, <1>8, ExactLater
<1>10. stream' = stream /\ seen' \subseteq DOMAIN stream
    BY <1>1, <1>2, <1>5
<1> QED
    BY <1>5, <1>6, <1>7, <1>8, <1>9, <1>10 DEF Inductive

LEMMA RestartKeeps ==
    ASSUME Inductive, Restart
    PROVE  Inductive'
<1>1. UNCHANGED <<stream, seen, cache>> /\ unread' = Unknown /\ online' = FALSE
    BY DEF Restart
<1> QED
    BY <1>1, ObjectsStay

LEMMA LoseConnectionKeeps ==
    ASSUME Inductive, LoseConnection
    PROVE  Inductive'
<1>1. UNCHANGED <<stream, seen, cache, unread>> /\ online' = FALSE
    BY DEF LoseConnection
<1> QED
    BY <1>1, ObjectsStay DEF Inductive, UnreadIsExact

LEMMA NextKeepsInductive == Inductive /\ [Next]_vars => Inductive'
<1> SUFFICES ASSUME Inductive, [Next]_vars PROVE Inductive'
    OBVIOUS
<1>1. CASE \E p \in DOMAIN stream : Apply(p)
    BY <1>1, ApplyKeeps
<1>2. CASE Login \/ LoseConnection \/ Restart
    BY <1>2, LoginKeeps, LoseConnectionKeeps, RestartKeeps
<1>3. CASE AnswerHistory \/ TakeConnection \/ TakeInitial \/ TakeMessage \/ TakeUpdate
           \/ TakeProgress \/ TakePage \/ Frame \/ LoadHistory
  <2>1. AnswerHistory \/ TakeConnection \/ TakeMessage \/ TakeProgress \/ Frame \/ LoadHistory
           => UNCHANGED <<stream, core>>
      BY DEF AnswerHistory, TakeConnection, TakeMessage, TakeProgress, Frame, LoadHistory
  <2>2. TakeInitial => UNCHANGED <<stream, core>>
      BY DEF TakeInitial
  <2>3. TakeUpdate => UNCHANGED <<stream, core>>
      BY DEF TakeUpdate
  <2>4. TakePage => UNCHANGED <<stream, core>>
      BY DEF TakePage
  <2> QED
      BY <1>3, <2>1, <2>2, <2>3, <2>4, CoreStays
<1>4. CASE UNCHANGED vars
    BY <1>4, CoreStays DEF vars
<1> QED
    BY <1>1, <1>2, <1>3, <1>4 DEF Next

-----------------------------------------------------------------------------
(* The theorems *)

\* Every reachable state satisfies the inductive invariant: the stored objects are
\* those of the events applied, and the unread number, when known, is theirs.
THEOREM Invariance == Spec => []Inductive
BY InitEstablishes, NextKeepsInductive, PTL DEF Spec

LEMMA InductiveImpliesItsEvents == Inductive => CacheIsItsEvents
<1> SUFFICES ASSUME Inductive PROVE CacheIsItsEvents
    OBVIOUS
<1>0. PICK s, done, o : s = stream /\ done = seen /\ o = cache
    OBVIOUS
<1>1. /\ s = stream /\ done = seen /\ o = cache /\ o \in Objects
      /\ s \in Seq(Event) /\ done \in SUBSET DOMAIN s /\ Sound(o, s, done)
  <2>1. Sound(cache, stream, seen) /\ cache \in Objects /\ seen \in SUBSET DOMAIN stream
      BY DEF Inductive, CacheIsSound
  <2> QED
      BY <1>0, <2>1, StreamsAreWellFormed
<1>2. /\ \A kinds, m : Positions(s, done, kinds, m) \in SUBSET Nat
      /\ \A u : Receipts(s, done, u) \in SUBSET Nat
      /\ Versions(s, done) \in SUBSET Nat
    BY <1>1, ThesePositionsAreNumbers
<1>3. \A kinds, m : {p \in seen : stream[p].kind \in kinds /\ stream[p].of = m} = Positions(s, done, kinds, m)
    BY <1>1 DEF Positions
<1>4. ASSUME NEW m \in Messages
      PROVE  /\ cache.message[m].by # Nobody <=> Positions(s, done, {"message"}, m) # {}
             /\ cache.message[m].by # Nobody /\ Positions(s, done, Ends, m) # {} => cache.message[m].recalled
             /\ cache.message[m].by # Nobody =>
                  (cache.message[m].burned <=> Positions(s, done, {"burn"}, m) # {})
             /\ cache.message[m].text => ~cache.message[m].recalled /\ ~cache.message[m].burned
             /\ cache.count[m] = Newest(Positions(s, done, {"message", "readCount"}, m))
             /\ cache.delivery[m] = Newest(Positions(s, done, {"delivery"}, m))
  <2>1. MessageIsSound(o, s, done, m) /\ CountsAreSound(o, s, done, m)
      BY <1>1 DEF Sound
  <2>2. o.count[m] \in Nat /\ o.delivery[m] \in Nat
      BY <1>1 DEF Objects
  <2>3. o.count[m] = Newest(Positions(s, done, {"message", "readCount"}, m))
      BY <1>2, <2>1, <2>2, NewestIsMax DEF CountsAreSound
  <2>4. o.delivery[m] = Newest(Positions(s, done, {"delivery"}, m))
      BY <1>2, <2>1, <2>2, NewestIsMax DEF CountsAreSound
  <2> QED
      BY <1>1, <2>1, <2>3, <2>4 DEF MessageIsSound
<1>5. ASSUME NEW u \in People
      PROVE  cache.read[u] = Newest({stream[p].of : p \in {q \in seen : stream[q].kind = "receipt"
                                                                        /\ stream[q].by = u}})
  <2>1. o.read[u] \in Nat /\ IsNewest(o.read[u], Receipts(s, done, u))
      BY <1>1 DEF Objects, Sound
  <2>2. o.read[u] = Newest(Receipts(s, done, u))
      BY <1>2, <2>1, NewestIsMax
  <2> QED
      BY <1>1, <2>2 DEF Receipts
<1>6. cache.conversation = Newest({p \in seen : stream[p].kind = "conversation"})
  <2>1. o.conversation \in Nat /\ IsNewest(o.conversation, Versions(s, done))
      BY <1>1 DEF Objects, Sound
  <2>2. o.conversation = Newest(Versions(s, done))
      BY <1>2, <2>1, NewestIsMax
  <2> QED
      BY <1>1, <2>2 DEF Versions
<1>7. ASSUME NEW m \in Messages
      PROVE  LET of(kinds) == {p \in seen : stream[p].kind \in kinds /\ stream[p].of = m}
             IN /\ cache.message[m].by # Nobody <=> of({"message"}) # {}
                /\ cache.message[m].by # Nobody /\ of(Ends) # {} => cache.message[m].recalled
                /\ cache.message[m].by # Nobody => (cache.message[m].burned <=> of({"burn"}) # {})
                /\ cache.message[m].text => ~cache.message[m].recalled /\ ~cache.message[m].burned
                /\ cache.count[m] = Newest(of({"message", "readCount"}))
                /\ cache.delivery[m] = Newest(of({"delivery"}))
    BY <1>3, <1>4, ZenonT(30)
<1> QED
    BY <1>5, <1>6, <1>7 DEF CacheIsItsEvents

\* In whatever order pages and live events came, the objects are those of the
\* events applied: ended messages without text, the newest counts, deliveries,
\* receipts and conversation (MiniImStateStore::project).
THEOREM OrderDoesNotMatter == Spec => []CacheIsItsEvents
BY Invariance, InductiveImpliesItsEvents, PTL

\* The unread number the device keeps event by event is the exact one
\* (MiniImStateStore::apply, unreadAffected).
THEOREM UnreadIsRight == Spec => []UnreadIsExact
<1>1. Inductive => UnreadIsExact
    BY DEF Inductive
<1> QED
    BY Invariance, <1>1, PTL

=============================================================================
