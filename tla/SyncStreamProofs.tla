-------------------------- MODULE SyncStreamProofs --------------------------
(***************************************************************************)
(* Proofs about SyncStream: its inductive invariant, the invariants and    *)
(* the action property the model-checking runs state, and the refinement   *)
(* of EventReplication, for every number of devices, page size and bound.  *)
(***************************************************************************)
EXTENDS SyncStream, FiniteSetTheorems, WellFoundedInduction, TLAPS

-----------------------------------------------------------------------------
(* Natural numbers and sequences *)

\* Every nonempty set of naturals has a least element.
LEMMA LeastNatural ==
  ASSUME NEW T, T \subseteq Nat, T # {}
  PROVE  \E x \in T : \A y \in T : x <= y
<1> DEFINE R == OpToRel(<, Nat)
<1>1. IsWellFoundedOn(R, Nat)
  BY NatLessThanWellFounded
<1>2. PICK x \in T : \A y \in T : <<y, x>> \notin R
  <2> HIDE DEF R
  <2> QED BY <1>1, WFMin
<1>3. \A y \in T : ~(y < x)
  BY <1>2 DEF OpToRel
<1> QED BY <1>3

\* Advance, the cursor computation of apply(), ends at the first hole: it
\* never moves back, everything it passes is in the set, the next is not.
LEMMA AdvanceStopsAtHole ==
  ASSUME NEW c \in Nat, NEW S \in SUBSET Nat, NEW top \in Nat,
         \A p \in S : p <= top
  PROVE  /\ Advance(c, S) \in S \cup {c}
         /\ Advance(c, S) \in Nat
         /\ Advance(c, S) >= c
         /\ Advance(c, S) + 1 \notin S
         /\ \A m \in (c + 1)..Advance(c, S) : m \in S
<1> DEFINE T == {n \in Nat : n >= c /\ n + 1 \notin S}
           Good(n) == n >= c /\ n + 1 \notin S /\ \A m \in (c + 1)..n : m \in S
<1>1. T # {}
  <2>1. CASE c >= top
    <3>1. c \in T BY <2>1
    <3> QED BY <3>1
  <2>2. CASE c < top
    <3>1. top \in T BY <2>2
    <3> QED BY <3>1
  <2> QED BY <2>1, <2>2
<1>2. PICK x \in T : \A y \in T : x <= y
  BY <1>1, LeastNatural
<1>3. Good(x)
  <2>1. ASSUME NEW m \in (c + 1)..x PROVE m \in S
    <3>1. m - 1 \in Nat /\ m - 1 >= c /\ m - 1 < x /\ (m - 1) + 1 = m
      BY <2>1, <1>2
    <3>2. m - 1 \notin T BY <3>1, <1>2
    <3> QED BY <3>1, <3>2
  <2> QED BY <2>1, <1>2
<1>4. x \in S \cup {c}
  <2>1. CASE x = c BY <2>1
  <2>2. CASE x # c
    <3>1. x \in (c + 1)..x BY <2>2, <1>2
    <3> QED BY <3>1, <1>3
  <2> QED BY <2>1, <2>2
<1>5. \E n \in S \cup {c} : Good(n)
  BY <1>3, <1>4
<1>6. Advance(c, S) = CHOOSE n \in S \cup {c} : Good(n)
  BY DEF Advance
<1>7. Advance(c, S) \in S \cup {c} /\ Good(Advance(c, S))
  <2> HIDE DEF Good
  <2> QED BY <1>5, <1>6
<1> QED BY <1>7

\* Pushes carry one event and no request id.
LEMMA PushFields ==
  ASSUME NEW k \in Nat \ {0}
  PROVE  /\ Push(k) \in DownMessage
         /\ Push(k).type = "sync_response"
         /\ Push(k).id = 0
         /\ Push(k).lo = k - 1
         /\ Push(k).hi = k
BY DEF Push, SyncResponse, DownMessage

\* A sequence followed by the pushes of the events first..last.
LEMMA PushesAfter ==
  ASSUME NEW s \in Seq(DownMessage), NEW first \in Nat \ {0}, NEW last \in Nat,
         first <= last + 1
  PROVE  /\ s \o Pushes(first, last) \in Seq(DownMessage)
         /\ Len(s \o Pushes(first, last)) = Len(s) + (last - first + 1)
         /\ \A i \in 1..Len(s) : (s \o Pushes(first, last))[i] = s[i]
         /\ \A i \in 1..(Len(s) + (last - first + 1)) : i > Len(s) =>
              /\ first + (i - Len(s)) - 1 \in first..last
              /\ (s \o Pushes(first, last))[i] = Push(first + (i - Len(s)) - 1)
<1> DEFINE t == Pushes(first, last)
           g == s \o t
<1>1. t \in Seq(DownMessage) /\ Len(t) = last - first + 1
  BY PushFields DEF Pushes
<1>2. \A i \in 1..Len(t) : t[i] = Push(first + i - 1)
  BY <1>1 DEF Pushes
<1> HIDE DEF t
<1>3. /\ g \in Seq(DownMessage)
      /\ Len(g) = Len(s) + Len(t)
      /\ \A i \in 1..Len(g) : g[i] = IF i <= Len(s) THEN s[i] ELSE t[i - Len(s)]
  BY <1>1
<1>4. \A i \in 1..Len(s) : g[i] = s[i]
  BY <1>1, <1>3
<1>5. ASSUME NEW i \in 1..Len(g), i > Len(s)
      PROVE  /\ first + (i - Len(s)) - 1 \in first..last
             /\ g[i] = Push(first + (i - Len(s)) - 1)
  <2>1. i - Len(s) \in 1..Len(t) BY <1>3, <1>1, <1>5
  <2> QED BY <2>1, <1>1, <1>2, <1>3, <1>5
<1>6. Len(g) = Len(s) + (last - first + 1)
  BY <1>1, <1>3
<1> HIDE DEF g
<1>7. /\ g \in Seq(DownMessage)
      /\ Len(g) = Len(s) + (last - first + 1)
      /\ \A i \in 1..Len(s) : g[i] = s[i]
      /\ \A i \in 1..(Len(s) + (last - first + 1)) : i > Len(s) =>
           /\ first + (i - Len(s)) - 1 \in first..last
           /\ g[i] = Push(first + (i - Len(s)) - 1)
  BY <1>3, <1>4, <1>5, <1>6
<1> QED BY <1>7 DEF g, t

\* g is the sequence old followed by pushes of events among first..last, of
\* which the last one, if there is any event, is that of last.
PushedOnto(old, g, first, last) ==
  /\ g \in Seq(DownMessage)
  /\ Len(old) <= Len(g)
  /\ \A i \in 1..Len(old) : g[i] = old[i]
  /\ \A i \in 1..Len(g) : i > Len(old) => \E k \in first..last : g[i] = Push(k)
  /\ first <= last => Len(g) > Len(old) /\ g[Len(g)] = Push(last)

\* A fan-out only appends: pushes of the new events, the last of them last,
\* and only on the connections it is addressed to.
LEMMA FanoutAppends ==
  ASSUME NEW ch \in [Devices -> Seq(DownMessage)], NEW to, NEW short,
         NEW first \in Nat \ {0}, NEW last \in Nat, first <= last + 1,
         short = {} \/ first <= last,
         NEW d \in Devices
  PROVE  /\ d \notin to => Fanout(ch, to, first, last, short)[d] = ch[d]
         /\ d \in to => PushedOnto(ch[d], Fanout(ch, to, first, last, short)[d], first, last)
<1> DEFINE g == Fanout(ch, to, first, last, short)[d]
<1> USE DEF PushedOnto
<1>1. CASE d \notin to
  <2>1. g = ch[d] BY <1>1 DEF Fanout
  <2> QED BY <2>1, <1>1
<1>2. CASE d \in to /\ d \in short
  <2>1. g = Append(ch[d], Push(last)) BY <1>2 DEF Fanout
  <2>2. first <= last BY <1>2
  <2>3. Push(last) \in DownMessage BY <2>2 DEF Push, SyncResponse, DownMessage
  <2>4. last \in first..last BY <2>2
  <2> QED BY <1>2, <2>1, <2>3, <2>4
<1>3. CASE d \in to /\ d \notin short
  <2>1. g = ch[d] \o Pushes(first, last) BY <1>3 DEF Fanout
  <2>2. ch[d] \in Seq(DownMessage) OBVIOUS
  <2>3. /\ g \in Seq(DownMessage)
        /\ Len(g) = Len(ch[d]) + (last - first + 1)
        /\ \A i \in 1..Len(ch[d]) : g[i] = ch[d][i]
        /\ \A i \in 1..Len(g) :
             i > Len(ch[d]) => /\ first + (i - Len(ch[d])) - 1 \in first..last
                               /\ g[i] = Push(first + (i - Len(ch[d])) - 1)
    <3>1. /\ ch[d] \o Pushes(first, last) \in Seq(DownMessage)
          /\ Len(ch[d] \o Pushes(first, last)) = Len(ch[d]) + (last - first + 1)
          /\ \A i \in 1..Len(ch[d]) : (ch[d] \o Pushes(first, last))[i] = ch[d][i]
          /\ \A i \in 1..(Len(ch[d]) + (last - first + 1)) : i > Len(ch[d]) =>
               /\ first + (i - Len(ch[d])) - 1 \in first..last
               /\ (ch[d] \o Pushes(first, last))[i] = Push(first + (i - Len(ch[d])) - 1)
      BY <2>2, PushesAfter, ZenonT(20)
    <3> QED BY <2>1, <3>1
  <2>4. ASSUME first <= last
        PROVE  Len(g) > Len(ch[d]) /\ g[Len(g)] = Push(last)
    <3>1. Len(g) > Len(ch[d]) /\ Len(g) \in 1..Len(g) BY <2>3, <2>4
    <3>2. first + (Len(g) - Len(ch[d])) - 1 = last BY <2>3
    <3>3. g[Len(g)] = Push(first + (Len(g) - Len(ch[d])) - 1) BY <2>3, <3>1
    <3> QED BY <3>1, <3>2, <3>3
  <2>5. \A i \in 1..Len(g) : i > Len(ch[d]) => \E k \in first..last : g[i] = Push(k)
    BY <2>3
  <2>6. Len(ch[d]) <= Len(g) BY <2>3
  <2> QED BY <1>3, <2>3, <2>4, <2>5, <2>6
<1> QED BY <1>1, <1>2, <1>3

-----------------------------------------------------------------------------
(* What every server step does *)

\* A row of the stream changes only along the life of a delivery.
RowsAdvance ==
  /\ Last <= Len(delivery')
  /\ \A i \in 1..Last :
       \/ delivery'[i] = delivery[i]
       \/ delivery[i] = "sent" /\ delivery'[i] \in {"delivered", "read"}
       \/ delivery[i] = "delivered" /\ delivery'[i] = "read"

\* An envelope the server sends is true once its transaction has committed.
TrueWhenSent(d, m) ==
  /\ m \in DownMessage
  /\ m.type = "sync_response" =>
       /\ m.lo <= m.hi /\ m.hi <= Len(delivery')
       /\ m.lo = m.hi => m.hi <= store[d].cursor
       /\ m.id # 0 /\ ~m.more => m.hi = Len(delivery')
  /\ m.type = "ack" => m.code # 400 /\ (m.code = 0 => m.cursor <= applied'[d])

\* A step only appends to the stream of envelopes to d.  If the stream of
\* events grew and d is registered, its last event is the last envelope.
DownGrows(d) ==
  /\ down'[d] \in Seq(DownMessage)
  /\ Len(down[d]) <= Len(down'[d])
  /\ \A i \in 1..Len(down[d]) : down'[d][i] = down[d][i]
  /\ \A i \in 1..Len(down'[d]) : i > Len(down[d]) => TrueWhenSent(d, down'[d][i])
  /\ conn'[d] = "open" =>
       \A i \in 1..Len(down'[d]) :
         i > Len(down[d]) => down'[d][i].type # "sync_response"
  /\ conn'[d] = "registered" /\ Last < Len(delivery') =>
       /\ Len(down[d]) < Len(down'[d])
       /\ down'[d][Len(down'[d])].type = "sync_response"
       /\ down'[d][Len(down'[d])].hi = Len(delivery')

ServerEffect ==
  /\ delivery' \in Seq(Status)
  /\ RowsAdvance
  /\ applied' \in [Devices -> Nat]
  /\ \A d \in Devices : applied[d] <= applied'[d] /\ applied'[d] <= store[d].cursor
  /\ conn' \in [Devices -> {"closed", "open", "registered"}]
  /\ \A d \in Devices : conn'[d] # conn[d] => conn[d] = "open" /\ conn'[d] = "registered"
  /\ up' \in [Devices -> Seq(UpMessage)]
  /\ \A d \in Devices : \A i \in DOMAIN up'[d] : \E j \in DOMAIN up[d] : up'[d][i] = up[d][j]
  /\ stray' \subseteq stray
  /\ down' = [d \in Devices |-> down'[d]]
  /\ \A d \in Devices : DownGrows(d)
  /\ UNCHANGED <<client, store>>
  /\ faults' \in Nat

\* A cursor lies within the stream.
LEMMA CursorWithinStream ==
  ASSUME Inductive, NEW d \in Devices
  PROVE  store[d].cursor \in Nat /\ store[d].cursor <= Last /\ Last \in Nat
<1>1. store[d].cursor \in Nat /\ Last \in Nat
  BY DEF Inductive, TypeOK, StoreState, Last
<1>2. CASE store[d].cursor = 0
  BY <1>1, <1>2
<1>3. CASE store[d].cursor # 0
  <2>1. store[d].cursor \in 1..store[d].cursor BY <1>1, <1>3
  <2>2. store[d].cursor \in store[d].seen BY <2>1 DEF Inductive, CursorIsContiguous, ContiguousAt
  <2>3. store[d].cursor \in 1..Last BY <2>2 DEF Inductive, CursorIsContiguous, ContiguousAt
  <2> QED BY <2>3, <1>1
<1> QED BY <1>2, <1>3

\* Whatever the server does, the invariant survives it.
LEMMA ServerEffectPreserves ==
  ASSUME Inductive, ServerEffect
  PROVE  Inductive'
<1> USE DEF ServerEffect
<1>1. TypeOK'
  <2>1. down' \in [Devices -> Seq(DownMessage)] BY DEF DownGrows
  <2> QED BY <2>1 DEF Inductive, TypeOK
<1>0. Last \in Nat /\ Last' = Len(delivery') /\ Last' \in Nat /\ Last <= Last'
  BY <1>1 DEF Inductive, TypeOK, RowsAdvance, Last
<1>2. CursorIsContiguous'
  BY <1>0 DEF Inductive, CursorIsContiguous, ContiguousAt
<1>3. InFlightIsTrue'
  <2>1. \A x \in stray' : x[2] <= store'[x[1]].cursor
    BY DEF Inductive, InFlightIsTrue, StrayIsTrue, TrueAt
  <2> SUFFICES ASSUME NEW d \in Devices
               PROVE  /\ \A i \in DOMAIN down'[d] : LET m == down'[d][i] IN
                           /\ m.type = "sync_response" =>
                                /\ m.lo <= m.hi /\ m.hi <= Last'
                                /\ m.lo = m.hi => m.hi <= store[d].cursor
                           /\ m.type = "ack" => m.code # 400 /\ (m.code = 0 => m.cursor <= applied'[d])
                      /\ \A i \in DOMAIN up'[d] : LET m == up'[d][i] IN
                           /\ m.type = "sync_request" => m.id # 0 /\ m.from <= store[d].cursor
                           /\ m.type = "sync_applied" => m.cursor <= store[d].cursor
    BY <2>1 DEF InFlightIsTrue, StrayIsTrue, TrueAt
  <2>2. ASSUME NEW i \in DOMAIN down'[d]
        PROVE  LET m == down'[d][i] IN
               /\ m.type = "sync_response" =>
                    /\ m.lo <= m.hi /\ m.hi <= Last'
                    /\ m.lo = m.hi => m.hi <= store[d].cursor
               /\ m.type = "ack" => m.code # 400 /\ (m.code = 0 => m.cursor <= applied'[d])
    <3>1. i \in 1..Len(down'[d]) /\ down'[d] \in Seq(DownMessage) /\ down[d] \in Seq(DownMessage)
      BY DEF DownGrows, Inductive, TypeOK
    <3>2. CASE i > Len(down[d])
      BY <3>1, <3>2, <1>0 DEF DownGrows, TrueWhenSent
    <3>3. CASE i <= Len(down[d])
      <4>1. i \in 1..Len(down[d]) /\ i \in DOMAIN down[d] BY <3>1, <3>3
      <4>2. down'[d][i] = down[d][i] BY <4>1 DEF DownGrows
      <4>3. down[d][i] \in DownMessage BY <3>1, <4>1
      <4>4. applied[d] \in Nat /\ applied'[d] \in Nat BY DEF Inductive, TypeOK
      <4>5. /\ down[d][i].type = "sync_response" => down[d][i].hi \in Nat
            /\ down[d][i].type = "ack" => down[d][i].cursor \in Nat
        BY <4>3 DEF DownMessage, Welcome
      <4> QED BY <4>1, <4>2, <4>4, <4>5, <1>0, SMTT(30) DEF Inductive, InFlightIsTrue, StrayIsTrue, TrueAt
    <3> QED BY <3>1, <3>2, <3>3
  <2>3. ASSUME NEW i \in DOMAIN up'[d]
        PROVE  LET m == up'[d][i] IN
               /\ m.type = "sync_request" => m.id # 0 /\ m.from <= store[d].cursor
               /\ m.type = "sync_applied" => m.cursor <= store[d].cursor
    BY DEF Inductive, InFlightIsTrue, StrayIsTrue, TrueAt
  <2> QED BY <2>2, <2>3
<1>4. ConfirmationsAreBacked'
  <2> SUFFICES ASSUME NEW d \in Devices
               PROVE  /\ store[d].confirmed <= applied'[d]
                      /\ applied'[d] <= store[d].cursor
                      /\ store[d].pending # 0 =>
                           store[d].confirmed < store[d].pending /\ store[d].pending <= store[d].cursor
    BY DEF ConfirmationsAreBacked, BackedAt
  <2>1. store[d].confirmed \in Nat /\ applied[d] \in Nat /\ applied'[d] \in Nat
    BY DEF Inductive, TypeOK, StoreState
  <2> QED BY <2>1 DEF Inductive, ConfirmationsAreBacked, BackedAt
<1>5. NeverFails'
  BY DEF Inductive, NeverFails
<1>6. FinalPagesAreFinal'
  <2> SUFFICES ASSUME NEW d \in Devices
               PROVE  /\ conn'[d] = "open" =>
                            ~client[d].caughtUp /\ \A i \in DOMAIN down'[d] : down'[d][i].type # "sync_response"
                      /\ conn'[d] # "closed" => \A i \in DOMAIN down'[d] :
                           /\ down'[d][i].type = "sync_response"
                           /\ down'[d][i].id # 0
                           /\ ~down'[d][i].more
                           => \/ down'[d][i].hi = Last'
                              \/ \E j \in DOMAIN down'[d] :
                                   j > i /\ down'[d][j].type = "sync_response" /\ down'[d][j].hi = Last'
    BY DEF Inductive, FinalPagesAreFinal, FinalAt, HasGap
  <2>1. /\ down[d] \in Seq(DownMessage) /\ down'[d] \in Seq(DownMessage)
        /\ DOMAIN down[d] = 1..Len(down[d]) /\ DOMAIN down'[d] = 1..Len(down'[d])
        /\ Len(down[d]) \in Nat /\ Len(down'[d]) \in Nat
    BY DEF Inductive, TypeOK, DownGrows
  <2>2. ASSUME conn'[d] = "open"
        PROVE  ~client[d].caughtUp /\ \A i \in DOMAIN down'[d] : down'[d][i].type # "sync_response"
    <3>1. conn[d] = "open" BY <2>2
    <3>2. ~client[d].caughtUp /\ \A i \in DOMAIN down[d] : down[d][i].type # "sync_response"
      BY <3>1 DEF Inductive, FinalPagesAreFinal, FinalAt
    <3>3. ASSUME NEW i \in 1..Len(down'[d]) PROVE down'[d][i].type # "sync_response"
      <4>1. CASE i > Len(down[d]) BY <4>1, <2>2 DEF DownGrows
      <4>2. CASE i <= Len(down[d])
        <5>1. i \in 1..Len(down[d]) BY <4>2, <2>1
        <5> QED BY <5>1, <2>1, <3>2 DEF DownGrows
      <4> QED BY <4>1, <4>2, <2>1
    <3> QED BY <2>1, <3>2, <3>3
  <2>3. ASSUME conn'[d] # "closed",
               NEW i \in DOMAIN down'[d],
               down'[d][i].type = "sync_response",
               down'[d][i].id # 0,
               ~down'[d][i].more,
               down'[d][i].hi # Last'
        PROVE  \E j \in DOMAIN down'[d] :
                 j > i /\ down'[d][j].type = "sync_response" /\ down'[d][j].hi = Last'
    <3>1. i \in 1..Len(down[d])
      <4> SUFFICES ASSUME i > Len(down[d]) PROVE FALSE BY <2>1
      <4>1. TrueWhenSent(d, down'[d][i]) BY <2>1 DEF DownGrows
      <4> QED BY <4>1, <2>3, <1>0 DEF TrueWhenSent
    <3>2. down'[d][i] = down[d][i] BY <3>1 DEF DownGrows
    <3>3. conn[d] = "registered" /\ conn'[d] = "registered"
      <4>1. conn[d] # "closed" BY <2>3
      <4>2. conn[d] # "open" BY <3>1, <3>2, <2>1, <2>3 DEF Inductive, FinalPagesAreFinal, FinalAt
      <4> QED BY <4>1, <4>2 DEF Inductive, TypeOK
    <3>4. CASE Last < Len(delivery')
      <4>1. Len(down'[d]) \in DOMAIN down'[d] /\ Len(down'[d]) > i
        BY <3>3, <3>4, <3>1, <2>1 DEF DownGrows
      <4> QED BY <4>1, <3>3, <3>4, <1>0 DEF DownGrows
    <3>5. CASE Last = Len(delivery')
      <4>1. down[d][i].hi # Last BY <2>3, <3>2, <3>5, <1>0
      <4>2. PICK j \in DOMAIN down[d] :
                   j > i /\ down[d][j].type = "sync_response" /\ down[d][j].hi = Last
        BY <4>1, <3>1, <3>2, <3>3, <2>1, <2>3, ZenonT(30) DEF Inductive, FinalPagesAreFinal, FinalAt
      <4>3. j \in 1..Len(down[d]) /\ down'[d][j] = down[d][j] /\ j \in DOMAIN down'[d]
        BY <4>2, <2>1 DEF DownGrows
      <4> QED BY <4>2, <4>3, <3>5, <1>0
    <3> QED BY <3>4, <3>5, <1>0
  <2> QED BY <2>2, <2>3
<1>7. ReadyIsCurrent'
  <2> SUFFICES ASSUME NEW d \in Devices, client[d].caughtUp, conn'[d] # "closed"
               PROVE  \/ store[d].cursor = Last'
                      \/ \E i \in DOMAIN down'[d] :
                           down'[d][i].type = "sync_response" /\ down'[d][i].hi = Last'
    BY DEF ReadyIsCurrent, CurrentAt, OnItsWay
  <2>1. /\ down[d] \in Seq(DownMessage) /\ down'[d] \in Seq(DownMessage)
        /\ DOMAIN down[d] = 1..Len(down[d]) /\ DOMAIN down'[d] = 1..Len(down'[d])
        /\ Len(down[d]) \in Nat /\ Len(down'[d]) \in Nat
    BY DEF Inductive, TypeOK, DownGrows
  <2>2. conn[d] = "registered" /\ conn'[d] = "registered"
    <3>1. conn[d] # "open" BY DEF Inductive, FinalPagesAreFinal, FinalAt
    <3> QED BY <3>1 DEF Inductive, TypeOK
  <2>3. CASE Last < Len(delivery')
    <3>1. Len(down'[d]) \in DOMAIN down'[d] BY <2>1, <2>2, <2>3 DEF DownGrows
    <3> QED BY <3>1, <2>2, <2>3, <1>0 DEF DownGrows
  <2>4. CASE Last = Len(delivery')
    <3>1. CASE store[d].cursor = Last BY <3>1, <2>4, <1>0
    <3>2. CASE store[d].cursor # Last
      <4>1. PICK i \in DOMAIN down[d] :
                   down[d][i].type = "sync_response" /\ down[d][i].hi = Last
        BY <2>2, <3>2 DEF Inductive, ReadyIsCurrent, CurrentAt, OnItsWay
      <4>2. down'[d][i] = down[d][i] /\ i \in DOMAIN down'[d]
        BY <4>1, <2>1 DEF DownGrows
      <4> QED BY <4>1, <4>2, <2>4, <1>0
    <3> QED BY <3>1, <3>2
  <2> QED BY <2>3, <2>4, <1>0
<1> QED BY <1>1, <1>2, <1>3, <1>4, <1>5, <1>6, <1>7 DEF Inductive

\* Appending true envelopes and then fanning the new events out to the
\* registered connections is a growth of the stream to every device.
LEMMA FanoutGrows ==
  ASSUME Inductive, NEW d \in Devices,
         delivery' \in Seq(Status), Last <= Len(delivery'),
         NEW to, NEW short, short = {} \/ Last < Len(delivery'),
         d \in to <=> conn'[d] = "registered",
         NEW ch \in [Devices -> Seq(DownMessage)],
         Len(down[d]) <= Len(ch[d]),
         \A i \in 1..Len(down[d]) : ch[d][i] = down[d][i],
         \A i \in 1..Len(ch[d]) : i > Len(down[d]) =>
           TrueWhenSent(d, ch[d][i]) /\ (conn'[d] = "open" => ch[d][i].type # "sync_response"),
         down' = Fanout(ch, to, Last + 1, Len(delivery'), short)
  PROVE  DownGrows(d)
<1> DEFINE g == down'[d]
<1>1. Last + 1 \in Nat \ {0} /\ Len(delivery') \in Nat /\ Last + 1 <= Len(delivery') + 1 /\ Last \in Nat
  BY DEF Inductive, TypeOK, Last
<1>2. short = {} \/ Last + 1 <= Len(delivery')
  BY <1>1
<1>3. /\ g \in Seq(DownMessage)
      /\ d \notin to => g = ch[d]
      /\ Len(ch[d]) <= Len(g)
      /\ \A i \in 1..Len(ch[d]) : g[i] = ch[d][i]
      /\ \A i \in 1..Len(g) :
           i > Len(ch[d]) => \E k \in (Last + 1)..Len(delivery') : g[i] = Push(k)
      /\ d \in to /\ Last + 1 <= Len(delivery') =>
           Len(g) > Len(ch[d]) /\ g[Len(g)] = Push(Len(delivery'))
  <2>1. g = Fanout(ch, to, Last + 1, Len(delivery'), short)[d] OBVIOUS
  <2> HIDE DEF g
  <2>2. /\ d \notin to => g = ch[d]
        /\ d \in to => PushedOnto(ch[d], g, Last + 1, Len(delivery'))
    BY <2>1, <1>1, <1>2, FanoutAppends, SMTT(30)
  <2>3. CASE d \in to BY <2>2, <2>3 DEF PushedOnto
  <2>4. CASE d \notin to
    <3>1. g = ch[d] /\ ch[d] \in Seq(DownMessage) BY <2>2, <2>4
    <3>2. \A i \in 1..Len(ch[d]) : ~(i > Len(ch[d])) BY <3>1
    <3> QED BY <3>1, <3>2, <2>4
  <2> QED BY <2>3, <2>4
<1>4. /\ down[d] \in Seq(DownMessage) /\ Len(down[d]) \in Nat
      /\ ch[d] \in Seq(DownMessage) /\ Len(ch[d]) \in Nat /\ Len(g) \in Nat
  BY <1>3 DEF Inductive, TypeOK
<1>5. \A k \in (Last + 1)..Len(delivery') :
        /\ Push(k).type = "sync_response" /\ Push(k).hi = k
        /\ TrueWhenSent(d, Push(k))
  <2> TAKE k \in (Last + 1)..Len(delivery')
  <2>1. k \in Nat \ {0} /\ k <= Len(delivery') /\ k - 1 <= k /\ k - 1 # k
    BY <1>1
  <2>2. /\ Push(k) \in DownMessage /\ Push(k).type = "sync_response"
        /\ Push(k).id = 0 /\ Push(k).lo = k - 1 /\ Push(k).hi = k
    BY <2>1, PushFields
  <2> QED BY <2>1, <2>2 DEF TrueWhenSent
<1>6. Len(down[d]) <= Len(g)
  BY <1>3, <1>4
<1>7. ASSUME NEW i \in 1..Len(down[d]) PROVE g[i] = down[d][i]
  <2>1. i \in 1..Len(ch[d]) BY <1>4
  <2> QED BY <2>1, <1>3
<1>8. ASSUME NEW i \in 1..Len(g), i > Len(down[d])
      PROVE  TrueWhenSent(d, g[i]) /\ (conn'[d] = "open" => g[i].type # "sync_response")
  <2>1. CASE i <= Len(ch[d])
    <3>1. i \in 1..Len(ch[d]) BY <2>1, <1>4
    <3>2. g[i] = ch[d][i] BY <3>1, <1>3
    <3> QED BY <3>1, <3>2, <1>8
  <2>2. CASE i > Len(ch[d])
    <3>1. PICK k \in (Last + 1)..Len(delivery') : g[i] = Push(k) BY <2>2, <1>3, <1>8
    <3>2. d \in to
      <4> SUFFICES ASSUME d \notin to PROVE FALSE OBVIOUS
      <4> QED BY <1>3, <1>4, <2>2
    <3> QED BY <3>1, <3>2, <1>5
  <2> QED BY <2>1, <2>2, <1>4
<1>9. ASSUME conn'[d] = "registered", Last < Len(delivery')
      PROVE  Len(down[d]) < Len(g) /\ g[Len(g)].type = "sync_response" /\ g[Len(g)].hi = Len(delivery')
  <2>1. Last + 1 <= Len(delivery') /\ Len(delivery') \in (Last + 1)..Len(delivery')
    BY <1>9, <1>1
  <2>2. Len(g) > Len(ch[d]) /\ g[Len(g)] = Push(Len(delivery')) BY <2>1, <1>3, <1>9
  <2> QED BY <2>1, <2>2, <1>4, <1>5
<1> HIDE DEF g
<1>10. down'[d] = g BY DEF g
<1> QED BY <1>3, <1>6, <1>7, <1>8, <1>9, <1>10 DEF DownGrows

\* A transaction of a business operation.
LEMMA PublishEffect ==
  ASSUME Inductive, NEW rows \in Seq(Status), Len(rows) > 0, NEW short, Publish(rows, short)
  PROVE  ServerEffect /\ Last < Len(delivery') /\ applied' = applied
<1>1. /\ delivery' = delivery \o rows /\ delivery \in Seq(Status) /\ rows \in Seq(Status)
      /\ delivery' \in Seq(Status) /\ Len(delivery') = Last + Len(rows)
      /\ Last \in Nat /\ Last < Len(delivery')
      /\ \A i \in 1..Last : delivery'[i] = delivery[i]
  BY DEF Inductive, TypeOK, Publish, Last
<1>2. UNCHANGED <<applied, conn, up, stray, client, store, faults>>
  BY DEF Publish
<1>3. down' = Fanout(down, Registered, Last + 1, Len(delivery'), short)
  BY <1>1 DEF Publish
<1>4. down \in [Devices -> Seq(DownMessage)]
  BY DEF Inductive, TypeOK
<1>5. ASSUME NEW d \in Devices PROVE DownGrows(d)
  <2>1. d \in Registered <=> conn'[d] = "registered" BY <1>2 DEF Registered
  <2>2. \A i \in 1..Len(down[d]) : ~(i > Len(down[d])) BY <1>4
  <2>3. Len(down[d]) <= Len(down[d]) /\ Last <= Len(delivery') BY <1>1, <1>4
  <2> QED BY <2>1, <2>2, <2>3, <1>1, <1>3, <1>4, FanoutGrows
<1>6. RowsAdvance
  BY <1>1 DEF RowsAdvance
<1>7. down' = [d \in Devices |-> down'[d]]
  BY <1>3 DEF Fanout
<1>8. \A d \in Devices : applied[d] <= applied'[d] /\ applied'[d] <= store[d].cursor
  BY <1>2 DEF Inductive, ConfirmationsAreBacked, BackedAt, TypeOK
<1> QED BY <1>1, <1>2, <1>5, <1>6, <1>7, <1>8 DEF ServerEffect, Inductive, TypeOK

LEMMA AppendEventsEffect ==
  ASSUME Inductive, AppendEvents
  PROVE  ServerEffect /\ Last < Len(delivery') /\ applied' = applied
<1>1. PICK n \in 1..MaxBurst : \E rows \in [1..n -> {"none", "sent"}] : Publish(rows, {})
  BY DEF AppendEvents
<1>2. \A rows \in [1..n -> {"none", "sent"}] : rows \in Seq(Status) /\ Len(rows) > 0
  BY ParametersAssumption DEF Status
<1> QED BY <1>1, <1>2, PublishEffect

LEMMA FileInitEffect ==
  ASSUME Inductive, NEW d \in Devices, FileInit(d)
  PROVE  ServerEffect /\ Last < Len(delivery') /\ applied' = applied
<1>1. \A n \in 1..MaxBurst : [i \in 1..n |-> "none"] \in Seq(Status) /\ Len([i \in 1..n |-> "none"]) > 0
  BY ParametersAssumption DEF Status
<1>2. \E rows \in Seq(Status) : Len(rows) > 0 /\ Publish(rows, {d})
  BY <1>1 DEF FileInit
<1> QED BY <1>2, PublishEffect

LEMMA ReceiptEffect ==
  ASSUME Inductive, Receipt
  PROVE  ServerEffect /\ Last < Len(delivery') /\ applied' = applied
<1>1. PICK rows \in SUBSET {i \in 1..Last : delivery[i] \in {"sent", "delivered"}} :
        /\ delivery' = Append([i \in 1..Last |-> IF i \in rows THEN "read" ELSE delivery[i]], "none")
        /\ down' = Fanout(down, Registered, Last + 1, Last + 1, {})
        /\ UNCHANGED <<applied, conn, up, stray, client, store, faults>>
  BY DEF Receipt
<1>2. delivery \in Seq(Status) /\ Last \in Nat /\ down \in [Devices -> Seq(DownMessage)]
  BY DEF Inductive, TypeOK, Last
<1> DEFINE marked == [i \in 1..Last |-> IF i \in rows THEN "read" ELSE delivery[i]]
<1>3. marked \in Seq(Status) /\ Len(marked) = Last
  BY <1>2 DEF Status, Last
<1>4. /\ delivery' \in Seq(Status) /\ Len(delivery') = Last + 1
      /\ \A i \in 1..Last : delivery'[i] = marked[i]
  <2> HIDE DEF marked
  <2>1. delivery' = Append(marked, "none") BY <1>1 DEF marked
  <2> QED BY <2>1, <1>2, <1>3 DEF Status
<1>5. RowsAdvance
  BY <1>2, <1>4 DEF RowsAdvance
<1>6. ASSUME NEW d \in Devices PROVE DownGrows(d)
  <2>1. d \in Registered <=> conn'[d] = "registered" BY <1>1 DEF Registered
  <2>2. \A i \in 1..Len(down[d]) : ~(i > Len(down[d])) BY <1>2
  <2>3. Len(down[d]) <= Len(down[d]) /\ Last <= Len(delivery') BY <1>2, <1>4
  <2>4. down' = Fanout(down, Registered, Last + 1, Len(delivery'), {}) BY <1>1, <1>4
  <2> QED BY <2>1, <2>2, <2>3, <2>4, <1>2, <1>4, FanoutGrows
<1>7. down' = [d \in Devices |-> down'[d]]
  BY <1>1 DEF Fanout
<1>8. \A d \in Devices : applied[d] <= applied'[d] /\ applied'[d] <= store[d].cursor
  BY <1>1 DEF Inductive, ConfirmationsAreBacked, BackedAt, TypeOK
<1> QED BY <1>1, <1>2, <1>4, <1>5, <1>6, <1>7, <1>8 DEF ServerEffect, Inductive, TypeOK

\* A step that sends one true envelope to d and no event.
LEMMA SendGrows ==
  ASSUME Inductive, NEW d \in Devices, NEW m,
         delivery' = delivery, down'[d] = Append(down[d], m), TrueWhenSent(d, m),
         conn'[d] = "open" => m.type # "sync_response"
  PROVE  DownGrows(d)
<1>1. down[d] \in Seq(DownMessage) /\ m \in DownMessage /\ Len(delivery') = Last /\ Last \in Nat
  BY DEF Inductive, TypeOK, TrueWhenSent, Last
<1>2. /\ down'[d] \in Seq(DownMessage) /\ Len(down'[d]) = Len(down[d]) + 1
      /\ \A i \in 1..Len(down[d]) : down'[d][i] = down[d][i]
      /\ down'[d][Len(down'[d])] = m
  BY <1>1
<1>3. ASSUME NEW i \in 1..Len(down'[d]), i > Len(down[d]) PROVE down'[d][i] = m
  <2>1. i = Len(down'[d]) BY <1>1, <1>2, <1>3
  <2> QED BY <2>1, <1>2
<1> QED BY <1>1, <1>2, <1>3 DEF DownGrows

\* A step that leaves the stream to d and the events alone.
LEMMA KeepGrows ==
  ASSUME Inductive, NEW d \in Devices, delivery' = delivery, down'[d] = down[d]
  PROVE  DownGrows(d)
<1>1. down[d] \in Seq(DownMessage) /\ Len(delivery') = Last /\ Last \in Nat
  BY DEF Inductive, TypeOK, Last
<1>2. \A i \in 1..Len(down'[d]) : ~(i > Len(down[d]))
  BY <1>1
<1> QED BY <1>1, <1>2 DEF DownGrows

\* Taking the first request off a connection leaves requests that were there.
LEMMA TakeRequest ==
  ASSUME Inductive, NEW d \in Devices, up[d] # <<>>, up' = [up EXCEPT ![d] = Tail(@)]
  PROVE  /\ up' \in [Devices -> Seq(UpMessage)]
         /\ \A e \in Devices : \A i \in DOMAIN up'[e] : \E j \in DOMAIN up[e] : up'[e][i] = up[e][j]
         /\ Head(up[d]) \in UpMessage
         /\ \E i \in DOMAIN up[d] : Head(up[d]) = up[d][i]
<1>1. up \in [Devices -> Seq(UpMessage)] /\ up[d] \in Seq(UpMessage)
  BY DEF Inductive, TypeOK
<1>2. /\ Head(up[d]) \in UpMessage /\ 1 \in DOMAIN up[d] /\ Head(up[d]) = up[d][1]
      /\ Tail(up[d]) \in Seq(UpMessage)
      /\ \A i \in DOMAIN Tail(up[d]) : i + 1 \in DOMAIN up[d] /\ Tail(up[d])[i] = up[d][i + 1]
  BY <1>1
<1>3. up' \in [Devices -> Seq(UpMessage)]
  BY <1>1, <1>2
<1>4. ASSUME NEW e \in Devices, NEW i \in DOMAIN up'[e]
      PROVE  \E j \in DOMAIN up[e] : up'[e][i] = up[e][j]
  <2>1. CASE e = d
    <3>1. up'[e] = Tail(up[d]) BY <2>1, <1>1
    <3> QED BY <2>1, <3>1, <1>2, <1>4
  <2>2. CASE e # d
    <3>1. up'[e] = up[e] BY <2>2, <1>1
    <3> QED BY <3>1, <1>4
  <2> QED BY <2>1, <2>2
<1> QED BY <1>2, <1>3, <1>4

LEMMA HandleHelloEffect ==
  ASSUME Inductive, NEW d \in Devices, HandleHello(d)
  PROVE  ServerEffect /\ delivery' = delivery /\ applied' = applied
<1>1. /\ up[d] # <<>> /\ up' = [up EXCEPT ![d] = Tail(@)]
      /\ down' = [down EXCEPT ![d] = Append(@, Welcome)]
      /\ UNCHANGED <<delivery, applied, conn, stray, client, store, faults>>
  BY DEF HandleHello
<1>2. down \in [Devices -> Seq(DownMessage)] BY DEF Inductive, TypeOK
<1>3. TrueWhenSent(d, Welcome) /\ Welcome.type # "sync_response"
  BY DEF TrueWhenSent, Welcome, DownMessage
<1>4. ASSUME NEW e \in Devices PROVE DownGrows(e)
  <2>1. CASE e = d
    <3>1. down'[e] = Append(down[e], Welcome) BY <1>1, <1>2, <2>1
    <3> QED BY <2>1, <3>1, <1>1, <1>3, SendGrows
  <2>2. CASE e # d
    <3>1. down'[e] = down[e] BY <1>1, <1>2, <2>2
    <3> QED BY <3>1, <1>1, KeepGrows
  <2> QED BY <2>1, <2>2
<1>5. /\ up' \in [Devices -> Seq(UpMessage)]
      /\ \A e \in Devices : \A i \in DOMAIN up'[e] : \E j \in DOMAIN up[e] : up'[e][i] = up[e][j]
  BY <1>1, TakeRequest
<1>6. down' = [e \in Devices |-> down'[e]] BY <1>1, <1>2
<1>7. RowsAdvance BY <1>1 DEF RowsAdvance, Last, Inductive, TypeOK
<1>8. \A e \in Devices : applied[e] <= applied'[e] /\ applied'[e] <= store[e].cursor
  BY <1>1 DEF Inductive, ConfirmationsAreBacked, BackedAt, TypeOK
<1> QED BY <1>1, <1>4, <1>5, <1>6, <1>7, <1>8 DEF ServerEffect, Inductive, TypeOK

LEMMA HandleSyncRequestEffect ==
  ASSUME Inductive, NEW d \in Devices, HandleSyncRequest(d)
  PROVE  ServerEffect /\ delivery' = delivery /\ applied' = applied
<1> DEFINE req == Head(up[d])
           hi == IF req.from + PageSize < Last THEN req.from + PageSize
                 ELSE IF req.from < Last THEN Last ELSE req.from
           m == SyncResponse(req.id, req.from, hi, hi < Last)
<1>1. /\ up[d] # <<>> /\ up' = [up EXCEPT ![d] = Tail(@)]
      /\ req.type = "sync_request"
      /\ down' = [down EXCEPT ![d] = Append(@, m)]
      /\ conn[d] # "closed" /\ conn' = [conn EXCEPT ![d] = "registered"]
      /\ UNCHANGED <<delivery, applied, stray, client, store, faults>>
  BY DEF HandleSyncRequest
<1>2. /\ down \in [Devices -> Seq(DownMessage)]
      /\ conn \in [Devices -> {"closed", "open", "registered"}]
  BY DEF Inductive, TypeOK
<1>3. /\ up' \in [Devices -> Seq(UpMessage)]
      /\ \A e \in Devices : \A i \in DOMAIN up'[e] : \E j \in DOMAIN up[e] : up'[e][i] = up[e][j]
      /\ req \in UpMessage
      /\ \E i \in DOMAIN up[d] : req = up[d][i]
  <2> HIDE DEF hi, m
  <2> QED BY <1>1, TakeRequest
<1>4. req.id \in Nat /\ req.from \in Nat /\ req.from <= store[d].cursor
  <2>1. req.id \in Nat /\ req.from \in Nat
    <3> HIDE DEF req
    <3> QED BY <1>1, <1>3 DEF UpMessage, Hello
  <2>2. req.from <= store[d].cursor
    <3>1. PICK i \in DOMAIN up[d] : req = up[d][i] BY <1>3
    <3> HIDE DEF req
    <3> QED BY <3>1, <1>1 DEF Inductive, InFlightIsTrue, StrayIsTrue, TrueAt
  <2> QED BY <2>1, <2>2
<1>5. TrueWhenSent(d, m)
  <2>1. store[d].cursor \in Nat /\ store[d].cursor <= Last /\ Last \in Nat /\ Len(delivery') = Last
    BY <1>1, CursorWithinStream DEF Last
  <2>2. PageSize \in Nat \ {0} BY ParametersAssumption
  <2> HIDE DEF req
  <2>3. /\ hi \in Nat /\ req.from <= hi /\ hi <= Last
        /\ req.from = hi => hi <= store[d].cursor
        /\ ~(hi < Last) => hi = Last
    BY <2>1, <2>2, <1>4
  <2>4. (hi < Last) \in BOOLEAN OBVIOUS
  <2> HIDE DEF hi
  <2> QED BY <2>1, <2>3, <2>4, <1>4 DEF TrueWhenSent, SyncResponse, DownMessage
<1> HIDE DEF req, hi, m
<1>6. ASSUME NEW e \in Devices PROVE DownGrows(e)
  <2>1. CASE e = d
    <3>1. down'[e] = Append(down[e], m) /\ conn'[e] # "open" BY <1>1, <1>2, <2>1
    <3> QED BY <2>1, <3>1, <1>1, <1>5, SendGrows
  <2>2. CASE e # d
    <3>1. down'[e] = down[e] BY <1>1, <1>2, <2>2
    <3> QED BY <3>1, <1>1, KeepGrows
  <2> QED BY <2>1, <2>2
<1>7. down' = [e \in Devices |-> down'[e]] BY <1>1, <1>2
<1>8. RowsAdvance BY <1>1 DEF RowsAdvance, Last, Inductive, TypeOK
<1>9. \A e \in Devices : applied[e] <= applied'[e] /\ applied'[e] <= store[e].cursor
  BY <1>1 DEF Inductive, ConfirmationsAreBacked, BackedAt, TypeOK
<1>10. /\ conn' \in [Devices -> {"closed", "open", "registered"}]
       /\ \A e \in Devices : conn'[e] # conn[e] => conn[e] = "open" /\ conn'[e] = "registered"
  BY <1>1, <1>2
<1> QED BY <1>1, <1>3, <1>6, <1>7, <1>8, <1>9, <1>10 DEF ServerEffect, Inductive, TypeOK

LEMMA FailSyncAppliedEffect ==
  ASSUME Inductive, NEW d \in Devices, FailSyncApplied(d)
  PROVE  ServerEffect /\ delivery' = delivery /\ applied' = applied
<1> DEFINE c == Head(up[d]).cursor
           m == Ack(c, 503)
<1>1. /\ up[d] # <<>> /\ up' = [up EXCEPT ![d] = Tail(@)]
      /\ Head(up[d]).type = "sync_applied"
      /\ down' = [down EXCEPT ![d] = Append(@, m)]
      /\ conn[d] # "closed" /\ conn' = [conn EXCEPT ![d] = "registered"]
      /\ faults' = faults + 1
      /\ UNCHANGED <<delivery, applied, stray, client, store>>
  BY DEF FailSyncApplied
<1>2. /\ down \in [Devices -> Seq(DownMessage)]
      /\ conn \in [Devices -> {"closed", "open", "registered"}]
  BY DEF Inductive, TypeOK
<1>3. /\ up' \in [Devices -> Seq(UpMessage)]
      /\ \A e \in Devices : \A i \in DOMAIN up'[e] : \E j \in DOMAIN up[e] : up'[e][i] = up[e][j]
      /\ Head(up[d]) \in UpMessage
  BY <1>1, TakeRequest
<1>4. c \in Nat BY <1>1, <1>3 DEF UpMessage, Hello
<1> HIDE DEF c
<1>5. TrueWhenSent(d, m) /\ m.type # "sync_response" BY <1>4 DEF TrueWhenSent, Ack, DownMessage
<1> HIDE DEF m
<1>6. ASSUME NEW e \in Devices PROVE DownGrows(e)
  <2>1. CASE e = d
    <3>1. down'[e] = Append(down[e], m) BY <1>1, <1>2, <2>1
    <3> QED BY <2>1, <3>1, <1>1, <1>5, SendGrows
  <2>2. CASE e # d
    <3>1. down'[e] = down[e] BY <1>1, <1>2, <2>2
    <3> QED BY <3>1, <1>1, KeepGrows
  <2> QED BY <2>1, <2>2
<1>7. down' = [e \in Devices |-> down'[e]] BY <1>1, <1>2
<1>8. RowsAdvance BY <1>1 DEF RowsAdvance, Last, Inductive, TypeOK
<1>9. \A e \in Devices : applied[e] <= applied'[e] /\ applied'[e] <= store[e].cursor
  BY <1>1 DEF Inductive, ConfirmationsAreBacked, BackedAt, TypeOK
<1>10. /\ conn' \in [Devices -> {"closed", "open", "registered"}]
       /\ \A e \in Devices : conn'[e] # conn[e] => conn[e] = "open" /\ conn'[e] = "registered"
  BY <1>1, <1>2
<1> QED BY <1>1, <1>3, <1>6, <1>7, <1>8, <1>9, <1>10 DEF ServerEffect, Inductive, TypeOK

\* A confirmation within the device's cursor: the rows it covers are
\* delivered, the record is raised to it, or nothing happens.
LEMMA ConfirmationEffect ==
  ASSUME Inductive, NEW d \in Devices, NEW c \in Nat, c <= store[d].cursor,
         ApplyConfirmation(d, c)
  PROVE  /\ c <= Last
         /\ delivery' \in Seq(Status)
         /\ RowsAdvance
         /\ applied' \in [Devices -> Nat]
         /\ \A e \in Devices : applied[e] <= applied'[e] /\ applied'[e] <= store[e].cursor
         /\ c <= applied'[d]
         /\ \/ UNCHANGED serverVars
            \/ applied[d] < c /\ applied' = [applied EXCEPT ![d] = c]
<1>1. /\ delivery \in Seq(Status) /\ Last \in Nat /\ applied \in [Devices -> Nat]
      /\ \A e \in Devices : applied[e] <= store[e].cursor
      /\ Last = Len(delivery)
  BY DEF Inductive, TypeOK, Last, ConfirmationsAreBacked, BackedAt
<1>2. c <= Last
  BY <1>1, CursorWithinStream
<1>3. CASE c <= applied[d]
  <2>1. UNCHANGED serverVars BY <1>3 DEF ApplyConfirmation
  <2>2. delivery' = delivery /\ applied' = applied BY <2>1 DEF serverVars
  <2>3. RowsAdvance BY <2>2, <1>1 DEF RowsAdvance
  <2> QED BY <1>1, <1>2, <1>3, <2>1, <2>2, <2>3
<1>4. CASE ~(c <= applied[d])
  <2>1. delivery' = Delivered(d, c) /\ applied' = [applied EXCEPT ![d] = c]
    BY <1>2, <1>1, <1>4 DEF ApplyConfirmation
  <2> DEFINE n == Cardinality(Covered(d, c))
  <2>2. n \in Nat
    <3>1. Covered(d, c) \subseteq 1..Last BY DEF Covered
    <3>2. IsFiniteSet(1..Last) BY <1>1, FS_Interval
    <3>3. IsFiniteSet(Covered(d, c)) BY <3>1, <3>2, FS_Subset
    <3> QED BY <3>3, FS_CardinalityType
  <2>3. Delivered(d, c) = [i \in 1..(Last + n) |->
          IF i > Last THEN "none" ELSE IF i \in Covered(d, c) THEN "delivered" ELSE delivery[i]]
    BY DEF Delivered
  <2> HIDE DEF n
  <2>4. /\ delivery' \in Seq(Status) /\ Len(delivery') = Last + n
        /\ \A i \in 1..Last : delivery'[i] = IF i \in Covered(d, c) THEN "delivered" ELSE delivery[i]
    BY <2>1, <2>2, <2>3, <1>1 DEF Status
  <2>5. RowsAdvance
    BY <2>4, <2>2, <1>1 DEF RowsAdvance, Covered
  <2>6. /\ applied' \in [Devices -> Nat] /\ applied[d] < c /\ applied'[d] = c
        /\ \A e \in Devices : applied[e] <= applied'[e] /\ applied'[e] <= store[e].cursor
    BY <2>1, <1>1, <1>4
  <2> QED BY <1>2, <2>1, <2>4, <2>5, <2>6
<1> QED BY <1>3, <1>4

LEMMA HandleSyncAppliedEffect ==
  ASSUME Inductive, NEW d \in Devices, HandleSyncApplied(d)
  PROVE  /\ ServerEffect
         /\ \/ UNCHANGED serverVars
            \/ \E c \in Nat : /\ applied[d] < c /\ c <= store[d].cursor
                             /\ applied' = [applied EXCEPT ![d] = c]
<1> DEFINE c == Head(up[d]).cursor
           m == Ack(c, Verdict(c))
           acked == [down EXCEPT ![d] = Append(@, m)]
<1>1. /\ up[d] # <<>> /\ up' = [up EXCEPT ![d] = Tail(@)]
      /\ Head(up[d]).type = "sync_applied"
      /\ ApplyConfirmation(d, c)
      /\ down' = Fanout(acked, Registered \cup {d}, Last + 1, Len(delivery'), {})
      /\ conn[d] # "closed" /\ conn' = [conn EXCEPT ![d] = "registered"]
      /\ UNCHANGED <<stray, client, store, faults>>
  BY DEF HandleSyncApplied
<1>2. /\ down \in [Devices -> Seq(DownMessage)]
      /\ conn \in [Devices -> {"closed", "open", "registered"}]
      /\ Last \in Nat
  BY DEF Inductive, TypeOK, Last
<1>3. /\ up' \in [Devices -> Seq(UpMessage)]
      /\ \A e \in Devices : \A i \in DOMAIN up'[e] : \E j \in DOMAIN up[e] : up'[e][i] = up[e][j]
      /\ Head(up[d]) \in UpMessage
      /\ \E i \in DOMAIN up[d] : Head(up[d]) = up[d][i]
  BY <1>1, TakeRequest
<1>4. c \in Nat BY <1>1, <1>3 DEF UpMessage, Hello
<1>5. c <= store[d].cursor
  <2>1. PICK i \in DOMAIN up[d] : Head(up[d]) = up[d][i] BY <1>3
  <2> QED BY <2>1, <1>1 DEF Inductive, InFlightIsTrue, StrayIsTrue, TrueAt
<1> HIDE DEF c
<1>6. /\ c <= Last
      /\ delivery' \in Seq(Status)
      /\ RowsAdvance
      /\ applied' \in [Devices -> Nat]
      /\ \A e \in Devices : applied[e] <= applied'[e] /\ applied'[e] <= store[e].cursor
      /\ c <= applied'[d]
      /\ UNCHANGED serverVars \/ (applied[d] < c /\ applied' = [applied EXCEPT ![d] = c])
  BY <1>1, <1>4, <1>5, ConfirmationEffect
<1>7. TrueWhenSent(d, m) /\ m.type # "sync_response"
  BY <1>2, <1>4, <1>6 DEF TrueWhenSent, Ack, Verdict, DownMessage
<1> HIDE DEF m
<1>8. m \in DownMessage BY <1>7 DEF TrueWhenSent
<1>9. acked \in [Devices -> Seq(DownMessage)] /\ acked[d] = Append(down[d], m)
      /\ \A e \in Devices \ {d} : acked[e] = down[e]
  BY <1>2, <1>8
<1> HIDE DEF acked
<1>10. ASSUME NEW e \in Devices PROVE DownGrows(e)
  <2>1. e \in Registered \cup {d} <=> conn'[e] = "registered" BY <1>1, <1>2 DEF Registered
  <2>2. Last <= Len(delivery') BY <1>6 DEF RowsAdvance
  <2>3. /\ Len(down[e]) <= Len(acked[e])
        /\ \A i \in 1..Len(down[e]) : acked[e][i] = down[e][i]
        /\ \A i \in 1..Len(acked[e]) : i > Len(down[e]) =>
             TrueWhenSent(e, acked[e][i]) /\ (conn'[e] = "open" => acked[e][i].type # "sync_response")
    <3>1. CASE e = d
      <4>1. /\ Len(acked[e]) = Len(down[e]) + 1
            /\ \A i \in 1..Len(down[e]) : acked[e][i] = down[e][i]
            /\ acked[e][Len(acked[e])] = m
        BY <3>1, <1>2, <1>8, <1>9
      <4>2. ASSUME NEW i \in 1..Len(acked[e]), i > Len(down[e]) PROVE acked[e][i] = m
        <5>1. i = Len(acked[e]) BY <4>1, <4>2, <1>2
        <5> QED BY <5>1, <4>1
      <4> QED BY <3>1, <4>1, <4>2, <1>2, <1>7
    <3>2. CASE e # d
      <4>1. acked[e] = down[e] BY <3>2, <1>9
      <4>2. \A i \in 1..Len(down[e]) : ~(i > Len(down[e])) BY <1>2
      <4> QED BY <4>1, <4>2, <1>2
    <3> QED BY <3>1, <3>2
  <2> QED BY <2>1, <2>2, <2>3, <1>1, <1>6, <1>9, FanoutGrows
<1>11. down' = [e \in Devices |-> down'[e]] BY <1>1 DEF Fanout
<1>12. /\ conn' \in [Devices -> {"closed", "open", "registered"}]
       /\ \A e \in Devices : conn'[e] # conn[e] => conn[e] = "open" /\ conn'[e] = "registered"
  BY <1>1, <1>2
<1>13. ServerEffect
  BY <1>1, <1>3, <1>6, <1>10, <1>11, <1>12 DEF ServerEffect, Inductive, TypeOK
<1> QED BY <1>13, <1>4, <1>5, <1>6

LEMMA HandleStrayEffect ==
  ASSUME Inductive, HandleStray
  PROVE  /\ ServerEffect
         /\ \/ UNCHANGED serverVars
            \/ \E d \in Devices : \E c \in Nat :
                 /\ applied[d] < c /\ c <= store[d].cursor
                 /\ applied' = [applied EXCEPT ![d] = c]
<1>1. PICK s \in stray :
        /\ ApplyConfirmation(s[1], s[2])
        /\ down' = Fanout(down, Registered, Last + 1, Len(delivery'), {})
        /\ stray' = stray \ {s}
        /\ UNCHANGED <<conn, up, client, store, faults>>
  BY DEF HandleStray
<1> DEFINE d == s[1]
           c == s[2]
<1>2. d \in Devices /\ c \in Nat /\ c <= store[d].cursor
  BY <1>1 DEF Inductive, TypeOK, InFlightIsTrue, StrayIsTrue, TrueAt
<1>3. ApplyConfirmation(d, c) BY <1>1
<1> HIDE DEF d, c
<1>4. /\ delivery' \in Seq(Status)
      /\ RowsAdvance
      /\ applied' \in [Devices -> Nat]
      /\ \A e \in Devices : applied[e] <= applied'[e] /\ applied'[e] <= store[e].cursor
      /\ UNCHANGED serverVars \/ (applied[d] < c /\ applied' = [applied EXCEPT ![d] = c])
  BY <1>2, <1>3, ConfirmationEffect
<1>5. down \in [Devices -> Seq(DownMessage)] BY DEF Inductive, TypeOK
<1>6. ASSUME NEW e \in Devices PROVE DownGrows(e)
  <2>1. e \in Registered <=> conn'[e] = "registered" BY <1>1 DEF Registered
  <2>2. \A i \in 1..Len(down[e]) : ~(i > Len(down[e])) BY <1>5
  <2>3. Len(down[e]) <= Len(down[e]) /\ Last <= Len(delivery') BY <1>4, <1>5 DEF RowsAdvance
  <2> QED BY <2>1, <2>2, <2>3, <1>1, <1>4, <1>5, FanoutGrows
<1>7. down' = [e \in Devices |-> down'[e]] BY <1>1 DEF Fanout
<1>8. ServerEffect
  BY <1>1, <1>4, <1>6, <1>7 DEF ServerEffect, Inductive, TypeOK
<1> QED BY <1>8, <1>2, <1>4

-----------------------------------------------------------------------------
(* Steps of one device *)

\* The invariant, device by device.
DeviceOK(d) == ContiguousAt(d) /\ TrueAt(d) /\ BackedAt(d) /\ FinalAt(d) /\ CurrentAt(d)
                 /\ client[d].phase # "failed"

LEMMA ByDevice ==
  Inductive <=> TypeOK /\ StrayIsTrue /\ \A d \in Devices : DeviceOK(d)
BY DEF Inductive, DeviceOK, CursorIsContiguous, InFlightIsTrue, ConfirmationsAreBacked,
       NeverFails, FinalPagesAreFinal, ReadyIsCurrent

\* A step of device d that leaves the database alone preserves the invariant
\* if it preserves the part about d and the confirmations left behind.
LEMMA OneDevice ==
  ASSUME Inductive, NEW d \in Devices, TypeOK', DeviceOK(d)',
         UNCHANGED <<delivery, applied>>,
         \A e \in Devices \ {d} :
           /\ conn'[e] = conn[e] /\ up'[e] = up[e] /\ down'[e] = down[e]
           /\ client'[e] = client[e] /\ store'[e] = store[e],
         store[d].cursor <= store'[d].cursor,
         \A x \in stray' : x \in stray \/ (x[1] = d /\ x[2] <= store'[d].cursor)
  PROVE  Inductive'
<1>1. TypeOK /\ StrayIsTrue /\ \A e \in Devices : DeviceOK(e)
  BY ByDevice
<1>2. Last' = Last BY DEF Last
<1>3. ASSUME NEW e \in Devices \ {d} PROVE DeviceOK(e)'
  <2>1. DeviceOK(e) BY <1>1
  <2>2. /\ conn'[e] = conn[e] /\ up'[e] = up[e] /\ down'[e] = down[e]
        /\ client'[e] = client[e] /\ store'[e] = store[e]
    OBVIOUS
  <2>3. applied' = applied OBVIOUS
  <2>4. ContiguousAt(e)' BY <2>1, <2>2, <1>2 DEF DeviceOK, ContiguousAt
  <2>5. TrueAt(e)' BY <2>1, <2>2, <2>3, <1>2 DEF DeviceOK, TrueAt
  <2>6. BackedAt(e)' BY <2>1, <2>2, <2>3 DEF DeviceOK, BackedAt
  <2>7. FinalAt(e)' BY <2>1, <2>2, <1>2 DEF DeviceOK, FinalAt, HasGap
  <2>8. CurrentAt(e)' BY <2>1, <2>2, <1>2 DEF DeviceOK, CurrentAt, OnItsWay
  <2> QED BY <2>1, <2>2, <2>4, <2>5, <2>6, <2>7, <2>8 DEF DeviceOK
<1>4. StrayIsTrue'
  <2> SUFFICES ASSUME NEW x \in stray' PROVE x[2] <= store'[x[1]].cursor
    BY DEF StrayIsTrue
  <2>1. CASE x \in stray
    <3>1. x[1] \in Devices /\ x[2] \in Nat /\ x[2] <= store[x[1]].cursor
      BY <1>1, <2>1 DEF TypeOK, StrayIsTrue
    <3>2. store[x[1]].cursor \in Nat /\ store'[x[1]].cursor \in Nat
      BY <1>1, <3>1 DEF TypeOK, StoreState
    <3> QED BY <3>1, <3>2
  <2>2. CASE x[1] = d /\ x[2] <= store'[d].cursor
    BY <2>2
  <2> QED BY <2>1, <2>2
<1>5. \A e \in Devices : DeviceOK(e)'
  BY <1>3
<1> QED
  BY <1>4, <1>5 DEF Inductive, DeviceOK, CursorIsContiguous, InFlightIsTrue,
     ConfirmationsAreBacked, NeverFails, FinalPagesAreFinal, ReadyIsCurrent

LEMMA ConnectPreserves ==
  ASSUME Inductive, NEW d \in Devices, Connect(d)
  PROVE  Inductive'
<1>1. TypeOK /\ DeviceOK(d) BY ByDevice
<1>2. TypeOK'
  BY <1>1, SMTT(30) DEF TypeOK, Connect, Stopped, ClientState, Hello, UpMessage
<1>3. /\ client'[d] = Stopped("hello") /\ conn'[d] = "open" /\ up'[d] = <<Hello>> /\ down'[d] = <<>>
      /\ store'[d] = store[d] /\ UNCHANGED <<delivery, applied, stray>>
  BY <1>1 DEF TypeOK, Connect
<1>4. DeviceOK(d)'
  <2>1. Last' = Last BY <1>3 DEF Last
  <2>2. ContiguousAt(d)' BY <1>1, <1>3, <2>1 DEF DeviceOK, ContiguousAt
  <2>3. TrueAt(d)' BY <1>3 DEF TrueAt, Hello
  <2>4. BackedAt(d)' BY <1>1, <1>3 DEF DeviceOK, BackedAt
  <2>5. FinalAt(d)' BY <1>3 DEF FinalAt, Stopped
  <2>6. CurrentAt(d)' BY <1>3 DEF CurrentAt, Stopped
  <2> QED BY <1>3, <2>2, <2>3, <2>4, <2>5, <2>6 DEF DeviceOK, Stopped
<1>5. store[d].cursor <= store'[d].cursor BY <1>1, <1>3 DEF TypeOK, StoreState
<1> QED BY <1>1, <1>2, <1>3, <1>4, <1>5, OneDevice DEF Connect, TypeOK

\* A request a device whose cursor is c may send.
TrueRequest(m, c) ==
  /\ m.type = "sync_request" => m.id # 0 /\ m.from <= c
  /\ m.type = "sync_applied" => m.cursor <= c

\* What d has in flight stays true when it only loses envelopes, sends true
\* requests and moves its cursor forward.
LEMMA TrueAfter ==
  ASSUME TypeOK, TypeOK', NEW d \in Devices, TrueAt(d), UNCHANGED <<delivery, applied>>,
         store[d].cursor <= store'[d].cursor,
         \A i \in DOMAIN down'[d] : \E j \in DOMAIN down[d] : down'[d][i] = down[d][j],
         \A i \in DOMAIN up'[d] :
           \/ \E j \in DOMAIN up[d] : up'[d][i] = up[d][j]
           \/ TrueRequest(up'[d][i], store'[d].cursor)
  PROVE  TrueAt(d)'
<1>1. /\ store[d].cursor \in Nat /\ store'[d].cursor \in Nat /\ Last' = Last /\ applied' = applied
      /\ up[d] \in Seq(UpMessage) /\ down[d] \in Seq(DownMessage)
  BY DEF TypeOK, StoreState, Last
<1>2. ASSUME NEW i \in DOMAIN down'[d]
      PROVE  LET m == down'[d][i] IN
             /\ m.type = "sync_response" =>
                  /\ m.lo <= m.hi /\ m.hi <= Last
                  /\ m.lo = m.hi => m.hi <= store'[d].cursor
             /\ m.type = "ack" => m.code # 400 /\ (m.code = 0 => m.cursor <= applied[d])
  <2>1. PICK j \in DOMAIN down[d] : down'[d][i] = down[d][j] OBVIOUS
  <2>2. down[d][j].type = "sync_response" => down[d][j].hi \in Nat
    BY <1>1 DEF DownMessage, Welcome
  <2> QED BY <2>1, <2>2, <1>1 DEF TrueAt
<1>3. ASSUME NEW i \in DOMAIN up'[d]
      PROVE  LET m == up'[d][i] IN
             /\ m.type = "sync_request" => m.id # 0 /\ m.from <= store'[d].cursor
             /\ m.type = "sync_applied" => m.cursor <= store'[d].cursor
  <2>1. CASE \E j \in DOMAIN up[d] : up'[d][i] = up[d][j]
    <3>1. PICK j \in DOMAIN up[d] : up'[d][i] = up[d][j] BY <2>1
    <3>2. /\ up[d][j].type = "sync_request" => up[d][j].from \in Nat
          /\ up[d][j].type = "sync_applied" => up[d][j].cursor \in Nat
      BY <1>1 DEF UpMessage, Hello
    <3> QED BY <3>1, <3>2, <1>1 DEF TrueAt
  <2>2. CASE TrueRequest(up'[d][i], store'[d].cursor)
    BY <2>2 DEF TrueRequest
  <2> QED BY <2>1, <2>2
<1> QED BY <1>1, <1>2, <1>3 DEF TrueAt

\* The envelopes left when the first one is taken.
LEMMA TakeEnvelope ==
  ASSUME TypeOK, NEW d \in Devices, down[d] # <<>>
  PROVE  /\ Head(down[d]) \in DownMessage /\ Head(down[d]) = down[d][1]
         /\ Tail(down[d]) \in Seq(DownMessage)
         /\ DOMAIN down[d] = 1..Len(down[d]) /\ Len(down[d]) \in Nat /\ 1 \in DOMAIN down[d]
         /\ \A i \in DOMAIN Tail(down[d]) :
              i \in Nat /\ i + 1 \in DOMAIN down[d] /\ Tail(down[d])[i] = down[d][i + 1]
         /\ \A j \in DOMAIN down[d] : j > 1 =>
              j - 1 \in DOMAIN Tail(down[d]) /\ Tail(down[d])[j - 1] = down[d][j]
<1>1. down[d] \in Seq(DownMessage) BY DEF TypeOK
<1> QED BY <1>1

\* Taking an envelope keeps final pages final.
LEMMA TakeKeepsFinal ==
  ASSUME TypeOK, NEW d \in Devices, FinalAt(d), down[d] # <<>>,
         down'[d] = Tail(down[d]), conn'[d] = conn[d], UNCHANGED delivery
  PROVE  /\ conn'[d] = "open" => \A i \in DOMAIN down'[d] : down'[d][i].type # "sync_response"
         /\ conn'[d] # "closed" => \A i \in DOMAIN down'[d] :
              /\ down'[d][i].type = "sync_response"
              /\ down'[d][i].id # 0
              /\ ~down'[d][i].more
              => \/ down'[d][i].hi = Last'
                 \/ \E j \in DOMAIN down'[d] :
                      j > i /\ down'[d][j].type = "sync_response" /\ down'[d][j].hi = Last'
<1>1. Last' = Last BY DEF Last
<1>2. ASSUME conn'[d] = "open", NEW i \in DOMAIN down'[d]
      PROVE  down'[d][i].type # "sync_response"
  BY <1>2, TakeEnvelope DEF FinalAt
<1>3. ASSUME conn'[d] # "closed", NEW i \in DOMAIN down'[d],
             down'[d][i].type = "sync_response", down'[d][i].id # 0, ~down'[d][i].more,
             down'[d][i].hi # Last'
      PROVE  \E j \in DOMAIN down'[d] :
               j > i /\ down'[d][j].type = "sync_response" /\ down'[d][j].hi = Last'
  <2>1. i \in Nat /\ i + 1 \in DOMAIN down[d] /\ down'[d][i] = down[d][i + 1]
    BY TakeEnvelope
  <2>2. PICK j \in DOMAIN down[d] :
               j > i + 1 /\ down[d][j].type = "sync_response" /\ down[d][j].hi = Last
    BY <2>1, <1>1, <1>3 DEF FinalAt
  <2>3. j > 1 /\ j \in Nat /\ j - 1 > i BY <2>1, <2>2, TakeEnvelope
  <2>4. j - 1 \in DOMAIN down'[d] /\ down'[d][j - 1] = down[d][j] BY <2>3, TakeEnvelope
  <2> QED BY <2>2, <2>3, <2>4, <1>1
<1> QED BY <1>2, <1>3

\* At most one request appended to what d has in flight.
LEMMA SendAtMostOne ==
  ASSUME TypeOK, NEW d \in Devices, NEW m \in UpMessage,
         up'[d] = up[d] \/ up'[d] = Append(up[d], m)
  PROVE  /\ up'[d] \in Seq(UpMessage)
         /\ \A i \in DOMAIN up'[d] : up'[d][i] = m \/ \E j \in DOMAIN up[d] : up'[d][i] = up[d][j]
<1>1. up[d] \in Seq(UpMessage) BY DEF TypeOK
<1>2. CASE up'[d] = up[d] BY <1>1, <1>2
<1>3. CASE up'[d] = Append(up[d], m)
  <2>1. /\ up'[d] \in Seq(UpMessage) /\ DOMAIN up'[d] = 1..(Len(up[d]) + 1)
        /\ up'[d][Len(up[d]) + 1] = m
        /\ \A i \in 1..Len(up[d]) : up'[d][i] = up[d][i]
        /\ DOMAIN up[d] = 1..Len(up[d]) /\ Len(up[d]) \in Nat
    BY <1>1, <1>3
  <2>2. \A i \in 1..(Len(up[d]) + 1) : i = Len(up[d]) + 1 \/ i \in 1..Len(up[d])
    BY <2>1
  <2> QED BY <2>1, <2>2
<1> QED BY <1>2, <1>3

\* requestNext numbers a new request and withdraws readiness.
LEMMA RequestedFields ==
  ASSUME NEW cl \in ClientState, NEW c \in Nat
  PROVE  /\ Requested(cl, c) \in ClientState
         /\ Requested(cl, c).phase = cl.phase
         /\ Requested(cl, c).id = cl.id + 1
         /\ Requested(cl, c).waiting = TRUE
         /\ Requested(cl, c).from = c
         /\ Requested(cl, c).caughtUp = FALSE
         /\ Requested(cl, c).confirming = cl.confirming
BY DEF Requested, ClientState

LEMMA StoppedFields ==
  ASSUME NEW phase \in {"down", "hello", "running", "failed"}
  PROVE  /\ Stopped(phase) \in ClientState
         /\ Stopped(phase).phase = phase
         /\ Stopped(phase).id = 0
         /\ Stopped(phase).waiting = FALSE
         /\ Stopped(phase).caughtUp = FALSE
         /\ Stopped(phase).confirming = FALSE
BY DEF Stopped, ClientState

LEMMA HandleWelcomePreserves ==
  ASSUME Inductive, NEW d \in Devices, HandleWelcome(d)
  PROVE  Inductive'
<1> DEFINE c == store[d].cursor
           m == SyncRequest(1, c)
<1>1. TypeOK /\ DeviceOK(d) BY ByDevice
<1>2. c \in Nat /\ m \in UpMessage
  BY <1>1 DEF TypeOK, StoreState, SyncRequest, UpMessage
<1>3. /\ client[d].phase = "hello" /\ down[d] # <<>>
      /\ client' = [client EXCEPT ![d] = Requested(Stopped("running"), c)]
      /\ up' = [up EXCEPT ![d] = IF conn[d] = "closed" THEN @ ELSE Append(@, m)]
      /\ down' = [down EXCEPT ![d] = Tail(@)]
      /\ UNCHANGED <<delivery, applied, conn, stray, store, faults>>
  BY DEF HandleWelcome
<1>4. /\ client'[d] = Requested(Stopped("running"), c) /\ down'[d] = Tail(down[d])
      /\ up'[d] = up[d] \/ up'[d] = Append(up[d], m)
      /\ conn'[d] = conn[d] /\ store'[d] = store[d]
  BY <1>1, <1>3 DEF TypeOK
<1>5. /\ client'[d] \in ClientState /\ client'[d].phase = "running" /\ client'[d].id = 1
      /\ client'[d].waiting = TRUE /\ client'[d].from = c
      /\ client'[d].caughtUp = FALSE /\ client'[d].confirming = FALSE
  <2> DEFINE cl == Stopped("running")
  <2>1. cl \in ClientState /\ cl.phase = "running" /\ cl.id = 0 /\ cl.confirming = FALSE
    BY StoppedFields
  <2>2. client'[d] = Requested(cl, c) BY <1>4
  <2> HIDE DEF cl, c
  <2>3. /\ client'[d] \in ClientState /\ client'[d].phase = cl.phase /\ client'[d].id = cl.id + 1
        /\ client'[d].waiting = TRUE /\ client'[d].from = c
        /\ client'[d].caughtUp = FALSE /\ client'[d].confirming = cl.confirming
    <3> DEFINE r == Requested(cl, c)
    <3>1. cl \in ClientState /\ c \in Nat BY <2>1, <1>2
    <3>2. /\ r \in ClientState /\ r.phase = cl.phase /\ r.id = cl.id + 1
          /\ r.waiting = TRUE /\ r.from = c
          /\ r.caughtUp = FALSE /\ r.confirming = cl.confirming
      BY <3>1, RequestedFields
    <3> HIDE DEF r
    <3> QED BY <2>2, <3>2 DEF r
  <2>4. 0 + 1 = 1 OBVIOUS
  <2> QED BY <2>1, <2>3, <2>4, Zenon
<1> HIDE DEF m
<1>6. /\ up'[d] \in Seq(UpMessage) /\ down'[d] \in Seq(DownMessage)
      /\ \A i \in DOMAIN up'[d] : up'[d][i] = m \/ \E j \in DOMAIN up[d] : up'[d][i] = up[d][j]
      /\ \A i \in DOMAIN down'[d] : \E j \in DOMAIN down[d] : down'[d][i] = down[d][j]
  <2>1. /\ up'[d] \in Seq(UpMessage)
        /\ \A i \in DOMAIN up'[d] : up'[d][i] = m \/ \E j \in DOMAIN up[d] : up'[d][i] = up[d][j]
    BY <1>1, <1>2, <1>4, SendAtMostOne
  <2>2. /\ down'[d] \in Seq(DownMessage)
        /\ \A i \in DOMAIN down'[d] : \E j \in DOMAIN down[d] : down'[d][i] = down[d][j]
    BY <1>1, <1>3, <1>4, TakeEnvelope
  <2> QED BY <2>1, <2>2
<1>7. TypeOK'
  <2>2. client' \in [Devices -> ClientState] BY <1>5, <1>1, <1>3 DEF TypeOK
  <2>3. up' \in [Devices -> Seq(UpMessage)] BY <1>1, <1>3, <1>6 DEF TypeOK
  <2>4. down' \in [Devices -> Seq(DownMessage)] BY <1>1, <1>3, <1>6 DEF TypeOK
  <2> QED BY <2>2, <2>3, <2>4, <1>1, <1>3 DEF TypeOK
<1>8. DeviceOK(d)'
  <2>1. Last' = Last /\ applied' = applied BY <1>3 DEF Last
  <2>2. ContiguousAt(d)' BY <1>1, <1>4, <2>1 DEF DeviceOK, ContiguousAt
  <2>3. TrueAt(d)'
    <3>1. m = SyncRequest(1, c) BY DEF m
    <3>2. TrueRequest(m, store'[d].cursor) BY <3>1, <1>2, <1>4 DEF TrueRequest, SyncRequest
    <3>3. store[d].cursor <= store'[d].cursor BY <1>2, <1>4
    <3> QED BY <1>1, <1>3, <1>6, <1>7, <3>2, <3>3, TrueAfter DEF DeviceOK
  <2>4. BackedAt(d)' BY <1>1, <1>4, <2>1 DEF DeviceOK, BackedAt
  <2>5. FinalAt(d)'
    <3>1. /\ conn'[d] = "open" => \A i \in DOMAIN down'[d] : down'[d][i].type # "sync_response"
          /\ conn'[d] # "closed" => \A i \in DOMAIN down'[d] :
               /\ down'[d][i].type = "sync_response"
               /\ down'[d][i].id # 0
               /\ ~down'[d][i].more
               => \/ down'[d][i].hi = Last'
                  \/ \E j \in DOMAIN down'[d] :
                       j > i /\ down'[d][j].type = "sync_response" /\ down'[d][j].hi = Last'
      BY <1>1, <1>3, <1>4, TakeKeepsFinal DEF DeviceOK
    <3> QED BY <3>1, <1>2, <1>4, <1>5 DEF FinalAt
  <2>6. CurrentAt(d)' BY <1>4, <1>5 DEF CurrentAt
  <2> QED BY <1>4, <1>5, <2>2, <2>3, <2>4, <2>5, <2>6 DEF DeviceOK
<1>9. store[d].cursor <= store'[d].cursor BY <1>2, <1>4
<1>10. \A e \in Devices \ {d} :
         /\ conn'[e] = conn[e] /\ up'[e] = up[e] /\ down'[e] = down[e]
         /\ client'[e] = client[e] /\ store'[e] = store[e]
  BY <1>1, <1>3 DEF TypeOK
<1> QED BY <1>3, <1>7, <1>8, <1>9, <1>10, OneDevice

\* What apply() does to a store that is contiguous and within the stream.
LEMMA AppliedKeepsContiguous ==
  ASSUME TypeOK, NEW d \in Devices, ContiguousAt(d),
         NEW lo \in Nat, NEW hi \in Nat, hi <= Last,
         NEW s, s = Applied(store[d], lo, hi)
  PROVE  /\ s \in StoreState
         /\ store[d].seen \subseteq s.seen
         /\ (lo + 1)..hi \subseteq s.seen
         /\ s.seen \subseteq store[d].seen \cup ((lo + 1)..hi)
         /\ store[d].cursor <= s.cursor /\ s.cursor <= Last
         /\ s.pending = store[d].pending /\ s.confirmed = store[d].confirmed
         /\ \A p \in 1..s.cursor : p \in s.seen
         /\ s.cursor + 1 \notin s.seen
         /\ \A p \in s.seen : p \in 1..Last
<1> DEFINE seen == store[d].seen \cup ((lo + 1)..hi)
           c == store[d].cursor
           n == Advance(c, seen)
<1>1. store[d] \in StoreState /\ Last \in Nat
  BY DEF TypeOK, Last
<1>2. s = [store[d] EXCEPT !.seen = seen, !.cursor = n]
  BY DEF Applied
<1>3. c \in Nat /\ seen \in SUBSET Nat /\ \A p \in seen : p \in 1..Last
  BY <1>1 DEF StoreState, ContiguousAt
<1>4. c = 0 \/ c \in 1..Last
  BY <1>3 DEF ContiguousAt
<1> HIDE DEF seen
<1>5. /\ n \in seen \cup {c} /\ n \in Nat /\ n >= c /\ n + 1 \notin seen
      /\ \A m \in (c + 1)..n : m \in seen
  <2>1. \A p \in seen : p <= Last BY <1>1, <1>3
  <2> QED BY <1>1, <1>3, <2>1, AdvanceStopsAtHole
<1> HIDE DEF n
<1>6. n <= Last BY <1>1, <1>3, <1>4, <1>5
<1>7. \A p \in 1..n : p \in seen
  <2> TAKE p \in 1..n
  <2>1. CASE p <= c BY <2>1, <1>3, <1>5 DEF ContiguousAt, seen
  <2>2. CASE p > c BY <2>2, <1>3, <1>5
  <2> QED BY <2>1, <2>2, <1>3
<1>8. /\ s \in StoreState /\ s.seen = seen /\ s.cursor = n
      /\ s.pending = store[d].pending /\ s.confirmed = store[d].confirmed
  BY <1>1, <1>2, <1>3, <1>5 DEF StoreState
<1> QED BY <1>3, <1>5, <1>6, <1>7, <1>8 DEF seen

\* What handleResponse leaves in the coordinator: it asks again from the new
\* cursor, or it is (or stays) caught up without a gap, or it still waits.
LEMMA AfterResponseCases ==
  ASSUME NEW cl \in ClientState, NEW msg \in DownMessage, msg.type = "sync_response",
         NEW s \in StoreState
  PROVE  LET r == AfterResponse(cl, msg, s) IN
         \/ r = Requested(cl, s.cursor)
         \/ /\ r = [cl EXCEPT !.waiting = FALSE, !.from = 0, !.caughtUp = TRUE]
            /\ cl.waiting /\ msg.id = cl.id /\ ~msg.more /\ ~HasGap(s) /\ msg.hi <= s.cursor
         \/ r = cl /\ (cl.waiting \/ ~HasGap(s))
<1>1. msg.hi \in Nat /\ s.cursor \in Nat
  BY DEF DownMessage, Welcome, StoreState
<1>2. CASE cl.waiting /\ msg.id = cl.id
  <2>1. CASE More(msg, s)
    <3>1. AfterResponse(cl, msg, s) = IF s.cursor <= cl.from THEN cl ELSE Requested(cl, s.cursor)
      BY <1>2, <2>1 DEF AfterResponse
    <3> QED BY <3>1, <1>2
  <2>2. CASE ~More(msg, s)
    <3>1. AfterResponse(cl, msg, s) = [cl EXCEPT !.waiting = FALSE, !.from = 0, !.caughtUp = TRUE]
      BY <1>2, <2>2 DEF AfterResponse
    <3>2. ~msg.more /\ ~HasGap(s) /\ msg.hi <= s.cursor BY <2>2, <1>1 DEF More
    <3> QED BY <3>1, <3>2, <1>2
  <2> QED BY <2>1, <2>2
<1>3. CASE ~(cl.waiting /\ msg.id = cl.id)
  BY <1>3 DEF AfterResponse
<1> QED BY <1>2, <1>3

LEMMA HandleResponsePreserves ==
  ASSUME Inductive, NEW d \in Devices, HandleResponse(d)
  PROVE  /\ Inductive'
         /\ store'[d].seen \subseteq store[d].seen \cup (1..Last)
         /\ store[d].seen \subseteq store'[d].seen
         /\ store[d].cursor <= store'[d].cursor
         /\ store'[d].confirmed = store[d].confirmed
         /\ \A e \in Devices \ {d} : store'[e] = store[e]
         /\ UNCHANGED <<delivery, applied>>
<1> DEFINE msg == Head(down[d])
           s == Applied(store[d], msg.lo, msg.hi)
           cl == AfterResponse(client[d], msg, s)
           m == SyncRequest(cl.id, cl.from)
<1>1. TypeOK /\ DeviceOK(d) /\ Last \in Nat BY ByDevice DEF TypeOK, Last
<1>2. /\ down[d] # <<>> /\ msg.type = "sync_response"
      /\ store' = [store EXCEPT ![d] = s]
      /\ client' = [client EXCEPT ![d] = cl]
      /\ up' = [up EXCEPT ![d] =
           IF cl.id # client[d].id /\ conn[d] # "closed" THEN Append(@, m) ELSE @]
      /\ down' = [down EXCEPT ![d] = Tail(@)]
      /\ UNCHANGED <<delivery, applied, conn, stray, faults>>
  BY DEF HandleResponse
<1>3. /\ client'[d] = cl /\ down'[d] = Tail(down[d])
      /\ up'[d] = up[d] \/ up'[d] = Append(up[d], m)
      /\ conn'[d] = conn[d] /\ store'[d] = s
  BY <1>1, <1>2 DEF TypeOK
<1>4. /\ msg \in DownMessage /\ msg = down[d][1] /\ 1 \in DOMAIN down[d]
      /\ down'[d] \in Seq(DownMessage)
      /\ \A i \in DOMAIN down'[d] : \E j \in DOMAIN down[d] : down'[d][i] = down[d][j]
  <2>1. TypeOK /\ down[d] # <<>> BY <1>1, <1>2
  <2>2. /\ Head(down[d]) \in DownMessage /\ Head(down[d]) = down[d][1]
        /\ Tail(down[d]) \in Seq(DownMessage) /\ 1 \in DOMAIN down[d]
        /\ \A i \in DOMAIN Tail(down[d]) :
             i + 1 \in DOMAIN down[d] /\ Tail(down[d])[i] = down[d][i + 1]
    BY <2>1, TakeEnvelope
  <2> QED BY <1>3, <2>2
<1>5. /\ msg.lo \in Nat /\ msg.hi \in Nat /\ msg.lo <= msg.hi /\ msg.hi <= Last
      /\ msg.lo = msg.hi => msg.hi <= store[d].cursor
  <2>1. msg.lo \in Nat /\ msg.hi \in Nat
    <3> HIDE DEF msg
    <3> QED BY <1>2, <1>4 DEF DownMessage, Welcome
  <2> QED BY <2>1, <1>1, <1>2, <1>4 DEF DeviceOK, TrueAt
<1> HIDE DEF msg
<1>6. /\ s \in StoreState
      /\ store[d].seen \subseteq s.seen
      /\ (msg.lo + 1)..msg.hi \subseteq s.seen
      /\ s.seen \subseteq store[d].seen \cup ((msg.lo + 1)..msg.hi)
      /\ store[d].cursor <= s.cursor /\ s.cursor <= Last
      /\ s.pending = store[d].pending /\ s.confirmed = store[d].confirmed
      /\ \A p \in 1..s.cursor : p \in s.seen
      /\ s.cursor + 1 \notin s.seen
      /\ \A p \in s.seen : p \in 1..Last
  <2>1. ContiguousAt(d) BY <1>1 DEF DeviceOK
  <2> QED BY <2>1, <1>1, <1>5, AppliedKeepsContiguous
<1> HIDE DEF s
<1>7. client[d] \in ClientState /\ store[d] \in StoreState BY <1>1 DEF TypeOK
<1>8. \/ cl = Requested(client[d], s.cursor)
      \/ /\ cl = [client[d] EXCEPT !.waiting = FALSE, !.from = 0, !.caughtUp = TRUE]
         /\ client[d].waiting /\ msg.id = client[d].id /\ ~msg.more /\ ~HasGap(s) /\ msg.hi <= s.cursor
      \/ cl = client[d] /\ (client[d].waiting \/ ~HasGap(s))
  BY <1>2, <1>4, <1>6, <1>7, AfterResponseCases, ZenonT(30)
<1> HIDE DEF cl
<1>9. /\ cl \in ClientState /\ cl.phase = client[d].phase /\ cl.confirming = client[d].confirming
      /\ cl.waiting => cl.id # 0 /\ cl.from <= s.cursor
      /\ cl.caughtUp => ~cl.waiting /\ ~HasGap(s)
  <2>1. CASE cl = Requested(client[d], s.cursor)
    <3> DEFINE r == Requested(client[d], s.cursor)
    <3>1. /\ r \in ClientState /\ r.phase = client[d].phase /\ r.id = client[d].id + 1
          /\ r.from = s.cursor /\ r.caughtUp = FALSE /\ r.confirming = client[d].confirming
      <4>1. s.cursor \in Nat BY <1>6 DEF StoreState
      <4> QED BY <4>1, <1>7, RequestedFields
    <3>2. r.id # 0 /\ r.from <= s.cursor BY <3>1, <1>6, <1>7 DEF ClientState, StoreState
    <3> HIDE DEF r
    <3>3. cl = r BY <2>1 DEF r
    <3> QED BY <3>1, <3>2, <3>3
  <2>2. CASE cl = [client[d] EXCEPT !.waiting = FALSE, !.from = 0, !.caughtUp = TRUE] /\ ~HasGap(s)
    BY <2>2, <1>7 DEF ClientState
  <2>3. CASE cl = client[d] /\ (client[d].waiting \/ ~HasGap(s))
    <3>1. /\ client[d].waiting => client[d].id # 0 /\ client[d].from <= store[d].cursor
          /\ client[d].caughtUp => ~client[d].waiting
      BY <1>1 DEF DeviceOK, FinalAt
    <3>2. store[d].cursor \in Nat /\ s.cursor \in Nat /\ client[d].from \in Nat
      BY <1>6, <1>7 DEF StoreState, ClientState
    <3> QED BY <2>3, <3>1, <3>2, <1>6, <1>7
  <2> QED BY <1>8, <2>1, <2>2, <2>3
<1>10. m \in UpMessage
  BY <1>9 DEF SyncRequest, UpMessage, ClientState
<1>11. up'[d] = up[d] \/ (up'[d] = Append(up[d], m) /\ cl.waiting)
  <2>1. CASE cl.id = client[d].id
    BY <1>1, <1>2, <2>1 DEF TypeOK
  <2>2. CASE cl = Requested(client[d], s.cursor)
    <3>1. cl.waiting BY <2>2 DEF Requested
    <3> QED BY <3>1, <1>3
  <2>3. CASE cl = [client[d] EXCEPT !.waiting = FALSE, !.from = 0, !.caughtUp = TRUE]
    <3>1. cl.id = client[d].id BY <2>3, <1>7 DEF ClientState
    <3> QED BY <3>1, <2>1
  <2> QED BY <1>8, <2>1, <2>2, <2>3
<1>12. TrueRequest(m, s.cursor) \/ up'[d] = up[d]
  BY <1>9, <1>11 DEF TrueRequest, SyncRequest
<1> HIDE DEF m
<1>13. /\ up'[d] \in Seq(UpMessage)
       /\ \A i \in DOMAIN up'[d] : up'[d][i] = m \/ \E j \in DOMAIN up[d] : up'[d][i] = up[d][j]
  BY <1>1, <1>3, <1>10, SendAtMostOne
<1>14. TypeOK'
  <2>1. client' \in [Devices -> ClientState] BY <1>1, <1>2, <1>9 DEF TypeOK
  <2>2. store' \in [Devices -> StoreState] BY <1>1, <1>2, <1>6 DEF TypeOK
  <2>3. up' \in [Devices -> Seq(UpMessage)] BY <1>1, <1>2, <1>13 DEF TypeOK
  <2>4. down' \in [Devices -> Seq(DownMessage)] BY <1>1, <1>2, <1>3, <1>4 DEF TypeOK
  <2> QED BY <2>1, <2>2, <2>3, <2>4, <1>1, <1>2 DEF TypeOK
<1>15. Last' = Last /\ applied' = applied BY <1>2 DEF Last
<1>16. TrueAt(d)'
  <2>1. \A i \in DOMAIN up'[d] :
          (\E j \in DOMAIN up[d] : up'[d][i] = up[d][j]) \/ TrueRequest(up'[d][i], store'[d].cursor)
    BY <1>3, <1>12, <1>13
  <2> QED BY <2>1, <1>1, <1>2, <1>3, <1>4, <1>6, <1>14, TrueAfter DEF DeviceOK
<1>17. BackedAt(d)'
  <2>1. store[d].cursor \in Nat /\ s.cursor \in Nat /\ applied[d] \in Nat /\ store[d].pending \in Nat
    BY <1>1, <1>6, <1>7 DEF StoreState, TypeOK
  <2> QED BY <2>1, <1>1, <1>3, <1>6, <1>15 DEF DeviceOK, BackedAt
<1>18. FinalAt(d)'
  <2>1. /\ conn'[d] = "open" => \A i \in DOMAIN down'[d] : down'[d][i].type # "sync_response"
        /\ conn'[d] # "closed" => \A i \in DOMAIN down'[d] :
             /\ down'[d][i].type = "sync_response"
             /\ down'[d][i].id # 0
             /\ ~down'[d][i].more
             => \/ down'[d][i].hi = Last'
                \/ \E j \in DOMAIN down'[d] :
                     j > i /\ down'[d][j].type = "sync_response" /\ down'[d][j].hi = Last'
    BY <1>1, <1>2, <1>3, TakeKeepsFinal DEF DeviceOK
  <2>2. conn[d] # "open" BY <1>1, <1>2, <1>4 DEF DeviceOK, FinalAt
  <2>3. client[d].confirming => store[d].pending # 0 BY <1>1 DEF DeviceOK, FinalAt
  <2> QED BY <2>1, <2>2, <2>3, <1>3, <1>6, <1>9 DEF FinalAt, HasGap
<1>19. CurrentAt(d)'
  <2> SUFFICES ASSUME cl.caughtUp, conn[d] # "closed", s.cursor # Last
               PROVE  \E i \in DOMAIN down'[d] :
                        down'[d][i].type = "sync_response" /\ down'[d][i].hi = Last
    BY <1>3, <1>15 DEF CurrentAt, OnItsWay
  <2>0. s.cursor \in Nat /\ store[d].cursor \in Nat /\ s.cursor < Last /\ ~HasGap(s)
    BY <1>1, <1>6, <1>7, <1>9 DEF StoreState
  <2>1. msg.hi # Last
    <3>1. CASE msg.lo = msg.hi BY <3>1, <2>0, <1>1, <1>5, <1>6
    <3>2. CASE msg.lo # msg.hi
      <4>1. msg.hi \in s.seen BY <3>2, <1>5, <1>6
      <4>2. ~(msg.hi > s.cursor) BY <4>1, <2>0 DEF HasGap
      <4> QED BY <4>2, <2>0, <1>1, <1>5
    <3> QED BY <3>1, <3>2
  <2>2. ASSUME NEW j \in DOMAIN down[d], down[d][j].type = "sync_response", down[d][j].hi = Last
        PROVE  \E i \in DOMAIN down'[d] :
                 down'[d][i].type = "sync_response" /\ down'[d][i].hi = Last
    <3>1. j # 1 BY <2>1, <2>2, <1>4
    <3>2. j > 1 BY <3>1, <1>1, <1>2, TakeEnvelope
    <3>3. j - 1 \in DOMAIN down'[d] /\ down'[d][j - 1] = down[d][j]
      BY <3>2, <1>1, <1>2, <1>3, TakeEnvelope, ZenonT(30)
    <3> QED BY <3>3, <2>2
  <2>3. \E j \in DOMAIN down[d] : down[d][j].type = "sync_response" /\ down[d][j].hi = Last
    <3>1. CASE cl = Requested(client[d], s.cursor)
      <4>1. cl.caughtUp = FALSE BY <3>1 DEF Requested
      <4> QED BY <4>1
    <3>2. CASE client[d].waiting /\ msg.id = client[d].id /\ ~msg.more
      <4>1. msg.id # 0 BY <3>2, <1>1 DEF DeviceOK, FinalAt
      <4> QED BY <4>1, <3>2, <2>1, <1>1, <1>2, <1>4 DEF DeviceOK, FinalAt
    <3>3. CASE cl = client[d]
      <4>1. store[d].cursor # Last BY <2>0, <1>1, <1>6
      <4> QED BY <4>1, <3>3, <1>1 DEF DeviceOK, CurrentAt, OnItsWay
    <3> QED BY <1>8, <3>1, <3>2, <3>3
  <2> QED BY <2>2, <2>3
<1>20. ContiguousAt(d)'
  BY <1>3, <1>6, <1>15 DEF ContiguousAt
<1>21. DeviceOK(d)'
  <2>1. client'[d].phase # "failed" BY <1>1, <1>3, <1>9 DEF DeviceOK
  <2> QED BY <2>1, <1>16, <1>17, <1>18, <1>19, <1>20 DEF DeviceOK
<1>22. \A e \in Devices \ {d} :
         /\ conn'[e] = conn[e] /\ up'[e] = up[e] /\ down'[e] = down[e]
         /\ client'[e] = client[e] /\ store'[e] = store[e]
  BY <1>1, <1>2 DEF TypeOK
<1>23. store[d].cursor <= store'[d].cursor BY <1>3, <1>6
<1>24. Inductive' BY <1>2, <1>14, <1>21, <1>22, <1>23, OneDevice
<1>25. /\ store'[d].seen \subseteq store[d].seen \cup (1..Last)
       /\ store[d].seen \subseteq store'[d].seen
       /\ store'[d].confirmed = store[d].confirmed
  BY <1>1, <1>3, <1>5, <1>6
<1> QED BY <1>2, <1>22, <1>23, <1>24, <1>25

\* Sending one more true request changes nothing else.
LEMMA SendPreserves ==
  ASSUME Inductive, NEW d \in Devices, NEW m \in UpMessage,
         TrueRequest(m, store[d].cursor),
         up' = [up EXCEPT ![d] = Append(@, m)],
         UNCHANGED <<delivery, applied, conn, down, stray, client, store, faults>>
  PROVE  Inductive'
<1>1. TypeOK /\ DeviceOK(d) /\ store[d].cursor \in Nat BY ByDevice DEF TypeOK, StoreState
<1>2. up'[d] = Append(up[d], m) /\ Last' = Last BY <1>1 DEF TypeOK, Last
<1>3. /\ up'[d] \in Seq(UpMessage)
      /\ \A i \in DOMAIN up'[d] : up'[d][i] = m \/ \E j \in DOMAIN up[d] : up'[d][i] = up[d][j]
  BY <1>1, <1>2, SendAtMostOne
<1>4. TypeOK'
  <2>1. up' \in [Devices -> Seq(UpMessage)] BY <1>1, <1>3 DEF TypeOK
  <2> QED BY <2>1, <1>1 DEF TypeOK
<1>5. TrueAt(d)'
  <2>1. \A i \in DOMAIN up'[d] :
          (\E j \in DOMAIN up[d] : up'[d][i] = up[d][j]) \/ TrueRequest(up'[d][i], store'[d].cursor)
    BY <1>3
  <2>2. \A i \in DOMAIN down'[d] : \E j \in DOMAIN down[d] : down'[d][i] = down[d][j]
    OBVIOUS
  <2>3. store[d].cursor <= store'[d].cursor BY <1>1
  <2> QED BY <2>1, <2>2, <2>3, <1>1, <1>4, TrueAfter DEF DeviceOK
<1>6. DeviceOK(d)'
  <2>1. ContiguousAt(d)' BY <1>1, <1>2 DEF DeviceOK, ContiguousAt
  <2>2. BackedAt(d)' BY <1>1 DEF DeviceOK, BackedAt
  <2>3. FinalAt(d)' BY <1>1, <1>2 DEF DeviceOK, FinalAt, HasGap
  <2>4. CurrentAt(d)' BY <1>1, <1>2 DEF DeviceOK, CurrentAt, OnItsWay
  <2> QED BY <2>1, <2>2, <2>3, <2>4, <1>1, <1>5 DEF DeviceOK
<1>7. \A e \in Devices \ {d} : up'[e] = up[e] BY <1>1 DEF TypeOK
<1>8. store[d].cursor <= store'[d].cursor BY <1>1
<1> QED BY <1>4, <1>6, <1>7, <1>8, OneDevice

LEMMA RetryRequestPreserves ==
  ASSUME Inductive, NEW d \in Devices, RetryRequest(d)
  PROVE  Inductive'
<1> DEFINE m == SyncRequest(client[d].id, client[d].from)
<1>1. TypeOK /\ DeviceOK(d) BY ByDevice
<1>2. /\ client[d] \in ClientState /\ client[d].waiting
      /\ client[d].id # 0 /\ client[d].from <= store[d].cursor
  BY <1>1 DEF TypeOK, DeviceOK, FinalAt, RetryRequest
<1>3. m \in UpMessage /\ TrueRequest(m, store[d].cursor)
  BY <1>2 DEF SyncRequest, UpMessage, ClientState, TrueRequest
<1>4. /\ up' = [up EXCEPT ![d] = Append(@, m)]
      /\ UNCHANGED <<delivery, applied, conn, down, stray, client, store, faults>>
  BY DEF RetryRequest
<1> HIDE DEF m
<1> QED BY <1>3, <1>4, SendPreserves

LEMMA RetryConfirmationPreserves ==
  ASSUME Inductive, NEW d \in Devices, RetryConfirmation(d)
  PROVE  Inductive'
<1> DEFINE m == SyncApplied(store[d].pending)
<1>1. TypeOK /\ DeviceOK(d) BY ByDevice
<1>2. /\ store[d] \in StoreState /\ client[d].confirming
      /\ store[d].pending # 0 /\ store[d].pending <= store[d].cursor
  BY <1>1 DEF TypeOK, DeviceOK, FinalAt, BackedAt, RetryConfirmation
<1>3. m \in UpMessage /\ TrueRequest(m, store[d].cursor)
  BY <1>2 DEF SyncApplied, UpMessage, StoreState, TrueRequest
<1>4. /\ up' = [up EXCEPT ![d] = Append(@, m)]
      /\ UNCHANGED <<delivery, applied, conn, down, stray, client, store, faults>>
  BY DEF RetryConfirmation
<1> HIDE DEF m
<1> QED BY <1>3, <1>4, SendPreserves

LEMMA ConfirmPreserves ==
  ASSUME Inductive, NEW d \in Devices, Confirm(d)
  PROVE  Inductive'
<1> DEFINE c == IF store[d].pending # 0 THEN store[d].pending ELSE store[d].cursor
           m == SyncApplied(c)
<1>1. TypeOK /\ DeviceOK(d) /\ store[d] \in StoreState /\ client[d] \in ClientState
  BY ByDevice DEF TypeOK
<1>2. /\ store[d].pending # 0 \/ store[d].cursor > store[d].confirmed
      /\ store' = [store EXCEPT ![d].pending = c]
      /\ up' = [up EXCEPT ![d] = IF conn[d] = "closed" THEN @ ELSE Append(@, m)]
      /\ client' = [client EXCEPT ![d].confirming = TRUE]
      /\ UNCHANGED <<delivery, applied, conn, down, stray, faults>>
  BY DEF Confirm
<1>3. c \in Nat /\ c # 0 /\ store[d].confirmed < c /\ c <= store[d].cursor
  BY <1>1, <1>2 DEF StoreState, DeviceOK, BackedAt
<1>4. m \in UpMessage /\ TrueRequest(m, store[d].cursor)
  BY <1>3 DEF SyncApplied, UpMessage, TrueRequest
<1> HIDE DEF m, c
<1>5. /\ store'[d] \in StoreState
      /\ store'[d].seen = store[d].seen /\ store'[d].cursor = store[d].cursor
      /\ store'[d].confirmed = store[d].confirmed /\ store'[d].pending = c
  BY <1>1, <1>2, <1>3 DEF TypeOK, StoreState
<1>6. /\ client'[d] \in ClientState /\ client'[d].phase = client[d].phase
      /\ client'[d].id = client[d].id /\ client'[d].waiting = client[d].waiting
      /\ client'[d].from = client[d].from /\ client'[d].caughtUp = client[d].caughtUp
  BY <1>1, <1>2 DEF TypeOK, ClientState
<1>7. up'[d] = up[d] \/ up'[d] = Append(up[d], m) BY <1>1, <1>2 DEF TypeOK
<1>8. /\ up'[d] \in Seq(UpMessage)
      /\ \A i \in DOMAIN up'[d] : up'[d][i] = m \/ \E j \in DOMAIN up[d] : up'[d][i] = up[d][j]
  BY <1>1, <1>4, <1>7, SendAtMostOne
<1>9. TypeOK'
  <2>1. store' \in [Devices -> StoreState] BY <1>1, <1>2, <1>5 DEF TypeOK
  <2>2. client' \in [Devices -> ClientState] BY <1>1, <1>2, <1>6 DEF TypeOK
  <2>3. up' \in [Devices -> Seq(UpMessage)] BY <1>1, <1>2, <1>8 DEF TypeOK
  <2> QED BY <2>1, <2>2, <2>3, <1>1, <1>2 DEF TypeOK
<1>10. /\ Last' = Last /\ applied' = applied /\ conn' = conn /\ down' = down
       /\ store[d].cursor <= store'[d].cursor
  BY <1>1, <1>2, <1>5 DEF Last, StoreState
<1>11. TrueAt(d)'
  <2>1. \A i \in DOMAIN up'[d] :
          (\E j \in DOMAIN up[d] : up'[d][i] = up[d][j]) \/ TrueRequest(up'[d][i], store'[d].cursor)
    BY <1>4, <1>5, <1>8
  <2>2. \A i \in DOMAIN down'[d] : \E j \in DOMAIN down[d] : down'[d][i] = down[d][j]
    BY <1>10
  <2> QED BY <2>1, <2>2, <1>1, <1>2, <1>9, <1>10, TrueAfter DEF DeviceOK
<1>12. DeviceOK(d)'
  <2>1. ContiguousAt(d)' BY <1>1, <1>5, <1>10 DEF DeviceOK, ContiguousAt
  <2>2. BackedAt(d)' BY <1>1, <1>3, <1>5, <1>10 DEF DeviceOK, BackedAt
  <2>3. FinalAt(d)' BY <1>1, <1>3, <1>5, <1>6, <1>10 DEF DeviceOK, FinalAt, HasGap
  <2>4. CurrentAt(d)' BY <1>1, <1>5, <1>6, <1>10 DEF DeviceOK, CurrentAt, OnItsWay
  <2> QED BY <2>1, <2>2, <2>3, <2>4, <1>1, <1>6, <1>11 DEF DeviceOK
<1>13. \A e \in Devices \ {d} :
         /\ conn'[e] = conn[e] /\ up'[e] = up[e] /\ down'[e] = down[e]
         /\ client'[e] = client[e] /\ store'[e] = store[e]
  BY <1>1, <1>2 DEF TypeOK
<1> QED BY <1>2, <1>9, <1>10, <1>12, <1>13, OneDevice

LEMMA HandleConfirmationResultPreserves ==
  ASSUME Inductive, NEW d \in Devices, HandleConfirmationResult(d)
  PROVE  Inductive' /\ store' \in [Devices -> StoreState]
         /\ \A e \in Devices : /\ store'[e].seen = store[e].seen /\ store'[e].cursor = store[e].cursor
                               /\ store[e].confirmed <= store'[e].confirmed
<1> DEFINE msg == Head(down[d])
           mine == client[d].confirming /\ msg.cursor = store[d].pending
<1>1. /\ TypeOK /\ DeviceOK(d) /\ store[d] \in StoreState /\ client[d] \in ClientState
      /\ store \in [Devices -> StoreState]
  BY ByDevice DEF TypeOK
<1>2. down[d] # <<>> /\ msg.type = "ack" BY DEF HandleConfirmationResult
<1>3. /\ msg \in DownMessage /\ msg = down[d][1] /\ 1 \in DOMAIN down[d]
      /\ Tail(down[d]) \in Seq(DownMessage)
      /\ \A i \in DOMAIN Tail(down[d]) : \E j \in DOMAIN down[d] : Tail(down[d])[i] = down[d][j]
  BY <1>1, <1>2, TakeEnvelope
<1>4. msg.code # 400 /\ (msg.code = 0 => msg.cursor <= applied[d])
  BY <1>1, <1>2, <1>3 DEF DeviceOK, TrueAt
<1>5. /\ store' = IF mine /\ msg.code = 0
                  THEN [store EXCEPT ![d].confirmed = msg.cursor, ![d].pending = 0] ELSE store
      /\ client' = [client EXCEPT ![d] =
                      IF mine /\ msg.code = 0 THEN [@ EXCEPT !.confirming = FALSE] ELSE @]
      /\ conn' = [conn EXCEPT ![d] = @]
      /\ up' = [up EXCEPT ![d] = @]
      /\ down' = [down EXCEPT ![d] = Tail(@)]
      /\ UNCHANGED <<delivery, applied, stray, faults>>
  BY <1>4 DEF HandleConfirmationResult, Accepted
<1>6. conn' = conn /\ up' = up /\ down'[d] = Tail(down[d]) /\ applied' = applied /\ Last' = Last
  BY <1>1, <1>5 DEF TypeOK, Last
<1>7. msg.cursor \in Nat
  <2> HIDE DEF msg
  <2> QED BY <1>2, <1>3 DEF DownMessage, Welcome
<1> HIDE DEF msg
<1>8. /\ store' \in [Devices -> StoreState]
      /\ \A e \in Devices : /\ store'[e].seen = store[e].seen /\ store'[e].cursor = store[e].cursor
                            /\ e # d => store'[e] = store[e]
      /\ \/ /\ mine /\ msg.code = 0
            /\ store'[d].confirmed = msg.cursor /\ store'[d].pending = 0
         \/ ~(mine /\ msg.code = 0) /\ store' = store
  <2>1. CASE mine /\ msg.code = 0
    <3>1. store' = [store EXCEPT ![d].confirmed = msg.cursor, ![d].pending = 0] BY <1>5, <2>1
    <3> QED BY <3>1, <2>1, <1>1, <1>7 DEF StoreState
  <2>2. CASE ~(mine /\ msg.code = 0)
    <3>1. store' = store BY <1>5, <2>2
    <3> QED BY <3>1, <2>2, <1>1
  <2> QED BY <2>1, <2>2
<1>9. /\ client' \in [Devices -> ClientState]
      /\ \A e \in Devices \ {d} : client'[e] = client[e]
      /\ client'[d].phase = client[d].phase /\ client'[d].id = client[d].id
      /\ client'[d].waiting = client[d].waiting /\ client'[d].from = client[d].from
      /\ client'[d].caughtUp = client[d].caughtUp
      /\ mine /\ msg.code = 0 => ~client'[d].confirming
      /\ ~(mine /\ msg.code = 0) => client'[d] = client[d]
  <2>0. client \in [Devices -> ClientState] BY <1>1 DEF TypeOK
  <2>1. CASE mine /\ msg.code = 0
    <3>1. client' = [client EXCEPT ![d] = [@ EXCEPT !.confirming = FALSE]] BY <1>5, <2>1
    <3> QED BY <3>1, <2>0, <2>1, <1>1 DEF ClientState
  <2>2. CASE ~(mine /\ msg.code = 0)
    <3>1. client' = client BY <1>5, <2>0, <2>2
    <3> QED BY <3>1, <2>0, <2>2, <1>1
  <2> QED BY <2>1, <2>2
<1>10. BackedAt(d)
  BY <1>1 DEF DeviceOK
<1>11. store[d].confirmed <= store'[d].confirmed /\ BackedAt(d)'
  <2>1. /\ store[d].confirmed \in Nat /\ store[d].pending \in Nat /\ store[d].cursor \in Nat
        /\ applied[d] \in Nat
    BY <1>1 DEF StoreState, TypeOK
  <2>2. CASE mine /\ msg.code = 0
    <3>1. store'[d].confirmed = msg.cursor /\ store'[d].pending = 0 /\ msg.cursor = store[d].pending
      BY <1>8, <2>2
    <3>2. store[d].pending # 0 BY <2>2, <1>1 DEF DeviceOK, FinalAt
    <3> QED BY <3>1, <3>2, <2>1, <2>2, <1>4, <1>6, <1>8, <1>10 DEF BackedAt
  <2>3. CASE ~(mine /\ msg.code = 0)
    <3>1. store' = store BY <1>8, <2>3
    <3> QED BY <3>1, <2>1, <1>6, <1>10 DEF BackedAt
  <2> QED BY <2>2, <2>3
<1> HIDE DEF mine
<1>12. TypeOK'
  <2>1. down' \in [Devices -> Seq(DownMessage)] BY <1>1, <1>3, <1>5 DEF TypeOK
  <2> QED BY <2>1, <1>1, <1>5, <1>6, <1>8, <1>9 DEF TypeOK
<1>13. DeviceOK(d)'
  <2>0. store'[d].seen = store[d].seen /\ store'[d].cursor = store[d].cursor
        /\ store[d].cursor <= store'[d].cursor
    BY <1>1, <1>8 DEF StoreState
  <2>1. ContiguousAt(d)' BY <1>1, <1>6, <2>0 DEF DeviceOK, ContiguousAt
  <2>2. TrueAt(d)' BY <1>1, <1>3, <1>5, <1>6, <1>12, <2>0, TrueAfter, SMTT(30) DEF DeviceOK
  <2>3. FinalAt(d)'
    <3>1. /\ conn'[d] = "open" => \A i \in DOMAIN down'[d] : down'[d][i].type # "sync_response"
          /\ conn'[d] # "closed" => \A i \in DOMAIN down'[d] :
               /\ down'[d][i].type = "sync_response"
               /\ down'[d][i].id # 0
               /\ ~down'[d][i].more
               => \/ down'[d][i].hi = Last'
                  \/ \E j \in DOMAIN down'[d] :
                       j > i /\ down'[d][j].type = "sync_response" /\ down'[d][j].hi = Last'
      <4>1. conn'[d] = conn[d] /\ delivery' = delivery BY <1>5, <1>6
      <4> QED BY <4>1, <1>1, <1>2, <1>6, TakeKeepsFinal DEF DeviceOK
    <3>2. client'[d].confirming => store'[d].pending # 0
      BY <1>1, <1>8, <1>9 DEF DeviceOK, FinalAt
    <3> QED BY <3>1, <3>2, <2>0, <1>1, <1>6, <1>9 DEF DeviceOK, FinalAt, HasGap
  <2>4. CurrentAt(d)'
    <3> SUFFICES ASSUME client'[d].caughtUp, conn'[d] # "closed", store'[d].cursor # Last'
                 PROVE  \E i \in DOMAIN down'[d] :
                          down'[d][i].type = "sync_response" /\ down'[d][i].hi = Last'
      BY DEF CurrentAt, OnItsWay
    <3>1. PICK j \in DOMAIN down[d] : down[d][j].type = "sync_response" /\ down[d][j].hi = Last
      BY <1>1, <1>6, <1>9, <2>0 DEF DeviceOK, CurrentAt, OnItsWay
    <3>2. j # 1 BY <3>1, <1>2, <1>3
    <3>3. j > 1 BY <3>2, <1>1, <1>2, TakeEnvelope
    <3>4. j - 1 \in DOMAIN down'[d] /\ down'[d][j - 1] = down[d][j]
      BY <3>3, <1>1, <1>2, <1>6, TakeEnvelope
    <3> QED BY <3>1, <3>4, <1>6
  <2> QED BY <2>1, <2>2, <2>3, <2>4, <1>1, <1>9, <1>11 DEF DeviceOK
<1>14. \A e \in Devices \ {d} :
         /\ conn'[e] = conn[e] /\ up'[e] = up[e] /\ down'[e] = down[e]
         /\ client'[e] = client[e] /\ store'[e] = store[e]
  BY <1>1, <1>5, <1>6, <1>8, <1>9 DEF TypeOK
<1>15. \A e \in Devices : store[e].confirmed <= store'[e].confirmed
  <2> TAKE e \in Devices
  <2>1. CASE e = d BY <2>1, <1>11
  <2>2. CASE e # d BY <2>2, <1>1, <1>14 DEF StoreState
  <2> QED BY <2>1, <2>2
<1>16. store[d].cursor <= store'[d].cursor BY <1>1, <1>8 DEF StoreState
<1>17. Inductive' BY <1>5, <1>12, <1>13, <1>14, <1>16, OneDevice
<1> QED BY <1>8, <1>15, <1>17

LEMMA LeavePreserves ==
  ASSUME Inductive, NEW d \in Devices, Leave(d), faults' \in Nat
  PROVE  Inductive'
<1>1. /\ TypeOK /\ DeviceOK(d) /\ store[d] \in StoreState
      /\ up[d] \in Seq(UpMessage)
  BY ByDevice DEF TypeOK
<1>2. /\ client' = [client EXCEPT ![d] = Stopped("down")]
      /\ conn' = [conn EXCEPT ![d] = "closed"]
      /\ up' = [up EXCEPT ![d] = <<>>]
      /\ down' = [down EXCEPT ![d] = <<>>]
      /\ stray' = stray \cup InFlight(d)
      /\ UNCHANGED <<delivery, applied, store>>
  BY DEF Leave
<1>3. ASSUME NEW x \in InFlight(d)
      PROVE  x \in Devices \X Nat /\ x[1] = d /\ x[2] <= store[d].cursor
  <2>1. PICK i \in DOMAIN up[d] : up[d][i].type = "sync_applied" /\ x = <<d, up[d][i].cursor>>
    BY <1>3 DEF InFlight
  <2>2. up[d][i].cursor \in Nat /\ up[d][i].cursor <= store[d].cursor
    <3>1. up[d][i] \in UpMessage BY <1>1
    <3> QED BY <3>1, <2>1, <1>1 DEF UpMessage, Hello, DeviceOK, TrueAt
  <2> QED BY <2>1, <2>2
<1>4. TypeOK'
  <2>1. Stopped("down") \in ClientState BY StoppedFields
  <2>2. client' \in [Devices -> ClientState] BY <2>1, <1>1, <1>2 DEF TypeOK
  <2>3. stray' \in SUBSET (Devices \X Nat) BY <1>1, <1>2, <1>3 DEF TypeOK
  <2> QED BY <2>2, <2>3, <1>1, <1>2 DEF TypeOK
<1>5. /\ client'[d] = Stopped("down") /\ conn'[d] = "closed" /\ up'[d] = <<>> /\ down'[d] = <<>>
      /\ store'[d] = store[d] /\ Last' = Last /\ applied' = applied
  BY <1>1, <1>2 DEF TypeOK, Last
<1>6. DeviceOK(d)'
  <2>1. ContiguousAt(d)' BY <1>1, <1>5 DEF DeviceOK, ContiguousAt
  <2>2. TrueAt(d)' BY <1>5 DEF TrueAt
  <2>3. BackedAt(d)' BY <1>1, <1>5 DEF DeviceOK, BackedAt
  <2>4. FinalAt(d)' BY <1>5 DEF FinalAt, Stopped
  <2>5. CurrentAt(d)' BY <1>5 DEF CurrentAt, Stopped
  <2> QED BY <1>5, <2>1, <2>2, <2>3, <2>4, <2>5 DEF DeviceOK, Stopped
<1>7. \A e \in Devices \ {d} :
        /\ conn'[e] = conn[e] /\ up'[e] = up[e] /\ down'[e] = down[e]
        /\ client'[e] = client[e] /\ store'[e] = store[e]
  BY <1>1, <1>2 DEF TypeOK
<1>8. \A x \in stray' : x \in stray \/ (x[1] = d /\ x[2] <= store'[d].cursor)
  BY <1>2, <1>3, <1>5
<1>9. store[d].cursor <= store'[d].cursor BY <1>1, <1>5 DEF StoreState
<1> QED BY <1>2, <1>4, <1>6, <1>7, <1>8, <1>9, OneDevice

\* The server closes connections: less is in flight, less is promised.
LEMMA ClosePreserves ==
  ASSUME Inductive, NEW closed \in SUBSET Devices,
         conn' = [d \in Devices |-> IF d \in closed THEN "closed" ELSE conn[d]],
         up' = [d \in Devices |-> IF d \in closed THEN <<>> ELSE up[d]],
         stray' \subseteq stray, faults' \in Nat,
         UNCHANGED <<delivery, applied, down, client, store>>
  PROVE  Inductive'
<1>1. TypeOK /\ StrayIsTrue /\ \A d \in Devices : DeviceOK(d) BY ByDevice
<1>2. TypeOK' BY <1>1 DEF TypeOK
<1>3. StrayIsTrue' BY <1>1 DEF StrayIsTrue
<1>4. Last' = Last BY DEF Last
<1>5. ASSUME NEW d \in Devices PROVE DeviceOK(d)'
  <2>0. DeviceOK(d) BY <1>1
  <2>1. ContiguousAt(d)' BY <1>4, <2>0 DEF DeviceOK, ContiguousAt
  <2>2. TrueAt(d)'
    <3>1. up'[d] = <<>> \/ up'[d] = up[d] OBVIOUS
    <3> QED BY <3>1, <1>4, <2>0 DEF DeviceOK, TrueAt
  <2>3. BackedAt(d)' BY <2>0 DEF DeviceOK, BackedAt
  <2>4. conn'[d] = "closed" \/ conn'[d] = conn[d] OBVIOUS
  <2>5. FinalAt(d)' BY <1>4, <2>0, <2>4 DEF DeviceOK, FinalAt, HasGap
  <2>6. CurrentAt(d)' BY <1>4, <2>0, <2>4 DEF DeviceOK, CurrentAt, OnItsWay
  <2> QED BY <2>0, <2>1, <2>2, <2>3, <2>5, <2>6 DEF DeviceOK
<1> QED
  BY <1>2, <1>3, <1>5 DEF Inductive, DeviceOK, CursorIsContiguous, InFlightIsTrue,
     ConfirmationsAreBacked, NeverFails, FinalPagesAreFinal, ReadyIsCurrent

-----------------------------------------------------------------------------
(* The invariant *)

LEMMA InitInductive == Init => Inductive
<1> SUFFICES ASSUME Init PROVE Inductive OBVIOUS
<1> USE DEF Init
<1>1. Last = 0 BY DEF Last
<1>2. TypeOK
  <2>1. Stopped("down") \in ClientState BY StoppedFields
  <2> QED BY <2>1 DEF TypeOK, StoreState
<1>3. StrayIsTrue BY DEF StrayIsTrue
<1>4. ASSUME NEW d \in Devices PROVE DeviceOK(d)
  <2>1. ContiguousAt(d) BY DEF ContiguousAt
  <2>2. TrueAt(d) BY DEF TrueAt
  <2>3. BackedAt(d) BY DEF BackedAt
  <2>4. FinalAt(d) BY DEF FinalAt, Stopped
  <2>5. CurrentAt(d) BY DEF CurrentAt, Stopped
  <2> QED BY <2>1, <2>2, <2>3, <2>4, <2>5 DEF DeviceOK, Stopped
<1> QED BY <1>2, <1>3, <1>4, ByDevice

LEMMA NextInductive == Inductive /\ [Next]_vars => Inductive'
<1> SUFFICES ASSUME Inductive, [Next]_vars PROVE Inductive' OBVIOUS
<1>1. CASE AppendEvents BY <1>1, AppendEventsEffect, ServerEffectPreserves
<1>2. CASE Receipt BY <1>2, ReceiptEffect, ServerEffectPreserves
<1>3. CASE HandleStray BY <1>3, HandleStrayEffect, ServerEffectPreserves
<1>4. CASE RestartServer
  <2> DEFINE all == Devices
  <2>1. /\ conn' = [d \in Devices |-> "closed"] /\ up' = [d \in Devices |-> <<>>]
        /\ stray' = {} /\ faults' = faults + 1
        /\ UNCHANGED <<delivery, applied, down, client, store>>
    BY <1>4 DEF RestartServer
  <2>2. /\ conn' = [d \in Devices |-> IF d \in all THEN "closed" ELSE conn[d]]
        /\ up' = [d \in Devices |-> IF d \in all THEN <<>> ELSE up[d]]
        /\ stray' \subseteq stray /\ faults' \in Nat /\ all \in SUBSET Devices
    BY <2>1 DEF Inductive, TypeOK
  <2> HIDE DEF all
  <2> QED BY <2>1, <2>2, ClosePreserves
<1>5. ASSUME NEW d \in Devices, FileInit(d) PROVE Inductive'
  BY <1>5, FileInitEffect, ServerEffectPreserves
<1>6. ASSUME NEW d \in Devices, ServerStep(d) PROVE Inductive'
  BY <1>6, HandleHelloEffect, HandleSyncRequestEffect, HandleSyncAppliedEffect,
     ServerEffectPreserves DEF ServerStep
<1>7. ASSUME NEW d \in Devices, FailSyncApplied(d) PROVE Inductive'
  BY <1>7, FailSyncAppliedEffect, ServerEffectPreserves
<1>8. ASSUME NEW d \in Devices, CloseConnection(d) PROVE Inductive'
  <2> DEFINE one == {d}
  <2>1. /\ conn' = [conn EXCEPT ![d] = "closed"] /\ up' = [up EXCEPT ![d] = <<>>]
        /\ faults' = faults + 1
        /\ UNCHANGED <<delivery, applied, down, stray, client, store>>
    BY <1>8 DEF CloseConnection
  <2>2. conn \in [Devices -> {"closed", "open", "registered"}] /\ up \in [Devices -> Seq(UpMessage)]
        /\ faults \in Nat
    BY DEF Inductive, TypeOK
  <2>3. conn' = [e \in Devices |-> IF e \in one THEN "closed" ELSE conn[e]]
    BY <2>1, <2>2
  <2>4. up' = [e \in Devices |-> IF e \in one THEN <<>> ELSE up[e]]
    BY <2>1, <2>2
  <2>5. stray' \subseteq stray /\ faults' \in Nat /\ one \in SUBSET Devices
    BY <2>1, <2>2
  <2> HIDE DEF one
  <2> QED BY <2>1, <2>3, <2>4, <2>5, ClosePreserves
<1>9. ASSUME NEW d \in Devices, LoseConnection(d) PROVE Inductive'
  <2>1. Leave(d) /\ faults' \in Nat BY <1>9 DEF LoseConnection, Inductive, TypeOK
  <2> QED BY <2>1, LeavePreserves
<1>10. ASSUME NEW d \in Devices, DetectClosed(d) PROVE Inductive'
  <2>1. Leave(d) /\ faults' \in Nat BY <1>10 DEF DetectClosed, Inductive, TypeOK
  <2> QED BY <2>1, LeavePreserves
<1>11. ASSUME NEW d \in Devices, ClientStep(d) PROVE Inductive'
  BY <1>10, <1>11, HandleWelcomePreserves, HandleResponsePreserves, ConnectPreserves,
     HandleConfirmationResultPreserves, ConfirmPreserves DEF ClientStep
<1>12. ASSUME NEW d \in Devices, RetryRequest(d) \/ RetryConfirmation(d) PROVE Inductive'
  BY <1>12, RetryRequestPreserves, RetryConfirmationPreserves
<1>13. CASE UNCHANGED vars
  <2>1. /\ conn' = [d \in Devices |-> IF d \in {} THEN "closed" ELSE conn[d]]
        /\ up' = [d \in Devices |-> IF d \in {} THEN <<>> ELSE up[d]]
        /\ stray' \subseteq stray /\ faults' \in Nat
        /\ UNCHANGED <<delivery, applied, down, client, store>>
    BY <1>13 DEF vars, Inductive, TypeOK
  <2>2. {} \in SUBSET Devices OBVIOUS
  <2> QED BY <2>1, <2>2, ClosePreserves
<1>14. ASSUME NEW d \in Devices,
               \/ FileInit(d)
               \/ ServerStep(d)
               \/ FailSyncApplied(d)
               \/ CloseConnection(d)
               \/ ClientStep(d)
               \/ RetryRequest(d)
               \/ RetryConfirmation(d)
               \/ LoseConnection(d)
       PROVE  Inductive'
  BY <1>14, <1>5, <1>6, <1>7, <1>8, <1>9, <1>11, <1>12
<1> QED
  BY <1>1, <1>2, <1>3, <1>4, <1>13, <1>14 DEF Next

\* In every reachable state, for every number of devices and every bound, the
\* strengthened invariant holds.
THEOREM Invariance == Spec => []Inductive
BY InitInductive, NextInductive, PTL DEF Spec

\* Every variable keeps its type.
THEOREM TypeCorrect == Spec => []TypeOK
<1>1. Inductive => TypeOK BY DEF Inductive
<1> QED BY <1>1, Invariance, PTL

\* A device's cursor only covers events it has durably applied: after any
\* mix of pages, pushes, gaps, crashes and reconnections.
THEOREM CursorsAreContiguous == Spec => []CursorIsContiguous
<1>1. Inductive => CursorIsContiguous BY DEF Inductive
<1> QED BY <1>1, Invariance, PTL

\* A device that shows itself ready is at the end of the stream, or the last
\* event is on its way to it, as long as the server holds its connection.
THEOREM ReadinessIsTruthful == Spec => []ReadyIsCurrent
<1>1. Inductive => ReadyIsCurrent BY DEF Inductive
<1> QED BY <1>1, Invariance, PTL

\* The server's record of a device, and the device's own view of that record,
\* are covered by what the device durably applied.
THEOREM ConfirmationsHold == Spec => []ConfirmationsAreBacked
<1>1. Inductive => ConfirmationsAreBacked BY DEF Inductive
<1> QED BY <1>1, Invariance, PTL

\* No confirmation is rejected, so no coordinator ever stops for good.
THEOREM CoordinatorNeverFails == Spec => []NeverFails
<1>1. Inductive => NeverFails BY DEF Inductive
<1> QED BY <1>1, Invariance, PTL

-----------------------------------------------------------------------------
(* What a step does to the durable state *)

\* The view of EventReplication: what each replica has applied.
Have == [d \in Devices |-> store[d].seen]

\* A step, as the abstract specification sees it, that also only moves forward.
Progress ==
  /\ Forward
  /\ \/ Last' > Last /\ Last' \in Nat /\ UNCHANGED <<Have, applied>>
     \/ \E d \in Devices : \E S \in SUBSET (1..Last) :
          Have' = [Have EXCEPT ![d] = @ \cup S] /\ UNCHANGED <<Last, applied>>
     \/ \E d \in Devices : \E n \in 1..Last :
          /\ n > applied[d] /\ \A p \in 1..n : p \in Have[d]
          /\ applied' = [applied EXCEPT ![d] = n]
          /\ Last' \in Nat /\ Last' >= Last /\ UNCHANGED Have
     \/ UNCHANGED <<Last, Have, applied>>

LEMMA ServerMovesForward ==
  ASSUME Inductive, ServerEffect
  PROVE  Forward /\ UNCHANGED Have /\ Last' = Len(delivery') /\ Last' \in Nat /\ Last' >= Last
<1>1. /\ store' = store /\ Last \in Nat /\ Last' = Len(delivery') /\ Last' \in Nat
      /\ store \in [Devices -> StoreState]
  BY DEF ServerEffect, Inductive, TypeOK, Last
<1>2. Last' >= Last BY <1>1 DEF ServerEffect, RowsAdvance
<1>3. Forward BY <1>1 DEF Forward, ServerEffect, RowsAdvance, StoreState
<1> QED BY <1>1, <1>2, <1>3 DEF Have

\* A confirmation that is recorded reports a prefix the device has applied.
LEMMA RecordedIsApplied ==
  ASSUME Inductive, ServerEffect, NEW d \in Devices, NEW c \in Nat,
         applied[d] < c, c <= store[d].cursor, applied' = [applied EXCEPT ![d] = c]
  PROVE  Progress
<1>1. Forward /\ UNCHANGED Have /\ Last' \in Nat /\ Last' >= Last
  BY ServerMovesForward
<1>2. /\ store[d].cursor \in Nat /\ store[d].cursor <= Last /\ Last \in Nat
      /\ \A p \in 1..store[d].cursor : p \in store[d].seen
      /\ applied[d] \in Nat
  BY CursorWithinStream DEF Inductive, CursorIsContiguous, ContiguousAt, TypeOK
<1>3. c \in 1..Last /\ c > applied[d] /\ \A p \in 1..c : p \in Have[d]
  BY <1>2 DEF Have
<1> QED BY <1>1, <1>3 DEF Progress

\* A step that leaves the stream and the records alone and every device's
\* store no smaller, with the same events applied.
LEMMA QuietIsProgress ==
  ASSUME Inductive, UNCHANGED <<delivery, applied>>,
         \A e \in Devices :
           /\ store'[e].seen = store[e].seen /\ store'[e].cursor = store[e].cursor
           /\ store[e].confirmed <= store'[e].confirmed
  PROVE  Progress
<1>1. Last' = Last /\ Last \in Nat /\ Last' = Len(delivery') /\ Have' = Have
  BY DEF Last, Have, Inductive, TypeOK
<1>2. \A e \in Devices : store[e].cursor \in Nat /\ applied[e] \in Nat
  BY DEF Inductive, TypeOK, StoreState
<1>3. Forward BY <1>1, <1>2 DEF Forward
<1> QED BY <1>1, <1>3 DEF Progress

LEMMA NextProgress == Inductive /\ [Next]_vars => Progress
<1> SUFFICES ASSUME Inductive, [Next]_vars PROVE Progress OBVIOUS
<1>0. \A e \in Devices : store[e].confirmed \in Nat BY DEF Inductive, TypeOK, StoreState
<1>1. ASSUME ServerEffect, Last < Len(delivery'), applied' = applied PROVE Progress
  <2>1. Forward /\ UNCHANGED Have /\ Last' \in Nat /\ Last' > Last
    BY <1>1, ServerMovesForward
  <2> QED BY <2>1, <1>1 DEF Progress
<1>2. ASSUME UNCHANGED <<delivery, applied, store>> PROVE Progress
  <2>1. \A e \in Devices :
          /\ store'[e].seen = store[e].seen /\ store'[e].cursor = store[e].cursor
          /\ store[e].confirmed <= store'[e].confirmed
    BY <1>0, <1>2
  <2> QED BY <2>1, <1>2, QuietIsProgress
<1>3. CASE AppendEvents BY <1>1, <1>3, AppendEventsEffect
<1>4. CASE Receipt BY <1>1, <1>4, ReceiptEffect
<1>5. ASSUME ServerEffect, UNCHANGED serverVars PROVE Progress
  <2>1. UNCHANGED <<delivery, applied, store>> BY <1>5 DEF serverVars, ServerEffect
  <2> QED BY <2>1, <1>2
<1>6. CASE HandleStray
  <2>1. /\ ServerEffect
        /\ \/ UNCHANGED serverVars
           \/ \E d \in Devices : \E c \in Nat :
                /\ applied[d] < c /\ c <= store[d].cursor
                /\ applied' = [applied EXCEPT ![d] = c]
    BY <1>6, HandleStrayEffect
  <2> QED BY <2>1, <1>5, RecordedIsApplied
<1>7. ASSUME NEW d \in Devices, HandleSyncApplied(d) PROVE Progress
  <2>1. /\ ServerEffect
        /\ \/ UNCHANGED serverVars
           \/ \E c \in Nat : /\ applied[d] < c /\ c <= store[d].cursor
                            /\ applied' = [applied EXCEPT ![d] = c]
    BY <1>7, HandleSyncAppliedEffect
  <2> QED BY <2>1, <1>5, RecordedIsApplied
<1>8. ASSUME NEW d \in Devices, FileInit(d) PROVE Progress
  BY <1>1, <1>8, FileInitEffect
<1>9. ASSUME NEW d \in Devices, HandleHello(d) \/ HandleSyncRequest(d) \/ FailSyncApplied(d)
      PROVE  Progress
  <2>1. ServerEffect /\ UNCHANGED serverVars
    BY <1>9, HandleHelloEffect, HandleSyncRequestEffect, FailSyncAppliedEffect DEF serverVars
  <2> QED BY <2>1, <1>5
<1>10. ASSUME NEW d \in Devices,
              \/ CloseConnection(d) \/ RetryRequest(d) \/ RetryConfirmation(d)
              \/ LoseConnection(d) \/ DetectClosed(d) \/ Connect(d) \/ HandleWelcome(d)
       PROVE  Progress
  <2>1. UNCHANGED <<delivery, applied, store>>
    BY <1>10 DEF CloseConnection, RetryRequest, RetryConfirmation, LoseConnection,
       DetectClosed, Leave, Connect, HandleWelcome
  <2> QED BY <2>1, <1>2
<1>11. CASE RestartServer \/ UNCHANGED vars
  <2>1. UNCHANGED <<delivery, applied, store>> BY <1>11 DEF RestartServer, vars
  <2> QED BY <2>1, <1>2
<1>12. ASSUME NEW d \in Devices, Confirm(d) PROVE Progress
  <2>1. \E c : store' = [store EXCEPT ![d].pending = c] BY <1>12 DEF Confirm
  <2>2. UNCHANGED <<delivery, applied>> BY <1>12 DEF Confirm
  <2>3. \A e \in Devices :
          /\ store'[e].seen = store[e].seen /\ store'[e].cursor = store[e].cursor
          /\ store[e].confirmed <= store'[e].confirmed
    BY <2>1, <1>0 DEF Inductive, TypeOK, StoreState
  <2> QED BY <2>2, <2>3, QuietIsProgress
<1>13. ASSUME NEW d \in Devices, HandleConfirmationResult(d) PROVE Progress
  <2>1. UNCHANGED <<delivery, applied>> BY <1>13 DEF HandleConfirmationResult
  <2> QED BY <2>1, <1>13, HandleConfirmationResultPreserves, QuietIsProgress
<1>14. ASSUME NEW d \in Devices, HandleResponse(d) PROVE Progress
  <2>1. /\ store'[d].seen \subseteq store[d].seen \cup (1..Last)
        /\ store[d].seen \subseteq store'[d].seen
        /\ store[d].cursor <= store'[d].cursor
        /\ store'[d].confirmed = store[d].confirmed
        /\ \A e \in Devices \ {d} : store'[e] = store[e]
        /\ UNCHANGED <<delivery, applied>>
    BY <1>14, HandleResponsePreserves
  <2>2. Last' = Last /\ Last \in Nat /\ Last' = Len(delivery')
    BY <2>1 DEF Last, Inductive, TypeOK
  <2>3. \A e \in Devices : store[e].cursor \in Nat /\ applied[e] \in Nat
    BY DEF Inductive, TypeOK, StoreState
  <2>4. ASSUME NEW e \in Devices
        PROVE  /\ store[e].seen \subseteq store'[e].seen /\ store[e].cursor <= store'[e].cursor
               /\ store[e].confirmed <= store'[e].confirmed /\ applied[e] <= applied'[e]
    <3>1. CASE e = d BY <3>1, <2>1, <2>3, <1>0
    <3>2. CASE e # d
      <4>1. store'[e] = store[e] BY <3>2, <2>1
      <4> QED BY <4>1, <2>1, <2>3, <1>0
    <3> QED BY <3>1, <3>2
  <2>5. Forward BY <2>1, <2>2, <2>4 DEF Forward
  <2> DEFINE S == store'[d].seen \cap (1..Last)
  <2>6. S \in SUBSET (1..Last) /\ store'[d].seen = store[d].seen \cup S
    BY <2>1
  <2> HIDE DEF S
  <2>7. Have' = [Have EXCEPT ![d] = @ \cup S]
    BY <2>1, <2>6 DEF Have
  <2> QED BY <2>1, <2>2, <2>5, <2>6, <2>7 DEF Progress
<1>15. ASSUME NEW d \in Devices,
               \/ FileInit(d)
               \/ ServerStep(d)
               \/ FailSyncApplied(d)
               \/ CloseConnection(d)
               \/ ClientStep(d)
               \/ RetryRequest(d)
               \/ RetryConfirmation(d)
               \/ LoseConnection(d)
       PROVE  Progress
  BY <1>7, <1>8, <1>9, <1>10, <1>12, <1>13, <1>14, <1>15 DEF ServerStep, ClientStep
<1> QED BY <1>3, <1>4, <1>6, <1>11, <1>15 DEF Next

\* No step takes back anything durable.
THEOREM DurableStateMovesForward == Spec => NeverBackwards
<1>1. Inductive /\ [Next]_vars => [Forward]_vars BY NextProgress DEF Progress
<1> QED BY <1>1, Invariance, PTL DEF Spec, NeverBackwards

\* SyncStream implements EventReplication: the devices' stores and the
\* server's records behave as the abstract specification promises.
THEOREM ImplementsEventReplication == Spec => ReplicationSpec
<1>1. Init => Replication!Init
  BY DEF Init, Replication!Init, Last
<1>2. Inductive /\ [Next]_vars => [Replication!Next]_(Replication!vars)
  <2> SUFFICES ASSUME Inductive, [Next]_vars
               PROVE  Replication!Next \/ UNCHANGED Replication!vars
    OBVIOUS
  <2> QED
    BY NextProgress DEF Progress, Have, Replication!Next, Replication!vars, Replication!Grow,
       Replication!Receive, Replication!Report
<1> QED BY <1>1, <1>2, Invariance, PTL DEF Spec, ReplicationSpec, Replication!Spec

-----------------------------------------------------------------------------
(* Which rows become delivered *)

\* Every row that says delivered after a step said so before, or lies within
\* the cursor of some device.
MarkedWhenApplied ==
  \A i \in 1..Len(delivery') : delivery'[i] = "delivered" =>
    \/ i \in 1..Last /\ delivery[i] = "delivered"
    \/ \E d \in Devices : i <= store[d].cursor

LEMMA SameRows ==
  ASSUME delivery' = delivery
  PROVE  MarkedWhenApplied
BY DEF MarkedWhenApplied, Last

LEMMA PublishMarks ==
  ASSUME Inductive, NEW rows \in Seq({"none", "sent"}), NEW short, Publish(rows, short)
  PROVE  MarkedWhenApplied
<1>1. delivery' = delivery \o rows /\ delivery \in Seq(Status) /\ Last = Len(delivery)
  BY DEF Inductive, TypeOK, Publish, Last
<1> SUFFICES ASSUME NEW i \in 1..Len(delivery'), delivery'[i] = "delivered"
             PROVE  i \in 1..Last /\ delivery[i] = "delivered"
  BY DEF MarkedWhenApplied
<1>0. /\ Len(delivery') = Last + Len(rows) /\ Last \in Nat /\ i \in Nat /\ i >= 1
      /\ delivery'[i] = IF i <= Last THEN delivery[i] ELSE rows[i - Last]
  BY <1>1 DEF Status
<1>2. CASE i <= Last BY <1>0, <1>2
<1>3. CASE ~(i <= Last)
  <2>1. i - Last \in 1..Len(rows) /\ delivery'[i] = rows[i - Last] BY <1>0, <1>3
  <2>2. rows[i - Last] \in {"none", "sent"} BY <2>1
  <2> QED BY <2>1, <2>2
<1> QED BY <1>2, <1>3

LEMMA ReceiptMarks ==
  ASSUME Inductive, Receipt
  PROVE  MarkedWhenApplied
<1>1. PICK rows \in SUBSET {i \in 1..Last : delivery[i] \in {"sent", "delivered"}} :
        delivery' = Append([i \in 1..Last |-> IF i \in rows THEN "read" ELSE delivery[i]], "none")
  BY DEF Receipt
<1> DEFINE marked == [i \in 1..Last |-> IF i \in rows THEN "read" ELSE delivery[i]]
<1>2. delivery \in Seq(Status) /\ Last = Len(delivery) /\ Last \in Nat
  BY DEF Inductive, TypeOK, Last
<1>3. marked \in Seq(Status) /\ Len(marked) = Last
      /\ \A i \in 1..Last : marked[i] = "delivered" => delivery[i] = "delivered"
  BY <1>2 DEF Status
<1>4. delivery' = Append(marked, "none") BY <1>1
<1> HIDE DEF marked
<1>5. /\ Len(delivery') = Last + 1 /\ delivery'[Last + 1] = "none"
      /\ \A i \in 1..Last : delivery'[i] = marked[i]
  BY <1>2, <1>3, <1>4
<1>6. ASSUME NEW i \in 1..Len(delivery'), delivery'[i] = "delivered"
      PROVE  i \in 1..Last /\ delivery[i] = "delivered"
  <2>1. i \in 1..Last BY <1>2, <1>5, <1>6
  <2> QED BY <2>1, <1>3, <1>5, <1>6
<1> QED BY <1>6 DEF MarkedWhenApplied

LEMMA ConfirmationMarks ==
  ASSUME Inductive, NEW d \in Devices, NEW c \in Nat, c <= store[d].cursor,
         ApplyConfirmation(d, c)
  PROVE  MarkedWhenApplied
<1>1. CASE UNCHANGED serverVars BY <1>1, SameRows DEF serverVars
<1>2. CASE ~UNCHANGED serverVars
  <2>1. delivery' = Delivered(d, c) BY <1>2 DEF ApplyConfirmation
  <2>2. Last \in Nat /\ delivery \in Seq(Status) /\ store[d].cursor \in Nat
    BY DEF Inductive, TypeOK, Last, StoreState
  <2> DEFINE n == Cardinality(Covered(d, c))
  <2>3. n \in Nat
    <3>1. Covered(d, c) \subseteq 1..Last BY DEF Covered
    <3>2. IsFiniteSet(1..Last) BY <2>2, FS_Interval
    <3>3. IsFiniteSet(Covered(d, c)) BY <3>1, <3>2, FS_Subset
    <3> QED BY <3>3, FS_CardinalityType
  <2>4. Delivered(d, c) = [i \in 1..(Last + n) |->
          IF i > Last THEN "none" ELSE IF i \in Covered(d, c) THEN "delivered" ELSE delivery[i]]
    BY DEF Delivered
  <2> HIDE DEF n
  <2>5. /\ Len(delivery') = Last + n
        /\ \A i \in 1..(Last + n) :
             delivery'[i] = IF i > Last THEN "none"
                            ELSE IF i \in Covered(d, c) THEN "delivered" ELSE delivery[i]
    BY <2>1, <2>2, <2>3, <2>4
  <2>6. ASSUME NEW i \in 1..Len(delivery'), delivery'[i] = "delivered"
        PROVE  \/ i \in 1..Last /\ delivery[i] = "delivered"
               \/ i <= store[d].cursor
    <3>1. i \in 1..Last BY <2>2, <2>3, <2>5, <2>6
    <3>2. CASE i \in Covered(d, c) BY <3>1, <3>2, <2>2 DEF Covered
    <3>3. CASE i \notin Covered(d, c) BY <3>1, <3>3, <2>2, <2>3, <2>5, <2>6
    <3> QED BY <3>2, <3>3
  <2> QED BY <2>6 DEF MarkedWhenApplied
<1> QED BY <1>1, <1>2

LEMMA NextMarks == Inductive /\ [Next]_vars => MarkedWhenApplied
<1> SUFFICES ASSUME Inductive, [Next]_vars PROVE MarkedWhenApplied OBVIOUS
<1>1. CASE AppendEvents
  <2>1. PICK n \in 1..MaxBurst : \E rows \in [1..n -> {"none", "sent"}] : Publish(rows, {})
    BY <1>1 DEF AppendEvents
  <2>2. \A rows \in [1..n -> {"none", "sent"}] : rows \in Seq({"none", "sent"})
    BY ParametersAssumption
  <2> QED BY <2>1, <2>2, PublishMarks
<1>2. CASE Receipt BY <1>2, ReceiptMarks
<1>3. CASE HandleStray
  <2>1. PICK s \in stray : ApplyConfirmation(s[1], s[2]) BY <1>3 DEF HandleStray
  <2>2. s[1] \in Devices /\ s[2] \in Nat /\ s[2] <= store[s[1]].cursor
    BY <2>1 DEF Inductive, TypeOK, InFlightIsTrue, StrayIsTrue
  <2> QED BY <2>1, <2>2, ConfirmationMarks
<1>4. ASSUME NEW d \in Devices, FileInit(d) PROVE MarkedWhenApplied
  <2>1. \A n \in 1..MaxBurst : [i \in 1..n |-> "none"] \in Seq({"none", "sent"})
    BY ParametersAssumption
  <2>2. \E rows \in Seq({"none", "sent"}) : Publish(rows, {d}) BY <1>4, <2>1 DEF FileInit
  <2> QED BY <2>2, PublishMarks
<1>5. ASSUME NEW d \in Devices, HandleSyncApplied(d) PROVE MarkedWhenApplied
  <2> DEFINE c == Head(up[d]).cursor
  <2>1. up[d] # <<>> /\ Head(up[d]).type = "sync_applied" /\ ApplyConfirmation(d, c)
    BY <1>5 DEF HandleSyncApplied
  <2>2. up[d] \in Seq(UpMessage) /\ Head(up[d]) = up[d][1] /\ 1 \in DOMAIN up[d]
    BY <2>1 DEF Inductive, TypeOK
  <2>3. up[d][1] \in UpMessage BY <2>2
  <2>4. c \in Nat BY <2>1, <2>2, <2>3 DEF UpMessage, Hello
  <2>5. c <= store[d].cursor BY <2>1, <2>2 DEF Inductive, InFlightIsTrue, TrueAt
  <2> HIDE DEF c
  <2> QED BY <2>1, <2>4, <2>5, ConfirmationMarks
<1>6. ASSUME NEW d \in Devices,
             \/ HandleHello(d) \/ HandleSyncRequest(d) \/ FailSyncApplied(d)
             \/ CloseConnection(d) \/ ClientStep(d) \/ RetryRequest(d) \/ RetryConfirmation(d)
             \/ LoseConnection(d)
      PROVE  MarkedWhenApplied
  <2>1. delivery' = delivery
    BY <1>6 DEF HandleHello, HandleSyncRequest, FailSyncApplied, CloseConnection, ClientStep,
       HandleWelcome, HandleResponse, HandleConfirmationResult, Connect, DetectClosed, Confirm,
       RetryRequest, RetryConfirmation, LoseConnection, Leave
  <2> QED BY <2>1, SameRows
<1>7. CASE RestartServer \/ UNCHANGED vars
  <2>1. delivery' = delivery BY <1>7 DEF RestartServer, vars
  <2> QED BY <2>1, SameRows
<1> QED BY <1>1, <1>2, <1>3, <1>4, <1>5, <1>6, <1>7 DEF Next, ServerStep

\* A sender is only told "delivered" of a message that some device of the
\* recipient has durably applied, whatever was confirmed late or twice.
THEOREM DeliveredMeansApplied == Spec => []DeliveredWasApplied
<1>1. Init => DeliveredWasApplied
  <2>1. Init => Last = 0 BY DEF Init, Last
  <2> QED BY <2>1 DEF DeliveredWasApplied
<1>2. Inductive /\ DeliveredWasApplied /\ [Next]_vars => DeliveredWasApplied'
  <2> SUFFICES ASSUME Inductive, DeliveredWasApplied, [Next]_vars PROVE DeliveredWasApplied'
    OBVIOUS
  <2>1. MarkedWhenApplied /\ Forward BY NextMarks, NextProgress DEF Progress
  <2>2. \A d \in Devices : store[d].cursor \in Nat /\ store[d].cursor <= store'[d].cursor
    BY <2>1 DEF Forward, Inductive, TypeOK, StoreState
  <2>3. Last' = Len(delivery') BY DEF Last
  <2>4. \A d \in Devices : store'[d].cursor \in Nat
    <3>1. Inductive' BY NextInductive
    <3> QED BY <3>1 DEF Inductive, TypeOK, StoreState
  <2>5. ASSUME NEW i \in 1..Len(delivery'), delivery'[i] = "delivered"
        PROVE  \E d \in Devices : i <= store'[d].cursor
    <3>1. Last \in Nat BY DEF Inductive, TypeOK, Last
    <3>2. PICK d \in Devices : i <= store[d].cursor
      BY <2>1, <2>5 DEF MarkedWhenApplied, DeliveredWasApplied
    <3>3. Len(delivery') \in Nat
      <4>1. Inductive' BY NextInductive
      <4> QED BY <4>1 DEF Inductive, TypeOK
    <3> QED BY <3>2, <3>3, <2>2, <2>4
  <2> QED BY <2>3, <2>5 DEF DeliveredWasApplied
<1> QED BY <1>1, <1>2, Invariance, PTL DEF Spec

=============================================================================
