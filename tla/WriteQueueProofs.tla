--------------------------- MODULE WriteQueueProofs ---------------------------
(***************************************************************************)
(* Proofs about WriteQueue: its inductive invariant and the invariants the *)
(* model-checking run states, for any connections, queue limits, events    *)
(* and sweeps.                                                             *)
(***************************************************************************)
EXTENDS WriteQueue, TLAPS

-----------------------------------------------------------------------------
(* The inductive invariant *)

\* The transport events of c that wait.
Events(c) ==
  {i \in DOMAIN queue : queue[i].owner = c /\ queue[i].kind \in {"data", "terminated"}}

\* Nothing of c is handled any more: it is closed, its storage failed, or the
\* callback that closes it comes before the next operation.
Over(c) ==
  \/ conn[c].closed \/ conn[c].failed
  \/ \E i \in DOMAIN callbacks :
       callbacks[i].owner = c /\ callbacks[i].does = "write_completed" /\ callbacks[i].error

\* What waits of c carries on where its handlers are, without a hole.
Continues(c) ==
  LET done == Len(handled[c])
  IN /\ \A i \in Events(c) : queue[i].no > done
     /\ \A i, j \in Events(c) : i < j => queue[i].no < queue[j].no
     /\ \A i \in Events(c) : \A n \in done + 1 .. queue[i].no :
          \E j \in Events(c) : j <= i /\ queue[j].no = n
     \* While c is listened to, everything delivered waits or is handled.
     /\ Listens(c) /\ server = "running" =>
          \A n \in done + 1 .. received[c] : \E j \in Events(c) : queue[j].no = n

EventsContinue == \A c \in Connections : Over(c) \/ Continues(c)

EventsAreReceived == \A c \in Connections :
  /\ Len(handled[c]) <= received[c]
  /\ \A i \in Events(c) : queue[i].no <= received[c]

\* The sweeper has its own operations.
OwnersAreKnown == \A i \in DOMAIN queue :
  IF queue[i].kind = "sweep" THEN queue[i].owner = Sweeper ELSE queue[i].owner \in Connections

\* A connection that is to be closed for overload takes nothing more, and is
\* closed on nothing of its own.
FencesHold ==
  /\ \A c \in Connections :
       /\ conn[c].fenced => conn[c].overloaded
       /\ conn[c].reason = "write_queue_overloaded" => conn[c].overloaded /\ ~HasQueued(c)
  /\ \A i \in DOMAIN callbacks : callbacks[i].does = "drained" =>
       conn[callbacks[i].owner].overloaded /\ ~HasQueued(callbacks[i].owner)

\* The account of the bytes that wait: left[i] are those of operation i and of
\* what comes after it.
Account(left) ==
  /\ left[1] = pendingBytes
  /\ left[Len(queue) + 1] = 0
  /\ \A i \in 1 .. Len(queue) : left[i] = queue[i].bytes + left[i + 1]

\* The pending payload is exactly that of the operations that wait.
BytesAreExact == \E left \in [1 .. Len(queue) + 1 -> Nat] : Account(left)

\* The queue never holds more operations, or more payload, than it may
\* (SqliteWriteQueue.enqueue).
QueueIsBounded == Len(queue) <= MaxOperations /\ pendingBytes <= MaxPayload

Inductive ==
  /\ TypeOK
  /\ BytesAreExact
  /\ QueueIsBounded
  /\ OwnersAreKnown
  /\ EventsAreReceived
  /\ EventsContinue
  /\ HandledIsAPrefix
  /\ FencesHold
  /\ AcceptedIsRun

-----------------------------------------------------------------------------
(* The queue *)

LEMMA QueueIsSequence ==
  ASSUME TypeOK
  PROVE  /\ Len(queue) \in Nat /\ DOMAIN queue = 1 .. Len(queue)
         /\ \A i \in DOMAIN queue : /\ queue[i] \in Operation
                                    /\ queue[i].no \in Nat /\ queue[i].bytes \in Nat
<1>1. queue \in Seq(Operation) BY DEF TypeOK
<1>2. \A op \in Operation : op.no \in Nat /\ op.bytes \in Nat BY DEF Operation
<1>3. Len(queue) \in Nat /\ DOMAIN queue = 1 .. Len(queue)
      /\ \A i \in DOMAIN queue : queue[i] \in Operation
  BY <1>1
<1> QED BY <1>2, <1>3

LEMMA Appended ==
  ASSUME TypeOK, NEW op \in Operation, queue' = Append(queue, op)
  PROVE  /\ queue' \in Seq(Operation)
         /\ Len(queue') = Len(queue) + 1 /\ DOMAIN queue' = 1 .. Len(queue) + 1
         /\ \A i \in 1 .. Len(queue) : queue'[i] = queue[i]
         /\ queue'[Len(queue) + 1] = op
<1>1. queue \in Seq(Operation) BY DEF TypeOK
<1> QED BY <1>1

LEMMA Shortened ==
  ASSUME TypeOK, queue # <<>>, queue' = Tail(queue)
  PROVE  /\ queue' \in Seq(Operation)
         /\ Len(queue) >= 1 /\ Len(queue') = Len(queue) - 1 /\ DOMAIN queue' = 1 .. Len(queue) - 1
         /\ \A i \in 1 .. Len(queue) - 1 : queue'[i] = queue[i + 1]
         /\ Head(queue) = queue[1]
<1>1. queue \in Seq(Operation) BY DEF TypeOK
<1> QED BY <1>1

\* The account of an accepted operation.
LEMMA AcceptedIsAccounted ==
  ASSUME TypeOK, BytesAreExact, QueueIsBounded, NEW op \in Operation, Accept(op), Fits(op.bytes)
  PROVE  BytesAreExact' /\ QueueIsBounded' /\ pendingBytes' \in Nat
<1>0. /\ op.bytes \in Nat /\ pendingBytes \in Nat /\ MaxPayload \in Nat /\ MaxOperations \in Nat
      /\ Len(queue) \in Nat
      /\ pendingBytes' = pendingBytes + op.bytes /\ queue' = Append(queue, op)
  BY QueueIsSequence, ParametersAssumption DEF TypeOK, Operation, Accept
<1>1. /\ Len(queue') = Len(queue) + 1
      /\ \A i \in 1 .. Len(queue) : queue'[i] = queue[i]
      /\ queue'[Len(queue) + 1] = op
  BY <1>0, Appended
<1>2. QueueIsBounded' BY <1>0, <1>1 DEF QueueIsBounded, Fits
<1>3. PICK left \in [1 .. Len(queue) + 1 -> Nat] : Account(left) BY DEF BytesAreExact
<1>4. /\ left[1] = pendingBytes
      /\ left[Len(queue) + 1] = 0
      /\ \A i \in 1 .. Len(queue) : left[i] = queue[i].bytes + left[i + 1]
  BY <1>3 DEF Account
<1> DEFINE new == [i \in 1 .. Len(queue) + 2 |->
                     IF i = Len(queue) + 2 THEN 0 ELSE left[i] + op.bytes]
<1>5. new \in [1 .. Len(queue') + 1 -> Nat] BY <1>0, <1>1, <1>3
<1>6. new[1] = pendingBytes' /\ new[Len(queue') + 1] = 0 BY <1>0, <1>1, <1>4
<1>7. ASSUME NEW i \in 1 .. Len(queue')
      PROVE  new[i] = queue'[i].bytes + new[i + 1]
  <2>1. CASE i = Len(queue) + 1
    <3>1. queue'[i] = op /\ new[i] = 0 + op.bytes /\ new[i + 1] = 0 BY <2>1, <1>0, <1>1, <1>4
    <3> HIDE DEF new
    <3> QED BY <3>1, <1>0
  <2>2. CASE i \in 1 .. Len(queue)
    <3>1. queue[i].bytes \in Nat BY <2>2, QueueIsSequence
    <3>2. i + 1 \in 1 .. Len(queue) + 1 BY <2>2, <1>0
    <3>3. left[i + 1] \in Nat BY <3>2, <1>3
    <3>4. left[i] = queue[i].bytes + left[i + 1] /\ queue'[i] = queue[i] BY <2>2, <1>1, <1>4
    <3>5. new[i] = left[i] + op.bytes /\ new[i + 1] = left[i + 1] + op.bytes
      BY <2>2, <1>0
    <3> HIDE DEF new
    <3> QED BY <3>1, <3>3, <3>4, <3>5, <1>0
  <2> QED BY <2>1, <2>2, <1>0, <1>1
<1> HIDE DEF new
<1>8. BytesAreExact' BY <1>5, <1>6, <1>7 DEF BytesAreExact, Account
<1> QED BY <1>0, <1>2, <1>8

\* The account after the oldest operation was run.
LEMMA RunIsAccounted ==
  ASSUME TypeOK, BytesAreExact, QueueIsBounded, queue # <<>>, queue' = Tail(queue),
         pendingBytes' = pendingBytes - queue[1].bytes
  PROVE  BytesAreExact' /\ QueueIsBounded' /\ pendingBytes' \in Nat
<1>0. /\ pendingBytes \in Nat /\ MaxPayload \in Nat /\ MaxOperations \in Nat /\ Len(queue) \in Nat
      /\ Len(queue) >= 1 /\ Len(queue') = Len(queue) - 1
      /\ \A i \in 1 .. Len(queue) - 1 : queue'[i] = queue[i + 1]
  BY Shortened, QueueIsSequence, ParametersAssumption DEF TypeOK
<1>1. queue[1].bytes \in Nat BY <1>0, QueueIsSequence
<1>2. PICK left \in [1 .. Len(queue) + 1 -> Nat] : Account(left) BY DEF BytesAreExact
<1>3. /\ left[1] = pendingBytes
      /\ left[Len(queue) + 1] = 0
      /\ \A i \in 1 .. Len(queue) : left[i] = queue[i].bytes + left[i + 1]
  BY <1>2 DEF Account
<1> DEFINE new == [i \in 1 .. Len(queue) |-> left[i + 1]]
<1>4. new \in [1 .. Len(queue') + 1 -> Nat] BY <1>0, <1>2
<1>5. left[2] \in Nat /\ left[1] = queue[1].bytes + left[2] BY <1>0, <1>2, <1>3
<1>6. new[1] = pendingBytes' /\ new[Len(queue') + 1] = 0 BY <1>0, <1>1, <1>3, <1>5
<1>7. \A i \in 1 .. Len(queue') : new[i] = queue'[i].bytes + new[i + 1] BY <1>0, <1>3
<1>8. pendingBytes' \in Nat /\ pendingBytes' <= pendingBytes BY <1>0, <1>1, <1>3, <1>5
<1>9. QueueIsBounded' BY <1>0, <1>8 DEF QueueIsBounded
<1> HIDE DEF new
<1>10. BytesAreExact' BY <1>4, <1>6, <1>7 DEF BytesAreExact, Account
<1> QED BY <1>8, <1>9, <1>10

-----------------------------------------------------------------------------
(* Connections *)

Reasons == {"none", "peer", "write_queue_overloaded", "operation_failed", "control"}

LEMMA ClearedState ==
  ASSUME NEW s \in Connection
  PROVE  /\ Cleared(s) \in Connection
         /\ Cleared(s).closed = s.closed /\ Cleared(s).failed = s.failed
         /\ Cleared(s).overloaded = s.overloaded /\ Cleared(s).fenced = s.fenced
         /\ Cleared(s).reason = s.reason
BY DEF Cleared, Connection

LEMMA ClosedState ==
  ASSUME NEW s \in Connection, NEW reason \in Reasons
  PROVE  /\ Closed(s, reason) \in Connection
         /\ Closed(s, reason).closed /\ Closed(s, reason).failed = s.failed
         /\ Closed(s, reason).overloaded = s.overloaded /\ Closed(s, reason).fenced = s.fenced
         /\ Closed(s, reason).reason = IF s.reason = "none" THEN reason ELSE s.reason
BY ZenonT(30) DEF Closed, Cleared, Connection, Reasons

LEMMA OverloadedState ==
  ASSUME NEW s \in Connection, NEW c
  PROVE  /\ Overloaded(c, s) \in Connection
         /\ Overloaded(c, s).overloaded
         /\ Overloaded(c, s).failed = s.failed
         /\ s.closed => Overloaded(c, s).closed
         /\ \/ Overloaded(c, s).reason = s.reason
            \/ Overloaded(c, s).reason = "write_queue_overloaded" /\ ~HasQueued(c)
<1> DEFINE r == [s EXCEPT !.overloaded = TRUE]
<1>1. r \in Connection /\ r.overloaded /\ r.failed = s.failed /\ r.closed = s.closed
      /\ r.reason = s.reason
  BY DEF Connection
<1>2. CASE HasQueued(c)
  <2>1. Overloaded(c, s) = [r EXCEPT !.fenced = TRUE] BY <1>2 DEF Overloaded
  <2> HIDE DEF r
  <2> QED BY <1>1, <2>1 DEF Connection
<1>3. CASE ~HasQueued(c)
  <2>1. Overloaded(c, s) = Closed(r, "write_queue_overloaded") BY <1>3 DEF Overloaded
  <2> HIDE DEF r
  <2>2. "write_queue_overloaded" \in Reasons BY DEF Reasons
  <2> QED BY <1>1, <1>3, <2>1, <2>2, ClosedState
<1> QED BY <1>2, <1>3

LEMMA ScheduledState ==
  ASSUME NEW s \in Connection
  PROVE  LET t == Scheduled([s EXCEPT !.buffered = TRUE])
         IN /\ t \in Connection
            /\ t.closed = s.closed /\ t.failed = s.failed
            /\ t.overloaded = s.overloaded /\ t.fenced = s.fenced /\ t.reason = s.reason
BY DEF Scheduled, Connection

LEMMA BrokenState ==
  ASSUME NEW s \in Connection
  PROVE  /\ Broken(s) \in Connection
         /\ Broken(s).failed /\ Broken(s).closed = s.closed
         /\ Broken(s).overloaded = s.overloaded /\ Broken(s).fenced = s.fenced
         /\ Broken(s).reason = s.reason
BY DEF Broken, Cleared, Connection

-----------------------------------------------------------------------------
(* What a step does to the connections *)

\* A connection never listens, or is written to, again, and is closed for overload
\* only when nothing of it waits.
ConnectionMoves(c) ==
  /\ conn[c].closed => conn'[c].closed
  /\ conn[c].failed => conn'[c].failed
  /\ conn[c].overloaded => conn'[c].overloaded
  /\ conn'[c].fenced => conn'[c].overloaded
  /\ \/ conn'[c].reason = conn[c].reason
     \/ conn'[c].reason # "write_queue_overloaded"
     \/ conn'[c].overloaded /\ ~HasQueued(c)'

\* A step that neither accepts nor runs an operation.
QuietStep ==
  /\ TypeOK'
  /\ UNCHANGED <<queue, pendingBytes, handled>>
  /\ \A c \in Connections :
       /\ ConnectionMoves(c)
       /\ Over(c) => Over(c)'
       /\ received[c] <= received'[c]
       /\ Listens(c)' /\ server' = "running" =>
            server = "running" /\ received'[c] = received[c]
  /\ \A i \in DOMAIN callbacks' : \E k \in DOMAIN callbacks : callbacks'[i] = callbacks[k]
  /\ server' = "closed" => queue = <<>>

\* A step that accepts operation op.
AcceptStep(op) ==
  /\ op \in Operation
  /\ Accept(op) /\ Fits(op.bytes)
  /\ server = "running"
  /\ UNCHANGED <<callbacks, server, handled>>
  /\ TypeOK'
  /\ IF op.kind = "sweep" THEN op.owner = Sweeper
     ELSE op.owner \in Connections /\ ~conn[op.owner].overloaded
  /\ IF op.kind \in {"data", "terminated"}
     THEN /\ received' = [received EXCEPT ![op.owner] = @ + 1]
          /\ Listens(op.owner) /\ op.no = received[op.owner] + 1
     ELSE received' = received
  /\ \A c \in Connections :
       /\ conn'[c].closed = conn[c].closed /\ conn'[c].failed = conn[c].failed
       /\ conn'[c].overloaded = conn[c].overloaded /\ conn'[c].fenced = conn[c].fenced
       /\ conn'[c].reason = conn[c].reason

LEMMA OwnersOfCallbacks ==
  ASSUME TypeOK
  PROVE  \A k \in DOMAIN callbacks : callbacks[k].owner \in Connections
<1>1. callbacks \in Seq(Callback) BY DEF TypeOK
<1>2. \A k \in DOMAIN callbacks : callbacks[k] \in Callback BY <1>1
<1> QED BY <1>2 DEF Callback

LEMMA MoveStopsListening ==
  ASSUME NEW c \in Connections, ConnectionMoves(c), Listens(c)'
  PROVE  Listens(c)
BY DEF ConnectionMoves, Listens

LEMMA QuietStepPreserves ==
  ASSUME Inductive, QuietStep
  PROVE  Inductive'
<1> USE DEF Inductive, QuietStep
<1>0. queue' = queue /\ pendingBytes' = pendingBytes /\ handled' = handled
      /\ \A c : Events(c)' = Events(c) /\ (HasQueued(c)' <=> HasQueued(c))
  BY DEF Events, HasQueued
<1>1. BytesAreExact' BY <1>0 DEF BytesAreExact, Account
<1>2. QueueIsBounded' BY <1>0 DEF QueueIsBounded
<1>3. OwnersAreKnown' BY <1>0 DEF OwnersAreKnown
<1>4. EventsAreReceived'
  <2> SUFFICES ASSUME NEW c \in Connections
               PROVE  Len(handled[c]) <= received'[c] /\ \A i \in Events(c) : queue[i].no <= received'[c]
    BY <1>0 DEF EventsAreReceived
  <2>1. /\ Len(handled[c]) <= received[c] /\ \A i \in Events(c) : queue[i].no <= received[c]
        /\ received[c] <= received'[c]
    BY DEF EventsAreReceived
  <2>2. /\ received[c] \in Nat /\ received'[c] \in Nat /\ Len(handled[c]) \in Nat
        /\ \A i \in Events(c) : queue[i].no \in Nat
    BY QueueIsSequence DEF TypeOK, Events
  <2> QED BY <2>1, <2>2
<1>5. EventsContinue'
  <2> SUFFICES ASSUME NEW c \in Connections, ~Over(c)' PROVE Continues(c)'
    BY DEF EventsContinue
  <2>1. Continues(c) BY DEF EventsContinue
  <2>2. Listens(c)' => Listens(c) BY MoveStopsListening
  <2> QED BY <2>1, <2>2, <1>0 DEF Continues
<1>6. HandledIsAPrefix' BY <1>0 DEF HandledIsAPrefix
<1>7. FencesHold'
  <2>1. ASSUME NEW c \in Connections
        PROVE  /\ conn'[c].fenced => conn'[c].overloaded
               /\ conn'[c].reason = "write_queue_overloaded" => conn'[c].overloaded /\ ~HasQueued(c)'
    BY <1>0 DEF FencesHold, ConnectionMoves
  <2>2. ASSUME NEW i \in DOMAIN callbacks', callbacks'[i].does = "drained"
        PROVE  \E e \in Connections :
                 e = callbacks'[i].owner /\ conn'[e].overloaded /\ ~HasQueued(e)'
    <3>1. PICK k \in DOMAIN callbacks : callbacks'[i] = callbacks[k] OBVIOUS
    <3>2. PICK e \in Connections : e = callbacks[k].owner BY OwnersOfCallbacks
    <3>3. conn[e].overloaded /\ ~HasQueued(e) BY <2>2, <3>1, <3>2 DEF FencesHold
    <3> QED BY <3>1, <3>2, <3>3, <1>0 DEF ConnectionMoves
  <2> QED BY <2>1, <2>2 DEF FencesHold, HasQueued
<1>8. AcceptedIsRun' BY <1>0, <1>7 DEF AcceptedIsRun, FencesHold
<1> QED BY <1>1, <1>2, <1>3, <1>4, <1>5, <1>6, <1>7, <1>8

LEMMA AcceptStepPreserves ==
  ASSUME Inductive, NEW op, AcceptStep(op)
  PROVE  Inductive'
<1> USE DEF Inductive, AcceptStep
<1>0. /\ queue' = Append(queue, op) /\ TypeOK /\ op \in Operation
      /\ Len(queue) \in Nat /\ DOMAIN queue = 1 .. Len(queue)
      /\ DOMAIN queue' = 1 .. Len(queue) + 1
      /\ \A i \in 1 .. Len(queue) : queue'[i] = queue[i]
      /\ queue'[Len(queue) + 1] = op
  BY QueueIsSequence, Appended DEF Accept
<1>q. \A c : HasQueued(c)' <=> HasQueued(c) \/ c = op.owner
  <2> SUFFICES ASSUME NEW c PROVE HasQueued(c)' <=> HasQueued(c) \/ c = op.owner OBVIOUS
  <2>1. ASSUME NEW i \in DOMAIN queue', queue'[i].owner = c PROVE HasQueued(c) \/ c = op.owner
    <3>1. CASE i = Len(queue) + 1 BY <2>1, <3>1, <1>0
    <3>2. CASE i \in 1 .. Len(queue) BY <2>1, <3>2, <1>0 DEF HasQueued
    <3> QED BY <3>1, <3>2, <1>0
  <2>2. ASSUME NEW i \in DOMAIN queue, queue[i].owner = c PROVE HasQueued(c)'
    <3>1. i \in DOMAIN queue' /\ queue'[i] = queue[i] BY <1>0
    <3> QED BY <3>1, <2>2 DEF HasQueued
  <2>3. ASSUME c = op.owner PROVE HasQueued(c)'
    <3>1. Len(queue) + 1 \in DOMAIN queue' BY <1>0
    <3> QED BY <3>1, <2>3, <1>0 DEF HasQueued
  <2> QED BY <2>1, <2>2, <2>3 DEF HasQueued
\* The events that wait, and the new one.
<1>e. ASSUME NEW c \in Connections
      PROVE  Events(c)' = IF c = op.owner /\ op.kind \in {"data", "terminated"}
                          THEN Events(c) \cup {Len(queue) + 1} ELSE Events(c)
  <2>1. \A i \in 1 .. Len(queue) : i \in Events(c)' <=> i \in Events(c) BY <1>0 DEF Events
  <2>2. Len(queue) + 1 \in Events(c)' <=> c = op.owner /\ op.kind \in {"data", "terminated"}
    BY <1>0 DEF Events
  <2>3. Events(c)' \subseteq 1 .. Len(queue) + 1 /\ Events(c) \subseteq 1 .. Len(queue)
    BY <1>0 DEF Events
  <2>4. \A i : i \in 1 .. Len(queue) + 1 <=> i \in 1 .. Len(queue) \/ i = Len(queue) + 1
    BY <1>0
  <2>5. \A i : i \in Events(c)' <=>
          \/ i \in Events(c)
          \/ i = Len(queue) + 1 /\ c = op.owner /\ op.kind \in {"data", "terminated"}
    <3> HIDE DEF Events
    <3> QED BY <2>1, <2>2, <2>3, <2>4
  <2> QED BY <2>5
<1>1. BytesAreExact' /\ QueueIsBounded' BY AcceptedIsAccounted
<1>3. OwnersAreKnown'
  <2> SUFFICES ASSUME NEW i \in DOMAIN queue'
               PROVE  IF queue'[i].kind = "sweep" THEN queue'[i].owner = Sweeper
                      ELSE queue'[i].owner \in Connections
    BY DEF OwnersAreKnown
  <2>1. CASE i = Len(queue) + 1 BY <2>1, <1>0
  <2>2. CASE i \in 1 .. Len(queue) BY <2>2, <1>0 DEF OwnersAreKnown
  <2> QED BY <2>1, <2>2, <1>0
<1>t. ASSUME NEW c \in Connections
      PROVE  /\ received[c] \in Nat /\ received'[c] \in Nat /\ Len(handled[c]) \in Nat
             /\ \A i \in Events(c) : i \in 1 .. Len(queue) /\ queue'[i] = queue[i] /\ queue[i].no \in Nat
             /\ Len(handled[c]) <= received[c] /\ \A i \in Events(c) : queue[i].no <= received[c]
             /\ received'[c] = IF c = op.owner /\ op.kind \in {"data", "terminated"}
                               THEN received[c] + 1 ELSE received[c]
  <2>1. received[c] \in Nat /\ received'[c] \in Nat /\ Len(handled[c]) \in Nat BY DEF TypeOK
  <2>2. \A i \in Events(c) : i \in 1 .. Len(queue) /\ queue'[i] = queue[i] /\ queue[i].no \in Nat
    BY <1>0, QueueIsSequence DEF Events
  <2>3. received'[c] = IF c = op.owner /\ op.kind \in {"data", "terminated"}
                       THEN received[c] + 1 ELSE received[c]
    BY DEF TypeOK
  <2> QED BY <2>1, <2>2, <2>3 DEF EventsAreReceived
<1>4. EventsAreReceived'
  <2> SUFFICES ASSUME NEW c \in Connections
               PROVE  Len(handled[c]) <= received'[c] /\ \A i \in Events(c)' : queue'[i].no <= received'[c]
    BY DEF EventsAreReceived
  <2> QED BY <1>0, <1>e, <1>t
<1>5. EventsContinue'
  <2> SUFFICES ASSUME NEW c \in Connections, ~Over(c)' PROVE Continues(c)'
    BY DEF EventsContinue
  <2>1. Over(c)' <=> Over(c) BY DEF Over
  <2>2. Listens(c)' <=> Listens(c) BY DEF Listens
  <2>3. Continues(c) BY <2>1 DEF EventsContinue
  <2>4. CASE ~(c = op.owner /\ op.kind \in {"data", "terminated"})
    <3>1. Events(c)' = Events(c) /\ received'[c] = received[c] /\ server' = server
          /\ handled' = handled /\ \A i \in Events(c) : queue'[i] = queue[i]
      BY <2>4, <1>e, <1>t
    <3>2. Continues(c)' <=>
            LET done == Len(handled[c])
            IN /\ \A i \in Events(c) : queue'[i].no > done
               /\ \A i, j \in Events(c) : i < j => queue'[i].no < queue'[j].no
               /\ \A i \in Events(c) : \A n \in done + 1 .. queue'[i].no :
                    \E j \in Events(c) : j <= i /\ queue'[j].no = n
               /\ Listens(c) /\ server = "running" =>
                    \A n \in done + 1 .. received[c] : \E j \in Events(c) : queue'[j].no = n
      BY <2>2, <3>1 DEF Continues
    <3> QED BY <2>3, <3>1, <3>2 DEF Continues
  <2>5. CASE c = op.owner /\ op.kind \in {"data", "terminated"}
    <3> DEFINE last == Len(queue) + 1
    <3> DEFINE done == Len(handled[c])
    <3>1. /\ Events(c)' = Events(c) \cup {last} /\ received'[c] = received[c] + 1
          /\ queue'[last] = op /\ op.no = received[c] + 1 /\ Listens(c)
      BY <2>5, <1>0, <1>e, <1>t
    <3>2. /\ \A i \in Events(c) : queue[i].no > done
          /\ \A i, j \in Events(c) : i < j => queue[i].no < queue[j].no
          /\ \A i \in Events(c) : \A n \in done + 1 .. queue[i].no :
               \E j \in Events(c) : j <= i /\ queue[j].no = n
          /\ \A n \in done + 1 .. received[c] : \E j \in Events(c) : queue[j].no = n
      BY <2>3, <3>1 DEF Continues
    <3>3. \A i \in Events(c)' : queue'[i].no > done BY <3>1, <3>2, <1>t
    <3>4. \A i, j \in Events(c)' : i < j => queue'[i].no < queue'[j].no
      <4> SUFFICES ASSUME NEW i \in Events(c)', NEW j \in Events(c)', i < j
                   PROVE  queue'[i].no < queue'[j].no
        OBVIOUS
      <4>1. i \in Events(c) BY <3>1, <1>t, <1>0
      <4>2. CASE j \in Events(c) BY <4>1, <4>2, <3>2, <1>t
      <4>3. CASE j = last
        <5>1. /\ queue'[i] = queue[i] /\ queue[i].no \in Nat /\ queue[i].no <= received[c]
              /\ received[c] \in Nat
          BY <4>1, <1>t
        <5> QED BY <4>3, <5>1, <3>1
      <4> QED BY <4>2, <4>3, <3>1
    <3>5. \A n \in done + 1 .. received'[c] : \E j \in Events(c)' : queue'[j].no = n
      <4> SUFFICES ASSUME NEW n \in done + 1 .. received'[c]
                   PROVE  \E j \in Events(c)' : queue'[j].no = n
        OBVIOUS
      <4>1. CASE n = received[c] + 1 BY <4>1, <3>1
      <4>2. CASE n \in done + 1 .. received[c]
        <5>1. PICK j \in Events(c) : queue[j].no = n BY <4>2, <3>2
        <5> QED BY <5>1, <3>1, <1>t
      <4> QED BY <4>1, <4>2, <3>1, <1>t
    <3>6. \A i \in Events(c)' : \A n \in done + 1 .. queue'[i].no :
            \E j \in Events(c)' : j <= i /\ queue'[j].no = n
      <4> SUFFICES ASSUME NEW i \in Events(c)', NEW n \in done + 1 .. queue'[i].no
                   PROVE  \E j \in Events(c)' : j <= i /\ queue'[j].no = n
        OBVIOUS
      <4>1. CASE i \in Events(c)
        <5>1. n \in done + 1 .. queue[i].no BY <4>1, <1>t
        <5>2. PICK j \in Events(c) : j <= i /\ queue[j].no = n BY <4>1, <5>1, <3>2
        <5> QED BY <5>2, <3>1, <1>t
      <4>2. CASE i = last
        <5>1. n \in done + 1 .. received'[c] BY <4>2, <3>1
        <5>2. PICK j \in Events(c)' : queue'[j].no = n BY <5>1, <3>5
        <5>3. j <= i BY <4>2, <5>2, <3>1, <1>t, <1>0
        <5> QED BY <5>2, <5>3
      <4> QED BY <4>1, <4>2, <3>1
    <3> QED BY <3>3, <3>4, <3>5, <3>6 DEF Continues
  <2> QED BY <2>4, <2>5
<1>6. HandledIsAPrefix' BY DEF HandledIsAPrefix
<1>7. FencesHold'
  <2>0. \A c \in Connections : conn[c].overloaded => c # op.owner
    BY ParametersAssumption
  <2>1. ASSUME NEW c \in Connections
        PROVE  /\ conn'[c].fenced => conn'[c].overloaded
               /\ conn'[c].reason = "write_queue_overloaded" => conn'[c].overloaded /\ ~HasQueued(c)'
    BY <2>0, <1>q DEF FencesHold
  <2>2. ASSUME NEW i \in DOMAIN callbacks, callbacks[i].does = "drained"
        PROVE  \E e \in Connections :
                 e = callbacks[i].owner /\ conn'[e].overloaded /\ ~HasQueued(e)'
    <3>1. PICK e \in Connections : e = callbacks[i].owner BY OwnersOfCallbacks
    <3>2. conn[e].overloaded /\ ~HasQueued(e) BY <2>2, <3>1 DEF FencesHold
    <3> QED BY <3>1, <3>2, <2>0, <1>q
  <2> QED BY <2>1, <2>2 DEF FencesHold, HasQueued
<1>8. AcceptedIsRun' BY <1>7 DEF AcceptedIsRun, FencesHold
<1> QED BY <1>1, <1>3, <1>4, <1>5, <1>6, <1>7, <1>8

\* A step that runs the oldest operation.
RunStep ==
  /\ callbacks = <<>> /\ queue # <<>>
  /\ queue' = Tail(queue) /\ pendingBytes' = pendingBytes - queue[1].bytes
  /\ UNCHANGED <<server, received, sweeps>>
  /\ conn' \in [Connections -> Connection] /\ callbacks' \in Seq(Callback)
  /\ \A c \in Connections : ConnectionMoves(c) /\ (Over(c) => Over(c)')
  /\ \A i \in DOMAIN callbacks' : callbacks'[i].does = "drained" =>
       LET c == callbacks'[i].owner
       IN conn[c].overloaded /\ ~(\E k \in 2 .. Len(queue) : queue[k].owner = c)
  /\ \/ /\ handled' = handled
        /\ \A c \in Connections : 1 \in Events(c) => Over(c)'
     \/ /\ queue[1].kind = "data" /\ queue[1].owner \in Connections /\ ~Over(queue[1].owner)
        /\ handled' = [handled EXCEPT ![queue[1].owner] = Append(@, queue[1].no)]

\* The oldest event of a connection that is not over is the next one.
LEMMA OldestIsNext ==
  ASSUME Inductive, NEW c \in Connections, 1 \in Events(c), ~Over(c)
  PROVE  queue[1].no = Len(handled[c]) + 1
<1>1. Continues(c) BY DEF Inductive, EventsContinue
<1>2. queue[1].no \in Nat /\ Len(handled[c]) \in Nat /\ \A j \in Events(c) : j \in Nat /\ j >= 1
  BY QueueIsSequence DEF Inductive, TypeOK, Events
<1>3. queue[1].no > Len(handled[c]) BY <1>1 DEF Continues
<1>4. Len(handled[c]) + 1 \in Len(handled[c]) + 1 .. queue[1].no BY <1>2, <1>3
<1>5. PICK j \in Events(c) : j <= 1 /\ queue[j].no = Len(handled[c]) + 1
  BY <1>1, <1>4 DEF Continues
<1>6. j = 1 BY <1>2, <1>5
<1> QED BY <1>5, <1>6

LEMMA RunStepPreserves ==
  ASSUME Inductive, RunStep
  PROVE  Inductive'
<1> USE DEF Inductive, RunStep
<1>0. /\ TypeOK /\ queue' \in Seq(Operation)
      /\ Len(queue) \in Nat /\ DOMAIN queue = 1 .. Len(queue) /\ Len(queue) >= 1
      /\ DOMAIN queue' = 1 .. Len(queue) - 1
      /\ \A i \in 1 .. Len(queue) - 1 : i + 1 \in DOMAIN queue /\ queue'[i] = queue[i + 1]
  BY QueueIsSequence, Shortened
<1>q. \A c : HasQueued(c)' => \E k \in 2 .. Len(queue) : queue[k].owner = c
  <2> SUFFICES ASSUME NEW c, NEW i \in DOMAIN queue', queue'[i].owner = c
               PROVE  \E k \in 2 .. Len(queue) : queue[k].owner = c
    BY DEF HasQueued
  <2>1. i + 1 \in 2 .. Len(queue) /\ queue[i + 1].owner = c BY <1>0
  <2> QED BY <2>1
<1>h. \A c : HasQueued(c)' => HasQueued(c)
  <2>1. \A k \in 2 .. Len(queue) : k \in DOMAIN queue BY <1>0
  <2> QED BY <1>q, <2>1 DEF HasQueued
<1>e. ASSUME NEW c \in Connections
      PROVE  /\ \A i \in Events(c)' : i \in 1 .. Len(queue) - 1 /\ i + 1 \in Events(c)
                                      /\ queue'[i] = queue[i + 1]
             /\ \A i \in Events(c) : /\ i \in 1 .. Len(queue)
                                     /\ i # 1 => i - 1 \in Events(c)' /\ queue'[i - 1] = queue[i]
  <2>1. ASSUME NEW i \in Events(c)'
        PROVE  i \in 1 .. Len(queue) - 1 /\ i + 1 \in Events(c) /\ queue'[i] = queue[i + 1]
    <3>1. i \in DOMAIN queue' /\ queue'[i].owner = c /\ queue'[i].kind \in {"data", "terminated"}
      BY DEF Events
    <3> QED BY <3>1, <1>0 DEF Events
  <2>2. ASSUME NEW i \in Events(c)
        PROVE  i \in 1 .. Len(queue) /\ (i # 1 => i - 1 \in Events(c)' /\ queue'[i - 1] = queue[i])
    <3>1. i \in 1 .. Len(queue) /\ queue[i].owner = c /\ queue[i].kind \in {"data", "terminated"}
      BY <1>0 DEF Events
    <3>2. ASSUME i # 1 PROVE i - 1 \in Events(c)' /\ queue'[i - 1] = queue[i]
      <4>1. i - 1 \in 1 .. Len(queue) - 1 /\ (i - 1) + 1 = i BY <3>1, <3>2, <1>0
      <4>2. queue'[i - 1] = queue[i] /\ i - 1 \in DOMAIN queue' BY <4>1, <1>0
      <4> QED BY <3>1, <4>2 DEF Events
    <3> QED BY <3>1, <3>2
  <2> QED BY <2>1, <2>2
\* What is handled grows by the next event, or not at all.
<1>d. ASSUME NEW c \in Connections
      PROVE  \/ handled'[c] = handled[c] /\ (1 \in Events(c) => Over(c)')
             \/ /\ 1 \in Events(c) /\ ~Over(c) /\ queue[1].no = Len(handled[c]) + 1
                /\ handled'[c] = Append(handled[c], queue[1].no)
  <2>1. CASE handled' = handled /\ \A b \in Connections : 1 \in Events(b) => Over(b)' BY <2>1
  <2>2. CASE /\ queue[1].kind = "data" /\ queue[1].owner \in Connections /\ ~Over(queue[1].owner)
             /\ handled' = [handled EXCEPT ![queue[1].owner] = Append(@, queue[1].no)]
    <3>1. CASE queue[1].owner = c
      <4>1. 1 \in Events(c) BY <2>2, <3>1, <1>0 DEF Events
      <4>2. handled'[c] = Append(handled[c], queue[1].no) BY <2>2, <3>1 DEF TypeOK
      <4> QED BY <2>2, <3>1, <4>1, <4>2, OldestIsNext
    <3>2. CASE queue[1].owner # c
      <4>1. 1 \notin Events(c) BY <3>2 DEF Events
      <4>2. handled'[c] = handled[c] BY <2>2, <3>2 DEF TypeOK
      <4> QED BY <4>1, <4>2
    <3> QED BY <3>1, <3>2
  <2> QED BY <2>1, <2>2
<1>t. ASSUME NEW c \in Connections
      PROVE  /\ handled[c] \in Seq(Nat) /\ Len(handled[c]) \in Nat /\ received[c] \in Nat
             /\ \A i \in Events(c) : i \in Nat /\ i >= 1 /\ queue[i].no \in Nat
  BY <1>0, QueueIsSequence DEF TypeOK, Events
<1>1. TypeOK'
  <2>1. pendingBytes' \in Nat BY RunIsAccounted
  <2>2. handled' \in [Connections -> Seq(Nat)]
    <3>1. CASE handled' = handled BY <3>1, <1>0 DEF TypeOK
    <3>2. CASE /\ queue[1].owner \in Connections
               /\ handled' = [handled EXCEPT ![queue[1].owner] = Append(@, queue[1].no)]
      <4>1. queue[1].no \in Nat BY <1>0, QueueIsSequence
      <4> QED BY <3>2, <4>1, <1>0 DEF TypeOK
    <3> QED BY <3>1, <3>2
  <2> QED BY <2>1, <2>2, <1>0 DEF TypeOK
<1>2. BytesAreExact' /\ QueueIsBounded' BY RunIsAccounted
<1>3. OwnersAreKnown' BY <1>0 DEF OwnersAreKnown
<1>4. HandledIsAPrefix'
  <2> SUFFICES ASSUME NEW c \in Connections, NEW i \in DOMAIN handled'[c]
               PROVE  handled'[c][i] = i
    BY DEF HandledIsAPrefix
  <2>1. CASE handled'[c] = handled[c] BY <2>1 DEF HandledIsAPrefix
  <2>2. CASE queue[1].no = Len(handled[c]) + 1 /\ handled'[c] = Append(handled[c], queue[1].no)
    <3>1. CASE i = Len(handled[c]) + 1 BY <2>2, <3>1, <1>t
    <3>2. CASE i \in 1 .. Len(handled[c]) BY <2>2, <3>2, <1>t DEF HandledIsAPrefix
    <3> QED BY <2>2, <3>1, <3>2, <1>t
  <2> QED BY <2>1, <2>2, <1>d
<1>n. ASSUME NEW c \in Connections
      PROVE  Len(handled'[c]) = IF handled'[c] = handled[c] THEN Len(handled[c]) ELSE Len(handled[c]) + 1
  BY <1>d, <1>t
<1>5. EventsAreReceived'
  <2> SUFFICES ASSUME NEW c \in Connections
               PROVE  Len(handled'[c]) <= received[c] /\ \A i \in Events(c)' : queue'[i].no <= received[c]
    BY DEF EventsAreReceived
  <2>1. Len(handled[c]) <= received[c] /\ \A i \in Events(c) : queue[i].no <= received[c]
    BY DEF EventsAreReceived
  <2>2. Len(handled'[c]) <= received[c] BY <2>1, <1>d, <1>n
  <2> QED BY <2>1, <2>2, <1>e
<1>6. EventsContinue'
  <2> SUFFICES ASSUME NEW c \in Connections, ~Over(c)' PROVE Continues(c)'
    BY DEF EventsContinue
  <2> DEFINE done == Len(handled[c])
  <2> DEFINE next == Len(handled'[c])
  <2>1. Continues(c) BY DEF EventsContinue
  <2>2. /\ \A i \in Events(c) : queue[i].no > done
        /\ \A i, j \in Events(c) : i < j => queue[i].no < queue[j].no
        /\ \A i \in Events(c) : \A n \in done + 1 .. queue[i].no :
             \E j \in Events(c) : j <= i /\ queue[j].no = n
        /\ Listens(c) /\ server = "running" =>
             \A n \in done + 1 .. received[c] : \E j \in Events(c) : queue[j].no = n
    BY <2>1 DEF Continues
  \* The oldest event, if it was one of c, is the one that is now handled.
  <2>3. /\ next \in Nat /\ done \in Nat /\ done <= next
        /\ 1 \in Events(c) => queue[1].no = next
        /\ 1 \notin Events(c) => next = done
    <3>1. CASE handled'[c] = handled[c] /\ (1 \in Events(c) => Over(c)') BY <3>1, <1>t
    <3>2. CASE /\ 1 \in Events(c) /\ queue[1].no = Len(handled[c]) + 1
               /\ handled'[c] = Append(handled[c], queue[1].no)
      BY <3>2, <1>t
    <3> QED BY <3>1, <3>2, <1>d
  <2>4. \A i \in Events(c) : i # 1 => queue[i].no > next
    <3> SUFFICES ASSUME NEW i \in Events(c), i # 1 PROVE queue[i].no > next OBVIOUS
    <3>1. CASE 1 \in Events(c)
      <4>1. 1 < i BY <1>t
      <4>2. queue[1].no < queue[i].no BY <2>2, <3>1, <4>1
      <4> QED BY <4>2, <2>3, <3>1, <1>t
    <3>2. CASE 1 \notin Events(c) BY <3>2, <2>2, <2>3
    <3> QED BY <3>1, <3>2
  <2>5. \A i \in Events(c)' : queue'[i].no > next
    <3> SUFFICES ASSUME NEW i \in Events(c)' PROVE queue'[i].no > next OBVIOUS
    <3>1. i + 1 \in Events(c) /\ i + 1 # 1 /\ queue'[i] = queue[i + 1] BY <1>e, <1>0
    <3> QED BY <3>1, <2>4
  <2>6. \A i, j \in Events(c)' : i < j => queue'[i].no < queue'[j].no
    <3> SUFFICES ASSUME NEW i \in Events(c)', NEW j \in Events(c)', i < j
                 PROVE  queue'[i].no < queue'[j].no
      OBVIOUS
    <3>1. i + 1 \in Events(c) /\ j + 1 \in Events(c) /\ i + 1 < j + 1
          /\ queue'[i] = queue[i + 1] /\ queue'[j] = queue[j + 1]
      BY <1>e, <1>0
    <3> QED BY <3>1, <2>2
  <2>7. ASSUME NEW n, NEW k \in Events(c), queue[k].no = n, n > next, n \in Nat
        PROVE  k # 1 /\ k - 1 \in Events(c)' /\ queue'[k - 1].no = n
    <3>1. k # 1 BY <2>7, <2>3
    <3> QED BY <3>1, <2>7, <1>e
  <2>8. \A i \in Events(c)' : \A n \in next + 1 .. queue'[i].no :
          \E j \in Events(c)' : j <= i /\ queue'[j].no = n
    <3> SUFFICES ASSUME NEW i \in Events(c)', NEW n \in next + 1 .. queue'[i].no
                 PROVE  \E j \in Events(c)' : j <= i /\ queue'[j].no = n
      OBVIOUS
    <3>1. i + 1 \in Events(c) /\ queue'[i] = queue[i + 1] /\ i \in Nat BY <1>e, <1>0
    <3>0. queue[i + 1].no \in Nat BY <3>1, <1>t
    <3>2. n \in done + 1 .. queue[i + 1].no /\ n > next /\ n \in Nat
      <4>1. PICK m \in Nat : m = queue[i + 1].no BY <3>0
      <4>2. n \in next + 1 .. m BY <3>1, <4>1
      <4> HIDE DEF done, next
      <4>3. n \in done + 1 .. m /\ n > next /\ n \in Nat BY <4>1, <4>2, <2>3
      <4> QED BY <4>1, <4>3
    <3>3. PICK k \in Events(c) : k <= i + 1 /\ queue[k].no = n BY <3>1, <3>2, <2>2
    <3>4. k - 1 \in Events(c)' /\ queue'[k - 1].no = n BY <3>2, <3>3, <2>7
    <3>5. k - 1 <= i BY <3>1, <3>3, <1>t
    <3> QED BY <3>4, <3>5
  <2>9. ASSUME Listens(c)', server' = "running", NEW n \in next + 1 .. received[c]
        PROVE  \E j \in Events(c)' : queue'[j].no = n
    <3>1. Listens(c) /\ server = "running" BY <2>9, MoveStopsListening
    <3>2. n \in done + 1 .. received[c] /\ n > next /\ n \in Nat BY <2>3, <1>t
    <3>3. PICK k \in Events(c) : queue[k].no = n BY <3>1, <3>2, <2>2
    <3> QED BY <3>2, <3>3, <2>7
  <2> HIDE DEF next
  <2> QED BY <2>5, <2>6, <2>8, <2>9 DEF Continues, next
<1>7. FencesHold'
  <2>1. ASSUME NEW c \in Connections
        PROVE  /\ conn'[c].fenced => conn'[c].overloaded
               /\ conn'[c].reason = "write_queue_overloaded" => conn'[c].overloaded /\ ~HasQueued(c)'
    BY <1>h DEF FencesHold, ConnectionMoves
  <2>2. ASSUME NEW i \in DOMAIN callbacks', callbacks'[i].does = "drained"
        PROVE  \E e \in Connections :
                 e = callbacks'[i].owner /\ conn'[e].overloaded /\ ~HasQueued(e)'
    <3>1. callbacks'[i].owner \in Connections
      <4>1. callbacks'[i] \in Callback OBVIOUS
      <4> QED BY <4>1 DEF Callback
    <3>2. PICK e \in Connections : e = callbacks'[i].owner BY <3>1
    <3>3. conn[e].overloaded /\ ~(\E k \in 2 .. Len(queue) : queue[k].owner = e)
      BY <2>2, <3>2
    <3> QED BY <3>2, <3>3, <1>q DEF ConnectionMoves
  <2> QED BY <2>1, <2>2 DEF FencesHold, HasQueued
<1>8. AcceptedIsRun' BY <1>7 DEF AcceptedIsRun, FencesHold
<1> QED BY <1>1, <1>2, <1>3, <1>4, <1>5, <1>6, <1>7, <1>8

-----------------------------------------------------------------------------
(* Every action is one of the three *)

\* Connections that keep what the invariant speaks of.
LEMMA SameConnections ==
  ASSUME Inductive, UNCHANGED <<queue, callbacks>>,
         \A b \in Connections :
           /\ conn'[b].closed = conn[b].closed /\ conn'[b].failed = conn[b].failed
           /\ conn'[b].overloaded = conn[b].overloaded /\ conn'[b].fenced = conn[b].fenced
           /\ conn'[b].reason = conn[b].reason
  PROVE  /\ \A b \in Connections : ConnectionMoves(b) /\ (Over(b) => Over(b)')
         /\ \A i \in DOMAIN callbacks' : \E k \in DOMAIN callbacks : callbacks'[i] = callbacks[k]
BY DEF Inductive, FencesHold, ConnectionMoves, Over

\* A connection whose operation does not fit.
LEMMA OverloadIsQuiet ==
  ASSUME Inductive, NEW c \in Connections, NEW s \in Connection,
         s.closed = conn[c].closed, s.failed = conn[c].failed, s.overloaded = conn[c].overloaded,
         s.fenced = conn[c].fenced, s.reason = conn[c].reason,
         conn' = [conn EXCEPT ![c] = Overloaded(c, s)],
         server # "closed",
         UNCHANGED <<queue, pendingBytes, callbacks, server, handled, sweeps>>,
         received' \in [Connections -> Nat], received[c] <= received'[c],
         \A b \in Connections : b # c => received'[b] = received[b]
  PROVE  QuietStep
<1> DEFINE t == Overloaded(c, s)
<1>0. TypeOK /\ conn \in [Connections -> Connection] /\ conn'[c] = t
      /\ \A b \in Connections : b # c => conn'[b] = conn[b]
  BY DEF Inductive, TypeOK
<1>1. /\ t \in Connection /\ t.overloaded /\ t.failed = s.failed /\ (s.closed => t.closed)
      /\ t.reason = s.reason \/ (t.reason = "write_queue_overloaded" /\ ~HasQueued(c))
  BY OverloadedState
<1> HIDE DEF t
<1>2. TypeOK'
  <2>1. conn' \in [Connections -> Connection] BY <1>0, <1>1 DEF t
  <2> QED BY <2>1, <1>0 DEF TypeOK
<1>3. HasQueued(c)' <=> HasQueued(c) BY DEF HasQueued
<1>4. \A b \in Connections : ConnectionMoves(b)
  BY <1>0, <1>1, <1>3 DEF ConnectionMoves, Inductive, FencesHold
<1>5. \A b \in Connections : Over(b) => Over(b)' BY <1>4 DEF ConnectionMoves, Over
<1>6. \A b \in Connections : Listens(b)' => received'[b] = received[b]
  BY <1>0, <1>1 DEF Listens
<1>7. \A b \in Connections : received[b] <= received'[b]
  <2>1. \A b \in Connections : received[b] \in Nat /\ received[b] <= received[b] BY <1>0 DEF TypeOK
  <2> QED BY <2>1
<1> QED BY <1>2, <1>4, <1>5, <1>6, <1>7 DEF QuietStep

LEMMA ReceiveStep ==
  ASSUME Inductive, NEW c \in Connections, NEW kind \in {"data", "terminated"}, NEW bytes \in Nat,
         Receive(c, kind, bytes)
  PROVE  QuietStep \/ \E op : AcceptStep(op)
<1> DEFINE s == [conn[c] EXCEPT !.gone = (kind = "terminated")]
<1> DEFINE op == [owner |-> c, kind |-> kind, no |-> received[c] + 1, bytes |-> bytes]
<1>0. /\ TypeOK /\ conn[c] \in Connection /\ conn \in [Connections -> Connection]
      /\ received \in [Connections -> Nat] /\ received[c] \in Nat
  BY DEF Inductive, TypeOK
<1>1. /\ server # "closed"
      /\ received' = [received EXCEPT ![c] = @ + 1]
      /\ UNCHANGED <<callbacks, server, handled, sweeps>>
      /\ \/ /\ Listens(c) /\ server = "running" /\ Fits(bytes)
            /\ Accept(op)
            /\ conn' = [conn EXCEPT ![c] = s]
         \/ /\ Listens(c) /\ server = "running" /\ ~Fits(bytes)
            /\ conn' = [conn EXCEPT ![c] = Overloaded(c, s)]
            /\ UNCHANGED <<queue, pendingBytes>>
         \/ /\ ~Listens(c) \/ server # "running"
            /\ conn' = [conn EXCEPT ![c] = s]
            /\ UNCHANGED <<queue, pendingBytes>>
  BY DEF Receive
<1>2. /\ s \in Connection /\ s.closed = conn[c].closed /\ s.failed = conn[c].failed
      /\ s.overloaded = conn[c].overloaded /\ s.fenced = conn[c].fenced
      /\ s.reason = conn[c].reason
  BY <1>0 DEF Connection
<1>3. op \in Operation /\ op.owner = c /\ op.kind = kind /\ op.no = received[c] + 1 /\ op.bytes = bytes
  BY <1>0 DEF Operation
<1>4. received' \in [Connections -> Nat] /\ received'[c] = received[c] + 1
      /\ \A b \in Connections : b # c => received'[b] = received[b]
  BY <1>0, <1>1
<1> HIDE DEF s, op
<1>5. CASE /\ Listens(c) /\ server = "running" /\ Fits(bytes)
           /\ Accept(op)
           /\ conn' = [conn EXCEPT ![c] = s]
  <2>1. TypeOK'
    <3>1. queue' \in Seq(Operation) /\ pendingBytes' \in Nat
      BY <1>0, <1>3, <1>5, AcceptedIsAccounted, Appended DEF Accept, Inductive
    <3> QED BY <3>1, <1>0, <1>1, <1>2, <1>4, <1>5 DEF TypeOK
  <2>2. ~conn[c].overloaded BY <1>5 DEF Listens
  <2>3. \A b \in Connections :
          /\ conn'[b].closed = conn[b].closed /\ conn'[b].failed = conn[b].failed
          /\ conn'[b].overloaded = conn[b].overloaded /\ conn'[b].fenced = conn[b].fenced
          /\ conn'[b].reason = conn[b].reason
    BY <1>0, <1>2, <1>5
  <2>4. AcceptStep(op) BY <1>1, <1>3, <1>5, <2>1, <2>2, <2>3 DEF AcceptStep
  <2> QED BY <2>4
<1>6. CASE /\ Listens(c) /\ server = "running" /\ ~Fits(bytes)
           /\ conn' = [conn EXCEPT ![c] = Overloaded(c, s)]
           /\ UNCHANGED <<queue, pendingBytes>>
  <2>1. received[c] <= received'[c] BY <1>0, <1>4
  <2> QED BY <1>0, <1>1, <1>2, <1>4, <1>6, <2>1, OverloadIsQuiet
<1>7. CASE /\ ~Listens(c) \/ server # "running"
           /\ conn' = [conn EXCEPT ![c] = s]
           /\ UNCHANGED <<queue, pendingBytes>>
  <2>1. TypeOK' BY <1>0, <1>1, <1>2, <1>4, <1>7 DEF TypeOK
  <2>2. \A b \in Connections :
          /\ conn'[b].closed = conn[b].closed /\ conn'[b].failed = conn[b].failed
          /\ conn'[b].overloaded = conn[b].overloaded /\ conn'[b].fenced = conn[b].fenced
          /\ conn'[b].reason = conn[b].reason
    BY <1>0, <1>2, <1>7
  <2>3. ASSUME NEW b \in Connections, Listens(b)', server' = "running"
        PROVE  server = "running" /\ received'[b] = received[b]
    BY <2>2, <2>3, <1>1, <1>4, <1>7 DEF Listens
  <2> QED BY <2>1, <2>2, <2>3, <1>0, <1>1, <1>4, <1>7, SameConnections DEF QuietStep
<1> QED BY <1>1, <1>5, <1>6, <1>7

LEMMA FlushTimerStep ==
  ASSUME Inductive, NEW c \in Connections, FlushTimer(c)
  PROVE  QuietStep \/ \E op : AcceptStep(op)
<1> DEFINE s == [conn[c] EXCEPT !.timer = FALSE, !.flush = TRUE]
<1> DEFINE op == [owner |-> c, kind |-> "flush", no |-> 0, bytes |-> 0]
<1>0. /\ TypeOK /\ conn[c] \in Connection /\ conn \in [Connections -> Connection]
      /\ received \in [Connections -> Nat]
  BY DEF Inductive, TypeOK
<1>1. /\ server # "closed"
      /\ UNCHANGED <<callbacks, server, received, handled, sweeps>>
      /\ \/ /\ ~s.overloaded /\ server = "running" /\ Fits(0)
            /\ Accept(op)
            /\ conn' = [conn EXCEPT ![c] = s]
         \/ /\ ~s.overloaded /\ server = "running" /\ ~Fits(0)
            /\ conn' = [conn EXCEPT ![c] = Overloaded(c, s)]
            /\ UNCHANGED <<queue, pendingBytes>>
         \/ /\ ~s.overloaded /\ server # "running"
            /\ conn' = [conn EXCEPT ![c] = Cleared(s)]
            /\ UNCHANGED <<queue, pendingBytes>>
         \/ /\ s.overloaded
            /\ conn' = [conn EXCEPT ![c] = s]
            /\ UNCHANGED <<queue, pendingBytes>>
  BY DEF FlushTimer
<1>2. /\ s \in Connection /\ s.closed = conn[c].closed /\ s.failed = conn[c].failed
      /\ s.overloaded = conn[c].overloaded /\ s.fenced = conn[c].fenced
      /\ s.reason = conn[c].reason
  BY <1>0 DEF Connection
<1>3. op \in Operation /\ op.owner = c /\ op.kind = "flush" /\ op.bytes = 0
  BY DEF Operation
<1> HIDE DEF s, op
<1>4. CASE /\ ~s.overloaded /\ server = "running" /\ Fits(0)
           /\ Accept(op)
           /\ conn' = [conn EXCEPT ![c] = s]
  <2>1. TypeOK'
    <3>1. queue' \in Seq(Operation) /\ pendingBytes' \in Nat
      BY <1>0, <1>3, <1>4, AcceptedIsAccounted, Appended DEF Accept, Inductive
    <3> QED BY <3>1, <1>0, <1>1, <1>2, <1>4 DEF TypeOK
  <2>2. \A b \in Connections :
          /\ conn'[b].closed = conn[b].closed /\ conn'[b].failed = conn[b].failed
          /\ conn'[b].overloaded = conn[b].overloaded /\ conn'[b].fenced = conn[b].fenced
          /\ conn'[b].reason = conn[b].reason
    BY <1>0, <1>2, <1>4
  <2>3. AcceptStep(op) BY <1>1, <1>2, <1>3, <1>4, <2>1, <2>2 DEF AcceptStep
  <2> QED BY <2>3
<1>5. CASE /\ conn' = [conn EXCEPT ![c] = Overloaded(c, s)]
           /\ UNCHANGED <<queue, pendingBytes>>
  <2>1. received' = received /\ received[c] <= received'[c] BY <1>0, <1>1
  <2> QED BY <1>0, <1>1, <1>2, <1>5, <2>1, OverloadIsQuiet
<1>6. ASSUME NEW t \in {s, Cleared(s)}, conn' = [conn EXCEPT ![c] = t],
             UNCHANGED <<queue, pendingBytes>>
      PROVE  QuietStep
  <2>1. /\ t \in Connection /\ t.closed = conn[c].closed /\ t.failed = conn[c].failed
        /\ t.overloaded = conn[c].overloaded /\ t.fenced = conn[c].fenced
        /\ t.reason = conn[c].reason
    BY <1>2, ClearedState
  <2>2. TypeOK' BY <1>0, <1>1, <1>6, <2>1 DEF TypeOK
  <2>3. \A b \in Connections :
          /\ conn'[b].closed = conn[b].closed /\ conn'[b].failed = conn[b].failed
          /\ conn'[b].overloaded = conn[b].overloaded /\ conn'[b].fenced = conn[b].fenced
          /\ conn'[b].reason = conn[b].reason
    BY <1>0, <1>6, <2>1
  <2> QED BY <2>2, <2>3, <1>0, <1>1, <1>6, SameConnections DEF QuietStep
<1> QED BY <1>1, <1>4, <1>5, <1>6

LEMMA SubmitSweepStep ==
  ASSUME Inductive, SubmitSweep
  PROVE  \E op : AcceptStep(op)
<1> DEFINE op == [owner |-> Sweeper, kind |-> "sweep", no |-> 0, bytes |-> 0]
<1>1. op \in Operation /\ op.owner = Sweeper /\ op.kind = "sweep" /\ op.bytes = 0 BY DEF Operation
<1>2. /\ server = "running" /\ Fits(0) /\ Accept(op) /\ sweeps' = sweeps + 1
      /\ UNCHANGED <<callbacks, server, conn, received, handled>>
  BY DEF SubmitSweep
<1> HIDE DEF op
<1>3. TypeOK'
  <2>1. queue' \in Seq(Operation) /\ pendingBytes' \in Nat
    BY <1>1, <1>2, AcceptedIsAccounted, Appended DEF Accept, Inductive
  <2> QED BY <2>1, <1>2 DEF Inductive, TypeOK
<1>4. AcceptStep(op) BY <1>1, <1>2, <1>3 DEF AcceptStep
<1> QED BY <1>4

LEMMA RunCallbackStep ==
  ASSUME Inductive, RunCallback
  PROVE  QuietStep
<1> DEFINE b == Head(callbacks)
<1>c. PICK c \in Connections : c = b.owner
  <2>1. callbacks \in Seq(Callback) /\ callbacks # <<>> BY DEF Inductive, TypeOK, RunCallback
  <2>2. b \in Callback BY <2>1
  <2> QED BY <2>2 DEF Callback
<1> DEFINE s == IF b.does = "drained" THEN Closed(conn[c], "write_queue_overloaded")
                ELSE IF b.error THEN Closed(conn[c], "operation_failed") ELSE conn[c]
<1>0. /\ TypeOK /\ conn \in [Connections -> Connection] /\ callbacks \in Seq(Callback)
      /\ callbacks # <<>>
  BY DEF Inductive, TypeOK, RunCallback
<1>1. /\ conn' = [conn EXCEPT ![c] = s] /\ callbacks' = Tail(callbacks)
      /\ UNCHANGED <<queue, pendingBytes, server, received, handled, sweeps>>
  BY <1>c DEF RunCallback
<1>2. /\ b = callbacks[1] /\ 1 \in DOMAIN callbacks /\ b \in Callback
      /\ callbacks' \in Seq(Callback)
      /\ Len(callbacks) \in Nat /\ DOMAIN callbacks = 1 .. Len(callbacks)
      /\ DOMAIN callbacks' = 1 .. Len(callbacks) - 1
      /\ \A i \in 1 .. Len(callbacks) - 1 : callbacks'[i] = callbacks[i + 1]
  BY <1>0, <1>1
<1>3. b.does \in {"write_completed", "drained"} /\ b.error \in BOOLEAN
  BY <1>2 DEF Callback
<1>4. /\ s \in Connection
      /\ conn[c].closed => s.closed
      /\ b.error /\ b.does = "write_completed" => s.closed
      /\ s.failed = conn[c].failed /\ s.overloaded = conn[c].overloaded
      /\ s.fenced = conn[c].fenced
      /\ \/ s.reason = conn[c].reason
         \/ s.reason # "write_queue_overloaded"
         \/ b.does = "drained"
  <2>1. conn[c] \in Connection BY <1>0, <1>3
  <2>2. "write_queue_overloaded" \in Reasons /\ "operation_failed" \in Reasons BY DEF Reasons
  <2>3. CASE b.does = "drained"
    <3>1. s = Closed(conn[c], "write_queue_overloaded") BY <2>3
    <3> HIDE DEF s
    <3> QED BY <3>1, <2>1, <2>2, <2>3, ClosedState
  <2>4. CASE b.does # "drained" /\ b.error
    <3>1. s = Closed(conn[c], "operation_failed") BY <2>4
    <3> HIDE DEF s
    <3> QED BY <3>1, <2>1, <2>2, <2>4, ClosedState
  <2>5. CASE b.does # "drained" /\ ~b.error BY <2>1, <2>5
  <2> QED BY <2>3, <2>4, <2>5
<1> HIDE DEF b, s
<1>5. \A i \in DOMAIN callbacks' : \E k \in DOMAIN callbacks : callbacks'[i] = callbacks[k]
  <2>1. \A i \in 1 .. Len(callbacks) - 1 : i + 1 \in DOMAIN callbacks BY <1>2
  <2> QED BY <2>1, <1>2
<1>6. \A e \in Connections : ConnectionMoves(e)
  <2> SUFFICES ASSUME NEW e \in Connections PROVE ConnectionMoves(e) OBVIOUS
  <2>1. CASE e # c BY <2>1, <1>0, <1>1 DEF ConnectionMoves, Inductive, FencesHold
  <2>2. CASE e = c
    <3>1. conn'[c] = s BY <1>0, <1>1, <1>3
    <3>2. HasQueued(c)' <=> HasQueued(c) BY <1>1 DEF HasQueued
    <3>3. conn[c].fenced => conn[c].overloaded BY <1>3 DEF Inductive, FencesHold
    <3>4. b.does = "drained" => conn[c].overloaded /\ ~HasQueued(c)
      BY <1>c, <1>2 DEF Inductive, FencesHold
    <3> QED BY <2>2, <3>1, <3>2, <3>3, <3>4, <1>4 DEF ConnectionMoves
  <2> QED BY <2>1, <2>2
<1>7. ASSUME NEW e \in Connections, Over(e) PROVE Over(e)'
  <2>1. CASE conn[e].closed \/ conn[e].failed BY <2>1, <1>6 DEF ConnectionMoves, Over
  <2>2. ASSUME NEW i \in DOMAIN callbacks,
               callbacks[i].owner = e, callbacks[i].does = "write_completed", callbacks[i].error
        PROVE  Over(e)'
    <3>1. CASE i = 1
      <4>1. e = c /\ conn'[c].closed BY <3>1, <2>2, <1>c, <1>0, <1>1, <1>2, <1>3, <1>4
      <4> QED BY <4>1 DEF Over
    <3>2. CASE i # 1
      <4>1. i - 1 \in DOMAIN callbacks' /\ (i - 1) + 1 = i BY <3>2, <1>2
      <4>2. callbacks'[i - 1] = callbacks[i] BY <4>1, <1>2
      <4> QED BY <2>2, <4>1, <4>2 DEF Over
    <3> QED BY <3>1, <3>2
  <2> QED BY <1>7, <2>1, <2>2 DEF Over
<1>8. TypeOK' BY <1>0, <1>1, <1>2, <1>4 DEF TypeOK
<1>9. \A e \in Connections :
        Listens(e)' /\ server' = "running" => server = "running" /\ received'[e] = received[e]
  BY <1>1
<1>10. /\ \A e \in Connections : received[e] <= received'[e]
       /\ server' = "closed" => queue = <<>>
  BY <1>0, <1>1 DEF TypeOK, Inductive, AcceptedIsRun
<1> QED BY <1>1, <1>5, <1>6, <1>7, <1>8, <1>9, <1>10 DEF QuietStep

LEMMA OtherSteps ==
  ASSUME Inductive, Stop \/ CloseServer \/ UNCHANGED vars
  PROVE  QuietStep
<1>0. TypeOK BY DEF Inductive
<1>1. /\ UNCHANGED <<queue, pendingBytes, callbacks, conn, received, handled, sweeps>>
      /\ server' \in {"running", "stopping", "closed"}
      /\ server' = "running" => server = "running"
      /\ server' = "closed" => queue = <<>>
  BY <1>0 DEF Stop, CloseServer, Drained, vars, TypeOK, Inductive, AcceptedIsRun
<1>2. TypeOK' BY <1>0, <1>1 DEF TypeOK
<1> QED BY <1>0, <1>1, <1>2, SameConnections DEF QuietStep, TypeOK

\* The callbacks of an operation.
LEMMA CallbacksAre ==
  ASSUME callbacks = <<>>, NEW c \in Connections, NEW error \in BOOLEAN,
         callbacks' = Callbacks(c, error)
  PROVE  /\ callbacks' \in Seq(Callback)
         /\ \A i \in DOMAIN callbacks' : callbacks'[i].does = "drained" =>
              /\ callbacks'[i].owner = c
              /\ conn[c].fenced /\ ~(\E k \in 2 .. Len(queue) : queue[k].owner = c)
         /\ error => \E i \in DOMAIN callbacks' :
              callbacks'[i].owner = c /\ callbacks'[i].does = "write_completed" /\ callbacks'[i].error
<1> DEFINE completed == [owner |-> c, does |-> "write_completed", error |-> error]
<1> DEFINE drained == [owner |-> c, does |-> "drained", error |-> FALSE]
<1> DEFINE last == conn[c].fenced /\ ~(\E k \in 2 .. Len(queue) : queue[k].owner = c)
<1>1. callbacks' = callbacks \o (IF last THEN <<completed, drained>> ELSE <<completed>>)
  BY DEF Callbacks
<1>2. /\ completed \in Callback /\ drained \in Callback
      /\ completed.does = "write_completed" /\ completed.owner = c /\ (error => completed.error)
      /\ drained.does = "drained" /\ drained.owner = c
  BY DEF Callback
<1> HIDE DEF completed, drained
<1>3. CASE last
  <2>1. callbacks' = <<completed, drained>> BY <1>1, <1>2, <1>3
  <2>2. callbacks' \in Seq(Callback) BY <2>1, <1>2
  <2>3. DOMAIN callbacks' = {1, 2} /\ callbacks'[1] = completed /\ callbacks'[2] = drained BY <2>1
  <2> QED BY <2>2, <2>3, <1>2, <1>3
<1>4. CASE ~last
  <2>1. callbacks' = <<completed>> BY <1>1, <1>2, <1>4
  <2>2. callbacks' \in Seq(Callback) BY <2>1, <1>2
  <2>3. DOMAIN callbacks' = {1} /\ callbacks'[1] = completed BY <2>1
  <2> QED BY <2>2, <2>3, <1>2, <1>4
<1> QED BY <1>3, <1>4

\* The worker runs the oldest operation, one of c, and leaves c in state t.
LEMMA OperationStep ==
  ASSUME Inductive, callbacks = <<>>, queue # <<>>, queue' = Tail(queue),
         pendingBytes' = pendingBytes - queue[1].bytes, UNCHANGED <<server, received, sweeps>>,
         NEW c \in Connections, queue[1].owner = c,
         NEW t \in Connection, conn' = [conn EXCEPT ![c] = t],
         conn[c].closed => t.closed, conn[c].failed => t.failed,
         t.overloaded = conn[c].overloaded, t.fenced = conn[c].fenced,
         t.reason = conn[c].reason \/ t.reason # "write_queue_overloaded",
         NEW error \in BOOLEAN, callbacks' = Callbacks(c, error),
         \/ handled' = handled /\ (1 \in Events(c) => t.closed \/ t.failed \/ error)
         \/ /\ queue[1].kind = "data" /\ ~conn[c].closed /\ ~conn[c].failed
            /\ handled' = [handled EXCEPT ![c] = Append(@, queue[1].no)]
  PROVE  RunStep
<1>0. conn \in [Connections -> Connection] /\ TypeOK BY DEF Inductive, TypeOK
<1>1. conn'[c] = t /\ \A b \in Connections : b # c => conn'[b] = conn[b] BY <1>0
<1>2. /\ callbacks' \in Seq(Callback)
      /\ \A i \in DOMAIN callbacks' : callbacks'[i].does = "drained" =>
           /\ callbacks'[i].owner = c
           /\ conn[c].fenced /\ ~(\E k \in 2 .. Len(queue) : queue[k].owner = c)
      /\ error => Over(c)'
  BY CallbacksAre DEF Over
<1>3. \A b \in Connections : ConnectionMoves(b)
  <2> SUFFICES ASSUME NEW b \in Connections PROVE ConnectionMoves(b) OBVIOUS
  <2>1. conn[b].fenced => conn[b].overloaded BY DEF Inductive, FencesHold
  <2>2. CASE b # c BY <1>1, <2>1, <2>2 DEF ConnectionMoves
  <2>3. CASE b = c BY <1>1, <2>1, <2>3 DEF ConnectionMoves
  <2> QED BY <2>2, <2>3
<1>4. \A b \in Connections : Over(b) <=> conn[b].closed \/ conn[b].failed BY DEF Over
<1>5. \A b \in Connections : Over(b) => Over(b)' BY <1>3, <1>4 DEF ConnectionMoves, Over
<1>6. conn' \in [Connections -> Connection] BY <1>0
<1>7. \A i \in DOMAIN callbacks' : callbacks'[i].does = "drained" =>
        LET e == callbacks'[i].owner
        IN conn[e].overloaded /\ ~(\E k \in 2 .. Len(queue) : queue[k].owner = e)
  BY <1>2 DEF Inductive, FencesHold
<1>8. t.closed \/ t.failed => Over(c)' BY <1>1 DEF Over
<1>9. \/ /\ handled' = handled
         /\ \A b \in Connections : 1 \in Events(b) => Over(b)'
      \/ /\ queue[1].kind = "data" /\ queue[1].owner \in Connections /\ ~Over(queue[1].owner)
         /\ handled' = [handled EXCEPT ![queue[1].owner] = Append(@, queue[1].no)]
  <2>1. CASE handled' = handled /\ (1 \in Events(c) => t.closed \/ t.failed \/ error)
    <3>1. \A b \in Connections : 1 \in Events(b) => b = c BY DEF Events
    <3> QED BY <2>1, <3>1, <1>2, <1>8
  <2>2. CASE /\ queue[1].kind = "data" /\ ~conn[c].closed /\ ~conn[c].failed
             /\ handled' = [handled EXCEPT ![c] = Append(@, queue[1].no)]
    BY <2>2, <1>4
  <2> QED BY <2>1, <2>2
<1> QED BY <1>2, <1>3, <1>5, <1>6, <1>7, <1>9 DEF RunStep

LEMMA RunOperationStep ==
  ASSUME Inductive, RunOperation
  PROVE  RunStep
<1>0. /\ TypeOK /\ callbacks = <<>> /\ queue # <<>> /\ queue' = Tail(queue)
      /\ 1 \in DOMAIN queue /\ Head(queue) = queue[1] /\ queue[1] \in Operation
      /\ UNCHANGED <<server, received, sweeps>>
      /\ pendingBytes' = pendingBytes - queue[1].bytes
  <2>1. TypeOK BY DEF Inductive
  <2>2. callbacks = <<>> /\ queue # <<>> /\ queue' = Tail(queue) /\ UNCHANGED <<server, received, sweeps>>
    BY DEF RunOperation, Yielded
  <2>3. 1 \in DOMAIN queue /\ Head(queue) = queue[1] /\ queue[1] \in Operation
    BY <2>1, <2>2, QueueIsSequence, Shortened
  <2>4. pendingBytes' = pendingBytes - queue[1].bytes BY <2>3 DEF RunOperation
  <2> QED BY <2>1, <2>2, <2>3, <2>4
<1> DEFINE op == queue[1]
<1>1. CASE op.kind = "sweep" /\ UNCHANGED <<conn, callbacks, handled>>
  <2>1. \A c \in Connections : 1 \notin Events(c) BY <1>1 DEF Events
  <2>2. \A c \in Connections : ConnectionMoves(c)
    BY <1>1 DEF ConnectionMoves, Inductive, FencesHold
  <2>3. \A c \in Connections : Over(c) => Over(c)' BY <1>1 DEF Over
  <2>4. conn' \in [Connections -> Connection] /\ callbacks' \in Seq(Callback)
    BY <1>0, <1>1 DEF TypeOK
  <2> QED BY <1>0, <1>1, <2>1, <2>2, <2>3, <2>4 DEF RunStep
<1>2. CASE op.kind # "sweep"
  <2>1. PICK c \in Connections : c = op.owner BY <1>0, <1>2 DEF Inductive, OwnersAreKnown
  <2>2. conn[c] \in Connection /\ conn \in [Connections -> Connection] BY <1>0 DEF TypeOK
  <2>3. conn' = [conn EXCEPT ![c] = conn[c]] <=> conn' = conn
    <3>1. [conn EXCEPT ![c] = conn[c]] = conn BY <2>2
    <3> QED BY <3>1
  <2>4. CASE op.kind = "data" /\ HandleData(c, op)
    <3>0. "control" \in Reasons /\ "control" # "write_queue_overloaded" BY DEF Reasons
    <3>1. CASE /\ conn[c].closed \/ conn[c].failed
               /\ conn' = [conn EXCEPT ![c] = conn[c]] /\ callbacks' = Callbacks(c, FALSE)
               /\ handled' = handled
      BY <3>1, <1>0, <2>1, <2>2, OperationStep
    <3>2. CASE /\ ~conn[c].closed
               /\ conn' = [conn EXCEPT ![c] = Closed(conn[c], "control")]
               /\ callbacks' = Callbacks(c, FALSE)
               /\ handled' = handled
      <4>1. PICK t \in Connection : t = Closed(conn[c], "control") BY <2>2, <3>0, ClosedState
      <4>2. /\ t.closed /\ t.failed = conn[c].failed /\ t.overloaded = conn[c].overloaded
            /\ t.fenced = conn[c].fenced
            /\ t.reason = conn[c].reason \/ t.reason # "write_queue_overloaded"
        BY <4>1, <2>2, <3>0, ClosedState
      <4> QED BY <3>2, <4>1, <4>2, <1>0, <2>1, OperationStep
    <3>3. CASE /\ ~conn[c].closed /\ ~conn[c].failed
               /\ \/ conn' = [conn EXCEPT ![c] = conn[c]]
                  \/ conn' = [conn EXCEPT ![c] = Scheduled([conn[c] EXCEPT !.buffered = TRUE])]
               /\ callbacks' = Callbacks(c, FALSE)
               /\ handled' = [handled EXCEPT ![c] = Append(@, op.no)]
      <4>1. PICK t \in Connection :
              /\ conn' = [conn EXCEPT ![c] = t]
              /\ t.closed = conn[c].closed /\ t.failed = conn[c].failed
              /\ t.overloaded = conn[c].overloaded /\ t.fenced = conn[c].fenced
              /\ t.reason = conn[c].reason
        BY <3>3, <2>2, ScheduledState
      <4> QED BY <3>3, <4>1, <1>0, <2>1, <2>4, OperationStep
    <3>4. CASE /\ ~conn[c].closed /\ ~conn[c].failed
               /\ conn' = [conn EXCEPT ![c] = conn[c]] /\ callbacks' = Callbacks(c, TRUE)
               /\ handled' = handled
      BY <3>4, <1>0, <2>1, <2>2, OperationStep
    <3>5. CASE /\ ~conn[c].closed /\ ~conn[c].failed
               /\ conn' = [conn EXCEPT ![c] = Broken(conn[c])] /\ callbacks' = Callbacks(c, FALSE)
               /\ handled' = handled
      <4>1. PICK t \in Connection : t = Broken(conn[c]) BY <2>2, BrokenState
      <4>2. /\ t.failed /\ t.closed = conn[c].closed /\ t.overloaded = conn[c].overloaded
            /\ t.fenced = conn[c].fenced /\ t.reason = conn[c].reason
        BY <4>1, <2>2, BrokenState
      <4> QED BY <3>5, <4>1, <4>2, <1>0, <2>1, OperationStep
    <3> QED BY <2>4, <3>1, <3>2, <3>3, <3>4, <3>5 DEF HandleData
  <2>5. CASE op.kind = "terminated" /\ HandleEnd(c) /\ callbacks' = Callbacks(c, FALSE) /\ UNCHANGED handled
    <3>0. "peer" \in Reasons /\ "peer" # "write_queue_overloaded" BY DEF Reasons
    <3>1. PICK t \in Connection : t = Closed(conn[c], "peer") BY <2>2, <3>0, ClosedState
    <3>2. /\ t.closed /\ t.failed = conn[c].failed /\ t.overloaded = conn[c].overloaded
          /\ t.fenced = conn[c].fenced
          /\ t.reason = conn[c].reason \/ t.reason # "write_queue_overloaded"
      BY <3>1, <2>2, <3>0, ClosedState
    <3>3. conn' = [conn EXCEPT ![c] = t] BY <2>5, <3>1 DEF HandleEnd
    <3> QED BY <2>5, <3>2, <3>3, <1>0, <2>1, OperationStep
  <2>6. ASSUME op.kind = "flush", NEW t \in Flushed(conn[c]), conn' = [conn EXCEPT ![c] = t],
               callbacks' = Callbacks(c, FALSE), UNCHANGED handled
        PROVE  RunStep
    <3>1. /\ t \in Connection /\ t.closed = conn[c].closed /\ (conn[c].failed => t.failed)
          /\ t.overloaded = conn[c].overloaded
          /\ t.fenced = conn[c].fenced /\ t.reason = conn[c].reason
      <4>1. CASE t = conn[c] BY <4>1, <2>2
      <4>2. CASE t = [conn[c] EXCEPT !.buffered = FALSE, !.flush = FALSE]
        BY <4>2, <2>2 DEF Connection
      <4>3. CASE t = Broken(conn[c]) BY <4>3, <2>2, BrokenState
      <4> QED BY <2>6, <4>1, <4>2, <4>3 DEF Flushed
    <3>2. 1 \notin Events(c) BY <2>6 DEF Events
    <3> QED BY <2>6, <3>1, <3>2, <1>0, <2>1, OperationStep
  <2>7. \/ op.kind = "data" /\ HandleData(c, op)
        \/ op.kind = "terminated" /\ HandleEnd(c) /\ callbacks' = Callbacks(c, FALSE) /\ UNCHANGED handled
        \/ /\ op.kind = "flush" /\ \E t \in Flushed(conn[c]) : conn' = [conn EXCEPT ![c] = t]
           /\ callbacks' = Callbacks(c, FALSE) /\ UNCHANGED handled
    BY <1>0, <1>2, <2>1 DEF RunOperation
  <2> QED BY <2>4, <2>5, <2>6, <2>7
<1> QED BY <1>0, <1>1, <1>2 DEF RunOperation

-----------------------------------------------------------------------------
(* The invariant *)

LEMMA InitInductive ==
  ASSUME Init
  PROVE  Inductive
<1> USE DEF Init
<1>0. /\ DOMAIN queue = {} /\ DOMAIN callbacks = {} /\ Len(queue) = 0
      /\ \A c \in Connections : handled[c] = <<>> /\ DOMAIN handled[c] = {} /\ Len(handled[c]) = 0
      /\ \A c : Events(c) = {} /\ ~HasQueued(c)
  BY DEF Events, HasQueued
<1>1. TypeOK
  <2>1. [closed |-> FALSE, failed |-> FALSE, overloaded |-> FALSE, fenced |-> FALSE,
         gone |-> FALSE, buffered |-> FALSE, timer |-> FALSE, flush |-> FALSE, reason |-> "none"]
          \in Connection
    BY DEF Connection
  <2> QED BY <2>1 DEF TypeOK
<1>2. BytesAreExact
  <2> DEFINE left == [i \in 1 .. 1 |-> 0]
  <2>1. left \in [1 .. Len(queue) + 1 -> Nat] /\ Account(left) BY <1>0 DEF Account
  <2> QED BY <2>1 DEF BytesAreExact
<1>3. QueueIsBounded BY <1>0, ParametersAssumption DEF QueueIsBounded
<1>4. OwnersAreKnown BY <1>0 DEF OwnersAreKnown
<1>5. EventsAreReceived BY <1>0 DEF EventsAreReceived
<1>6. EventsContinue BY <1>0 DEF EventsContinue, Continues
<1>7. HandledIsAPrefix BY <1>0 DEF HandledIsAPrefix
<1>8. FencesHold BY <1>0 DEF FencesHold
<1>9. AcceptedIsRun BY <1>0 DEF AcceptedIsRun
<1> QED BY <1>1, <1>2, <1>3, <1>4, <1>5, <1>6, <1>7, <1>8, <1>9 DEF Inductive

LEMMA NextInductive ==
  ASSUME Inductive, [Next]_vars
  PROVE  Inductive'
<1>1. ASSUME NEW c \in Connections, ReceiveData(c) \/ ReceiveEnd(c) \/ FlushTimer(c)
      PROVE  QuietStep \/ \E op : AcceptStep(op)
  <2>1. CASE ReceiveData(c)
    <3>1. PICK bytes \in 0 .. MaxPayload : Receive(c, "data", bytes) BY <2>1 DEF ReceiveData
    <3>2. bytes \in Nat BY ParametersAssumption
    <3> QED BY <3>1, <3>2, ReceiveStep
  <2>2. CASE ReceiveEnd(c) BY <2>2, ReceiveStep DEF ReceiveEnd
  <2>3. CASE FlushTimer(c) BY <2>3, FlushTimerStep
  <2> QED BY <1>1, <2>1, <2>2, <2>3
<1>2. QuietStep \/ (\E op : AcceptStep(op)) \/ RunStep
  BY <1>1, SubmitSweepStep, RunOperationStep, RunCallbackStep, OtherSteps DEF Next
<1> QED BY <1>2, QuietStepPreserves, AcceptStepPreserves, RunStepPreserves

\* The inductive invariant holds in every reachable state.
THEOREM Invariance == Spec => []Inductive
<1>1. Init => Inductive BY InitInductive
<1>2. Inductive /\ [Next]_vars => Inductive' BY NextInductive
<1> QED BY <1>1, <1>2, PTL DEF Spec

-----------------------------------------------------------------------------
(* Results *)

\* Every variable keeps its type; in particular the pending payload never becomes
\* negative (SqliteWriteQueue._worker_loop subtracts what enqueue added).
THEOREM TypeCorrect == Spec => []TypeOK
<1>1. Inductive => TypeOK BY DEF Inductive
<1> QED BY <1>1, Invariance, PTL

\* The queue never exceeds its limits, and the payload it accounts for is exactly
\* that of the operations that wait (SqliteWriteQueue.enqueue).
THEOREM LimitsHold == Spec => [](QueueIsBounded /\ BytesAreExact)
<1>1. Inductive => QueueIsBounded /\ BytesAreExact BY DEF Inductive
<1> QED BY <1>1, Invariance, PTL

\* What a connection's handlers saw is an initial part of what the transport
\* delivered: nothing behind a refused or a failed event is handled
\* (quic_event_received, _overload, _write_completed).
THEOREM NothingIsSkipped == Spec => []HandledIsAPrefix
<1>1. Inductive => HandledIsAPrefix BY DEF Inductive
<1> QED BY <1>1, Invariance, PTL

\* A connection closed for overload has no operation left, and the database is
\* closed on an empty queue (_overload, SqliteWriteQueue.stop).
THEOREM AcceptedWorkIsDone == Spec => []AcceptedIsRun
<1>1. Inductive => AcceptedIsRun BY DEF Inductive
<1> QED BY <1>1, Invariance, PTL

=============================================================================
