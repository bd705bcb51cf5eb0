----------------------------- MODULE SyncStream -----------------------------
(***************************************************************************)
(* The event stream of one user and the devices that replicate it.         *)
(*                                                                         *)
(* The server keeps, per user, an append-only stream sync_events(seq =     *)
(* 1, 2, 3, ...).  Each device of the user keeps a durable local store     *)
(* (positions already applied, a cursor, a pending and a confirmed         *)
(* delivery confirmation) and, while connected, a volatile coordinator     *)
(* that fetches pages, receives pushes on the same ordered control stream  *)
(* and confirms what it has applied.                                       *)
(*                                                                         *)
(* Positions stand for events: an event's id and payload are fixed when    *)
(* its row is inserted, so position i names event i.                       *)
(***************************************************************************)
EXTENDS Naturals, Sequences, FiniteSets

CONSTANTS
  Devices,    \* the devices of the user
  PageSize,   \* kPageSize of the client, below the server's clamp
  MaxBurst,   \* bound: events one transaction appends to this stream
  MaxLog,     \* bound: length of the stream
  MaxFaults,  \* bound: lost connections, closed connections, restarts, 503s
  MaxQueue    \* bound: envelopes of a device in flight when it retransmits

ASSUME ParametersAssumption ==
  /\ PageSize \in Nat \ {0}
  /\ MaxBurst \in Nat \ {0}
  /\ MaxLog \in Nat
  /\ MaxFaults \in Nat
  /\ MaxQueue \in Nat

VARIABLES
  delivery,  \* delivery[i]: the delivery row of the message event i announces to this user, or "none"
  applied,   \* sync_applied_cursors: what the server recorded per device
  conn,      \* per device, the server's side of its connection
  up,        \* per device, requests in flight to the server
  down,      \* per device, envelopes in flight to the device
  stray,     \* confirmations of abandoned connections the server may still process
  client,    \* per device, the coordinator's volatile state
  store,     \* per device, the durable local store
  faults     \* faults injected so far

serverVars == <<delivery, applied>>
vars == <<delivery, applied, conn, up, down, stray, client, store, faults>>

-----------------------------------------------------------------------------
(* Types and messages *)

Status == {"none", "sent", "delivered", "read"}

Hello == [type |-> "hello"]
SyncRequest(id, from) == [type |-> "sync_request", id |-> id, from |-> from]
SyncApplied(c) == [type |-> "sync_applied", cursor |-> c]

Welcome == [type |-> "welcome"]

\* A sync_response carrying the events lo+1 .. hi.  A push is one with an
\* empty request id (id = 0), one event and has_more = FALSE.
SyncResponse(id, lo, hi, more) ==
  [type |-> "sync_response", id |-> id, lo |-> lo, hi |-> hi, more |-> more]
Push_FromZero(i) == SyncResponse(0, i - 2, i - 1, FALSE)  \* mutant: positions counted from 0
Push(i) == SyncResponse(0, i - 1, i, FALSE)

\* The answer to the confirmation of cursor c: code 0, 400 (exceeds the
\* stream) or 503 (rolled back, to be retried).
Ack(c, code) == [type |-> "ack", cursor |-> c, code |-> code]

UpMessage ==
  {Hello} \cup [type : {"sync_request"}, id : Nat, from : Nat]
          \cup [type : {"sync_applied"}, cursor : Nat]
DownMessage ==
  {Welcome}
    \cup [type : {"sync_response"}, id : Nat, lo : Nat, hi : Nat, more : BOOLEAN]
    \cup [type : {"ack"}, cursor : Nat, code : {0, 400, 503}]

\* Volatile: lost by stop() and by a crash.  id numbers the requests of a
\* connection; waiting says request id is outstanding, from is its cursor;
\* confirming says a confirmation was loaded and sent on this connection.
ClientState ==
  [phase : {"down", "hello", "running", "failed"},
   id : Nat, waiting : BOOLEAN, from : Nat,
   caughtUp : BOOLEAN, confirming : BOOLEAN]

\* Durable: pending = 0 when no confirmation is stored.
StoreState == [seen : SUBSET Nat, cursor : Nat, pending : Nat, confirmed : Nat]

Stopped(phase) ==
  [phase |-> phase, id |-> 0, waiting |-> FALSE, from |-> 0,
   caughtUp |-> FALSE, confirming |-> FALSE]

Last == Len(delivery)

TypeOK ==
  /\ delivery \in Seq(Status)
  /\ applied \in [Devices -> Nat]
  /\ conn \in [Devices -> {"closed", "open", "registered"}]
  /\ up \in [Devices -> Seq(UpMessage)]
  /\ down \in [Devices -> Seq(DownMessage)]
  /\ stray \in SUBSET (Devices \X Nat)
  /\ client \in [Devices -> ClientState]
  /\ store \in [Devices -> StoreState]
  /\ faults \in Nat

Init ==
  /\ delivery = <<>>
  /\ applied = [d \in Devices |-> 0]
  /\ conn = [d \in Devices |-> "closed"]
  /\ up = [d \in Devices |-> <<>>]
  /\ down = [d \in Devices |-> <<>>]
  /\ stray = {}
  /\ client = [d \in Devices |-> Stopped("down")]
  /\ store = [d \in Devices |-> [seen |-> {}, cursor |-> 0, pending |-> 0, confirmed |-> 0]]
  /\ faults = 0

-----------------------------------------------------------------------------
(* Server *)

Registered == {d \in Devices : conn[d] = "registered"}

Pushes(first, last) == [i \in 1..(last - first + 1) |-> Push(first + i - 1)]

\* What fanout_sync_events puts on the streams of the registered connections
\* to for the events first..last: all of them, in order, except on the
\* connections in short, which get the last one only.
Fanout(channels, to, first, last, short) ==
  [d \in Devices |->
     IF d \notin to THEN channels[d]
     ELSE IF d \in short THEN Append(channels[d], Push(last))
     ELSE channels[d] \o Pushes(first, last)]

\* Bound: leave room in the stream for the delivery events still to come.
WithinBound(rows) ==
  Len(rows) + Cardinality({i \in DOMAIN rows : rows[i] = "sent"}) <= MaxLog

\* A committed business transaction (of this user or of another one) that
\* appended the events behind rows to this stream.
Publish(rows, short) ==
  /\ delivery' = delivery \o rows
  /\ down' = Fanout(down, Registered, Last + 1, Last + Len(rows), short)
  /\ WithinBound(delivery')
  /\ UNCHANGED <<applied, conn, up, stray, client, store, faults>>

\* Messages received (delivery row "sent"), messages sent, conversation
\* changes, recalls, burns, file events: any mix in one transaction.
AppendEvents ==
  \E n \in 1..MaxBurst : \E rows \in [1..n -> {"none", "sent"}] : Publish(rows, {})

\* file_init of device d: the fan-out leaves d out and d gets a file_updated
\* that carries only the last of the events this transaction appended.
FileInit(d) ==
  /\ conn[d] = "registered"
  /\ \E n \in 1..MaxBurst : Publish([i \in 1..n |-> "none"], {d})

\* A receipt of this user: delivery rows of one conversation become read, a
\* receipt event is appended.
Receipt ==
  \E rows \in SUBSET {i \in 1..Last : delivery[i] \in {"sent", "delivered"}} :
    /\ rows # {}
    /\ delivery' = Append([i \in 1..Last |-> IF i \in rows THEN "read" ELSE delivery[i]], "none")
    /\ down' = Fanout(down, Registered, Last + 1, Last + 1, {})
    /\ WithinBound(delivery')
    /\ UNCHANGED <<applied, conn, up, stray, client, store, faults>>

\* hello: a session is created or resumed; the connection is not yet
\* registered for pushes.
HandleHello(d) ==
  /\ conn[d] # "closed"
  /\ up[d] # <<>>
  /\ Head(up[d]) = Hello
  /\ up' = [up EXCEPT ![d] = Tail(@)]
  /\ down' = [down EXCEPT ![d] = Append(@, Welcome)]
  /\ UNCHANGED <<delivery, applied, conn, stray, client, store, faults>>

\* sync_request: register for pushes, then answer with one page of the
\* stream as it stands.
HandleSyncRequest(d) ==
  /\ conn[d] # "closed"
  /\ up[d] # <<>>
  /\ Head(up[d]).type = "sync_request"
  /\ LET req == Head(up[d])
         hi == IF req.from + PageSize < Last THEN req.from + PageSize
               ELSE IF req.from < Last THEN Last ELSE req.from
     IN  down' = [down EXCEPT ![d] =
                    Append(@, SyncResponse(req.id, req.from, hi, hi < Last))]
  /\ conn' = [conn EXCEPT ![d] = "registered"]
  /\ up' = [up EXCEPT ![d] = Tail(@)]
  /\ UNCHANGED <<delivery, applied, stray, client, store, faults>>

\* Mutant: the upper end of the confirmed range is forgotten.
Covered_Unbounded(d, c) == {i \in 1..Last : applied[d] < i /\ delivery[i] = "sent"}

\* The rows confirm_applied turns from sent to delivered.
Covered(d, c) == {i \in 1..Last : applied[d] < i /\ i <= c /\ delivery[i] = "sent"}

\* The stream after those rows are delivered, each announced by an event.
Delivered(d, c) ==
  [i \in 1..(Last + Cardinality(Covered(d, c))) |->
     IF i > Last THEN "none" ELSE IF i \in Covered(d, c) THEN "delivered" ELSE delivery[i]]

\* Mutant: a late, smaller confirmation overwrites the record.
ApplyConfirmation_NoGuard(d, c) ==
  IF c > Last
  THEN UNCHANGED serverVars
  ELSE /\ delivery' = Delivered(d, c)
       /\ applied' = [applied EXCEPT ![d] = c]

\* The effect of a confirmation of cursor c by device d on the database.
\* Executing a request again answers from its stored result, which is what
\* the branch c <= applied[d] answers too.
ApplyConfirmation(d, c) ==
  IF c > Last \/ c <= applied[d]
  THEN UNCHANGED serverVars
  ELSE /\ delivery' = Delivered(d, c)
       /\ applied' = [applied EXCEPT ![d] = c]

\* Mutant: a confirmation of the whole stream counts as beyond it.
Verdict_OffByOne(c) == IF c >= Last THEN 400 ELSE 0

\* A cursor beyond the stream is refused.
Verdict(c) == IF c > Last THEN 400 ELSE 0

\* sync_applied on a live connection: the ack first, then the fan-out.
HandleSyncApplied(d) ==
  /\ conn[d] # "closed"
  /\ up[d] # <<>>
  /\ Head(up[d]).type = "sync_applied"
  /\ LET c == Head(up[d]).cursor
         acked == [down EXCEPT ![d] = Append(@, Ack(c, Verdict(c)))]
     IN  /\ ApplyConfirmation(d, c)
         /\ down' = Fanout(acked, Registered \cup {d}, Last + 1, Len(delivery'), {})
  /\ conn' = [conn EXCEPT ![d] = "registered"]
  /\ up' = [up EXCEPT ![d] = Tail(@)]
  /\ UNCHANGED <<stray, client, store, faults>>

\* The transaction of a sync_applied fails and is rolled back: error 503.
FailSyncApplied(d) ==
  /\ faults < MaxFaults
  /\ conn[d] # "closed"
  /\ up[d] # <<>>
  /\ Head(up[d]).type = "sync_applied"
  /\ down' = [down EXCEPT ![d] = Append(@, Ack(Head(up[d]).cursor, 503))]
  /\ conn' = [conn EXCEPT ![d] = "registered"]
  /\ up' = [up EXCEPT ![d] = Tail(@)]
  /\ faults' = faults + 1
  /\ UNCHANGED <<delivery, applied, stray, client, store>>

\* A confirmation the server received on a connection its device has since
\* left: processed late, its answer goes nowhere.
HandleStray ==
  \E s \in stray :
    /\ ApplyConfirmation(s[1], s[2])
    /\ down' = Fanout(down, Registered, Last + 1, Len(delivery'), {})
    /\ stray' = stray \ {s}
    /\ UNCHANGED <<conn, up, client, store, faults>>

\* The server ends one connection (overload, failed operation, broken
\* control stream).  What it sent may still arrive, in order, up to some point.
CloseConnection(d) ==
  /\ faults < MaxFaults
  /\ conn[d] # "closed"
  /\ conn' = [conn EXCEPT ![d] = "closed"]
  /\ up' = [up EXCEPT ![d] = <<>>]
  /\ faults' = faults + 1
  /\ UNCHANGED <<delivery, applied, down, stray, client, store>>

\* The server process dies and comes back: the database survives.
RestartServer ==
  /\ faults < MaxFaults
  /\ \E d \in Devices : conn[d] # "closed"
  /\ conn' = [d \in Devices |-> "closed"]
  /\ up' = [d \in Devices |-> <<>>]
  /\ stray' = {}
  /\ faults' = faults + 1
  /\ UNCHANGED <<delivery, applied, down, client, store>>

-----------------------------------------------------------------------------
(* Client *)

Running(d) == client[d].phase = "running"

\* The contiguous prefix after cursor c in the set of applied positions.
Advance(c, seen) ==
  CHOOSE n \in seen \cup {c} :
    n >= c /\ n + 1 \notin seen /\ \A m \in (c + 1)..n : m \in seen

HasGap(s) == \E p \in s.seen : p > s.cursor

\* requestNext: one request at a time; readiness is withdrawn.
Requested(cl, cursor) ==
  [phase |-> cl.phase, id |-> cl.id + 1, waiting |-> TRUE, from |-> cursor,
   caughtUp |-> FALSE, confirming |-> cl.confirming]

\* A recovery attempt: open a connection and say hello.
Connect(d) ==
  /\ client[d].phase = "down"
  /\ client' = [client EXCEPT ![d] = Stopped("hello")]
  /\ conn' = [conn EXCEPT ![d] = "open"]
  /\ up' = [up EXCEPT ![d] = <<Hello>>]
  /\ down' = [down EXCEPT ![d] = <<>>]
  /\ UNCHANGED <<delivery, applied, stray, store, faults>>

\* welcome: start() the coordinator, which requests from its cursor.
HandleWelcome(d) ==
  /\ client[d].phase = "hello"
  /\ down[d] # <<>>
  /\ Head(down[d]) = Welcome
  /\ LET c == store[d].cursor
     IN  /\ client' = [client EXCEPT ![d] = Requested(Stopped("running"), c)]
         /\ up' = [up EXCEPT ![d] = IF conn[d] = "closed" THEN @ ELSE Append(@, SyncRequest(1, c))]
  /\ down' = [down EXCEPT ![d] = Tail(@)]
  /\ UNCHANGED <<delivery, applied, conn, stray, store, faults>>

\* Mutant: the cursor jumps to the highest position received.
Applied_Jumps(s, lo, hi) ==
  [s EXCEPT !.seen = @ \cup ((lo + 1)..hi), !.cursor = IF hi > @ THEN hi ELSE @]

\* What apply() commits in one transaction: the positions lo+1..hi and the
\* cursor over the contiguous prefix.
Applied(s, lo, hi) ==
  LET seen == s.seen \cup ((lo + 1)..hi)
  IN  [s EXCEPT !.seen = seen, !.cursor = Advance(s.cursor, seen)]

\* Mutant: has_more is ignored.
More_IgnoresHasMore(msg, s) == HasGap(s) \/ msg.hi > s.cursor

\* Does a response to the outstanding request leave more to fetch?
More(msg, s) == msg.more \/ HasGap(s) \/ msg.hi > s.cursor

\* Mutant: a push that leaves a gap does not ask for the missing events.
AfterResponse_LeavesGap(cl, msg, s) ==
  IF cl.waiting /\ msg.id = cl.id
  THEN IF More(msg, s)
       THEN IF s.cursor <= cl.from THEN cl ELSE Requested(cl, s.cursor)
       ELSE [cl EXCEPT !.waiting = FALSE, !.from = 0, !.caughtUp = TRUE]
  ELSE cl

\* handleResponse (also handleMessage and handleFile): apply the events in
\* one transaction, then decide whether to ask again.  A page that did not
\* advance keeps its request; a push only asks when it leaves a gap.
AfterResponse(cl, msg, s) ==
  IF cl.waiting /\ msg.id = cl.id
  THEN IF More(msg, s)
       THEN IF s.cursor <= cl.from THEN cl ELSE Requested(cl, s.cursor)
       ELSE [cl EXCEPT !.waiting = FALSE, !.from = 0, !.caughtUp = TRUE]
  ELSE IF HasGap(s) /\ ~cl.waiting THEN Requested(cl, s.cursor) ELSE cl

HandleResponse(d) ==
  /\ Running(d)
  /\ down[d] # <<>>
  /\ Head(down[d]).type = "sync_response"
  /\ LET msg == Head(down[d])
         s == Applied(store[d], msg.lo, msg.hi)
         cl == AfterResponse(client[d], msg, s)
     IN  /\ store' = [store EXCEPT ![d] = s]
         /\ client' = [client EXCEPT ![d] = cl]
         /\ up' = [up EXCEPT ![d] =
              IF cl.id # client[d].id /\ conn[d] # "closed"
              THEN Append(@, SyncRequest(cl.id, cl.from)) ELSE @]
  /\ down' = [down EXCEPT ![d] = Tail(@)]
  /\ UNCHANGED <<delivery, applied, conn, stray, faults>>

\* The retry timer resends the outstanding request unchanged.
RetryRequest(d) ==
  /\ Running(d)
  /\ client[d].waiting
  /\ conn[d] # "closed"
  /\ Len(up[d]) + Len(down[d]) < MaxQueue
  /\ up' = [up EXCEPT ![d] = Append(@, SyncRequest(client[d].id, client[d].from))]
  /\ UNCHANGED <<delivery, applied, conn, down, stray, client, store, faults>>

\* pumpConfirmation, first attempt on this connection: a stored confirmation
\* is sent again as it is; otherwise the cursor is stored before it is sent.
Confirm(d) ==
  /\ Running(d)
  /\ ~client[d].confirming
  /\ store[d].pending # 0 \/ store[d].cursor > store[d].confirmed
  /\ LET c == IF store[d].pending # 0 THEN store[d].pending ELSE store[d].cursor
     IN  /\ store' = [store EXCEPT ![d].pending = c]
         /\ up' = [up EXCEPT ![d] = IF conn[d] = "closed" THEN @ ELSE Append(@, SyncApplied(c))]
  /\ client' = [client EXCEPT ![d].confirming = TRUE]
  /\ UNCHANGED <<delivery, applied, conn, down, stray, faults>>

\* pumpConfirmation, retry of the same payload.
RetryConfirmation(d) ==
  /\ Running(d)
  /\ client[d].confirming
  /\ conn[d] # "closed"
  /\ Len(up[d]) + Len(down[d]) < MaxQueue
  /\ up' = [up EXCEPT ![d] = Append(@, SyncApplied(store[d].pending))]
  /\ UNCHANGED <<delivery, applied, conn, down, stray, client, store, faults>>

\* The confirmations a device leaves behind on its way out.
InFlight(d) ==
  {<<d, up[d][i].cursor>> : i \in {j \in DOMAIN up[d] : up[d][j].type = "sync_applied"}}

Accepted_AnyAck(msg) == msg.code # 400  \* mutant: a retryable failure counts as success
Accepted(msg) == msg.code = 0

\* handleConfirmationResult: success completes the stored confirmation, a
\* retryable code keeps it, any other rejection stops the coordinator and
\* makes the session leave for good.  Answers to other requests are ignored.
HandleConfirmationResult(d) ==
  /\ Running(d)
  /\ down[d] # <<>>
  /\ Head(down[d]).type = "ack"
  /\ LET msg == Head(down[d])
         mine == client[d].confirming /\ msg.cursor = store[d].pending
         succeeded == mine /\ Accepted(msg)
         rejected == mine /\ msg.code = 400
     IN  /\ store' = IF succeeded
                     THEN [store EXCEPT ![d].confirmed = msg.cursor, ![d].pending = 0]
                     ELSE store
         /\ client' = [client EXCEPT ![d] =
              IF rejected THEN Stopped("failed")
              ELSE IF succeeded THEN [@ EXCEPT !.confirming = FALSE] ELSE @]
         /\ conn' = [conn EXCEPT ![d] = IF rejected THEN "closed" ELSE @]
         /\ up' = [up EXCEPT ![d] = IF rejected THEN <<>> ELSE @]
         /\ stray' = IF rejected THEN stray \cup InFlight(d) ELSE stray
         /\ down' = [down EXCEPT ![d] = IF rejected THEN <<>> ELSE Tail(@)]
  /\ UNCHANGED <<delivery, applied, faults>>

\* The device leaves its connection: volatile state and both streams are
\* gone, its requests in flight may still be processed.
Leave(d) ==
  /\ client[d].phase \in {"hello", "running"}
  /\ client' = [client EXCEPT ![d] = Stopped("down")]
  /\ conn' = [conn EXCEPT ![d] = "closed"]
  /\ up' = [up EXCEPT ![d] = <<>>]
  /\ down' = [down EXCEPT ![d] = <<>>]
  /\ stray' = stray \cup InFlight(d)
  /\ UNCHANGED <<delivery, applied, store>>

\* Network loss, restart of a file transfer's connection, or a client crash.
LoseConnection(d) ==
  /\ faults < MaxFaults
  /\ Leave(d)
  /\ faults' = faults + 1

\* The device notices that the server closed (close frame, login timer or
\* heartbeat timeout).
DetectClosed(d) ==
  /\ conn[d] = "closed"
  /\ Leave(d)
  /\ UNCHANGED faults

-----------------------------------------------------------------------------

ServerStep(d) == HandleHello(d) \/ HandleSyncRequest(d) \/ HandleSyncApplied(d)

ClientStep(d) ==
  \/ HandleWelcome(d) \/ HandleResponse(d) \/ HandleConfirmationResult(d)
  \/ Connect(d) \/ DetectClosed(d) \/ Confirm(d)

Next ==
  \/ AppendEvents
  \/ Receipt
  \/ HandleStray
  \/ RestartServer
  \/ \E d \in Devices :
       \/ FileInit(d)
       \/ ServerStep(d)
       \/ FailSyncApplied(d)
       \/ CloseConnection(d)
       \/ ClientStep(d)
       \/ RetryRequest(d)
       \/ RetryConfirmation(d)
       \/ LoseConnection(d)

Spec == Init /\ [][Next]_vars

\* The write queue's worker runs every queued operation; the client's event
\* loop reads its socket, its timers fire, the recovery timer reconnects.
Fairness ==
  /\ WF_vars(HandleStray)
  /\ \A d \in Devices :
       /\ WF_vars(ServerStep(d))
       /\ WF_vars(HandleWelcome(d) \/ HandleResponse(d) \/ HandleConfirmationResult(d))
       /\ WF_vars(Connect(d))
       /\ WF_vars(DetectClosed(d))
       /\ WF_vars(Confirm(d))
       /\ WF_vars(RetryConfirmation(d))

FairSpec == Spec /\ Fairness

-----------------------------------------------------------------------------
(* Properties *)

\* A response that reaches position n is on its way to device d.
OnItsWay(d, n) ==
  \E i \in DOMAIN down[d] : down[d][i].type = "sync_response" /\ down[d][i].hi = n

ContiguousAt(d) ==
  /\ \A p \in 1..store[d].cursor : p \in store[d].seen
  /\ store[d].cursor + 1 \notin store[d].seen
  /\ \A p \in store[d].seen : p \in 1..Last

\* The cursor a device reports and resumes from never covers an event it has
\* not applied: 1..cursor are all in the store, and cursor + 1 is not.
CursorIsContiguous == \A d \in Devices : ContiguousAt(d)

CurrentAt(d) ==
  client[d].caughtUp /\ conn[d] # "closed" => store[d].cursor = Last \/ OnItsWay(d, Last)

\* A device that reports itself ready is up to date as far as anybody can
\* tell: unless the server closed its connection, either its cursor is at
\* the end of the stream or the last event is already on its way to it.
ReadyIsCurrent == \A d \in Devices : CurrentAt(d)

BackedAt(d) ==
  /\ store[d].confirmed <= applied[d]
  /\ applied[d] <= store[d].cursor
  /\ store[d].pending # 0 =>
       store[d].confirmed < store[d].pending /\ store[d].pending <= store[d].cursor

\* What the server records as applied, and what the device believes the
\* server recorded, never runs ahead of what the device durably applied.
ConfirmationsAreBacked == \A d \in Devices : BackedAt(d)

\* A sender is told "delivered" only of a message some device has applied.
DeliveredWasApplied ==
  \A i \in 1..Last :
    delivery[i] = "delivered" => \E d \in Devices : i <= store[d].cursor

\* No confirmation is ever rejected, so the coordinator never stops for good.
NeverFails == \A d \in Devices : client[d].phase # "failed"

Forward ==
  /\ \A d \in Devices :
       /\ store[d].seen \subseteq store'[d].seen
       /\ store[d].cursor <= store'[d].cursor
       /\ store[d].confirmed <= store'[d].confirmed
       /\ applied[d] <= applied'[d]
  /\ Last <= Len(delivery')
  /\ \A i \in 1..Last :
       \/ delivery'[i] = delivery[i]
       \/ delivery[i] = "sent" /\ delivery'[i] \in {"delivered", "read"}
       \/ delivery[i] = "delivered" /\ delivery'[i] = "read"

\* Nothing durable moves backwards, whatever is lost, repeated or processed
\* late: stores, cursors, confirmations, the server's records and the rows.
NeverBackwards == [][Forward]_vars

TrueAt(d) ==
  /\ \A i \in DOMAIN down[d] : LET m == down[d][i] IN
       /\ m.type = "sync_response" =>
            /\ m.lo <= m.hi /\ m.hi <= Last
            /\ m.lo = m.hi => m.hi <= store[d].cursor
       /\ m.type = "ack" => m.code # 400 /\ (m.code = 0 => m.cursor <= applied[d])
  /\ \A i \in DOMAIN up[d] : LET m == up[d][i] IN
       /\ m.type = "sync_request" => m.id # 0 /\ m.from <= store[d].cursor
       /\ m.type = "sync_applied" => m.cursor <= store[d].cursor

StrayIsTrue == \A s \in stray : s[2] <= store[s[1]].cursor

\* What makes the above inductive.  Whatever is in flight was true when it was
\* sent and stays true: responses lie within the stream, requests and
\* confirmations within the store of their device, acks within the record.
InFlightIsTrue == StrayIsTrue /\ \A d \in Devices : TrueAt(d)

FinalAt(d) ==
  /\ client[d].confirming => store[d].pending # 0
  /\ client[d].waiting => client[d].id # 0 /\ client[d].from <= store[d].cursor
  /\ client[d].caughtUp => ~client[d].waiting /\ ~HasGap(store[d])
  /\ conn[d] = "open" =>
       ~client[d].caughtUp /\ \A i \in DOMAIN down[d] : down[d][i].type # "sync_response"
  /\ conn[d] # "closed" => \A i \in DOMAIN down[d] :
       /\ down[d][i].type = "sync_response"
       /\ down[d][i].id # 0
       /\ ~down[d][i].more
       => \/ down[d][i].hi = Last
          \/ \E j \in DOMAIN down[d] :
               j > i /\ down[d][j].type = "sync_response" /\ down[d][j].hi = Last

\* Readiness and requests exclude each other; a page that says it is the last
\* one is, or the last event follows it on the same connection.
FinalPagesAreFinal == \A d \in Devices : FinalAt(d)

\* The invariant the proofs carry (SyncStreamProofs).
Inductive ==
  /\ TypeOK
  /\ CursorIsContiguous
  /\ InFlightIsTrue
  /\ ConfirmationsAreBacked
  /\ NeverFails
  /\ FinalPagesAreFinal
  /\ ReadyIsCurrent

\* Replication keeps its promise: the devices' stores and the server's records
\* of them behave as EventReplication says.
Replication ==
  INSTANCE EventReplication WITH
    total <- Last,
    have <- [d \in Devices |-> store[d].seen],
    reported <- applied

ReplicationSpec == Replication!Spec

\* Once faults stop, every device applies the whole stream, says so, and has
\* its confirmation recorded; no message stays merely "sent".
EventuallyInSync ==
  <>[](\A d \in Devices :
         /\ client[d].caughtUp
         /\ store[d].cursor = Last
         /\ store[d].confirmed = Last
         /\ applied[d] = Last
         /\ \A i \in 1..Last : delivery[i] # "sent")

=============================================================================
