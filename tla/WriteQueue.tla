----------------------------- MODULE WriteQueue -----------------------------
(***************************************************************************)
(* The write queue of the server and the connections that feed it.         *)
(*                                                                         *)
(* Every event a connection receives, every deferred commit of upload      *)
(* bytes and every round of the burn sweeper becomes one operation of one  *)
(* bounded queue, run to its end by one worker.  A connection whose event  *)
(* does not fit is overloaded: it accepts nothing more, and is closed when *)
(* the last operation it had accepted is done.  At shutdown the queue      *)
(* stops accepting and drains before transport and database are closed.    *)
(*                                                                         *)
(* Everything happens on one event loop: an action is what runs between    *)
(* two yields.  What an operation does to the database is the subject of   *)
(* the other modules; here it succeeds, fails, or ends its connection.     *)
(***************************************************************************)
EXTENDS Naturals, Sequences, FiniteSets

CONSTANTS
  Connections,
  Sweeper,        \* the owner of the sweeper's operations
  MaxOperations,  \* max_operations
  MaxPayload,     \* max_payload_bytes
  MaxEvents,      \* bound: events the transport delivers to one connection
  MaxSweeps       \* bound: rounds of the sweeper

ASSUME ParametersAssumption ==
  /\ Sweeper \notin Connections
  /\ {MaxOperations, MaxPayload} \subseteq Nat \ {0}
  /\ {MaxEvents, MaxSweeps} \subseteq Nat

VARIABLES
  queue,         \* the accepted operations that wait
  pendingBytes,  \* pending_payload_bytes
  callbacks,     \* done-callbacks of the last operation, which the loop runs first
  server,        \* "running", "stopping" (the queue drains), "closed"
  conn,          \* per connection, the state of its protocol object
  received,      \* per connection, events the transport delivered
  handled,       \* per connection, the events whose handler took effect, in order
  sweeps         \* rounds submitted so far

vars == <<queue, pendingBytes, callbacks, server, conn, received, handled, sweeps>>

Operation ==
  [owner : Connections \cup {Sweeper}, kind : {"data", "terminated", "flush", "sweep"},
   no : Nat, bytes : Nat]

\* failed: m_file_storage_failed.  overloaded: m_overloaded.  fenced: the last
\* accepted operation carries the callback that closes.  gone: the transport has
\* reported its end.  buffered, timer, flush: upload bytes not yet committed, the
\* timer of their commit, and whether that commit is queued.  reason: why this
\* side closed it, or "peer".
Connection ==
  [closed : BOOLEAN, failed : BOOLEAN, overloaded : BOOLEAN, fenced : BOOLEAN,
   gone : BOOLEAN, buffered : BOOLEAN, timer : BOOLEAN, flush : BOOLEAN,
   reason : {"none", "peer", "write_queue_overloaded", "operation_failed", "control"}]

Callback == [owner : Connections, does : {"write_completed", "drained"}, error : BOOLEAN]

TypeOK ==
  /\ queue \in Seq(Operation)
  /\ pendingBytes \in Nat
  /\ callbacks \in Seq(Callback)
  /\ server \in {"running", "stopping", "closed"}
  /\ conn \in [Connections -> Connection]
  /\ received \in [Connections -> Nat]
  /\ handled \in [Connections -> Seq(Nat)]
  /\ sweeps \in Nat

Init ==
  /\ queue = <<>>
  /\ pendingBytes = 0
  /\ callbacks = <<>>
  /\ server = "running"
  /\ conn = [c \in Connections |->
       [closed |-> FALSE, failed |-> FALSE, overloaded |-> FALSE, fenced |-> FALSE,
        gone |-> FALSE, buffered |-> FALSE, timer |-> FALSE, flush |-> FALSE, reason |-> "none"]]
  /\ received = [c \in Connections |-> 0]
  /\ handled = [c \in Connections |-> <<>>]
  /\ sweeps = 0

-----------------------------------------------------------------------------
(* The queue *)

\* enqueue() has room.
Fits(bytes) ==
  /\ Len(queue) < MaxOperations
  /\ bytes <= MaxPayload - pendingBytes

Accept(op) ==
  /\ queue' = Append(queue, op)
  /\ pendingBytes' = pendingBytes + op.bytes

\* m_last_queued_write is there and not done.
HasQueued(c) == \E i \in DOMAIN queue : queue[i].owner = c

-----------------------------------------------------------------------------
(* Connections *)

\* Its upload streams are forgotten (_clear_upload_streams).
Cleared(s) == [s EXCEPT !.buffered = FALSE, !.timer = FALSE, !.flush = FALSE]

\* After _close_control; the first reason is the one the peer is told.
Closed(s, reason) ==
  [Cleared(s) EXCEPT !.closed = TRUE, !.reason = IF @ = "none" THEN reason ELSE @]

Overloaded_AtOnce(c, s) ==  \* mutant: an overloaded connection is closed on the spot
  Closed([s EXCEPT !.overloaded = TRUE], "write_queue_overloaded")

Overloaded_NoFence(c, s) ==  \* mutant: a connection without queued operations is not closed
  [s EXCEPT !.overloaded = TRUE, !.fenced = TRUE]

\* _overload: s is closed when its last accepted operation is done, or at once.
Overloaded(c, s) ==
  LET refusing == [s EXCEPT !.overloaded = TRUE]
  IN IF HasQueued(c) THEN [refusing EXCEPT !.fenced = TRUE]
     ELSE Closed(refusing, "write_queue_overloaded")

\* quic_event_received still takes events.
Listens(c) == ~conn[c].overloaded /\ ~conn[c].closed

\* quic_event_received: the operation is accepted, or refused because the queue
\* is full, or because it is stopping.
Receive(c, kind, bytes) ==
  /\ server # "closed"
  /\ ~conn[c].gone
  /\ received[c] < MaxEvents
  /\ received' = [received EXCEPT ![c] = @ + 1]
  /\ LET s == [conn[c] EXCEPT !.gone = (kind = "terminated")]
         after == [conn EXCEPT ![c] = s]
     IN \/ /\ Listens(c) /\ server = "running" /\ Fits(bytes)
           /\ Accept([owner |-> c, kind |-> kind, no |-> received[c] + 1, bytes |-> bytes])
           /\ conn' = after
        \/ /\ Listens(c) /\ server = "running" /\ ~Fits(bytes)
           /\ conn' = [conn EXCEPT ![c] = Overloaded(c, s)]
           /\ UNCHANGED <<queue, pendingBytes>>
        \/ /\ ~Listens(c) \/ server # "running"
           /\ conn' = after
           /\ UNCHANGED <<queue, pendingBytes>>
  /\ UNCHANGED <<callbacks, server, handled, sweeps>>

\* Stream data, or a stream that was reset.
ReceiveData(c) == \E bytes \in 0 .. MaxPayload : Receive(c, "data", bytes)

\* ConnectionTerminated.
ReceiveEnd(c) == Receive(c, "terminated", 0)

\* _schedule_upload_flush
Scheduled(s) ==
  IF s.overloaded \/ s.timer \/ s.flush THEN s ELSE [s EXCEPT !.timer = TRUE]

\* The timer of a deferred commit.
FlushTimer(c) ==
  /\ conn[c].timer
  /\ server # "closed"
  /\ LET s == [conn[c] EXCEPT !.timer = FALSE, !.flush = TRUE]
     IN \/ /\ ~s.overloaded /\ server = "running" /\ Fits(0)
           /\ Accept([owner |-> c, kind |-> "flush", no |-> 0, bytes |-> 0])
           /\ conn' = [conn EXCEPT ![c] = s]
        \/ /\ ~s.overloaded /\ server = "running" /\ ~Fits(0)
           /\ conn' = [conn EXCEPT ![c] = Overloaded(c, s)]
           /\ UNCHANGED <<queue, pendingBytes>>
        \/ /\ ~s.overloaded /\ server # "running"
           /\ conn' = [conn EXCEPT ![c] = Cleared(s)]
           /\ UNCHANGED <<queue, pendingBytes>>
        \/ /\ s.overloaded
           /\ conn' = [conn EXCEPT ![c] = s]
           /\ UNCHANGED <<queue, pendingBytes>>
  /\ UNCHANGED <<callbacks, server, received, handled, sweeps>>

\* run_burn_sweeper submits a round and waits for it; a full queue is logged
\* and tried again at the next interval.
SubmitSweep ==
  /\ server = "running"
  /\ sweeps < MaxSweeps
  /\ ~HasQueued(Sweeper)
  /\ Fits(0)
  /\ Accept([owner |-> Sweeper, kind |-> "sweep", no |-> 0, bytes |-> 0])
  /\ sweeps' = sweeps + 1
  /\ UNCHANGED <<callbacks, server, conn, received, handled>>

-----------------------------------------------------------------------------
(* The worker *)

\* With the callbacks of an operation of c that ended, with an error or not.
Callbacks(c, error) ==
  LET completed == [owner |-> c, does |-> "write_completed", error |-> error]
      drained == [owner |-> c, does |-> "drained", error |-> FALSE]
      more == \E i \in 2 .. Len(queue) : queue[i].owner = c
  IN callbacks \o (IF conn[c].fenced /\ ~more THEN <<completed, drained>> ELSE <<completed>>)

\* The storage of an upload failed: the streams go at once, the connection when
\* the transport reports its end.
Broken(s) == [Cleared(s) EXCEPT !.failed = TRUE]

\* _process_quic_event on stream data: it takes effect, and may leave upload
\* bytes waiting; it raises; it closes the connection (a broken frame, a control
\* stream that ended); or the storage of an upload fails.
HandleData(c, op) ==
  LET s == conn[c]
      Ends(state, error) ==
        conn' = [conn EXCEPT ![c] = state] /\ callbacks' = Callbacks(c, error)
  IN \/ /\ s.closed \/ s.failed
        /\ Ends(s, FALSE)
        /\ UNCHANGED handled
     \/ /\ ~s.closed
        /\ Ends(Closed(s, "control"), FALSE)
        /\ UNCHANGED handled
     \/ /\ ~s.closed /\ ~s.failed
        /\ \/ Ends(s, FALSE)
           \/ Ends(Scheduled([s EXCEPT !.buffered = TRUE]), FALSE)
        /\ handled' = [handled EXCEPT ![c] = Append(@, op.no)]
     \/ /\ ~s.closed /\ ~s.failed
        /\ Ends(s, TRUE) \/ Ends(Broken(s), FALSE)
        /\ UNCHANGED handled

HandleEnd(c) == conn' = [conn EXCEPT ![c] = Closed(@, "peer")]

\* The outcomes of a deferred commit: nothing when the stream is gone, else the
\* bytes are committed or the storage fails.
Flushed(s) ==
  IF s.closed \/ s.failed THEN {s}
  ELSE {[s EXCEPT !.buffered = FALSE, !.flush = FALSE], Broken(s)}

Yielded_Never == TRUE  \* mutant: the worker takes the next operation at once

\* The worker has slept: the loop has run the callbacks of its last operation.
Yielded == callbacks = <<>>

\* The worker runs the oldest operation to its end.
RunOperation ==
  /\ Yielded
  /\ queue # <<>>
  /\ LET op == Head(queue)
         c == op.owner
     IN /\ pendingBytes' = pendingBytes - op.bytes
        /\ \/ op.kind = "data" /\ HandleData(c, op)
           \/ op.kind = "terminated" /\ HandleEnd(c)
                /\ callbacks' = Callbacks(c, FALSE) /\ UNCHANGED handled
           \/ op.kind = "flush" /\ (\E s \in Flushed(conn[c]) : conn' = [conn EXCEPT ![c] = s])
                /\ callbacks' = Callbacks(c, FALSE) /\ UNCHANGED handled
           \/ op.kind = "sweep" /\ UNCHANGED <<conn, callbacks, handled>>
  /\ queue' = Tail(queue)
  /\ UNCHANGED <<server, received, sweeps>>

\* The loop runs a done-callback: _write_completed or drained.
RunCallback ==
  /\ callbacks # <<>>
  /\ LET b == Head(callbacks)
     IN conn' = [conn EXCEPT ![b.owner] =
                   IF b.does = "drained" THEN Closed(@, "write_queue_overloaded")
                   ELSE IF b.error THEN Closed(@, "operation_failed") ELSE @]
  /\ callbacks' = Tail(callbacks)
  /\ UNCHANGED <<queue, pendingBytes, server, received, handled, sweeps>>

-----------------------------------------------------------------------------
(* Shutdown *)

\* The sweeper is cancelled, the queue stops accepting.
Stop ==
  /\ server = "running"
  /\ server' = "stopping"
  /\ UNCHANGED <<queue, pendingBytes, callbacks, conn, received, handled, sweeps>>

Drained_AtOnce == TRUE  \* mutant: stop() does not wait for the worker

\* stop() returns: the worker has found the queue empty.
Drained == queue = <<>> /\ callbacks = <<>>

\* Transport and database are closed.
CloseServer ==
  /\ server = "stopping"
  /\ Drained
  /\ server' = "closed"
  /\ UNCHANGED <<queue, pendingBytes, callbacks, conn, received, handled, sweeps>>

-----------------------------------------------------------------------------

Next ==
  \/ \E c \in Connections : ReceiveData(c) \/ ReceiveEnd(c) \/ FlushTimer(c)
  \/ SubmitSweep \/ RunOperation \/ RunCallback
  \/ Stop \/ CloseServer

Spec == Init /\ [][Next]_vars

\* The event loop keeps running: the worker, the callbacks, the timers.
Fairness ==
  /\ WF_vars(RunOperation)
  /\ WF_vars(RunCallback)
  /\ WF_vars(CloseServer)
  /\ \A c \in Connections : WF_vars(FlushTimer(c))

FairSpec == Spec /\ Fairness

-----------------------------------------------------------------------------
(* Properties *)

\* What a connection's handlers saw is an initial part of what the transport
\* delivered: nothing behind a refused or a failed event is handled, so frames
\* and upload bytes are never put together over a hole
\* (quic_event_received, _overload, _write_completed).
HandledIsAPrefix ==
  \A c \in Connections : \A i \in DOMAIN handled[c] : handled[c][i] = i

\* Accepted work is done before what it needs goes away: a connection closed for
\* overload has no operation left, and the database is closed on an empty queue
\* (_overload: "fences all earlier work"; SqliteWriteQueue.stop).
AcceptedIsRun ==
  /\ \A c \in Connections : conn[c].reason = "write_queue_overloaded" => ~HasQueued(c)
  /\ server = "closed" => queue = <<>>

\* An overloaded connection is closed, one whose peer is gone is forgotten unless
\* the server stops first, upload bytes that wait are committed or dropped with
\* their connection or the server, and a server that stops does stop.
EverythingSettles ==
  /\ \A c \in Connections :
       /\ conn[c].overloaded ~> conn[c].closed
       /\ conn[c].gone ~> (conn[c].closed \/ server # "running")
       /\ conn[c].buffered ~> (~conn[c].buffered \/ server = "closed")
  /\ server = "stopping" ~> server = "closed"

=============================================================================
