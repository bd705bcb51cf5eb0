# Mini-IM: specifications, model checking and proofs

Mini-IM is a chat system: a Python server on QUIC and SQLite, a Qt/C++ client
with a durable local state, and a Vue front end inside the client. This
directory specifies its protocol core in TLA+, checks it with TLC, and proves
its safety properties with TLAPS. Paths below are relative to `src/`.

## 1. The system

### 1.1 Parts, their state and their operations

| Part | Code | State | Operations |
|---|---|---|---|
| Event streams | `server/storage/repo/sync_event.py`, `sync_repo.py`, `services/sync/service.py` | `sync_events(user, seq, …)` with seq 1, 2, 3 … per user; `sync_applied_cursors` per device | append with fan-out, read a page, record a confirmation (and announce deliveries to senders), redact the text of stored events |
| Client synchronisation | `client/core/sync/coordinator.cpp`, `statestore.cpp` | cursor, positions applied, pending and confirmed confirmation (durable); requested page, readiness, phase (volatile) | welcome, apply page or push, ask for the next page, confirm, retry, fail |
| Request queues of the client | `client/core/message/outbox.cpp`, `client/core/session/writestore.cpp`, `writecoordinator.cpp`, `sessionmanager.cpp` | rows pending / confirmed / failed in the order asked; the active request and a 5 s timer | enqueue, pump, resend, acknowledge, reject, retry, settle from the event stream |
| Request results of the server | `server/storage/repo/control_write_repo.py`, `message_intent.py`, `services/control/service.py` | stored result and fingerprint per request id; message identity | execute once, replay, roll back on retryable failure |
| Conversations | `server/storage/repo/conversation_repo.py`, `services/conversation/service.py` | kind, owner, title, members; read position and its history | create, rename, add, remove, join, leave |
| Messages, receipts, burning | `message_repo.py`, `delivery_repo.py`, `read_state.py`, `services/message`, `services/delivery`, sweeper in `server/quic/server.py` | messages, delivery rows with read, burn and burned times, unread counts | send, receipt, recall, sweep, purge |
| Uploads | `server/quic/upload.py`, `server/quic/server.py`, `services/file/service.py`, `file_repo.py`, `client/core/file/*` | transfer row, bytes on disk, lease (memory), byte streams, the client's durable task | initialise and reconcile, grant, bind, write, finish, cancel, retry |
| Downloads | `server/quic/download.py`, `services/file/service.py`, `client/core/file/*` | transfer row, scheduler jobs (memory), staging file, the client's durable task | initialise, read, send, reset, verify, publish, finish, cancel, retry |
| Write queue | `server/storage/sqlite/write_queue.py`, `db.py` | a bounded queue (operations and bytes), one worker, results and their callbacks | submit, refuse, run, drain |
| Connection handler | `server/quic/server.py` | registered connections, overload fence, deferred commits of upload bytes | dispatch of every request |
| Reconnection | `client/core/quic/recovery.cpp` | delay, login timer | back off, connect, give up an attempt |
| Client cache and view | `client/core/sync/statestore.cpp`, `statehistory.cpp`, `web/src/store/session.ts`, `views/chat-view.vue` | stored objects, running unread total, the view, messages waiting for the next frame | project an event, tell the window, snapshot, answer a page of history, merge |
| Others | sessions and authentication, file maintenance, schema and migrations, codec, bridge, windows, tools | — | see section 6 |

### 1.2 How they interact

* All business writes of the server go through one queue and one worker, each
  in one SQLite transaction. This is the atomicity the models rely on: one
  handler's write is one action. What happens *around* it – the fan-out to
  connections, the answer, an `await` before or after – is in the actions that
  the code orders the same way.
* A transaction appends events to the streams of the users concerned. After the
  commit the handler pushes the new events to those users' registered
  connections. Requests, answers, pages and pushes of a connection share one
  ordered control stream; bytes of a file use streams of their own; nothing
  orders two connections.
* A client keeps everything it must not forget in its local database: cursor,
  confirmations, queued requests, file tasks. A connection carries only
  volatile state and can be replaced at any time.
* Confirmations ("this device has applied everything up to n") turn the
  delivery rows of received messages to *delivered* and append events to their
  senders' streams, so synchronisation feeds itself.
* Messages and control writes become events when executed; so a request can be
  settled by its answer or by its event, whichever comes first.
* An applied event changes the stored objects and is signalled to the window,
  which also gets a snapshot at every login and pages of history on request.
  The window never reads the store directly: it converges only if what it is
  told adds up to what is stored.
* The bytes of a file and the requests and answers about it travel on different
  QUIC streams of one connection, so either may overtake the other.

### 1.3 What is hard in it

Order (page against push, an old connection against a new one, a receipt
against the message after it), loss (an answer lost with its connection, an
event left out of a fan-out), partial failure (a torn write, a rolled back
transaction after the bytes are on disk, a stop between two transactions of the
sweeper, a failing local database), late execution (a copy of a request
that was already answered), a read in a thread or an awaited page that returns to
a changed world, work accepted by a queue whose connection or process is about to
end, numbers kept up to date by differences, and convergence after any of it. `PROJECT.json`
lists each of them with the line where it bites and the property that would
notice.

### 1.4 What makes each part correct

* Streams: a cursor covers only applied events; *ready* means up to date;
  confirmations are true and never taken back; a device converges.
* Queues and results: at most one effect per intent, in the order asked; what
  the user is told is what was decided; everything pending gets decided.
* Conversations and messages: what each user's stream adds up to agrees with
  the tables (members, titles, counts, own read position), whoever comes and
  goes; texts that ended are gone from the streams; timers run out.
* Uploads: every byte is at its place whatever tore or came late, one writer at
  a time, the file is published once and whole, outcomes are final and what the
  device shows is true; an upload gets settled.
* Downloads: what is staged, under way and about to be read joins up across
  cancellations and reconnections; the user's path holds the old file or the
  verified one; what is decided stays; a download gets settled.
* Write queue: a connection's events are handled in order and without a hole,
  accepted work runs before what it needs is closed, and everything ends.
* Cache and view: the stored objects depend on which events were applied and not
  on their order; the running total is the true one; the window shows the store.

## 2. Modules

| Module | What it is | Code it stands for |
|---|---|---|
| `EventReplication` | abstract: a growing stream, replicas that gain its events, reports that are true and stay | – |
| `SyncStream` | one user's stream and the devices that replicate it | sync service and repos, fan-out in `server.py`, `coordinator.cpp`, the cursor part of `statestore.cpp` |
| `Projection` | what a device makes of its events, and what its window shows | `statestore.cpp`, `statehistory.cpp`, `session.ts`, the queue and history of `chat-view.vue` |
| `ExactlyOnce` | abstract: a request is decided once, takes effect at most once, its author learns the decision | – |
| `DurableRequests` | the two request queues of the client and the stored results of the server | `outbox.cpp`, `writestore.cpp`, `sessionmanager.cpp`, `control_write_repo.py`, message identity in `message/service.py` |
| `MessageLife` | abstract: a message is unread, read, then gone for each of those it was sent to, among whom its sender need not be, and so is its text | – |
| `ChatStore` | one conversation in the server's tables, and what its events add up to in each stream | conversation, message, delivery and read-state repos, sweeper |
| `WriteQueue` | the queue every write goes through, the connections that feed it, overload and shutdown | `write_queue.py`, the life of a connection in `server.py` |
| `FileDelivery` | abstract: a file's copy appears whole and at once, its outcome is decided once, what the device says of it is true and final | – |
| `FileUpload` | one file from device to server | `upload.py`, upload handlers of `server.py`, `file/service.py`, `file_repo.py`, `client/core/file` |
| `FileDownload` | one file from server to device | `download.py`, download handlers of `file/service.py`, `client/core/file` |
| `SyncStreamProofs`, `DurableRequestsProofs`, `WriteQueueProofs`, `ChatStoreProofs`, `FileUploadProofs`, `FileDownloadProofs`, `ProjectionProofs`, `ProjectionViewProofs` | inductive invariants, theorems and their proofs, one module per component, two for `Projection`: its store and its window | – |
| `MC…` | model values, instances and symmetry for TLC | – |

The modules meet at four seams.

* `SyncStream` shows that every event of a stream is applied, once, by every
  device. `ChatStore` therefore keeps a stream as what its events add up to, and
  `Projection` takes its events in any order, each at most once.
* `DurableRequests` shows that a request is executed at most once; `ChatStore` and
  the file modules therefore take one business request as one action
  (`FileUpload` has its own stored answers for *finish*, because their
  interplay with the lease is its subject).
* `WriteQueue` shows that what a connection sent is handled in order, without a
  hole, one operation at a time. All others rely on it when they take a
  handler as one action and a connection as an ordered channel.
* `SyncStream` and `Projection` share `apply()`: cursor, gap and confirmation are in
  the first, objects and signals in the second.

### SyncStream

`delivery` is the stream: entry i is event i, and holds the delivery row of the
message it announces to this user, if it does. `applied` is
`sync_applied_cursors`. `conn`, `up`, `down` are a device's connection and the
messages in flight; `stray` holds confirmations sent on a connection the device
has left but the server still reads. `client` is the coordinator
(`MiniImSyncCoordinator`), `store` the durable part of the state store.

Server actions: `AppendEvents` (any business transaction and its fan-out),
`FileInit` (whose fan-out leaves out the sender, who gets the last event in the
answer), `Receipt`, `HandleHello`, `HandleSyncRequest`, `HandleSyncApplied`,
`FailSyncApplied` (503 after a rollback), `HandleStray`, `CloseConnection`,
`RestartServer`. Device actions: `Connect`, `HandleWelcome`, `HandleResponse`
(apply, advance, ask for more, ready), `RetryRequest`, `Confirm`,
`RetryConfirmation`, `HandleConfirmationResult`, `Leave`, `LoseConnection`,
`DetectClosed`. Each handler is one action: on both sides it runs to its end
without yielding, or yields only where the model splits it.

### DurableRequests

`kind`, fixed at the start of a behaviour, says which of a device's two queues it
is about: they share nothing but the connection. `row` and `queue` are the local tables, `session` the volatile side (connected,
ready, timer, active request), `results` the stored results, `effects` the
committed effects in order, `permitted` whether the user is a member, `wiped`
the intents whose message was recalled or burned. `Pump` sends the oldest
pending request only, and is part of every action whose code calls it. A failed
local save is a branch of the action in which the code saves (`MaxBadSaves`).
Copies of a request left on an abandoned connection are executed late
(`HandleStray`) or never (`DropStray`). The two queues differ in two
places: the message queue accepts a late answer for a failed row, and a failed
save disconnects the control queue but only stops the timer of the message
queue.

### ChatStore

Every action is one transaction: `Create`, `Rename`, `AddMembers`, `Join`,
`RemoveMembers`, `Leave`, `Send`, `SendFile`, `Receipt`, `Recall`, `Sweep` (burn a batch
and then purge a batch) and `SweepCutShort` (the server stops between the two
transactions). `Send` and `SendFile` are the two callers of `append_message`
(`AppendMessage`): a message of a member, and the message that announces an upload
that ended. The second asks only whose file it is, so its sender may have left since
the upload began; it then holds no row of its own message, and its stream no event.
A message row and its delivery rows are one record with sets of
users (`holders`, `readers`, `timed`, `burned`). `stream[u]` keeps the last
conversation state told, the messages whose stored event still has its text,
those a recall event told of, the last count announced per message, and the
user's own position. Abstracted: which remaining member inherits a group (the
code takes the one that joined first; join times are not kept, so any may), the
length of timers (a started timer may be due at any time later), and several
conversations (no operation relates two).

### FileUpload

`row` is the transfer's status and received bytes, `disk` the bytes at
`storage_path`, `lease` the `UploadRegistry` entry, `stored` the recorded
answers of finish requests, and per connection `link`, `call` (the request or
answer under way) and `stream` (byte stream with the units received but not yet
written). `current` and `task` are the device. The handling of bytes
(`HandleData`, `RejectData`, `StorageFails`, `StorageDiverged`, `ResetStream`),
of requests (`HandleInit` with reconciliation, `HandleFinish`, `HandleCancel`,
`FailRequest`), the end of a connection (`NoticeClosed`) and of the server
(`Crash`), lost bytes (`LoseBytes`: a tail of the file missing after a restored backup,
the case `_reconcile_upload` is written for), a cancellation from elsewhere,
and the device's task are one action each. An older connection's bytes and
requests may be handled after those of a newer one. One device is modelled
because an upload intent is created and kept by one device; the takeover of a
lease that was idle for 15 minutes serves a second one and is left out.

### FileDownload

`row` is the transfer's status, `source` what is at its storage path (`good`,
`changed`, `short`, `long`: a damaged or replaced file), `job` the scheduler's job:
how far it has read, what is sent and not acknowledged, and, between `StartRead`
and `FinishRead`, what the thread read while the job may have been cancelled,
reset or finished. `stream` holds bytes the device has not handled and how the
stream ends; `sink` and `staging` are the device's end of it, `target` the path the
user chose. The control stream (`call`) and the byte stream are separate, so the
actions that take from them interleave freely: a header before the grant, a reset
before the header or before the answer. `TakeEnd` verifies and publishes,
`StopAfterPublishing` is a stop of the program between publication and the
durable mark. `Becomes` is the rule of the task store's `update`: a final status stays, and a task
being cancelled gives way to its own outcomes only. `DisturbFiles` is another program at work on the staging file or
the target, which the code checks for. The history variable `overtook` remembers
what a reset overtook, for the exemptions explained in section 6.

### WriteQueue

`queue` holds accepted operations with their bytes, `callbacks` what the event loop
runs before the next operation (`_write_completed`, and the fence that closes an
overloaded connection), `conn` the protocol object, `received` and `handled` what
the transport delivered and what took effect. `Receive` accepts or overloads;
`FlushTimer` submits the deferred commit of upload bytes; `RunOperation` runs
one operation to its end, in which a handler succeeds, fails its connection or is
skipped because its connection is closed; `Stop` and `CloseServer` are the two ends of
the shutdown. Every action is what runs between two yields of the one event
loop.

### Projection

`stream` is fixed at the start of a behaviour, `seen` are the positions applied.
`cache` holds the stored objects of one conversation, `unread` the running total,
`channel` the signals and answers on their way to the window, `view` and `queue`
(messages waiting for the next frame) the window. The queue is kept by message: an event is
applied once and its message pushed once, so none is in it twice, and messages do not depend on
each other, so that `Pushed` and `WithHistory` say what the loops of `pushMessages` and
`applyHistory` do message by message. An event of a message that
ended meanwhile may arrive redacted (`RedactMessageEvents`), in every way the
server can have done it. `Login` sends a new snapshot of the first page,
`Restart` keeps only the stored objects, `LoadHistory` / `AnswerHistory` / `TakePage` are
the three steps of a page the window awaits. What an event says of a count, a delivery
or the conversation is named by the event's position, so that an old value that
replaces a newer one is noticed.

## 3. Runs

Every constant named `Max…` is a bound for TLC only (except `MaxOperations` and `MaxPayload`,
which are the queue's own limits); the guards that use it
stop the environment, not the code's own steps. Deadlock is not checked: once
the bounds are used up and everything is settled, the system rests.

| Run | Bounds | What it shows |
|---|---|---|
| `sync_one` | 1 device, page size 1, 3 events in bursts of up to 2, 2 faults | cursor, readiness, confirmations, *delivered* only what was applied, no rejection; nothing durable goes back; implements `EventReplication`; convergence |
| `durable_messages` | 1 device, 2 requests, either queue, 2 losses, 1 failed local save, 2 membership changes | refusals stay refusals, order, exactly once (implements `ExactlyOnce`), everything pending is answered |
| `durable_conflict` | 2 devices, the same intent, 2 contents, 1 loss, 1 change | one message; only the device whose content it carries is told it was sent |
| `durable_retry` | 1 message, 2 changes | finding 1 |
| `chat_group` | 3 users, 1 message, 5 changes of members or title, symmetric | what users were told agrees with the tables; positions never fall; the owner is a member |
| `chat_pair` | 2 users, 2 messages, 1 change, sweeps of one row | texts are gone, those of an uploader who left included; a message ends with its last holder; timers run out; implements `MessageLife`, which implies `BurnsOnlyAfterReading` |
| `chat_cleared`, `chat_holders` | 2 users, 1 message | findings 2 and 3 |
| `write_queue` | 2 connections of 2 events, 1 sweep, a queue of 2 operations and 2 bytes | events are handled without a hole, accepted work runs, everything ends |
| `upload` | 3 units, commits of 2, 3 faults of any kind | bytes in place, lease, publication, progress, settlement; implements `FileDelivery`, which implies `DeviceShowsTheTruth` |
| `download` | 3 units, reads of 2, 3 unacknowledged, 3 faults of any kind | bytes join up, nothing is undone, settlement; implements `FileDelivery`, with `PublishedIsVerified` as the part of it about the target |
| `projection` | 3 streams of up to 8 events, 3 messages, pages of 1, 3 logins, 1 restart, 5 signals under way | objects, running total, window |

Why the bounds are enough to be interesting:

* One event per page and bursts of two make every multi-event transaction span
  pages, and let a push arrive before, between and after them; three events are
  enough for a gap with something applied on both sides. Two faults allow a
  lost connection during the recovery from another. Devices only meet in the
  delivery rows of the server; that one device's confirmation never says more
  than some device applied is proved for any number of them (section 4).
* Two requests are what order needs; two losses allow a late copy of a resent
  request to be executed after the answer to the resend; two changes let a
  user leave and come back.
* Five changes allow three users to leave, come back and be removed around one
  message, and the sender of a file message to leave before it is sent; the second
  message of `chat_pair` makes a receipt cover a message
  behind the one it names, and a batch of one leaves work for another sweep.
* Two connections and the sweeper compete for two places, so each limit is met
  by the other's operations, and a connection can be overloaded while it has
  nothing, one or two operations of its own in the queue.
* One and a half commits distinguish a buffered remainder, a whole commit and
  a torn one. Three faults allow a wrong digest, a lost connection during the
  second attempt, and a late request of the first connection. Links need no
  bound of their own: every connection but the first follows a fault.
* A download of one and a half reads has a read that fits the limit, one that
  does not, and a last short one. Three faults allow a cancelled or failed
  attempt, a resumption, and one more failure during it.
* The streams of `projection` are chosen, because all streams of that length are out
  of reach; between them they hold every kind of event, two ends of one message,
  several counts and deliveries of one message, a receipt before and after what
  it covers, and the end of a message the device never had. Pages of one make
  every message but the last a matter of history; three logins let a page
  asked of the first view arrive in the third.

Each property is backed by a mutant in `PROJECT.json`: an operator such as
`MaySend_Unchecked` that states a plausible bug in the code it replaces and makes TLC
find the property violated.

### Fairness

* `SyncStream`: the server handles what a connection brought, and processes or
  drops what is left on abandoned ones; the coordinator handles what arrived;
  the client reconnects, notices a closed connection, sends a due confirmation
  and retries it (its timers). Not assumed: that the user or any fault acts, or
  that a page request is ever repeated.
* `DurableRequests`: reconnecting and becoming ready (`recovery.cpp`,
  `SyncStream`'s subject), the 5 s timer, and the handling of requests and
  answers. After a failed save the message queue waits, as written
  (`sessionmanager.cpp:617`), for the next answer, enqueue, ready signal or
  login, so `PendingIsSettled` asks nothing of a message while its timer is
  stopped. A failed save of the control queue ends the connection and the next
  one pumps, so there it asks for an answer even then.
* `ChatStore`: weak fairness of `Sweep`: `run_burn_sweeper` is an endless loop
  that logs and survives errors.
* `WriteQueue`: the event loop runs: the worker, the callbacks, the timers. That
  transport delivers, that the sweeper submits or that anybody stops the server
  is not assumed.
* `FileDownload`: the scheduler reads, sends and learns of acknowledgements, the
  server handles the requests of the current connection, the device's callbacks,
  requests and reconnections run, and a device whose connection the server
  dropped notices it. Nothing makes a fault, a repair of the source or the user act.
* `Projection`: no liveness; its run asks what the window shows when nothing is on
  its way to it.
* `FileUpload`: the server handles the bytes and requests of connections, the
  device's callbacks and timers run, and a device whose connection the server
  dropped notices it. The server is not assumed to notice a dead connection,
  so nothing depends on an old lease being released. Faults are bounded, as "once faults end"
  requires.

## 4. What is proved

Every component has a proof module (`Projection` a second one for its window). Each starts with the component's inductive invariant,
called `Inductive`, proves `Invariance == Spec => []Inductive` and `TypeCorrect == Spec =>
[]TypeOK` (`Projection` has no type invariant of its own; types are part of its `Inductive`), and
derives the theorems below. They hold for all values of the constants: any devices,
users or connections, any sizes, limits and bounds. The only assumptions are the
named ones of the component modules:

| Module | Assumption |
|---|---|
| `SyncStream` | `ParametersAssumption`: page size and burst are positive, the other bounds naturals; `Devices` may be infinite |
| `DurableRequests` | `ParametersAssumption`: the kinds are among the two there are, `None` is no intent, the queue holds something, the bounds are naturals; devices, intents and contents may be infinite |
| `WriteQueue` | `ParametersAssumption`: the sweeper is no connection, both limits of the queue are positive |
| `ChatStore` | `ChatAssumption`: finitely many users, a batch of at least one |
| `FileUpload`, `FileDownload` | `UploadAssumption`, `DownloadAssumption`: sizes are positive, bounds naturals |
| `Projection` | `ProjectionAssumption`: the streams are sequences of events as the server appends them (`WellFormed`), bounds are positive or naturals |

The proofs share a plan. What the many handlers of a component do is first shown to be an
instance of a few *step relations*, one lemma per handler; that a step relation
preserves the invariant is then proved once. Names in brackets are the theorems.

### SyncStream

`CursorIsContiguous` (`CursorsAreContiguous`), `ReadyIsCurrent`
(`ReadinessIsTruthful`), `ConfirmationsAreBacked` (`ConfirmationsHold`), `NeverFails`
(`CoordinatorNeverFails`), `DeliveredWasApplied` (`DeliveredMeansApplied`), `NeverBackwards`
(`DurableStateMovesForward`), and that it implements `EventReplication`
(`ImplementsEventReplication`).

The interesting invariants are not inductive alone. `ReadyIsCurrent` says a
ready device is at the end of the stream or the last event is on its way. To
keep it when a final page (`has_more = FALSE`) is handled, one must know that
whatever was appended after the page was read is behind it on the same
connection: that is `FinalPagesAreFinal`. To keep `ConfirmationsAreBacked` and
`NeverFails` when the server handles a confirmation, one must know that every
confirmation in flight, on current and abandoned connections, is at most the
device's cursor, and every event in flight is in the stream:
`InFlightIsTrue`. So

    Inductive == TypeOK /\ CursorIsContiguous /\ InFlightIsTrue
                 /\ ConfirmationsAreBacked /\ NeverFails
                 /\ FinalPagesAreFinal /\ ReadyIsCurrent

`sync_one` checks its parts but for the two that speak of messages in flight, which only
the proof needs. Everything the
server does to a device is an instance of one relation,
`ServerEffect`: the stream grows, the device's channel grows by pushes of the new
events and true answers, records rise within what is backed. The device's actions are
proved one by one. `AdvanceStopsAtHole`
is the lemma about the cursor computation of `apply()`. `DeliveredWasApplied` follows
from `Inductive` and one more step: a delivery row turns only when a
confirmation covers it (`NextMarks`), by `InFlightIsTrue` the confirming device's
cursor had passed that event, and cursors never fall. The action
property and the refinement follow from the invariant together with one lemma that
classifies every step as a step of `EventReplication` or a stutter.

### DurableRequests

`AtMostOneEffect` (`EffectsAreUnique`), `ConfirmedTookEffect`
(`ConfirmationsAreTrue`), `FailedNeverTakesEffect` (`FailuresAreTrue`),
`EffectsKeepOrder` (`OrderIsKept`), and that it implements `ExactlyOnce`
(`ImplementsExactlyOnce`).

What a device does is a `DeviceStep`: rows move along their life (`RowMoves`), a queue
gains at most one new request, only the oldest pending request is sent. What the server
does to request r is `ServerStep(r, c)`, a stored decision with at most one effect, or
changes nothing the invariant is about.
Three facts about what is *in flight* make the invariant inductive: a request under way,
on its connection or left on an abandoned one, carries its row's content
(`RequestsAreOwn`); an answer under way is the stored one (`AnswersAreTrue`); and
before anything is sent, whatever the device asked for earlier is answered or, for a
message, already there (`EarlierIsClosed`). Order follows from the last: when a late copy is executed, the
requests before it can have no effect any more. The refinement maps each step to a
decision, to a confirmation or refusal the author learns, or to a stutter.

### WriteQueue

`HandledIsAPrefix` (`NothingIsSkipped`), `AcceptedIsRun` (`AcceptedWorkIsDone`), and that
the queue never exceeds its limits and its account of bytes is exact (`LimitsHold`).

Steps are of three kinds: nothing enters or leaves the queue (`QuietStep`), an operation is
accepted (`AcceptStep`), one is run (`RunStep`). The heart of the
invariant is `EventsContinue`: what waits of a connection carries on, without a hole,
where its handlers are, unless nothing of it is handled any more because it is
closed or failed or the callback that closes it comes before the next operation (`Over`).
`FencesHold` says that a fenced connection takes nothing more. The bytes that wait are a
sum over a sequence; the invariant states it as the existence of a table of partial sums
(`Account`), which needs no induction.

### ChatStore

`TextIsGone` (`GoneTextsStayGone`), `RecalledWhenNobodyHasIt` (`RecallIsTheLastBurn`),
`BurnsOnlyAfterReading` (`NobodyLosesUnread`), `CountsAgree` (`CountsAreTrue`), `PositionsAgree`
(`PositionsAreTrue`), `MembersAreTold` (`MembersKnow`), `PositionNeverFalls` (`PositionsOnlyGrow`), and that it implements
`MessageLife` (`ImplementsMessageLife`).

The steps are changes of membership (`MembershipStep`), losses of rows (`LossStep`: a recall,
a sweep with or without its purge), `Send` or `SendFile` (one lemma, `AppendKeepsInductive`,
about what they share) and `Receipt`. Besides the properties themselves the
invariant needs how the users of a row relate (`RowsAreSound`: somebody holds it, its sender
has read it if it is a holder, timed have read, the burned were timed, recalled is burned for
every holder), that a stream speaks only of messages
there are and holds texts only of holders (`StreamsAreSound`), and that positions are bounded by
the last message and a returning member's kept position is not ahead (`PositionsAreBounded`). The
counts are cardinalities; the finiteness of `Users` is used there.

For the refinement, a message's life for a user is read off its row (`LifeIn`), and the texts are the
`copies` of the streams. A change of membership is a stutter, which is the point: who comes or goes
changes nobody's messages. A message begins its life for the members of now, who are never
nobody because the owner is one of them (`MembersAreTold`); its sender has read it if it is
among them and gets nothing if it has left. A receipt reads everything its reader has up to a message, because by
`PositionsAgree` what lies before the reader's position has been read already. A sweep burns for
those who have read (`RowsAreSound`) and takes their copies only: what it clears beyond
them had burned for every holder, so by `TextIsGone` no stream held it any more.

### FileUpload

`PublishedIsWhole` (`CompletedIsWhole`), `BytesAreInPlace` (`NoByteIsMisplaced`),
`LeaseAgrees` (`LeaseIsTrue`), `DeviceShowsTheTruth` (`ShownIsTrue`), `NothingIsUndone`
(`ProgressIsKept`), and that it implements `FileDelivery` (`ImplementsFileDelivery`).

A `ServerStep` moves the row along its life and the file with it (`FileStep`), grants or
gives back the lease, leaves every other stream at rest and answers a call truthfully;
a `DeviceStep` does not touch row, file and lease. The invariant adds that the stream
of the lease's owner continues where the lease, and so the row and the file,
end (`StreamsAreInPlace`), that a kept or late answer is still true (`AnswersAreTrue`), and that
a connection that waits for its lease has no stream (`RequestsAreSound`).

For the refinement, the server's copy is *whole* from the moment the row says completed
(`PublishedIsWhole` says that the bytes are there). A server step changes the row but not what the
device shows, so it is a `Complete`, a `Cancel` or a stutter; a device step changes only what is
shown, and is a `Show` because what it shows is true after it (`DeviceShowsTheTruth`) and final tasks
stay (`FinalTasksStay`).

### FileDownload

`StreamJoins` (`BytesJoinUp`), `PublishedIsVerified` (`PublicationIsVerified`),
`NothingIsUndone` (`DecisionsStand`), and that it implements `FileDelivery`
(`ImplementsFileDelivery`).

`StreamJoins` relates staging file, stream and job once the sink is open; what makes it
true is what happened before. `ConversationIsInStep` follows an attempt through its phases:
while the initialisation is asked for, nothing flows; from the grant on, what is under way
continues a file of the offset asked for (`Continues(offset)`); when the metadata cut the
staging file to that offset it continues the staging file. One clause keeps the
progress part of `NothingIsUndone`: a staging file longer than the offset asked for is one
that others replaced. All that is claimed only of attempts whose answer no reset overtook
(section 6); `JobIsSound` and `EndsAreSound` hold always. The job's steps are a `Flow`,
which keeps `Continues(n)` for every n; requests handled by the server a `ServerStep`; what the
device does a `DeviceStep`.

In the refinement the target is the copy. It changes only in steps that decide and show nothing
(`TargetMovesAlone`): a `Publish` or a `Lose`. A server step decides at most once
(`DecisionsStay`), and completes only what was published (`PublishedIsVerified`). The rest are what the
device shows; that a final status stays is due to `Becomes` (`FinalStatusStays`).

### Projection

`CacheIsItsEvents` (`OrderDoesNotMatter`), `UnreadIsExact` (`UnreadIsRight`) and
`ViewShowsCache` (`WindowIsRight`).

`Sound(objects, s, done)` says of every stored object which events of the applied positions `done` it
stands for; a newest value is described by `IsNewest`, not computed. Applying one more
event keeps `Sound` object by object (`EveryEventProjects`), whatever was applied before, also when
it arrives redacted. `WellFormed` is used where the code relies on it: the events of a message
that are not its own come after its own in the stream. The running
total is changed by the difference in the messages an event affects
(`CountingTheAffectedIsEnough`, with the cardinality theorems).

`ViewShowsCache` speaks of moments when nothing is under way; `ProjectionViewProofs` extends it to
all others. What the window shows, what it has queued and every signal on its way was true of
the store when it left, and what has changed since is told by a signal *behind* it
(`Ahead(ch, i, signals)`: one of these signals comes after position i; 0 is the window's own). So

    Typed /\ Fair,  Fair == StoreFair /\ ChannelFair /\ WindowFair /\ HistoryFair

is inductive together with `Inductive`. `Faithful` says it of a message: what it shows of its end is
true, and an end it does not show is behind it; `Counted`, `Delivered`, `IsRead`, `IsVersion` and
`IsTotal` say it of numbers. `WindowFair` adds that every stored message past the cursor is shown,
queued or coming. `HistoryFair` is the protocol of pages: of the snapshot shown at most one is
asked for or on its way, for the cursor shown, and no stored message falls between the page and
that cursor; an answer that belongs to an older snapshot is recognised by its epoch.

A step of the core is an instance of `Tells(o, o2, t, ...)`: the signals t tell everything that
differs between the stores o and o2. `EventIsTold` shows it of every event, redacted or not, and
`TellingIsFair` that telling keeps all four parts. A step of the window takes the first
signal: what is behind it stays behind (`ChannelFairNext`, `FaithfulPast`), and what it told is now
shown, one lemma per kind of signal. A message that ended in the store
before the window had it needs `SoundEndsShow`, which follows from `Sound`: the end is in the
message itself, too. When nothing is under way, nothing is `Ahead`, and every `Fair` clause is an
equation.

### Agreement with TLC

Before its proof, each `Inductive` was checked on small instances as an invariant (up to
442 792 states for `FileDownload`; `Fair` on the 1 842 924 of `projection`), but for the parts
that range over infinite sets: `BytesAreExact` of `WriteQueue` and `Typed` of the window.
The runs of `PROJECT.json` check the properties
themselves.

## 5. What is only model-checked

* All liveness (`EventuallyInSync`, `PendingIsSettled`, `TimersRunOut`,
  `UploadSettles`, `DownloadSettles`, `EverythingSettles`): fairness and ENABLED are
  outside what the prover handles.

Every safety invariant, action property and refinement of the passing runs is a
theorem. `DeviceShowsTheTruth` of `FileUpload`, `PublishedIsVerified` of `FileDownload` and `BurnsOnlyAfterReading` of `ChatStore` are theorems, too;
the runs check them as part of `DeliverySpec` and `LifeSpec`. No module declares a RECURSIVE operator.

## 6. Findings and what is not modelled

Three promises of the repository's own documents and tests that the code does not keep:

1. **A refused message cannot be retried** (`durable_retry`).
   `retry()` in `client/core/message/outbox.cpp` keeps the request id, and
   `ControlWriteRepo.execute` answers that id from the stored refusal for ever,
   so a message refused with 403 is never sent, even once its author is a
   member again. `docs/development.md:201` says that failed items can be
   clicked to retry, and `tools/test_native_flow.py:1219` tests it with a
   refusal that was injected before the result was stored.
   (`docs/development.md:289` describes the server's side as built.)
2. **A recalled text is not cleared** (`chat_cleared`). The purge selects
   burning messages only, so an ordinary message keeps its text in
   `messages.content` after its recall. `REPORT.md:109-110` says clearing must
   cover the business tables.
3. **Holders that left are not told** (`chat_holders`). `apply_recall` appends
   the recall event for present members only, so the cache of a recipient that
   left keeps the text. `REPORT.md:109-110` includes client caches.

Four weaknesses that the models met; the properties exempt the first three by name, the
fourth breaks none:

* **A reset that overtakes the name of its stream** (`coordinator.cpp:196`). A
  download stream that closes before its header was handled, or before the
  answer that names a file new to the device, is attributed to no task. The task
  stays *transferring*, without a timeout, until the next connection.
  `DownloadSettles` exempts such a behaviour (`overtook # "nothing"`).
* **A reset that overtakes the answer for a known file** (`coordinator.cpp:146`). The
  task is failed, then set back to *transferring* by the answer, and asked for
  again on the same connection; bytes of two attempts may meet in the staging
  file. They survive reconnections and only the digest at the end finds them
  (`PublishedIsVerified` holds throughout). `StreamJoins` and the progress part of
  `NothingIsUndone` exempt it (`overtook = "answer"`).
* **A delivery that comes before its message** (`chat-view.vue`, `session.ts`). If a
  login comes between the two, the window is not told of the delivery again: the
  snapshot carries deliveries of the messages on its page, `messagePushed` none.
  The store has it, and the next snapshot or page of history shows it.
  `ViewShowsCache` exempts the messages in `early`.
* **A former member's upload is announced in its name** (`file/service.py:326`).
  `_apply_file_finish` asks whose file it is, not who is a member, so a user who left or was
  removed between *init* and *finish* still sends a message to the conversation. It gets
  no delivery row and no event of it, even if it comes back, and can recall it all the
  same. `SendFile` does so, and the properties of `ChatStore` hold with it.

Not modelled, and why:

* *Reconnection delays and login timer* (`recovery.cpp`): arithmetic on two timers.
  That the client tries again is the fairness of `Connect` in the modules that
  need it.
* *Authentication and sessions*: sessions live in memory and are looked up by
  token; a hello succeeds or ends the attempt.
* *File maintenance, storage lock, client file cleanup*: sequential tools that
  exclude the server, or one user's preview and its application.
* *Schema and migrations, codec, generated protobuf, endpoint*: data layout and libraries. The
  models assume what QUIC promises: order within a stream, and nothing across
  streams or connections.
* *Windows, forms, test and packaging tools*: no protocol state.
* Inside the modelled parts:
  * answers to request ids reused with other content (the client never reuses one);
  * the takeover of an idle lease by a second device;
  * several downloads: their order, priorities, the wake-up of the scheduler's
    loop, and the limits of eight jobs and eight tasks, which show only as
    refused requests;
  * failures of the client's local database in file tasks;
  * pages of history in the newer direction, file objects and file progress in
    the view, the unread count `session.ts` keeps without the core, the receipts
    `chat-view.vue` sends;
  * framing of the control stream and the heartbeat;
  * failures of the client's local database while events are applied: `fail()`
    (`client/core/sync/coordinator.cpp:216`) stops the synchronisation and disconnects the
    client, which does not reconnect by itself then;
  * in *init* of a file, the definite refusals 400, 403, 404 and 409 that a client's own
    mistake, a lost membership or a reused intent earns. An upload ends failed as it does from
    any other definite refusal (the model's *failed* outcome); a download's `HandleInit` refuses
    for a cancelled row or a source that is not intact, and what the device does with the
    refusal is the same;
  * a second reset of a download's stream that was reset before: a repeated cancellation
    leaves the job as it is;
  * the comparison of session ids that `chat-view.vue:351,355` adds to the epoch of a page (the
    model's guard is weaker), and the `updatedAtMs` of a conversation that a pushed message
    raises (`session.ts:308-314`), which orders the list of conversations and is shown there.

## 7. Plan

Done: the seven components are modelled and checked, and every safety invariant and action
property of their runs is proved; `SyncStream` implements `EventReplication`,
`DurableRequests` implements `ExactlyOnce`, `FileUpload` and `FileDownload` implement
`FileDelivery`, and `ChatStore` implements `MessageLife`.

Left:

1. An abstract specification for `WriteQueue` (what one connection sent takes effect in order, as
   a prefix, or not at all), with `HandledIsAPrefix` and `AcceptedIsRun` as its consequences.
2. What `SyncStream` and `Projection` show together: two devices of a user with the same
   applied events store the same objects, up to what redaction cleared.
