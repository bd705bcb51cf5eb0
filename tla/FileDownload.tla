--------------------------- MODULE FileDownload ---------------------------
(***************************************************************************)
(* One file on its way from the server to a device: the durable task, the  *)
(* transfer's row, the job that reads the source in a thread and sends     *)
(* what the stream's unacknowledged bytes leave room for, the stream, the  *)
(* staging file, and its verified publication at the target.               *)
(*                                                                         *)
(* Requests and answers travel on the control stream, the bytes on a       *)
(* stream of their own: either may overtake the other.  The server may     *)
(* still read requests of a connection the device has left; what a job     *)
(* sends on it reaches nobody, so only the current connection has one      *)
(* here.  The bytes of the file are named by their positions, a wrong one  *)
(* is Bad.                                                                 *)
(*                                                                         *)
(* The limits of eight jobs per connection and eight active tasks show     *)
(* only as refused requests (FailRequest).                                 *)
(***************************************************************************)
EXTENDS Integers, Sequences

CONSTANTS
  Size,      \* units of the file
  Chunk,     \* units read at once (CHUNK_SIZE)
  Limit,     \* units sent and not acknowledged (STREAM_BUFFER_LIMIT)
  MaxFaults  \* bound: lost connections, crashes, failures, damages, changes of mind

ASSUME DownloadAssumption ==
  /\ {Size, Chunk, Limit} \subseteq Nat \ {0}
  /\ MaxFaults \in Nat

VARIABLES
  row,      \* file_transfers: the status of the download's row
  source,   \* what is at the source's storage path
  link,     \* per connection, whether the server has it open
  call,     \* per connection, the request or answer under way
  job,      \* the server's DownloadJob on the current connection
  stream,   \* what it sent and the device has not handled
  current,  \* the device's connection, 0 for none
  task,     \* the device's file task
  sink,     \* m_pending_file_downloads: the device's end of the stream
  staging,  \* the staging file
  target,   \* the file at the path the user chose
  overtook, \* history: what a reset overtook, the worst of it
  faults

server == <<row, source, job>>
files == <<staging, target>>
vars == <<server, link, call, stream, current, task, sink, files, overtook, faults>>

-----------------------------------------------------------------------------

\* Every connection but the first follows a fault.
Links == 1 .. MaxFaults + 1
Bad == 0

SourceLength == [good |-> Size, changed |-> Size, short |-> Size - 1, long |-> Size + 1]

Questions == {"init", "finish", "cancel"}
Answers == {"granted", "metadata", "unavailable", "refused", "finished", "cancelled", "tooLate"}
Idle == [kind |-> "idle", offset |-> 0]
Call == [kind : {"idle"} \cup Questions \cup Answers, offset : 0 .. Size]

\* ended: eof, after the end or a reset.  read: what the thread returned, while
\* the job waits for it.
NoJob == [state |-> "none", offset |-> 0, unacked |-> 0, reading |-> FALSE, read |-> <<>>]
Job == [state : {"none", "sending", "ended"}, offset : 0 .. Size, unacked : 0 .. Limit,
        reading : BOOLEAN, read : Seq(0 .. Size + 1)]

\* seen: its header has reached the device.
NoStream == [bytes |-> <<>>, end |-> "none", seen |-> FALSE]
Stream == [bytes : Seq(0 .. Size), end : {"none", "fin", "reset"}, seen : BOOLEAN]

Statuses == {"pending", "transferring", "finishing", "failed", "cancelling", "cancel_failed",
             "completed", "cancelled"}
\* known: the device has the file id, ready: and size and hash (metadataReady).
\* restart: restartFromZero.  active: in m_activeFileTasks, which does not last.
Task == [status : Statuses, known : BOOLEAN, ready : BOOLEAN, restart : BOOLEAN, active : BOOLEAN]

\* before: what was there when the task began.  removed: published, then taken
\* away or changed by others.
Targets == {"before", "good", "wrong", "removed"}

\* header: the stream's own, or the answer that names the file.  answer: that of
\* the initialisation, for a file the device knew before.
Overtaken == {"nothing", "header", "answer"}

TypeOK ==
  /\ row \in {"none", "open", "completed", "cancelled"}
  /\ source \in DOMAIN SourceLength
  /\ link \in [Links -> {"unused", "up", "down"}]
  /\ call \in [Links -> Call]
  /\ job \in Job
  /\ stream \in Stream
  /\ current \in Links \cup {0}
  /\ task \in Task
  /\ sink \in {"none", "waiting", "open", "failed", "finished"}
  /\ staging \in Seq(0 .. Size)
  /\ target \in Targets
  /\ overtook \in Overtaken
  /\ faults \in 0 .. MaxFaults

Init ==
  /\ row = "none"
  /\ source = "good"
  /\ link = [c \in Links |-> "unused"]
  /\ call = [c \in Links |-> Idle]
  /\ job = NoJob
  /\ stream = NoStream
  /\ current = 0
  /\ task = [status |-> "pending", known |-> FALSE, ready |-> FALSE, restart |-> FALSE,
             active |-> FALSE]
  /\ sink = "none"
  /\ staging = <<>>
  /\ target = "before"
  /\ overtook = "nothing"
  /\ faults = 0

Fault == faults < MaxFaults /\ faults' = faults + 1

-----------------------------------------------------------------------------
(* The server: the job *)

\* ReadChunk, in a thread: the unit at position p, and what lies ahead of the job.
At(p) == IF source = "changed" THEN Bad ELSE p
Smaller(a, b) == IF a < b THEN a ELSE b

Ahead ==
  LET n == Smaller(Smaller(Chunk, Limit - job.unacked), SourceLength[source] - job.offset)
  IN [i \in 1 .. n |-> At(job.offset + i)]

StartRead ==
  /\ job.state = "sending" /\ ~job.reading
  /\ job.unacked < Limit
  /\ job' = [job EXCEPT !.reading = TRUE, !.read = Ahead]
  /\ UNCHANGED <<row, source, link, call, stream, current, task, sink, files, faults, overtook>>

\* reset_stream: what was under way is not delivered.
Reset(s) == [s EXCEPT !.bytes = <<>>, !.end = "reset"]
Abandoned(j) == [j EXCEPT !.state = "ended", !.unacked = 0]

MaySend_Unchecked == job.state # "none"  \* mutant: the job is not looked at again

\* After the await: the stream was neither reset nor finished meanwhile.
MaySend == job.state = "sending"

\* The chunk is sent; an empty one, at the declared size, ends the stream.  A
\* source that is too short or too long resets it.
FinishRead ==
  LET idle == [job EXCEPT !.reading = FALSE, !.read = <<>>]
      n == Len(job.read)
      broken == (n = 0 /\ job.offset # Size) \/ job.offset + n > Size
  IN /\ job.reading
     /\ \/ /\ ~MaySend
           /\ job' = idle
           /\ UNCHANGED stream
        \/ /\ MaySend /\ broken
           /\ job' = Abandoned(idle)
           /\ stream' = Reset(stream)
        \/ /\ MaySend /\ ~broken
           /\ job' = [idle EXCEPT !.offset = @ + n, !.unacked = @ + n,
                                  !.state = IF n = 0 THEN "ended" ELSE @]
           /\ stream' = [stream EXCEPT !.bytes = @ \o job.read,
                                       !.end = IF n = 0 THEN "fin" ELSE @]
     /\ UNCHANGED <<row, source, link, call, current, task, sink, files, faults, overtook>>

\* The transport acknowledges what it sent, which wakes the scheduler.
Acknowledge ==
  /\ job.unacked > 0
  /\ \E n \in 0 .. job.unacked - 1 : job' = [job EXCEPT !.unacked = n]
  /\ UNCHANGED <<row, source, link, call, stream, current, task, sink, files, faults, overtook>>

\* The end or the reset is acknowledged, and the job is dropped.
DropJob ==
  /\ job.state = "ended" /\ ~job.reading /\ job.unacked = 0
  /\ job' = NoJob
  /\ UNCHANGED <<row, source, link, call, stream, current, task, sink, files, faults, overtook>>

-----------------------------------------------------------------------------
(* The server: requests *)

Asked(c, kind) == link[c] = "up" /\ call[c].kind = kind
Answer(c, kind) == call' = [call EXCEPT ![c].kind = kind]

\* download.start: a file that is being sent is not sent twice.
Start(c, offset) ==
  IF c = current /\ job.state = "none"
  THEN /\ job' = [NoJob EXCEPT !.state = "sending", !.offset = offset]
       /\ stream' = NoStream
  ELSE UNCHANGED <<job, stream>>

\* _apply_file_init: refused after a cancellation or without an intact source;
\* otherwise the transfer is created or resumed, and its bytes follow.
HandleInit(c) ==
  /\ Asked(c, "init")
  /\ \/ /\ row = "cancelled" \/ SourceLength[source] # Size
        /\ Answer(c, "refused")
        /\ UNCHANGED <<row, job, stream>>
     \/ /\ row # "cancelled" /\ SourceLength[source] = Size
        /\ row' = IF row = "none" THEN "open" ELSE row
        /\ Start(c, call[c].offset)
        /\ Answer(c, "granted")
  /\ UNCHANGED <<source, link, current, task, sink, files, faults, overtook>>

\* _apply_file_finish: size and hash are those the device has verified.
HandleFinish(c) ==
  /\ Asked(c, "finish")
  /\ \/ row = "cancelled" /\ Answer(c, "refused") /\ UNCHANGED row
     \/ row # "cancelled" /\ Answer(c, "finished") /\ row' = "completed"
  /\ UNCHANGED <<source, job, link, stream, current, task, sink, files, faults, overtook>>

\* cancel_transfer and cancel_file: the stream of the transfer is reset, also one
\* whose end was sent: the end may arrive first, or the reset instead of it.
Cancel ==
  /\ row' = "cancelled"
  /\ \/ /\ job.state = "sending" \/ (job.state = "ended" /\ stream.end = "fin")
        /\ job' = Abandoned(job)
        /\ stream' = Reset(stream)
     \/ /\ job.state # "sending"
        /\ UNCHANGED <<job, stream>>

HandleCancel(c) ==
  /\ Asked(c, "cancel")
  /\ \/ row # "completed" /\ Cancel /\ Answer(c, "cancelled")
     \/ row = "completed" /\ Answer(c, "tooLate") /\ UNCHANGED <<row, job, stream>>
  /\ UNCHANGED <<source, link, current, task, sink, files, faults, overtook>>

\* The intent is cancelled by other means than this task.
CancelElsewhere ==
  /\ row = "open"
  /\ Fault
  /\ Cancel
  /\ UNCHANGED <<source, link, call, current, task, sink, files, overtook>>

\* 503 when the transaction fails; 429 for a download while eight are being sent.
FailRequest(c) ==
  /\ link[c] = "up"
  /\ call[c].kind \in Questions
  /\ Fault
  /\ Answer(c, "unavailable")
  /\ UNCHANGED <<server, link, stream, current, task, sink, files, overtook>>

\* The source is lost, cut, extended or overwritten, or restored.
DamageSource ==
  /\ source = "good"
  /\ Fault
  /\ source' \in {"short", "long", "changed"}
  /\ UNCHANGED <<row, job, link, call, stream, current, task, sink, files, overtook>>

RestoreSource ==
  /\ source # "good"
  /\ source' = "good"
  /\ UNCHANGED <<row, job, link, call, stream, current, task, sink, files, faults, overtook>>

\* ConnectionTerminated, for a connection the device has left or one that times out.
NoticeClosed(c) ==
  /\ link[c] = "up"
  /\ link' = [link EXCEPT ![c] = "down"]
  /\ call' = [call EXCEPT ![c] = Idle]
  /\ IF c = current THEN Fault /\ job' = NoJob /\ stream' = NoStream
     ELSE UNCHANGED <<faults, job, stream>>
  /\ UNCHANGED <<row, source, current, task, sink, files, overtook>>

\* The server stops; rows and files stay.
Crash ==
  /\ Fault
  /\ link' = [c \in Links |-> IF link[c] = "up" THEN "down" ELSE link[c]]
  /\ call' = [c \in Links |-> Idle]
  /\ job' = NoJob
  /\ stream' = NoStream
  /\ UNCHANGED <<row, source, current, task, sink, files, overtook>>

-----------------------------------------------------------------------------
(* The device *)

Final == {"completed", "cancelled"}
Whole == [i \in 1 .. Size |-> i]

Connect ==
  /\ current = 0
  /\ task.status \notin Final
  /\ \E c \in Links :
       /\ link[c] = "unused" /\ \A b \in Links : b < c => link[b] # "unused"
       /\ link' = [link EXCEPT ![c] = "up"]
       /\ current' = c
  /\ UNCHANGED <<server, call, stream, task, sink, files, faults, overtook>>

\* The device leaves its connection: stop() and start() forget what is not
\* stored, the server will notice later.
Leave(t) ==
  /\ current' = 0
  /\ task' = [t EXCEPT !.active = FALSE]
  /\ sink' = "none"
  /\ job' = NoJob
  /\ stream' = NoStream
  /\ UNCHANGED <<row, source, link, call, overtook>>

Stay(t) ==
  /\ task' = t
  /\ UNCHANGED <<server, link, call, stream, current, sink, overtook>>

Cancelling == {"cancelling", "cancel_failed"}

\* MiniImFileTaskStore::update: a final status stays, and a cancellation gives way
\* to its own outcome only.
Becomes(status) ==
  IF \/ task.status \in Final
     \/ task.status \in Cancelling /\ status \notin Cancelling \cup {"cancelled"}
  THEN task.status ELSE status

\* mutant: the failure is reported, the task is not marked
Failed_Unmarked(restart) == [task EXCEPT !.restart = restart]

\* failFileTask: what is decided or to be cancelled is left alone.
Failed(restart) ==
  IF task.status \in Final \cup Cancelling \/ ~task.known THEN task
  ELSE [task EXCEPT !.status = "failed", !.restart = restart, !.active = FALSE]

Offset_Anew == 0  \* mutant: an interrupted download begins again

\* The offset a download resumes at.
Offset == IF ~task.known \/ task.restart THEN 0 ELSE Len(staging)

AskFor(kind, offset) ==
  /\ call' = [call EXCEPT ![current] = [kind |-> kind, offset |-> offset]]
  /\ UNCHANGED <<server, link, stream, current, sink, files, faults, overtook>>

\* pumpFileTasks and startFileTask: the request the task's status calls for.
Ask ==
  /\ current # 0 /\ link[current] = "up"
  /\ call[current] = Idle
  /\ \/ /\ task.status = "cancelling"
        /\ AskFor("cancel", 0)
        /\ UNCHANGED task
     \/ /\ task.status = "finishing" /\ target = "good"
        /\ AskFor("finish", 0)
        /\ task' = [task EXCEPT !.active = TRUE]
     \/ /\ task.status = "finishing" /\ target # "good"
        /\ Stay(Failed(FALSE))
        /\ UNCHANGED <<files, faults>>
     \/ /\ task.status \in {"pending", "transferring"} /\ ~task.active
        /\ \/ /\ task.ready /\ target = "good"
              /\ AskFor("finish", 0)
              /\ task' = [task EXCEPT !.status = "finishing", !.active = TRUE]
           \/ /\ ~(task.ready /\ target = "good") /\ Offset > Size
              /\ Stay(Failed(TRUE))
              /\ UNCHANGED <<files, faults>>
           \/ /\ ~(task.ready /\ target = "good") /\ Offset <= Size
              /\ AskFor("init", Offset)
              /\ task' = [task EXCEPT !.active = TRUE]

Answered(kinds) == current # 0 /\ call[current].kind \in kinds
Took(kind) == call' = [call EXCEPT ![current].kind = kind]
Taken == call' = [call EXCEPT ![current] = Idle]

\* handleAck of an initialisation; the transfer's metadata follow.
TakeGrant ==
  /\ Answered({"granted"})
  /\ task' = [task EXCEPT !.status = Becomes("transferring"), !.known = TRUE]
  /\ sink' = "waiting"
  /\ Took("metadata")
  /\ UNCHANGED <<server, link, stream, current, files, faults, overtook>>

\* handleFileUpdated: the staging file is cut to the offset that was asked for.
TakeMetadata ==
  /\ Answered({"metadata"})
  /\ \/ /\ task.status = "failed"
        /\ task' = [task EXCEPT !.ready = TRUE]
        /\ UNCHANGED <<sink, staging>>
     \/ /\ task.status # "failed" /\ Len(staging) >= call[current].offset
        /\ task' = [task EXCEPT !.ready = TRUE]
        /\ sink' = "open"
        /\ staging' = SubSeq(staging, 1, call[current].offset)
     \/ /\ task.status # "failed" /\ Len(staging) < call[current].offset
        /\ task' = [Failed(FALSE) EXCEPT !.ready = TRUE]
        /\ sink' = "failed"
        /\ UNCHANGED staging
  /\ Taken
  /\ UNCHANGED <<server, link, stream, current, target, faults, overtook>>

\* The stream's header, which precedes its bytes, reaches the device.
TakeHeader ==
  /\ current # 0
  /\ job.state = "sending" \/ stream.end # "none"
  /\ ~stream.seen
  /\ stream' = [stream EXCEPT !.seen = TRUE]
  /\ UNCHANGED <<server, link, call, current, task, sink, files, faults, overtook>>

\* append: bytes wait for the sink, and are written as they come; a write may
\* fail half way.
TakeBytes ==
  /\ stream.seen /\ sink = "open"
  /\ \E n \in 1 .. Len(stream.bytes) :
       /\ stream' = [stream EXCEPT !.bytes = SubSeq(@, n + 1, Len(@))]
       /\ \/ /\ staging' = staging \o SubSeq(stream.bytes, 1, n)
             /\ UNCHANGED <<task, sink, faults>>
          \/ /\ Fault
             /\ \E torn \in 0 .. n - 1 : staging' = staging \o SubSeq(stream.bytes, 1, torn)
             /\ task' = Failed(FALSE)
             /\ sink' = "failed"
  /\ UNCHANGED <<server, link, call, current, target, overtook>>

Verified_Size == Len(staging) = Size  \* mutant: only the size is compared

\* finish: size and hash are those announced.
Verified == staging = Whole

\* finishDownload: the verified file replaces the target at once, then the
\* finish request is stored and sent.
TakeEnd ==
  /\ stream.seen /\ stream.bytes = <<>> /\ stream.end = "fin"
  /\ sink = "open"
  /\ call[current] = Idle
  /\ stream' = NoStream
  /\ \/ /\ Verified
        /\ target' = IF staging = Whole THEN "good" ELSE "wrong"
        /\ staging' = <<>>
        /\ sink' = "finished"
        /\ task' = [task EXCEPT !.status = Becomes("finishing")]
        /\ call' = [call EXCEPT ![current] = [kind |-> "finish", offset |-> 0]]
        /\ UNCHANGED faults
     \/ /\ ~Verified
        /\ task' = Failed(Len(staging) = Size)
        /\ sink' = "failed"
        /\ UNCHANGED <<call, files, faults>>
     \/ /\ Verified
        /\ Fault
        /\ task' = Failed(FALSE)
        /\ sink' = "failed"
        /\ UNCHANGED <<call, files>>
  /\ UNCHANGED <<server, link, current, overtook>>

\* The device stops after the target was replaced: the staging file and the
\* task's status are as before.
StopAfterPublishing ==
  /\ stream.seen /\ stream.bytes = <<>> /\ stream.end = "fin"
  /\ sink = "open"
  /\ Verified
  /\ Fault
  /\ target' = "good"
  /\ Leave(task)
  /\ UNCHANGED staging

\* onFileClosed after a reset.  Without the header the device cannot tell whose
\* stream it was, without the answer whose file.
TakeReset ==
  /\ current # 0
  /\ stream.end = "reset"
  /\ IF stream.seen
     THEN /\ task' = Failed(FALSE)
          /\ sink' = IF sink = "none" THEN sink ELSE "failed"
     ELSE UNCHANGED <<task, sink>>
  /\ stream' = NoStream
  /\ overtook' = IF overtook = "answer" \/ (stream.seen /\ sink \notin {"none", "waiting"})
                 THEN overtook
                 ELSE IF stream.seen /\ task.known THEN "answer" ELSE "header"
  /\ UNCHANGED <<server, link, call, current, files, faults>>

\* handleFileResult: what a definite answer makes of the task.
Outcome(kind) ==
  CASE kind = "refused" -> "failed"
    [] kind = "finished" -> "completed"
    [] kind = "cancelled" -> "cancelled"
    [] kind = "tooLate" -> "cancel_failed"

TakeOutcome ==
  /\ Answered({"refused", "finished", "cancelled", "tooLate"})
  /\ task' = [task EXCEPT !.status = Becomes(Outcome(call[current].kind)), !.active = FALSE]
  /\ Taken
  /\ UNCHANGED <<server, link, stream, current, sink, files, faults, overtook>>

\* An answer that calls for patience: a finish or a cancellation is asked again,
\* an initialisation runs into its timeout.
TakePutOff ==
  /\ Answered({"unavailable"})
  /\ \/ /\ task.status \in {"pending", "transferring"}
        /\ current' = 0
        /\ task' = [task EXCEPT !.active = FALSE]
        /\ sink' = "none"
        /\ job' = NoJob /\ stream' = NoStream
     \/ /\ task.status \notin {"pending", "transferring"}
        /\ UNCHANGED <<current, task, sink, job, stream>>
  /\ Taken
  /\ UNCHANGED <<row, source, link, files, faults, overtook>>

\* handleFileUpdated from the event stream, after the answers that precede it.
LearnCancelled ==
  /\ current # 0 /\ link[current] = "up" /\ call[current].kind \notin Answers
  /\ task.known
  /\ task.status \notin Final \cup {"cancelling", "cancel_failed"}
  /\ row = "cancelled"
  /\ Leave([task EXCEPT !.status = "cancelled"])
  /\ UNCHANGED <<files, faults>>

Retry ==
  /\ current # 0
  /\ task.status = "failed"
  /\ Fault
  /\ Leave([task EXCEPT !.status = "pending"])
  /\ UNCHANGED files

\* cancelFile, with or without a connection.
CancelFile ==
  /\ task.status \notin Final \cup {"cancelling"}
  /\ Fault
  /\ Leave([task EXCEPT !.status = "cancelling"])
  /\ UNCHANGED files

\* The connection is lost, or the device stops: task and files survive.
LoseConnection ==
  /\ current # 0
  /\ IF link[current] = "down" THEN UNCHANGED faults ELSE Fault
  /\ Leave(task)
  /\ UNCHANGED files

\* Others remove or change the published file, or the staging file of a task
\* that is not being received: they cut it, extend it or overwrite its end.
DisturbFiles ==
  /\ Fault
  /\ \/ target = "good" /\ target' = "removed" /\ UNCHANGED staging
     \/ /\ sink # "open"
        /\ staging # <<>>
        /\ LET n == Len(staging)
           IN staging' \in {SubSeq(staging, 1, n - 1), [staging EXCEPT ![n] = Bad]}
                \cup {[i \in 1 .. Size + 1 |-> Bad]}
        /\ UNCHANGED target
  /\ UNCHANGED <<server, link, call, stream, current, task, sink, overtook>>

-----------------------------------------------------------------------------

ServerNext ==
  \/ StartRead \/ FinishRead \/ Acknowledge \/ DropJob
  \/ \E c \in Links :
       HandleInit(c) \/ HandleFinish(c) \/ HandleCancel(c) \/ FailRequest(c) \/ NoticeClosed(c)
  \/ CancelElsewhere \/ DamageSource \/ RestoreSource \/ Crash

DeviceNext ==
  \/ Connect \/ Ask \/ TakeGrant \/ TakeMetadata
  \/ TakeHeader \/ TakeBytes \/ TakeEnd \/ StopAfterPublishing \/ TakeReset
  \/ TakeOutcome \/ TakePutOff \/ LearnCancelled \/ Retry \/ CancelFile \/ LoseConnection
  \/ DisturbFiles

Next == ServerNext \/ DeviceNext

Spec == Init /\ [][Next]_vars

\* Both ends and the transport keep running.  Nothing makes a fault, a repair or
\* the user act.
Fairness ==
  /\ WF_vars(StartRead) /\ WF_vars(FinishRead) /\ WF_vars(Acknowledge) /\ WF_vars(DropJob)
  /\ \A c \in Links :
       WF_vars(HandleInit(c)) /\ WF_vars(HandleFinish(c)) /\ WF_vars(HandleCancel(c))
  /\ WF_vars(Connect) /\ WF_vars(Ask) /\ WF_vars(TakeGrant) /\ WF_vars(TakeMetadata)
  /\ WF_vars(TakeHeader) /\ WF_vars(TakeBytes) /\ WF_vars(TakeEnd) /\ WF_vars(TakeReset)
  /\ WF_vars(TakeOutcome) /\ WF_vars(TakePutOff) /\ WF_vars(LearnCancelled)
  /\ WF_vars(LoseConnection /\ link[current] = "down")

FairSpec == Spec /\ Fairness

-----------------------------------------------------------------------------
(* Properties *)

\* However often it was interrupted, resumed or disturbed, what is staged and
\* under way joins up: every unit is at its own place, a job stands where they
\* end, and the end comes after the last unit; except in an attempt whose answer, for
\* a file the device knew, was overtaken by the reset of its stream.  A stream that
\* was reset carries nothing more (DownloadScheduler._run, MiniImDownloadSink::open,
\* append).
StreamJoins ==
  LET all == staging \o stream.bytes
  IN /\ sink = "open" /\ overtook # "answer" =>
          /\ \A i \in DOMAIN all : all[i] \in {i, Bad}
          /\ job.state = "sending" => Len(all) = job.offset
          /\ stream.end = "fin" => Len(all) = Size
     /\ stream.end = "reset" => stream.bytes = <<>>

\* The user's path holds what was there before or the verified file; the server
\* calls a download completed, and the device shows it so, only after that; and
\* a task that is shown as cancelled was cancelled on the server
\* (MiniImDownloadSink::finish, handle_file_finish, handleFileResult).
PublishedIsVerified ==
  /\ target # "wrong"
  /\ row = "completed" => target # "before"
  /\ task.status = "completed" => row = "completed"
  /\ task.status = "cancelled" => row = "cancelled"
  /\ task.status = "cancel_failed" => row = "completed"

\* No step takes back what the server has completed or cancelled, nor, without a
\* fault, the published file or right staged bytes: a resumed download keeps what
\* it has, however late its answers are, unless a wrong file is fetched anew
\* (create_or_resume, startFileTask, MiniImDownloadSink::open).
NothingIsUndone ==
  [][/\ row \in Final => row' = row
     /\ target = "good" /\ faults' = faults => target' = "good"
     /\ /\ Len(staging') < Len(staging)
        /\ faults' = faults
        /\ \A i \in DOMAIN staging : staging[i] = i
        => target' = "good" \/ task.restart \/ overtook = "answer"]_vars

\* What the device tells its user of the outcome.
Shown ==
  CASE task.status \in Final -> task.status
    [] task.status = "cancel_failed" -> "tooLate"
    [] OTHER -> "nothing"

\* The copy is the file at the user's path.
Copy ==
  CASE target = "before" -> "none"
    [] target = "good" -> "whole"
    [] target = "removed" -> "lost"
    [] target = "wrong" -> "wrong"

Decided == IF row \in Final THEN row ELSE "open"

\* The download implements FileDelivery: the verified file appears at once, the
\* server calls a download completed only then, and what the device tells its user
\* is true and final (MiniImDownloadSink::finish, handle_file_finish,
\* MiniImFileTaskStore::update).
Delivery == INSTANCE FileDelivery WITH copy <- Copy, outcome <- Decided, shown <- Shown

DeliverySpec == Delivery!Spec

\* Once faults end, the download comes to an end the device shows, unless a
\* reset overtook the header of its stream or the answer that names its file:
\* such a download may wait for the next connection (pumpFileTasks,
\* DownloadScheduler._run, onFileClosed).
DownloadSettles ==
  \/ <>(overtook # "nothing")
  \/ <>[](task.status \in {"completed", "cancelled", "failed", "cancel_failed"})

=============================================================================
