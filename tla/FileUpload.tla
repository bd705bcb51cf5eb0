---------------------------- MODULE FileUpload ----------------------------
(***************************************************************************)
(* One file on its way from a device to the server: the durable task of    *)
(* the device, its connections one after the other, the lease that lets    *)
(* one byte stream at a time write, the bytes on the server's disk, the    *)
(* transfer's row, and the file message that appears when it is complete.  *)
(*                                                                         *)
(* The device holds one connection, the server may still be reading from   *)
(* older ones (the device left them and the server does not know yet), so  *)
(* requests and bytes of an older connection are handled after those of a  *)
(* newer one.  Connections are numbered as the server numbers them         *)
(* (UploadRegistry.generation).  The bytes of a file are named by their    *)
(* positions, and a byte the device misread is Bad.                        *)
(*                                                                         *)
(* An upload intent is made and kept by one device, so one device is       *)
(* modelled, and the takeover of a lease that was idle for 15 minutes      *)
(* (available, last condition), which only another device needs, is not.   *)
(***************************************************************************)
EXTENDS Integers, Sequences

CONSTANTS
  Size,      \* units of the file
  Commit,    \* units written and committed at once (UPLOAD_COMMIT_BYTES)
  MaxFaults  \* bound: lost connections, crashes, storage failures, bad reads, user's changes of mind

ASSUME UploadAssumption ==
  /\ Size \in Nat \ {0}
  /\ Commit \in Nat \ {0}
  /\ MaxFaults \in Nat

VARIABLES
  row,        \* file_transfers: status and received_bytes
  disk,       \* the bytes at storage_path
  published,  \* file messages appended to the conversation
  stored,     \* per finish request, its stored answer
  lease,      \* UploadRegistry: who may write, from which offset
  link,       \* per connection, whether the server has it open
  call,       \* per connection, the request or answer under way
  stream,     \* per connection, the server's view of its byte stream
  current,    \* the device's connection, 0 for none
  task,       \* the device's file task
  faults

server == <<row, disk, published, stored, lease>>
device == <<current, task>>
vars == <<server, link, call, stream, device, faults>>

-----------------------------------------------------------------------------

\* Every connection but the first follows a fault.
Links == 1 .. MaxFaults + 1
\* Every finish request but the first follows a rejected one.
Finishes == 0 .. MaxFaults
Bad == 0

\* open stands for init, uploading and uploaded; failed for failed_integrity.
\* cancelled is the row's status or, before there is a row, file_cancellations.
Row == [status : {"none", "open", "failed", "completed", "cancelled"}, received : 0 .. Size]

NoLease == [owner |-> 0, offset |-> 0, bound |-> FALSE]
Lease == [owner : Links \cup {0}, offset : 0 .. Size, bound : BOOLEAN]

Questions == {"init", "finish", "cancel"}
Answers == {"granted", "completed", "busy", "unavailable", "refused", "finished", "notYet",
            "cancelled", "tooLate"}
\* no: the finish request's number, or the offset granted.
Idle == [kind |-> "idle", no |-> 0]
Call == [kind : {"idle"} \cup Questions \cup Answers, no : Nat]

\* sending: opened by the device, its header not yet handled; offset as in the
\* header; got: units handled; buffer: those of them not yet written.
NoStream == [state |-> "none", offset |-> 0, got |-> 0, buffer |-> <<>>]
Stream == [state : {"none", "sending", "bound", "rejected", "ended"},
           offset : 0 .. Size, got : 0 .. Size, buffer : Seq(0 .. Size)]

Statuses == {"pending", "transferring", "finishing", "failed", "cancelling", "cancel_failed",
             "completed", "cancelled"}
\* known: the device knows the file id.  finish: the number of its finish request.
Task == [status : Statuses, known : BOOLEAN, finish : Finishes, rejected : BOOLEAN]

TypeOK ==
  /\ row \in Row
  /\ disk \in Seq(0 .. Size) /\ Len(disk) <= Size
  /\ published \in Nat
  /\ stored \in [Finishes -> {"none", "finished", "refused"}]
  /\ lease \in Lease
  /\ link \in [Links -> {"unused", "up", "down"}]
  /\ call \in [Links -> Call]
  /\ stream \in [Links -> Stream]
  /\ current \in Links \cup {0}
  /\ task \in Task
  /\ faults \in 0 .. MaxFaults

Init ==
  /\ row = [status |-> "none", received |-> 0]
  /\ disk = <<>>
  /\ published = 0
  /\ stored = [n \in Finishes |-> "none"]
  /\ lease = NoLease
  /\ link = [c \in Links |-> "unused"]
  /\ call = [c \in Links |-> Idle]
  /\ stream = [c \in Links |-> NoStream]
  /\ current = 0
  /\ task = [status |-> "pending", known |-> FALSE, finish |-> 0, rejected |-> FALSE]
  /\ faults = 0

Fault == faults < MaxFaults /\ faults' = faults + 1

-----------------------------------------------------------------------------
(* The server: the lease and the byte streams *)

\* Mutant: a connection that comes later does not take over.
Available_Waits(c) == lease = NoLease \/ (lease.owner = c /\ ~lease.bound)

\* UploadRegistry.available: nobody writes, or the same device on an older connection.
Available(c) == lease = NoLease \/ (lease.owner = c /\ ~lease.bound) \/ lease.owner < c

Released(c) == IF lease.owner = c THEN NoLease ELSE lease

\* bind: the header names the offset the lease was granted at, once.
Binds(c) == lease.owner = c /\ ~lease.bound /\ lease.offset = stream[c].offset

\* _upload_transfer: the stream's lease is the current one and agrees with the row.
MayWrite(c) ==
  /\ \/ stream[c].state = "sending" /\ Binds(c)
     \/ stream[c].state = "bound" /\ lease.owner = c /\ lease.bound
  /\ row.status = "open"
  /\ row.received = lease.offset

Ended(c, state) == [stream EXCEPT ![c] = [NoStream EXCEPT !.state = state]]

\* What the server handles next of c's stream: units read intact or not, and
\* the end of the stream after the last one; or the flush timer (nothing new).
Arrivals(c) ==
  LET s == stream[c]
      left == Size - s.offset - s.got
  IN [units : {[i \in 1 .. n |-> s.offset + s.got + i] : n \in 1 .. left}
              \cup {[i \in 1 .. n |-> Bad] : n \in 1 .. left} \cup {<<>>},
      end : BOOLEAN]

Arrives(c, a) ==
  /\ link[c] = "up"
  /\ stream[c].state \in {"sending", "bound"}
  /\ a \in Arrivals(c)
  /\ a.end => stream[c].offset + stream[c].got + Len(a.units) = Size
  /\ IF Bad \in {a.units[i] : i \in DOMAIN a.units} THEN Fault ELSE UNCHANGED faults

\* Whole commits are written at once; the rest at the end of the file or of the
\* stream, or when the timer fires.
Writable(buffer, all) == IF all THEN Len(buffer) ELSE Len(buffer) - (Len(buffer) % Commit)

\* Mutant: bytes are appended wherever the file on disk ends.
StorageAgrees_Always == TRUE

\* append_file_chunk opens the file only where the row says it ends.
StorageAgrees == Len(disk) = row.received

\* _reject_file_stream: the lease goes if this stream is the one bound to it.
RejectData(c) ==
  /\ link[c] = "up"
  /\ stream[c].state \in {"sending", "bound"}
  /\ ~MayWrite(c)
  /\ stream' = Ended(c, "rejected")
  /\ lease' = IF stream[c].state = "bound" \/ Binds(c) THEN Released(c) ELSE lease
  /\ UNCHANGED <<row, disk, published, stored, link, call, device, faults>>

\* _handle_file_stream_data and _flush_upload_buffer: a commit at a time is
\* written, synchronised and recorded, and the lease moves with it.
HandleData(c) ==
  \E a \in Arrivals(c) :
    LET buffer == stream[c].buffer \o a.units
        got == stream[c].got + Len(a.units)
        timer == a.units = <<>>
        k == Writable(buffer, timer \/ a.end \/ stream[c].offset + got = Size)
    IN /\ Arrives(c, a)
       /\ timer => a.end \/ buffer # <<>>
       /\ MayWrite(c)
       /\ k > 0 => StorageAgrees
       /\ disk' = disk \o SubSeq(buffer, 1, k)
       /\ row' = [row EXCEPT !.received = @ + k]
       /\ lease' = IF a.end /\ row'.received # Size THEN NoLease
                   ELSE [owner |-> c, offset |-> row'.received, bound |-> TRUE]
       /\ stream' = IF a.end THEN Ended(c, "ended")
                    ELSE [stream EXCEPT ![c] = [@ EXCEPT !.state = "bound", !.got = got,
                                                         !.buffer = SubSeq(buffer, k + 1, Len(buffer))]]
       /\ UNCHANGED <<published, stored, link, call, device>>

\* Mutant: the lease of a closed connection is not released.
Drops_KeepsLease(c) ==
  /\ link' = [link EXCEPT ![c] = "down"]
  /\ lease' = lease
  /\ stream' = [stream EXCEPT ![c] = NoStream]
  /\ call' = [call EXCEPT ![c] = Idle]

\* The server closes c, or notices that it is closed.
Drops(c) ==
  /\ link' = [link EXCEPT ![c] = "down"]
  /\ lease' = Released(c)
  /\ stream' = [stream EXCEPT ![c] = NoStream]
  /\ call' = [call EXCEPT ![c] = Idle]

\* A write fails after some commits, with a part of the next one on the disk, or
\* all of it there and the row not updated.  The connection is closed.
StorageFails(c) ==
  /\ link[c] = "up"
  /\ MayWrite(c) /\ StorageAgrees
  /\ Fault
  /\ \E n \in 0 .. Size - stream[c].offset - stream[c].got :
       LET buffer == stream[c].buffer \o [i \in 1 .. n |-> stream[c].offset + stream[c].got + i]
       IN \E done \in {j \in 0 .. Len(buffer) - 1 : j % Commit = 0} :
            \E torn \in 0 .. (IF Len(buffer) - done < Commit THEN Len(buffer) - done ELSE Commit) :
              /\ disk' = disk \o SubSeq(buffer, 1, done + torn)
              /\ row' = [row EXCEPT !.received = @ + done]
  /\ Drops(c)
  /\ UNCHANGED <<published, stored, device>>

\* append_file_chunk finds a file that has not the length the row says: nothing
\* is written, and the connection is closed too.
StorageDiverged(c) ==
  /\ link[c] = "up"
  /\ MayWrite(c) /\ ~StorageAgrees
  /\ Drops(c)
  /\ UNCHANGED <<row, disk, published, stored, device, faults>>

\* StreamReset: the device gave the stream up with the connection.
ResetStream(c) ==
  /\ link[c] = "up"
  /\ c # current
  /\ stream[c].state \in {"sending", "bound"}
  /\ stream' = Ended(c, "rejected")
  /\ lease' = IF stream[c].state = "bound" THEN Released(c) ELSE lease
  /\ UNCHANGED <<row, disk, published, stored, link, call, device, faults>>

-----------------------------------------------------------------------------
(* The server: requests *)

\* The answer, which only the device's own connection delivers.
Answer(c, kind, no) ==
  call' = [call EXCEPT ![c] = IF c = current THEN [kind |-> kind, no |-> no] ELSE Idle]

Asked(c, kind) == link[c] = "up" /\ call[c].kind = kind

\* _reconcile_upload: what both the disk and the row vouch for.
Boundary == IF Len(disk) < row.received THEN Len(disk) ELSE row.received

Truncated == SubSeq(disk, 1, Boundary)

\* file_init: the transfer is created or resumed where disk and row agree, and
\* the lease is granted there, taking it from an older connection.
HandleInit(c) ==
  /\ Asked(c, "init")
  /\ \/ /\ ~Available(c)
        /\ Answer(c, "busy", 0)
        /\ UNCHANGED <<row, disk, lease>>
     \/ /\ Available(c)
        /\ row.status = "cancelled"
        /\ Answer(c, "refused", 0)
        /\ UNCHANGED <<row, disk, lease>>
     \/ /\ Available(c)
        /\ row.status = "completed"
        /\ Answer(c, "completed", 0)
        /\ UNCHANGED <<row, disk, lease>>
     \/ /\ Available(c)
        /\ row.status \in {"none", "open", "failed"}
        /\ disk' = Truncated
        /\ row' = [status |-> "open", received |-> Boundary]
        /\ lease' = [owner |-> c, offset |-> Boundary, bound |-> FALSE]
        /\ Answer(c, "granted", Boundary)
  /\ UNCHANGED <<published, stored, link, stream, device, faults>>

\* _verify_file_sha256: the device's digest is that of the intact file.
Verifies == disk = [i \in 1 .. Size |-> i]

\* rewind_upload with integrity_failed: the next attempt starts from the beginning.
Rewound == [status |-> "failed", received |-> 0]

\* file_finish on a transfer that is not completed: refused for ever once
\* cancelled, later (not stored) while bytes are missing, rejected with a new
\* start if the bytes are wrong; otherwise completed and published.
Finish(c, no) ==
  \/ /\ row.status = "cancelled"
     /\ stored' = [stored EXCEPT ![no] = "refused"]
     /\ Answer(c, "refused", 0)
     /\ UNCHANGED <<row, published, lease>>
  \/ /\ row.status \in {"open", "failed"}
     /\ row.received # Size
     /\ Answer(c, "notYet", 0)
     /\ UNCHANGED <<row, published, stored, lease>>
  \/ /\ row.status \in {"open", "failed"}
     /\ row.received = Size
     /\ ~Verifies
     /\ row' = Rewound
     /\ lease' = Released(c)
     /\ stored' = [stored EXCEPT ![no] = "refused"]
     /\ Answer(c, "refused", 0)
     /\ UNCHANGED published
  \/ /\ row.status \in {"open", "failed"}
     /\ row.received = Size
     /\ Verifies
     /\ row' = [row EXCEPT !.status = "completed"]
     /\ published' = published + 1
     /\ lease' = Released(c)
     /\ stored' = [stored EXCEPT ![no] = "finished"]
     /\ Answer(c, "finished", 0)

\* Mutant: a finish that was answered is applied again, message and all.
HandleFinish_Again(c) ==
  /\ Asked(c, "finish")
  /\ lease.owner \in {0, c}
  /\ IF row.status = "completed"
     THEN /\ published' = published + 1
          /\ Answer(c, "finished", 0)
          /\ UNCHANGED <<row, stored, lease>>
     ELSE Finish(c, call[c].no)
  /\ UNCHANGED <<disk, link, stream, device, faults>>

\* file_finish: only while nobody else holds the lease; an answered request is
\* answered again from the record.
HandleFinish(c) ==
  /\ Asked(c, "finish")
  /\ LET no == call[c].no
     IN \/ /\ lease.owner \notin {0, c}
           /\ Answer(c, "busy", 0)
           /\ UNCHANGED <<row, published, stored, lease>>
        \/ /\ lease.owner \in {0, c}
           /\ stored[no] # "none"
           /\ Answer(c, stored[no], 0)
           /\ lease' = IF stored[no] = "finished" THEN Released(c) ELSE lease
           /\ UNCHANGED <<row, published, stored>>
        \/ /\ lease.owner \in {0, c}
           /\ stored[no] = "none"
           /\ row.status # "completed"
           /\ Finish(c, no)
        \/ /\ lease.owner \in {0, c}
           /\ stored[no] = "none"
           /\ row.status = "completed"
           /\ stored' = [stored EXCEPT ![no] = "finished"]
           /\ lease' = Released(c)
           /\ Answer(c, "finished", 0)
           /\ UNCHANGED <<row, published>>
  /\ UNCHANGED <<disk, link, stream, device, faults>>

\* Mutant: cancelling does not look at what has been completed.
Cancellable_Always == TRUE

Cancellable == row.status # "completed"

\* cancel_transfer and cancel_file: the transfer ends, and with it its lease
\* and the streams that were writing it.
Cancel ==
  /\ row' = [row EXCEPT !.status = "cancelled"]
  /\ lease' = NoLease
  /\ stream' = [c \in Links |-> IF stream[c].state = "bound"
                               THEN [NoStream EXCEPT !.state = "rejected"] ELSE stream[c]]
  /\ UNCHANGED <<disk, published, stored, link>>

HandleCancel(c) ==
  /\ Asked(c, "cancel")
  /\ \/ /\ Cancellable
        /\ Cancel
        /\ Answer(c, "cancelled", 0)
     \/ /\ ~Cancellable
        /\ Answer(c, "tooLate", 0)
        /\ UNCHANGED <<server, link, stream>>
  /\ UNCHANGED <<device, faults>>

\* The storage or the database fails under a request: 503, and the transaction
\* is rolled back; a file that was to be resumed may have been truncated.
FailRequest(c) ==
  /\ link[c] = "up"
  /\ call[c].kind \in Questions
  /\ Fault
  /\ Answer(c, "unavailable", 0)
  /\ \/ UNCHANGED disk
     \/ call[c].kind = "init" /\ row.status \in {"open", "failed"} /\ Available(c) /\ disk' = Truncated
  /\ UNCHANGED <<row, published, stored, lease, link, stream, device>>

\* ConnectionTerminated, for a connection the device has left or one that times out.
NoticeClosed(c) ==
  /\ link[c] = "up"
  /\ IF c = current THEN Fault ELSE UNCHANGED faults
  /\ Drops(c)
  /\ UNCHANGED <<row, disk, published, stored, device>>

\* The server stops: leases and connections go, rows and bytes stay.
Crash ==
  /\ Fault
  /\ link' = [c \in Links |-> IF link[c] = "up" THEN "down" ELSE link[c]]
  /\ lease' = NoLease
  /\ stream' = [c \in Links |-> NoStream]
  /\ call' = [c \in Links |-> Idle]
  /\ UNCHANGED <<row, disk, published, stored, device>>

\* The end of an unfinished file is lost on the server's disk (a restored backup).
LoseBytes ==
  /\ row.status \in {"open", "failed"}
  /\ disk # <<>>
  /\ Fault
  /\ \E n \in 0 .. Len(disk) - 1 : disk' = SubSeq(disk, 1, n)
  /\ UNCHANGED <<row, published, stored, lease, link, call, stream, device>>

\* The intent is cancelled by other means than this task (handleFileUpdated,
\* "file task cancelled remotely").
CancelElsewhere ==
  /\ Cancellable
  /\ row.status # "cancelled"
  /\ Fault
  /\ Cancel
  /\ UNCHANGED <<call, device>>

-----------------------------------------------------------------------------
(* The device *)

Final == {"completed", "cancelled"}

\* start(): a connection is established; an upload that was finishing asks the
\* server first what it has.
Connect ==
  /\ current = 0
  /\ task.status \notin Final
  /\ \E c \in Links :
       /\ link[c] = "unused" /\ \A b \in Links : b < c => link[b] # "unused"
       /\ link' = [link EXCEPT ![c] = "up"]
       /\ current' = c
  /\ task' = [task EXCEPT !.status = IF @ = "finishing" THEN "pending" ELSE @]
  /\ UNCHANGED <<server, call, stream, faults>>

\* The device restarts its connection; the server will notice later.
Restart == current' = 0

\* pumpFileTasks: the request the task's status calls for.
Ask ==
  /\ current # 0 /\ link[current] = "up"
  /\ call[current] = Idle
  /\ \/ /\ task.status \in {"pending", "transferring"}
        /\ stream[current].state = "none"
        /\ call' = [call EXCEPT ![current] = [kind |-> "init", no |-> 0]]
     \/ /\ task.status = "finishing"
        /\ call' = [call EXCEPT ![current] = [kind |-> "finish", no |-> task.finish]]
     \/ /\ task.status = "cancelling"
        /\ call' = [call EXCEPT ![current] = [kind |-> "cancel", no |-> 0]]
  /\ UNCHANGED <<server, link, stream, device, faults>>

Answered(kinds) == current # 0 /\ call[current].kind \in kinds
Taken == call' = [call EXCEPT ![current] = Idle]

\* handleFileUpdated after an initialisation: the source is read again, and sent
\* from the granted offset if it is still what was announced.
OpenStream ==
  /\ Answered({"granted"})
  /\ task.status \in {"pending", "transferring"}
  /\ \/ /\ task' = [task EXCEPT !.status = "transferring", !.known = TRUE]
        /\ stream' = [stream EXCEPT ![current] = [NoStream EXCEPT !.state = "sending",
                                                                 !.offset = call[current].no]]
        /\ UNCHANGED faults
     \/ /\ Fault
        /\ task' = [task EXCEPT !.status = "failed", !.known = TRUE]
        /\ UNCHANGED stream
  /\ Taken
  /\ UNCHANGED <<server, link, current>>

\* onUploadFinished: the transport took everything.  The server may have
\* rejected the stream meanwhile.
AllSent ==
  /\ current # 0 /\ link[current] = "up"
  /\ call[current] = Idle
  /\ task.status = "transferring"
  /\ stream[current].state \in {"ended", "rejected"}
  /\ task' = [task EXCEPT !.status = "finishing"]
  /\ UNCHANGED <<server, link, call, stream, current, faults>>

\* onUploadFinished without success.
StreamFailed ==
  /\ current # 0
  /\ task.status = "transferring"
  /\ stream[current].state = "rejected"
  /\ Restart
  /\ UNCHANGED <<server, link, call, stream, task, faults>>

\* Mutant: whatever the answer, a cancellation that was answered is done.
Outcome_AlwaysCancelled(kind) ==
  CASE kind = "refused" -> "failed"
    [] kind \in {"completed", "finished"} -> "completed"
    [] kind \in {"cancelled", "tooLate"} -> "cancelled"

\* handleFileResult: what a definite answer makes of the task.
Outcome(kind) ==
  CASE kind = "refused" -> "failed"
    [] kind \in {"completed", "finished"} -> "completed"
    [] kind = "cancelled" -> "cancelled"
    [] kind = "tooLate" -> "cancel_failed"

TakeOutcome ==
  /\ Answered({"refused", "completed", "finished", "cancelled", "tooLate"})
  /\ task' = IF task.status \in Final THEN task
             ELSE [task EXCEPT !.status = Outcome(call[current].kind),
                               !.known = @ \/ call[current].kind = "completed",
                               !.rejected = IF call[current].kind = "refused"
                                            THEN task.status = "finishing" ELSE @]
  /\ Taken
  /\ UNCHANGED <<server, link, stream, current, faults>>

\* An answer that calls for patience: a finish or a cancellation is asked again,
\* an initialisation runs into its timeout and the connection is restarted.
TakePutOff ==
  /\ Answered({"busy", "unavailable", "notYet"})
  /\ Taken
  /\ IF task.status \in {"pending", "transferring"} THEN Restart ELSE UNCHANGED current
  /\ UNCHANGED <<server, link, stream, task, faults>>

\* handleFileUpdated from the event stream, after the answers that precede it.
LearnOutcome ==
  /\ current # 0 /\ link[current] = "up" /\ call[current].kind \notin Answers
  /\ task.known
  /\ task.status \notin Final \cup {"cancelling", "cancel_failed"}
  /\ row.status \in Final
  /\ task' = [task EXCEPT !.status = row.status]
  /\ IF row.status = "cancelled" THEN Restart ELSE UNCHANGED current
  /\ UNCHANGED <<server, link, call, stream, faults>>

\* retryFile: a rejected completion is asked for anew, everything else resumes.
Retry ==
  /\ current # 0
  /\ task.status = "failed"
  /\ Fault
  /\ task' = [task EXCEPT !.status = "pending", !.rejected = FALSE,
                          !.finish = IF task.rejected THEN @ + 1 ELSE @]
  /\ Restart
  /\ UNCHANGED <<server, link, call, stream>>

\* cancelFile, with or without a connection.
CancelFile ==
  /\ task.status \notin Final \cup {"cancelling"}
  /\ Fault
  /\ task' = [task EXCEPT !.status = "cancelling"]
  /\ Restart
  /\ UNCHANGED <<server, link, call, stream>>

\* The connection is lost, or the device stops: the task survives.
LoseConnection ==
  /\ current # 0
  /\ IF link[current] = "down" THEN UNCHANGED faults ELSE Fault
  /\ Restart
  /\ UNCHANGED <<server, link, call, stream, task>>

-----------------------------------------------------------------------------

ServerNext ==
  \/ \E c \in Links :
       \/ RejectData(c) \/ HandleData(c) \/ StorageFails(c) \/ StorageDiverged(c) \/ ResetStream(c)
       \/ HandleInit(c) \/ HandleFinish(c) \/ HandleCancel(c) \/ FailRequest(c)
       \/ NoticeClosed(c)
  \/ Crash \/ LoseBytes \/ CancelElsewhere

DeviceNext ==
  \/ Connect \/ Ask \/ OpenStream \/ AllSent \/ StreamFailed \/ TakeOutcome \/ TakePutOff
  \/ LearnOutcome \/ Retry \/ CancelFile \/ LoseConnection

Next == ServerNext \/ DeviceNext

Spec == Init /\ [][Next]_vars

\* Both ends keep running: the server handles what its connections bring, and
\* the device's timer and callbacks run.  Nothing makes a fault or its user act.
Fairness ==
  /\ \A c \in Links :
       /\ WF_vars(RejectData(c)) /\ WF_vars(HandleData(c)) /\ WF_vars(StorageDiverged(c))
       /\ WF_vars(HandleInit(c)) /\ WF_vars(HandleFinish(c)) /\ WF_vars(HandleCancel(c))
  /\ WF_vars(Connect) /\ WF_vars(Ask) /\ WF_vars(OpenStream) /\ WF_vars(AllSent)
  /\ WF_vars(StreamFailed) /\ WF_vars(TakeOutcome) /\ WF_vars(TakePutOff)
  /\ WF_vars(LoseConnection /\ link[current] = "down")

FairSpec == Spec /\ Fairness

-----------------------------------------------------------------------------
(* Properties *)

\* A completed transfer is the device's file, whole and in order, and has one
\* file message; no other transfer has any (handle_file_finish: verification,
\* status and message in one transaction).
PublishedIsWhole ==
  /\ row.status = "completed" => disk = [i \in 1 .. Size |-> i]
  /\ published = (IF row.status = "completed" THEN 1 ELSE 0)

\* Whatever failed, crashed or arrived late, a byte on the disk is at its own
\* place: nothing was skipped, repeated or appended after remains of a write
\* (append_file_chunk, _reconcile_upload).
BytesAreInPlace == \A i \in DOMAIN disk : disk[i] \in {i, Bad}

\* The lease tells the truth: its owner is connected, the transfer is open, and
\* it is at the offset the row says (UploadRegistry against file_transfers).
LeaseAgrees ==
  lease # NoLease =>
    /\ link[lease.owner] = "up"
    /\ row.status = "open"
    /\ row.received = lease.offset

\* What the device shows as completed, cancelled, or too late to cancel is so on
\* the server (MiniImFileTaskStore::update keeps final states).
DeviceShowsTheTruth ==
  /\ task.status = "completed" => row.status = "completed"
  /\ task.status = "cancelled" => row.status = "cancelled"
  /\ task.status = "cancel_failed" => row.status = "completed"

\* Nothing achieved is undone.  A completed or cancelled transfer stays what it
\* is, bytes included, however late a request or a piece of the stream comes
\* (apply_finish, cancel_transfer); and recorded progress is lost only with the
\* bytes themselves: to what is left on the disk, or to nothing when the whole
\* file turned out wrong (rewind_upload).
NothingIsUndone ==
  [][/\ row.status \in Final => row' = row /\ (row.status = "completed" => disk' = disk)
     /\ row'.received < row.received =>
          \/ row'.received = Len(disk)
          \/ row.received = Size /\ row'.status = "failed" /\ ~Verifies]_vars

\* What the device tells its user of the outcome.
Shown ==
  CASE task.status \in Final -> task.status
    [] task.status = "cancel_failed" -> "tooLate"
    [] OTHER -> "nothing"

\* The copy its readers see is the message with the file behind it.
Copy ==
  CASE published = 0 -> "none"
    [] published = 1 /\ Verifies -> "whole"
    [] OTHER -> "wrong"

Decided == IF row.status \in Final THEN row.status ELSE "open"

\* The upload implements FileDelivery: the message appears with the whole file and
\* the decision, once, and what the device tells its user of it is true and final
\* (handle_file_finish, cancel_transfer, MiniImFileTaskStore::update).
Delivery == INSTANCE FileDelivery WITH copy <- Copy, outcome <- Decided, shown <- Shown

DeliverySpec == Delivery!Spec

\* Once faults end, the upload comes to an end the device shows: completed,
\* cancelled, or failed for its user to decide.
UploadSettles ==
  <>[](task.status \in {"completed", "cancelled", "failed", "cancel_failed"})

=============================================================================
