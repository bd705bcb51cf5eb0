------------------------ MODULE FileDownloadProofs ------------------------
(***************************************************************************)
(* Proofs about FileDownload: its inductive invariant, the invariants and  *)
(* the action property the run states, for files of any size, any size of  *)
(* read and of window, and any number of faults.                           *)
(***************************************************************************)
EXTENDS FileDownload, TLAPS

-----------------------------------------------------------------------------
(* The inductive invariant *)

\* What the thread read is the piece ahead of the job and fits the window; a job
\* that sends has not ended its stream, and a reset one carries nothing.
JobIsSound ==
    /\ job.state = "none" => job = NoJob
    /\ ~job.reading => job.read = <<>>
    /\ Len(job.read) + job.unacked <= Limit
    /\ \A i \in DOMAIN job.read : job.read[i] \in {job.offset + i, Bad}
    /\ job.state = "sending" => stream.end = "none"
    /\ stream.end = "reset" => stream.bytes = <<>>

\* Job, stream and sink belong to a connection, and only a file the device knows
\* has a sink or staged bytes.
EndsAreSound ==
    /\ current = 0 => job = NoJob /\ stream = NoStream /\ sink = "none"
    /\ current # 0 => link[current] # "unused"
    /\ \A c \in Links : link[c] = "unused" => call[c] = Idle
    /\ ~task.known => sink = "none" /\ staging = <<>>
    /\ \A c \in Links : call[c].kind = "metadata" => task.known

\* A download is finished only after its publication, and an answer under way is
\* still true.
AnswersAreTrue == \A c \in Links :
    /\ call[c].kind \in {"finish", "finished"} => target # "before"
    /\ call[c].kind \in {"finished", "tooLate"} => row = "completed"
    /\ call[c].kind = "cancelled" => row = "cancelled"

\* What is under way continues a file of n units.
Continues(n) ==
    /\ \A i \in DOMAIN stream.bytes : stream.bytes[i] \in {n + i, Bad}
    /\ job.state = "sending" => n + Len(stream.bytes) = job.offset
    /\ stream.end = "fin" => n + Len(stream.bytes) = Size

\* Nothing was asked for yet on this connection.
Fresh == job = NoJob /\ stream = NoStream /\ sink = "none"

Opening == {"init", "granted", "metadata"}

\* Where the conversation on the current connection stands: each of its steps finds
\* the job, the stream and the sink where the one before left them, and the staged
\* bytes no longer than the offset asked for, unless they were all replaced.
ConversationIsInStep ==
    LET asked == call[current]
    IN /\ asked.kind \in Opening => task.active /\ task.status \in {"pending", "transferring"}
       /\ asked.kind = "init" => Fresh
       /\ asked.kind = "granted" => sink = "none"
       /\ asked.kind = "metadata" => sink = "waiting" /\ task.status = "transferring"
       /\ asked.kind \in Opening => Continues(asked.offset)
       /\ asked.kind \in Opening /\ ~task.restart /\ Len(staging) > asked.offset =>
            \A i \in DOMAIN staging : staging[i] = Bad
       /\ sink = "open" =>
            /\ task.active /\ task.status = "transferring"
            /\ asked = Idle
            /\ Continues(Len(staging))
       /\ task.status \in {"pending", "transferring"} /\ ~task.active => Fresh /\ asked = Idle

\* Unless a reset overtook the answer that names the file.
AttemptIsInStep == overtook # "answer" =>
    /\ \A i \in DOMAIN staging : staging[i] \in {i, Bad}
    /\ current = 0 => ~task.active
    /\ current # 0 => ConversationIsInStep

Inductive ==
    /\ TypeOK
    /\ JobIsSound
    /\ EndsAreSound
    /\ AnswersAreTrue
    /\ PublishedIsVerified
    /\ AttemptIsInStep

-----------------------------------------------------------------------------
(* Facts about sequences and the operators of the model *)

LEMMA Cut ==
    ASSUME NEW S, NEW s \in Seq(S), NEW a \in 1 .. Len(s) + 1, NEW b \in a - 1 .. Len(s)
    PROVE  /\ SubSeq(s, a, b) \in Seq(S) /\ Len(SubSeq(s, a, b)) = b - a + 1
           /\ \A i \in 1 .. b - a + 1 : SubSeq(s, a, b)[i] = s[a + i - 1]
<1>1. Len(s) \in Nat
    OBVIOUS
<1>2. SubSeq(s, a, b) \in Seq(S) /\ Len(SubSeq(s, a, b)) = b - a + 1
    BY <1>1
<1> QED
    BY <1>1, <1>2

\* The source is a unit short, a unit long or of the file's size.
LEMMA SourcesAreClose ==
    ASSUME TypeOK
    PROVE  SourceLength[source] \in {Size - 1, Size, Size + 1}
BY DownloadAssumption DEF TypeOK, SourceLength

\* The chunk a job reads is the piece of the source ahead of it, and fits the window.
LEMMA ChunkIsAhead ==
    ASSUME TypeOK, job.unacked < Limit
    PROVE  /\ Ahead \in Seq(0 .. Size + 1)
           /\ Len(Ahead) + job.unacked <= Limit
           /\ \A i \in DOMAIN Ahead : Ahead[i] \in {job.offset + i, Bad}
<1>1. PICK o, u, w, size : o = job.offset /\ u = job.unacked /\ w = Limit /\ size = SourceLength[source]
    OBVIOUS
<1>2. /\ o = job.offset /\ u = job.unacked /\ w = Limit /\ size = SourceLength[source]
      /\ o \in Nat /\ u \in Nat /\ w \in Nat /\ size \in Int /\ size <= Size + 1
      /\ Chunk \in Nat /\ Size \in Nat /\ u < w
    BY <1>1, SourcesAreClose, DownloadAssumption DEF TypeOK, Job
<1>3. PICK n : n = Smaller(Smaller(Chunk, w - u), size - o)
    OBVIOUS
<1>4. n \in Int /\ n <= w - u /\ n <= size - o
    BY <1>2, <1>3 DEF Smaller
<1>5. Ahead = [i \in 1 .. n |-> At(o + i)]
    BY <1>2, <1>3 DEF Ahead
<1>6. PICK k \in Nat : 1 .. n = 1 .. k /\ k <= w - u /\ (k = 0 \/ k <= size - o)
  <2>1. CASE n >= 0
      BY <1>4, <2>1
  <2>2. CASE n < 0
    <3>1. 1 .. n = 1 .. 0 /\ 0 <= w - u
        BY <1>2, <1>4, <2>2
    <3> QED
        BY <3>1
  <2> QED
      BY <1>4, <2>1, <2>2
<1>7. \A i \in 1 .. k : At(o + i) \in {o + i, Bad} /\ At(o + i) \in 0 .. Size + 1
    BY <1>2, <1>6, SMTT(30) DEF At, Bad
<1>8. Ahead = [i \in 1 .. k |-> At(o + i)]
    BY <1>5, <1>6
<1>9. Ahead \in Seq(0 .. Size + 1) /\ Len(Ahead) = k /\ DOMAIN Ahead = 1 .. k
    BY <1>6, <1>7, <1>8
<1> QED
    BY <1>2, <1>6, <1>7, <1>8, <1>9

-----------------------------------------------------------------------------
(* What the assignments of the model do to its records *)

JobStates == {"none", "sending", "ended"}
StreamEnds == {"none", "fin", "reset"}

LEMMA JobWithRead ==
    ASSUME NEW j \in Job, NEW k, k = [j EXCEPT !.reading = FALSE, !.read = <<>>]
    PROVE  /\ k \in Job /\ k.state = j.state /\ k.offset = j.offset /\ k.unacked = j.unacked
           /\ ~k.reading /\ k.read = <<>>
<1>1. PICK b \in BOOLEAN : ~b
    OBVIOUS
<1>2. PICK r : r = <<>>
    OBVIOUS
<1>0. r \in Seq(0 .. Size + 1)
    BY <1>2
<1>3. k = [j EXCEPT !.reading = b, !.read = r]
    BY <1>1, <1>2
<1>4. /\ k \in Job /\ k.state = j.state /\ k.offset = j.offset /\ k.unacked = j.unacked
      /\ k.reading = b /\ k.read = r
    BY <1>0, <1>3, DownloadAssumption DEF Job
<1> QED
    BY <1>1, <1>2, <1>4

LEMMA AbandonedJob ==
    ASSUME NEW j \in Job
    PROVE  /\ Abandoned(j) \in Job
           /\ Abandoned(j).state = "ended" /\ Abandoned(j).unacked = 0
           /\ Abandoned(j).offset = j.offset /\ Abandoned(j).reading = j.reading
           /\ Abandoned(j).read = j.read
<1>1. PICK u \in 0 .. Limit, s \in JobStates : u = 0 /\ s = "ended"
    BY DownloadAssumption DEF JobStates
<1>2. PICK k : k = [j EXCEPT !.state = s, !.unacked = u]
    OBVIOUS
<1>3. /\ k \in Job /\ k.state = s /\ k.offset = j.offset /\ k.unacked = u
      /\ k.reading = j.reading /\ k.read = j.read
    BY <1>2, DownloadAssumption DEF Job, JobStates
<1>4. k = Abandoned(j)
    BY <1>1, <1>2 DEF Abandoned
<1> QED
    BY <1>1, <1>3, <1>4

LEMMA ResetStream ==
    ASSUME NEW s \in Stream
    PROVE  /\ Reset(s) \in Stream
           /\ Reset(s).bytes = <<>> /\ Reset(s).end = "reset" /\ Reset(s).seen = s.seen
<1>1. PICK b : b = <<>>
    OBVIOUS
<1>0. PICK e \in StreamEnds : e = "reset"
    BY DEF StreamEnds
<1>5. b \in Seq(0 .. Size)
    BY <1>1
<1>2. PICK k : k = [s EXCEPT !.bytes = b, !.end = e]
    OBVIOUS
<1>3. k \in Stream /\ k.bytes = b /\ k.end = e /\ k.seen = s.seen
    BY <1>2, <1>5 DEF Stream, StreamEnds
<1>4. k = Reset(s)
    BY <1>0, <1>1, <1>2 DEF Reset
<1> QED
    BY <1>0, <1>1, <1>3, <1>4

LEMMA EmptyRecords ==
    /\ NoJob \in Job /\ NoStream \in Stream /\ Idle \in Call
    /\ NoJob.state = "none" /\ NoJob.offset = 0 /\ NoJob.unacked = 0
    /\ ~NoJob.reading /\ NoJob.read = <<>>
    /\ NoStream.bytes = <<>> /\ NoStream.end = "none" /\ ~NoStream.seen
    /\ Idle.kind = "idle" /\ Idle.offset = 0
BY DownloadAssumption DEF NoJob, NoStream, Idle, Job, Stream, Call

LEMMA StartedJob ==
    ASSUME NEW o \in 0 .. Size, NEW k, k = [NoJob EXCEPT !.state = "sending", !.offset = o]
    PROVE  /\ k \in Job /\ k.state = "sending" /\ k.offset = o /\ k.unacked = 0
           /\ ~k.reading /\ k.read = <<>>
<1>1. PICK j \in Job, s \in JobStates : j = NoJob /\ s = "sending"
    BY EmptyRecords DEF JobStates
<1>2. k = [j EXCEPT !.state = s, !.offset = o]
    BY <1>1
<1>3. /\ k \in Job /\ k.state = s /\ k.offset = o /\ k.unacked = j.unacked
      /\ k.reading = j.reading /\ k.read = j.read
    BY <1>2, DownloadAssumption DEF Job, JobStates
<1> QED
    BY <1>1, <1>3, EmptyRecords

\* An answer changes the kind of the one call it answers.
LEMMA OneCallIsAnswered ==
    ASSUME call \in [Links -> Call], NEW c \in Links, NEW kind \in Questions \cup Answers,
           call' = [call EXCEPT ![c].kind = kind]
    PROVE  /\ call' \in [Links -> Call]
           /\ call'[c].kind = kind /\ call'[c].offset = call[c].offset
           /\ \A b \in Links \ {c} : call'[b] = call[b]
<1>1. call[c] \in Call /\ [call[c] EXCEPT !.kind = kind] \in Call
    BY DEF Call
<1>2. call' = [call EXCEPT ![c] = [call[c] EXCEPT !.kind = kind]]
    OBVIOUS
<1>3. call'[c] = [call[c] EXCEPT !.kind = kind] /\ \A b \in Links \ {c} : call'[b] = call[b]
    BY <1>2
<1> QED
    BY <1>1, <1>2, <1>3 DEF Call

LEMMA OneCallIsMade ==
    ASSUME call \in [Links -> Call], NEW c \in Links, NEW r \in Call, call' = [call EXCEPT ![c] = r]
    PROVE  /\ call' \in [Links -> Call] /\ call'[c] = r
           /\ \A b \in Links \ {c} : call'[b] = call[b]
OBVIOUS

LEMMA PieceFits ==
    ASSUME NEW r \in Seq(0 .. Size + 1), NEW f \in 0 .. Size, f + Len(r) <= Size,
           \A i \in 1 .. Len(r) : r[i] \in {f + i, Bad}
    PROVE  r \in Seq(0 .. Size)
<1>1. Size \in Nat /\ Len(r) \in Nat
    BY DownloadAssumption
<1>2. ASSUME NEW i \in 1 .. Len(r) PROVE r[i] \in 0 .. Size
  <2>1. r[i] = f + i \/ r[i] = 0
      BY DEF Bad
  <2>2. f + i \in 0 .. Size /\ 0 \in 0 .. Size
      BY <1>1
  <2> QED
      BY <2>1, <2>2
<1> QED
    BY <1>1, <1>2

\* A chunk that is sent moves the job and its stream on; an empty one ends both.
LEMMA AfterSending ==
    ASSUME TypeOK, JobIsSound, FinishRead, MaySend,
           ~((Len(job.read) = 0 /\ job.offset # Size) \/ job.offset + Len(job.read) > Size)
    PROVE  /\ job' \in Job /\ stream' \in Stream
           /\ job'.offset = job.offset + Len(job.read)
           /\ ~job'.reading /\ job'.read = <<>>
           /\ job'.state = IF Len(job.read) = 0 THEN "ended" ELSE "sending"
           /\ stream'.end = IF Len(job.read) = 0 THEN "fin" ELSE "none"
           /\ stream'.bytes = stream.bytes \o job.read
           /\ stream'.seen = stream.seen
<1>0. PICK f \in 0 .. Size, w \in 0 .. Limit : f = job.offset /\ w = job.unacked
    BY DEF TypeOK, Job
<1>1. PICK n, idle : n = Len(job.read) /\ idle = [job EXCEPT !.reading = FALSE, !.read = <<>>]
    OBVIOUS
<1>12. /\ n \in Nat /\ n + w <= Limit /\ f + n <= Size /\ (n = 0 => f = Size)
       /\ job.read \in Seq(0 .. Size + 1) /\ \A i \in 1 .. n : job.read[i] \in {f + i, Bad}
       /\ job.state = "sending" /\ stream.end = "none"
  <2>1. job.read \in Seq(0 .. Size + 1)
      BY DEF TypeOK, Job
  <2>2. n \in Nat /\ n = Len(job.read) /\ DOMAIN job.read = 1 .. n
      BY <1>1, <2>1
  <2>3. n + w <= Limit /\ \A i \in 1 .. n : job.read[i] \in {f + i, Bad}
      BY <1>0, <2>2 DEF JobIsSound
  <2>4. f + n <= Size /\ (n = 0 => f = Size)
      BY <1>0, <2>2, DownloadAssumption
  <2> QED
      BY <2>1, <2>2, <2>3, <2>4 DEF MaySend, JobIsSound
<1>2. PICK o \in Nat, u \in Nat : o = f + n /\ u = w + n
    BY <1>12
<1>13. o \in 0 .. Size /\ u \in 0 .. Limit
    BY <1>2, <1>12
<1>3. /\ idle \in Job /\ idle.offset = job.offset /\ idle.unacked = job.unacked
      /\ idle.state = job.state /\ ~idle.reading /\ idle.read = <<>>
    BY <1>1, JobWithRead DEF TypeOK
<1>4. PICK st : st = IF n = 0 THEN "ended" ELSE "sending"
    OBVIOUS
<1>5. PICK e : e = IF n = 0 THEN "fin" ELSE "none"
    OBVIOUS
<1>6. st \in JobStates /\ e \in StreamEnds
    BY <1>4, <1>5 DEF JobStates, StreamEnds
<1>7. job' = [idle EXCEPT !.offset = o, !.unacked = u, !.state = st]
  <2>1. job' = [idle EXCEPT !.offset = idle.offset + n, !.unacked = idle.unacked + n,
                            !.state = IF n = 0 THEN "ended" ELSE idle.state]
      BY <1>1 DEF FinishRead
  <2> QED
      BY <1>0, <1>2, <1>3, <1>4, <1>12, <2>1
<1>8. stream.bytes \o job.read \in Seq(0 .. Size)
  <2>4. job.read \in Seq(0 .. Size)
      BY <1>1, <1>12, PieceFits
  <2> QED
      BY <2>4 DEF TypeOK, Stream
<1>9. stream' = [stream EXCEPT !.bytes = stream.bytes \o job.read, !.end = e]
  <2>1. stream' = [stream EXCEPT !.bytes = stream.bytes \o job.read,
                                 !.end = IF n = 0 THEN "fin" ELSE stream.end]
      BY <1>1 DEF FinishRead
  <2> QED
      BY <1>5, <1>12, <2>1
<1>10. /\ job' \in Job /\ job'.offset = o /\ job'.state = st /\ ~job'.reading /\ job'.read = <<>>
    BY <1>13, <1>3, <1>6, <1>7, DownloadAssumption DEF Job, JobStates
<1>11. /\ stream' \in Stream /\ stream'.bytes = stream.bytes \o job.read /\ stream'.end = e
       /\ stream'.seen = stream.seen
    BY <1>6, <1>8, <1>9 DEF TypeOK, Stream, StreamEnds
<1> QED
    BY <1>0, <1>1, <1>2, <1>4, <1>5, <1>10, <1>11

-----------------------------------------------------------------------------
(* The job and its stream *)

\* Whatever happens to a job that was started keeps it sound, starts nothing, and
\* continues the same file at the same place.
Flow ==
    /\ job' \in Job /\ stream' \in Stream
    /\ JobIsSound'
    /\ job = NoJob /\ stream = NoStream => job' = NoJob /\ stream' = NoStream
    /\ \A n \in Nat : Continues(n) => Continues(n)'

LEMMA NothingFlows ==
    ASSUME TypeOK, JobIsSound, job' = NoJob, stream' = NoStream
    PROVE  Flow
<1>1. Len(<<>>) = 0 /\ DOMAIN <<>> = {}
    OBVIOUS
<1> QED
    BY <1>1, EmptyRecords, DownloadAssumption DEF Flow, JobIsSound, Continues

LEMMA ReadingFlows ==
    ASSUME TypeOK, JobIsSound, StartRead
    PROVE  Flow
<1>1. /\ Ahead \in Seq(0 .. Size + 1) /\ Len(Ahead) + job.unacked <= Limit
      /\ \A i \in DOMAIN Ahead : Ahead[i] \in {job.offset + i, Bad}
    BY ChunkIsAhead DEF StartRead
<1>2. PICK b \in BOOLEAN : b = TRUE
    OBVIOUS
<1>3. PICK r \in Seq(0 .. Size + 1) : r = Ahead
    BY <1>1
<1>4. job' = [job EXCEPT !.reading = b, !.read = r]
    BY <1>2, <1>3 DEF StartRead
<1>5. /\ job' \in Job /\ job'.state = job.state /\ job'.offset = job.offset
      /\ job'.unacked = job.unacked /\ job'.reading = b /\ job'.read = r
    BY <1>4, DownloadAssumption DEF TypeOK, Job
<1>6. stream' = stream /\ stream \in Stream /\ job.state = "sending"
    BY DEF StartRead, TypeOK
<1>7. JobIsSound'
    BY <1>1, <1>2, <1>3, <1>5, <1>6 DEF JobIsSound
<1>8. job # NoJob
    BY <1>6, EmptyRecords
<1> QED
    BY <1>5, <1>6, <1>7, <1>8 DEF Flow, Continues

LEMMA AcknowledgingFlows ==
    ASSUME TypeOK, JobIsSound, Acknowledge
    PROVE  Flow
<1>0. PICK w \in 0 .. Limit : w = job.unacked
    BY DEF TypeOK, Job
<1>1. PICK n \in 0 .. w - 1 : job' = [job EXCEPT !.unacked = n]
    BY <1>0 DEF Acknowledge
<1>2. n \in 0 .. Limit /\ n < w
    BY <1>0, DownloadAssumption
<1>3. /\ job' \in Job /\ job'.state = job.state /\ job'.offset = job.offset
      /\ job'.unacked = n /\ job'.reading = job.reading /\ job'.read = job.read
    BY <1>1, <1>2, DownloadAssumption DEF TypeOK, Job
<1>4. stream' = stream /\ stream \in Stream
    BY DEF Acknowledge, TypeOK
<1>5. Len(job.read) + n <= Limit
  <2>1. PICK m \in Nat : m = Len(job.read)
      BY DEF TypeOK, Job
  <2>2. m + w <= Limit
      BY <1>0, <2>1 DEF JobIsSound
  <2> QED
      BY <1>2, <2>1, <2>2, DownloadAssumption
<1>6. job # NoJob
  <2>1. w # 0
      BY <1>1
  <2> QED
      BY <1>0, <2>1, EmptyRecords
<1>7. job'.state # "none"
    BY <1>3, <1>6 DEF JobIsSound
<1>8. JobIsSound'
    BY <1>3, <1>4, <1>5, <1>7 DEF JobIsSound
<1> QED
    BY <1>3, <1>4, <1>6, <1>8 DEF Flow, Continues

LEMMA DroppingFlows ==
    ASSUME TypeOK, JobIsSound, DropJob
    PROVE  Flow
<1>1. Len(<<>>) = 0 /\ DOMAIN <<>> = {}
    OBVIOUS
<1>2. job' = NoJob /\ stream' = stream /\ stream \in Stream
    BY DEF DropJob, TypeOK
<1>3. JobIsSound'
    BY <1>1, <1>2, EmptyRecords, DownloadAssumption DEF JobIsSound
<1> QED
    BY <1>2, <1>3, EmptyRecords DEF Flow, Continues

\* A job is given up: what was under way is not delivered.
LEMMA GivingUpFlows ==
    ASSUME TypeOK, JobIsSound, NEW j \in Job, job.state # "none",
           Len(j.read) + 0 <= Limit, \A i \in DOMAIN j.read : j.read[i] \in {j.offset + i, Bad},
           ~j.reading => j.read = <<>>,
           job' = Abandoned(j), stream' = Reset(stream)
    PROVE  Flow
<1>1. Len(<<>>) = 0 /\ DOMAIN <<>> = {}
    OBVIOUS
<1>2. /\ job' \in Job /\ job'.state = "ended" /\ job'.unacked = 0 /\ job'.offset = j.offset
      /\ job'.reading = j.reading /\ job'.read = j.read
    BY AbandonedJob
<1>3. stream' \in Stream /\ stream'.bytes = <<>> /\ stream'.end = "reset"
    BY ResetStream DEF TypeOK
<1>4. JobIsSound'
    BY <1>1, <1>2, <1>3 DEF JobIsSound
<1>5. job # NoJob
    BY EmptyRecords
<1> QED
    BY <1>1, <1>2, <1>3, <1>4, <1>5 DEF Flow, Continues

LEMMA CancellingFlows ==
    ASSUME TypeOK, JobIsSound, Cancel
    PROVE  Flow
<1>1. CASE job.state # "none" /\ job' = Abandoned(job) /\ stream' = Reset(stream)
  <2>1. PICK m \in Nat, w \in 0 .. Limit : m = Len(job.read) /\ w = job.unacked
      BY DEF TypeOK, Job
  <2>2. Len(job.read) + 0 <= Limit
    <3>1. m + w <= Limit
        BY <2>1 DEF JobIsSound
    <3> QED
        BY <2>1, <3>1, DownloadAssumption
  <2> QED
      BY <1>1, <2>2, GivingUpFlows DEF TypeOK, JobIsSound
<1>2. CASE UNCHANGED <<job, stream>>
    BY <1>2 DEF Flow, TypeOK, JobIsSound, Continues
<1> QED
    BY <1>1, <1>2 DEF Cancel

LEMMA PositionsAreNumbers ==
    ASSUME NEW n \in Nat, NEW s \in Seq(0 .. n)
    PROVE  s \in Seq(Nat)
<1>1. Len(s) \in Nat /\ s = [i \in 1 .. Len(s) |-> s[i]] /\ \A i \in 1 .. Len(s) : s[i] \in 0 .. n
    OBVIOUS
<1>2. \A i \in 1 .. Len(s) : s[i] \in Nat
    BY <1>1
<1> QED
    BY <1>1, <1>2

LEMMA InPlaceTogether ==
    ASSUME NEW a \in Seq(Nat), NEW b \in Seq(Nat), NEW m \in Nat,
           \A i \in 1 .. Len(a) : a[i] \in {m + i, Bad},
           \A i \in 1 .. Len(b) : b[i] \in {m + Len(a) + i, Bad}
    PROVE  /\ a \o b \in Seq(Nat) /\ Len(a \o b) = Len(a) + Len(b)
           /\ \A i \in 1 .. Len(a \o b) : (a \o b)[i] \in {m + i, Bad}
<1>0. PICK k, l, c : k = Len(a) /\ l = Len(b) /\ c = a \o b
    OBVIOUS
<1>1. /\ k = Len(a) /\ l = Len(b) /\ c = a \o b
      /\ k \in Nat /\ l \in Nat /\ c \in Seq(Nat)
    BY <1>0
<1>2. /\ Len(c) = k + l
      /\ \A i \in 1 .. k : c[i] = a[i]
      /\ \A i \in 1 .. l : c[k + i] = b[i]
    BY <1>1
<1>3. ASSUME NEW i \in 1 .. k + l PROVE c[i] \in {m + i, Bad}
  <2>1. CASE i <= k
      BY <1>1, <1>2, <2>1
  <2>2. CASE i > k
    <3>1. PICK h \in 1 .. l : i = k + h
      <4>1. i - k \in 1 .. l /\ i = k + (i - k)
          BY <1>1, <2>2
      <4> QED
          BY <4>1
    <3>2. b[h] \in {m + k + h, Bad} /\ c[i] = b[h] /\ m + k + h = m + i
        BY <1>1, <1>2, <3>1
    <3> QED
        BY <3>2
  <2> QED
      BY <1>1, <2>1, <2>2
<1> QED
    BY <1>1, <1>2, <1>3

LEMMA SendingFlows ==
    ASSUME TypeOK, JobIsSound, FinishRead
    PROVE  Flow
<1>1. PICK idle : idle = [job EXCEPT !.reading = FALSE, !.read = <<>>]
    OBVIOUS
<1>2. /\ idle \in Job /\ idle.state = job.state /\ idle.offset = job.offset
      /\ idle.unacked = job.unacked /\ ~idle.reading /\ idle.read = <<>>
    BY <1>1, JobWithRead DEF TypeOK
<1>3. Len(<<>>) = 0 /\ DOMAIN <<>> = {}
    OBVIOUS
<1>4. job.state # "none"
    BY EmptyRecords DEF FinishRead, JobIsSound
<1>5. job # NoJob
    BY <1>4, EmptyRecords
<1>6. CASE ~MaySend
  <2>1. job' = idle /\ stream' = stream
      BY <1>1, <1>6 DEF FinishRead
  <2>2. PICK w \in 0 .. Limit : w = job.unacked
      BY DEF TypeOK, Job
  <2>3. JobIsSound'
      BY <1>2, <1>3, <1>4, <2>1, <2>2, DownloadAssumption DEF JobIsSound
  <2> QED
      BY <1>2, <1>5, <2>1, <2>3 DEF Flow, TypeOK, Continues
<1>7. CASE MaySend /\ ((Len(job.read) = 0 /\ job.offset # Size) \/ job.offset + Len(job.read) > Size)
  <2>1. job' = Abandoned(idle) /\ stream' = Reset(stream)
      BY <1>1, <1>7 DEF FinishRead
  <2> QED
      BY <1>2, <1>3, <1>4, <2>1, GivingUpFlows, DownloadAssumption
<1>8. CASE MaySend /\ ~((Len(job.read) = 0 /\ job.offset # Size) \/ job.offset + Len(job.read) > Size)
  <2>1. PICK n, f, u : n = Len(job.read) /\ f = job.offset /\ u = Len(stream.bytes)
      OBVIOUS
  <2>2. /\ n \in Nat /\ f \in 0 .. Size /\ u \in Nat
        /\ job.read \in Seq(0 .. Size + 1) /\ stream.bytes \in Seq(0 .. Size)
      BY <2>1 DEF TypeOK, Job, Stream
  <2>3. /\ job' \in Job /\ stream' \in Stream
        /\ job'.offset = f + n
        /\ ~job'.reading /\ job'.read = <<>>
        /\ job'.state = IF n = 0 THEN "ended" ELSE "sending"
        /\ stream'.end = IF n = 0 THEN "fin" ELSE "none"
        /\ stream'.bytes = stream.bytes \o job.read
      BY <1>8, <2>1, AfterSending
  <2>4. job.state = "sending" /\ (n = 0 => f = Size)
      BY <1>8, <2>1 DEF MaySend
  <2>5. JobIsSound'
    <3>1. PICK w \in 0 .. Limit : w = job'.unacked
        BY <2>3 DEF Job
    <3>2. Len(job'.read) + job'.unacked <= Limit
        BY <1>3, <2>3, <3>1, DownloadAssumption
    <3>3. job'.state # "none" /\ stream'.end # "reset" /\ (job'.state = "sending" => stream'.end = "none")
        BY <2>3
    <3> QED
        BY <1>3, <2>3, <3>2, <3>3 DEF JobIsSound
  <2>6. ASSUME NEW m \in Nat, Continues(m) PROVE Continues(m)'
    <3>0. PICK a, b : a = stream.bytes /\ b = job.read
        OBVIOUS
    <3>1. /\ a = stream.bytes /\ b = job.read /\ a \in Seq(Nat) /\ b \in Seq(Nat)
          /\ DOMAIN a = 1 .. Len(a) /\ DOMAIN b = 1 .. Len(b)
      <4>1. Size \in Nat /\ Size + 1 \in Nat
          BY DownloadAssumption
      <4>2. a \in Seq(0 .. Size) /\ b \in Seq(0 .. Size + 1)
          BY <2>2, <3>0
      <4>3. a \in Seq(Nat) /\ b \in Seq(Nat)
          BY <4>1, <4>2, PositionsAreNumbers
      <4> QED
          BY <3>0, <4>3
    <3>2. m + Len(a) = f /\ n = Len(b)
        BY <2>1, <2>4, <2>6, <3>1 DEF Continues
    <3>3. /\ \A i \in 1 .. Len(a) : a[i] \in {m + i, Bad}
          /\ \A i \in 1 .. Len(b) : b[i] \in {m + Len(a) + i, Bad}
      <4>1. \A i \in DOMAIN a : a[i] \in {m + i, Bad}
          BY <2>6, <3>1 DEF Continues
      <4>2. \A i \in DOMAIN b : b[i] \in {f + i, Bad}
          BY <2>1, <3>1 DEF JobIsSound
      <4> QED
          BY <3>1, <3>2, <4>1, <4>2
    <3>4. /\ a \o b \in Seq(Nat) /\ Len(a \o b) = Len(a) + Len(b)
          /\ \A i \in 1 .. Len(a \o b) : (a \o b)[i] \in {m + i, Bad}
        BY <3>1, <3>3, InPlaceTogether
    <3>10. PICK c, l : c = a \o b /\ l = Len(c)
        OBVIOUS
    <3>5. c = a \o b /\ l = Len(c) /\ m + l = f + n /\ c \in Seq(Nat) /\ l \in Nat
      <4>1. Len(a) \in Nat /\ Len(b) \in Nat
          BY <3>1
      <4>2. c \in Seq(Nat) /\ l = Len(a) + Len(b)
          BY <3>4, <3>10
      <4>3. PICK k \in Nat, h \in Nat : k = Len(a) /\ h = Len(b)
          BY <4>1
      <4>4. l = k + h /\ m + k = f /\ n = h
          BY <3>2, <4>2, <4>3
      <4>5. l \in Nat /\ m + l = f + n
          BY <4>4
      <4> QED
          BY <3>10, <4>2, <4>5
    <3>6. stream'.bytes = c /\ DOMAIN c = 1 .. l /\ Len(c) = l
        BY <2>3, <3>1, <3>5
    <3>7. \A i \in DOMAIN c : c[i] \in {m + i, Bad}
        BY <3>4, <3>5
    <3>8. m + l = job'.offset
        BY <2>3, <3>5
    <3>9. stream'.end = "fin" => m + l = Size
        BY <2>2, <2>3, <2>4, <3>5
    <3> QED
        BY <3>6, <3>7, <3>8, <3>9 DEF Continues
  <2> QED
      BY <1>5, <2>3, <2>5, <2>6 DEF Flow
<1> QED
    BY <1>6, <1>7, <1>8

-----------------------------------------------------------------------------
(* What the server does, whatever the handler *)

Rows == {"none", "open", "completed", "cancelled"}

\* Calls stay, end with their connection, or are answered, truly; a file whose
\* sending is granted to the device's connection is sent from where it asked.
CallsAreAnswered ==
    /\ call' \in [Links -> Call]
    /\ \A c \in Links :
         \/ call'[c] = call[c]
         \/ call'[c] = Idle
         \/ /\ link[c] = "up" /\ call[c].kind \in Questions /\ call'[c].offset = call[c].offset
            /\ call'[c].kind \in Answers \ {"metadata"}
            /\ call'[c].kind = "granted" => call[c].kind = "init"
            /\ call'[c].kind = "granted" /\ c = current /\ job = NoJob => Continues(call[c].offset)'
            /\ call'[c].kind = "finished" => call[c].kind = "finish" /\ row' = "completed"
            /\ call'[c].kind = "tooLate" => row' = "completed"
            /\ call'[c].kind = "cancelled" => row' = "cancelled"

\* Only a request to finish completes a transfer.
RowsAreDecided ==
    /\ row' \in Rows
    /\ row \in Final => row' = row
    /\ row' = "completed" => row = "completed" \/ \E c \in Links : call[c].kind = "finish"

ServerStep ==
    /\ job' \in Job /\ stream' \in Stream /\ JobIsSound'
    /\ Flow \/ (current \in Links /\ call[current].kind = "init" /\ call'[current].kind = "granted")
    /\ CallsAreAnswered
    /\ RowsAreDecided
    /\ source' \in DOMAIN SourceLength
    /\ link' \in [Links -> {"unused", "up", "down"}]
    /\ \A c \in Links : link'[c] = "unused" <=> link[c] = "unused"
    /\ UNCHANGED <<current, task, sink, files, overtook>>
    /\ faults' \in 0 .. MaxFaults

\* Most handlers answer nothing, or decide nothing.
LEMMA NothingIsAnswered == TypeOK /\ call' = call => CallsAreAnswered
BY DEF CallsAreAnswered, TypeOK

LEMMA NothingIsDecided == TypeOK /\ row' = row => RowsAreDecided
BY DEF RowsAreDecided, TypeOK, Rows

LEMMA JobsTakeServerSteps ==
    ASSUME TypeOK, JobIsSound, StartRead \/ FinishRead \/ Acknowledge \/ DropJob
    PROVE  ServerStep
<1>1. Flow
    BY ReadingFlows, SendingFlows, AcknowledgingFlows, DroppingFlows
<1>2. UNCHANGED <<row, source, link, call, current, task, sink, files, overtook, faults>>
    BY DEF StartRead, FinishRead, Acknowledge, DropJob
<1>3. CallsAreAnswered /\ RowsAreDecided
    BY <1>2, NothingIsAnswered, NothingIsDecided
<1> QED
    BY <1>1, <1>2, <1>3 DEF ServerStep, Flow, TypeOK

LEMMA StandingStillFlows ==
    ASSUME TypeOK, JobIsSound, job' = job, stream' = stream
    PROVE  Flow
BY DEF Flow, TypeOK, JobIsSound, Continues

LEMMA InitTakesServerStep ==
    ASSUME TypeOK, JobIsSound, NEW c \in Links, HandleInit(c)
    PROVE  ServerStep
<1>1. /\ UNCHANGED <<source, link, current, task, sink, files, faults, overtook>>
      /\ link[c] = "up" /\ call[c].kind = "init"
    BY DEF HandleInit, Asked
<1>2. CASE Answer(c, "refused") /\ UNCHANGED <<row, job, stream>>
  <2>1. /\ call' \in [Links -> Call] /\ call'[c].kind = "refused" /\ call'[c].offset = call[c].offset
        /\ \A b \in Links \ {c} : call'[b] = call[b]
    <3>1. "refused" \in Questions \cup Answers
        BY DEF Answers
    <3> QED
        BY <1>2, <3>1, OneCallIsAnswered DEF Answer, TypeOK
  <2>2. CallsAreAnswered
      BY <1>1, <2>1 DEF CallsAreAnswered, Questions, Answers
  <2> QED
      BY <1>1, <1>2, <2>2, StandingStillFlows, NothingIsDecided DEF ServerStep, Flow, TypeOK
<1>3. CASE Answer(c, "granted") /\ row # "cancelled" /\ row' = (IF row = "none" THEN "open" ELSE row)
           /\ Start(c, call[c].offset)
  <2>1. /\ call' \in [Links -> Call] /\ call'[c].kind = "granted" /\ call'[c].offset = call[c].offset
        /\ \A b \in Links \ {c} : call'[b] = call[b]
    <3>1. "granted" \in Questions \cup Answers
        BY DEF Answers
    <3> QED
        BY <1>3, <3>1, OneCallIsAnswered DEF Answer, TypeOK
  <2>2. RowsAreDecided
      BY <1>3 DEF RowsAreDecided, Rows, Final, TypeOK
  <2>3. CASE c = current /\ job.state = "none"
    <3>1. PICK o \in 0 .. Size : o = call[c].offset
        BY DEF TypeOK, Call
    <3>2. job' = [NoJob EXCEPT !.state = "sending", !.offset = o] /\ stream' = NoStream
        BY <1>3, <2>3, <3>1 DEF Start
    <3>3. /\ job' \in Job /\ job'.state = "sending" /\ job'.offset = o /\ job'.unacked = 0
          /\ ~job'.reading /\ job'.read = <<>>
        BY <3>2, StartedJob
    <3>4. stream' \in Stream /\ stream'.bytes = <<>> /\ stream'.end = "none"
        BY <3>2, EmptyRecords
    <3>5. Len(<<>>) = 0 /\ DOMAIN <<>> = {}
        OBVIOUS
    <3>6. JobIsSound'
        BY <3>3, <3>4, <3>5, DownloadAssumption DEF JobIsSound
    <3>7. Continues(o)'
        BY <3>1, <3>3, <3>4, <3>5 DEF Continues
    <3>8. CallsAreAnswered
      <4>1. Continues(call[c].offset)'
          BY <3>1, <3>3, <3>4, <3>5, <2>1 DEF Continues
      <4> QED
          BY <1>1, <2>1, <4>1 DEF CallsAreAnswered, Questions, Answers
    <3> QED
        BY <1>1, <2>1, <2>2, <2>3, <3>3, <3>4, <3>6, <3>8 DEF ServerStep, TypeOK
  <2>4. CASE ~(c = current /\ job.state = "none")
    <3>1. job' = job /\ stream' = stream
        BY <1>3, <2>4 DEF Start
    <3>2. c # current \/ job # NoJob
        BY <2>4, EmptyRecords
    <3>3. CallsAreAnswered
        BY <1>1, <2>1, <3>2 DEF CallsAreAnswered, Questions, Answers
    <3> QED
        BY <1>1, <2>2, <3>1, <3>3, StandingStillFlows DEF ServerStep, Flow, TypeOK
  <2> QED
      BY <2>3, <2>4
<1> QED
    BY <1>2, <1>3 DEF HandleInit

LEMMA FinishTakesServerStep ==
    ASSUME TypeOK, JobIsSound, NEW c \in Links, HandleFinish(c)
    PROVE  ServerStep
<1>1. /\ UNCHANGED <<source, job, link, stream, current, task, sink, files, faults, overtook>>
      /\ link[c] = "up" /\ call[c].kind = "finish"
    BY DEF HandleFinish, Asked
<1>2. PICK kind \in {"refused", "finished"} :
        /\ Answer(c, kind)
        /\ kind = "refused" => row' = row
        /\ kind = "finished" => row # "cancelled" /\ row' = "completed"
    BY DEF HandleFinish
<1>3. /\ call' \in [Links -> Call] /\ call'[c].kind = kind /\ call'[c].offset = call[c].offset
      /\ \A b \in Links \ {c} : call'[b] = call[b]
  <2>1. kind \in Questions \cup Answers
      BY DEF Answers
  <2> QED
      BY <1>2, <2>1, OneCallIsAnswered DEF Answer, TypeOK
<1>4. CallsAreAnswered
    BY <1>1, <1>2, <1>3 DEF CallsAreAnswered, Questions, Answers
<1>5. RowsAreDecided
    BY <1>1, <1>2 DEF RowsAreDecided, Rows, Final, TypeOK
<1> QED
    BY <1>1, <1>4, <1>5, StandingStillFlows DEF ServerStep, Flow, TypeOK

LEMMA CancelTakesServerStep ==
    ASSUME TypeOK, JobIsSound, NEW c \in Links, HandleCancel(c)
    PROVE  ServerStep
<1>1. /\ UNCHANGED <<source, link, current, task, sink, files, faults, overtook>>
      /\ link[c] = "up" /\ call[c].kind = "cancel"
    BY DEF HandleCancel, Asked
<1>2. PICK kind \in {"cancelled", "tooLate"} :
        /\ Answer(c, kind)
        /\ kind = "cancelled" => row # "completed" /\ Cancel
        /\ kind = "tooLate" => row = "completed" /\ UNCHANGED <<row, job, stream>>
    BY DEF HandleCancel
<1>3. /\ call' \in [Links -> Call] /\ call'[c].kind = kind /\ call'[c].offset = call[c].offset
      /\ \A b \in Links \ {c} : call'[b] = call[b]
  <2>1. kind \in Questions \cup Answers
      BY DEF Answers
  <2> QED
      BY <1>2, <2>1, OneCallIsAnswered DEF Answer, TypeOK
<1>4. kind = "cancelled" => row' = "cancelled"
    BY <1>2 DEF Cancel
<1>5. CallsAreAnswered
    BY <1>1, <1>2, <1>3, <1>4 DEF CallsAreAnswered, Questions, Answers
<1>6. RowsAreDecided
    BY <1>1, <1>2, <1>4 DEF RowsAreDecided, Rows, Final, TypeOK
<1>7. Flow
    BY <1>2, CancellingFlows, StandingStillFlows
<1> QED
    BY <1>1, <1>5, <1>6, <1>7 DEF ServerStep, Flow, TypeOK

LEMMA CancelElsewhereTakesServerStep ==
    ASSUME TypeOK, JobIsSound, CancelElsewhere
    PROVE  ServerStep
<1>1. /\ UNCHANGED <<source, link, call, current, task, sink, files, overtook>>
      /\ row = "open" /\ row' = "cancelled" /\ Cancel
    BY DEF CancelElsewhere, Cancel
<1>2. faults' \in 0 .. MaxFaults
    BY DownloadAssumption DEF CancelElsewhere, Fault, TypeOK
<1>3. RowsAreDecided
    BY <1>1 DEF RowsAreDecided, Rows, Final
<1> QED
    BY <1>1, <1>2, <1>3, CancellingFlows, NothingIsAnswered DEF ServerStep, Flow, TypeOK

LEMMA FailTakesServerStep ==
    ASSUME TypeOK, JobIsSound, NEW c \in Links, FailRequest(c)
    PROVE  ServerStep
<1>1. /\ UNCHANGED <<row, source, job, link, stream, current, task, sink, files, overtook>>
      /\ link[c] = "up" /\ call[c].kind \in Questions /\ Answer(c, "unavailable")
    BY DEF FailRequest, server
<1>2. faults' \in 0 .. MaxFaults
    BY DownloadAssumption DEF FailRequest, Fault, TypeOK
<1>3. /\ call' \in [Links -> Call] /\ call'[c].kind = "unavailable" /\ call'[c].offset = call[c].offset
      /\ \A b \in Links \ {c} : call'[b] = call[b]
  <2>1. "unavailable" \in Questions \cup Answers
      BY DEF Answers
  <2> QED
      BY <1>1, <2>1, OneCallIsAnswered DEF Answer, TypeOK
<1>4. CallsAreAnswered
    BY <1>1, <1>3 DEF CallsAreAnswered, Questions, Answers
<1> QED
    BY <1>1, <1>2, <1>4, StandingStillFlows, NothingIsDecided DEF ServerStep, Flow, TypeOK

LEMMA DamageTakesServerStep ==
    ASSUME TypeOK, JobIsSound, DamageSource \/ RestoreSource
    PROVE  ServerStep
<1>1. UNCHANGED <<row, job, link, call, stream, current, task, sink, files, overtook>>
    BY DEF DamageSource, RestoreSource
<1>2. source' \in DOMAIN SourceLength
    BY DEF DamageSource, RestoreSource, SourceLength
<1>3. faults' \in 0 .. MaxFaults
    BY DownloadAssumption DEF DamageSource, RestoreSource, Fault, TypeOK
<1> QED
    BY <1>1, <1>2, <1>3, StandingStillFlows, NothingIsAnswered, NothingIsDecided
       DEF ServerStep, Flow, TypeOK

LEMMA CloseTakesServerStep ==
    ASSUME TypeOK, JobIsSound, NEW c \in Links, NoticeClosed(c)
    PROVE  ServerStep
<1>1. /\ UNCHANGED <<row, source, current, task, sink, files, overtook>>
      /\ link[c] = "up" /\ link' = [link EXCEPT ![c] = "down"] /\ call' = [call EXCEPT ![c] = Idle]
      /\ \/ job' = NoJob /\ stream' = NoStream
         \/ job' = job /\ stream' = stream
    BY DEF NoticeClosed
<1>2. faults' \in 0 .. MaxFaults
    BY DownloadAssumption DEF NoticeClosed, Fault, TypeOK
<1>3. CallsAreAnswered
    BY <1>1, EmptyRecords, OneCallIsMade DEF CallsAreAnswered, TypeOK
<1>4. Flow
    BY <1>1, NothingFlows, StandingStillFlows
<1>5. /\ link' \in [Links -> {"unused", "up", "down"}]
      /\ \A b \in Links : link'[b] = "unused" <=> link[b] = "unused"
    BY <1>1 DEF TypeOK
<1> QED
    BY <1>1, <1>2, <1>3, <1>4, <1>5, NothingIsDecided DEF ServerStep, Flow, TypeOK

LEMMA CrashTakesServerStep ==
    ASSUME TypeOK, JobIsSound, Crash
    PROVE  ServerStep
<1>1. /\ UNCHANGED <<row, source, current, task, sink, files, overtook>>
      /\ link' = [c \in Links |-> IF link[c] = "up" THEN "down" ELSE link[c]]
      /\ call' = [c \in Links |-> Idle]
      /\ job' = NoJob /\ stream' = NoStream
    BY DEF Crash
<1>2. faults' \in 0 .. MaxFaults
    BY DownloadAssumption DEF Crash, Fault, TypeOK
<1>3. CallsAreAnswered
    BY <1>1, EmptyRecords DEF CallsAreAnswered
<1>4. Flow
    BY <1>1, NothingFlows
<1>5. /\ link' \in [Links -> {"unused", "up", "down"}]
      /\ \A b \in Links : link'[b] = "unused" <=> link[b] = "unused"
    BY <1>1 DEF TypeOK
<1> QED
    BY <1>1, <1>2, <1>3, <1>4, <1>5, NothingIsDecided DEF ServerStep, Flow, TypeOK

LEMMA ServerTakesServerSteps ==
    ASSUME TypeOK, JobIsSound, ServerNext
    PROVE  ServerStep
BY JobsTakeServerSteps, InitTakesServerStep, FinishTakesServerStep, CancelTakesServerStep,
   CancelElsewhereTakesServerStep, FailTakesServerStep, DamageTakesServerStep,
   CloseTakesServerStep, CrashTakesServerStep
   DEF ServerNext

-----------------------------------------------------------------------------
(* A step of the server keeps the invariant *)

LEMMA ServerKeepsTypesAndEnds ==
    ASSUME Inductive, ServerStep
    PROVE  TypeOK' /\ JobIsSound' /\ EndsAreSound'
<1> USE DEF Inductive
<1>1. TypeOK'
    BY DEF ServerStep, CallsAreAnswered, RowsAreDecided, Rows, TypeOK, files
<1>2. EndsAreSound'
  <2>1. ASSUME current = 0 PROVE job' = NoJob /\ stream' = NoStream
    <3>1. Flow
        BY <2>1 DEF ServerStep, Links
    <3> QED
        BY <2>1, <3>1 DEF Flow, EndsAreSound
  <2>2. ASSUME NEW c \in Links, link'[c] = "unused" PROVE call'[c] = Idle
    <3>1. link[c] = "unused" /\ call[c] = Idle
        BY <2>2 DEF ServerStep, EndsAreSound
    <3> QED
        BY <3>1 DEF ServerStep, CallsAreAnswered
  <2>3. current # 0 => link'[current] # "unused"
    <3>1. current # 0 => current \in Links
        BY DEF TypeOK
    <3> QED
        BY <3>1 DEF ServerStep, EndsAreSound
  <2>4. ASSUME NEW c \in Links, call'[c].kind = "metadata" PROVE task.known
    <3>1. call'[c] = call[c]
        BY <2>4, EmptyRecords DEF ServerStep, CallsAreAnswered
    <3> QED
        BY <2>4, <3>1 DEF EndsAreSound
  <2> QED
      BY <2>1, <2>2, <2>3, <2>4 DEF EndsAreSound, ServerStep, files
<1> QED
    BY <1>1, <1>2 DEF ServerStep

LEMMA ServerKeepsAnswers ==
    ASSUME Inductive, ServerStep
    PROVE  AnswersAreTrue' /\ PublishedIsVerified'
<1> USE DEF Inductive
<1>1. UNCHANGED <<task, target>>
    BY DEF ServerStep, files
<1>2. row' = "completed" => target # "before"
    BY DEF ServerStep, RowsAreDecided, AnswersAreTrue, PublishedIsVerified
<1>3. row \in Final => row' = row
    BY DEF ServerStep, RowsAreDecided
<1>4. PublishedIsVerified'
    BY <1>1, <1>2, <1>3 DEF PublishedIsVerified, Final
<1>5. ASSUME NEW c \in Links
      PROVE  /\ call'[c].kind \in {"finish", "finished"} => target # "before"
             /\ call'[c].kind \in {"finished", "tooLate"} => row' = "completed"
             /\ call'[c].kind = "cancelled" => row' = "cancelled"
  <2>1. CASE call'[c] = call[c]
      BY <1>3, <2>1 DEF AnswersAreTrue, Final
  <2>2. CASE call'[c] = Idle
      BY <2>2 DEF Idle
  <2>3. CASE /\ call'[c].kind \in Answers \ {"metadata"}
             /\ call'[c].kind = "finished" => call[c].kind = "finish" /\ row' = "completed"
             /\ call'[c].kind = "tooLate" => row' = "completed"
             /\ call'[c].kind = "cancelled" => row' = "cancelled"
      BY <1>2, <2>3 DEF Answers
  <2> QED
      BY <2>1, <2>2, <2>3 DEF ServerStep, CallsAreAnswered
<1> QED
    BY <1>1, <1>4, <1>5 DEF AnswersAreTrue

\* The conversation after a step, its parts by name.
LEMMA ConversationLater ==
    ASSUME NEW c, c = current', NEW a, a = call'[c], NEW o \in Nat, o = a.offset,
           NEW n \in Nat, n = Len(staging'),
           a.kind \in Opening => task'.active /\ task'.status \in {"pending", "transferring"},
           a.kind = "init" => job' = NoJob /\ stream' = NoStream /\ sink' = "none",
           a.kind = "granted" => sink' = "none",
           a.kind = "metadata" => sink' = "waiting" /\ task'.status = "transferring",
           a.kind \in Opening => Continues(o)',
           a.kind \in Opening /\ ~task'.restart /\ n > o =>
               \A i \in DOMAIN staging' : staging'[i] = Bad,
           sink' = "open" =>
               task'.active /\ task'.status = "transferring" /\ a = Idle /\ Continues(n)',
           task'.status \in {"pending", "transferring"} /\ ~task'.active =>
               job' = NoJob /\ stream' = NoStream /\ sink' = "none" /\ a = Idle
    PROVE  ConversationIsInStep'
BY DEF ConversationIsInStep, Continues, Fresh

LEMMA ConversationNow ==
    ASSUME ConversationIsInStep, NEW c, c = current, NEW a, a = call[c], NEW o \in Nat, o = a.offset,
           NEW n \in Nat, n = Len(staging)
    PROVE  /\ a.kind \in Opening => task.active /\ task.status \in {"pending", "transferring"}
           /\ a.kind = "init" => job = NoJob /\ stream = NoStream /\ sink = "none"
           /\ a.kind = "granted" => sink = "none"
           /\ a.kind = "metadata" => sink = "waiting" /\ task.status = "transferring"
           /\ a.kind \in Opening => Continues(o)
           /\ a.kind \in Opening /\ ~task.restart /\ n > o =>
                \A i \in DOMAIN staging : staging[i] = Bad
           /\ sink = "open" =>
                task.active /\ task.status = "transferring" /\ a = Idle /\ Continues(n)
           /\ task.status \in {"pending", "transferring"} /\ ~task.active =>
                job = NoJob /\ stream = NoStream /\ sink = "none" /\ a = Idle
BY DEF ConversationIsInStep, Fresh

LEMMA ServerKeepsStep ==
    ASSUME Inductive, ServerStep
    PROVE  AttemptIsInStep'
<1> SUFFICES ASSUME overtook' # "answer", current' # 0 PROVE ConversationIsInStep'
    BY DEF Inductive, ServerStep, AttemptIsInStep, files
<1> USE DEF Inductive
<1>1. UNCHANGED <<current, task, sink, staging, overtook>>
    BY DEF ServerStep, files
<1>2. current \in Links /\ ConversationIsInStep
    BY <1>1 DEF TypeOK, AttemptIsInStep
<1>3. PICK c \in Links : c = current
    BY <1>2
<1>4. PICK old \in Call, new \in Call : old = call[c] /\ new = call'[c]
    BY DEF ServerStep, CallsAreAnswered, TypeOK
<1>5. PICK o \in Nat, p \in Nat, n \in Nat : o = old.offset /\ p = new.offset /\ n = Len(staging)
    BY <1>4, DownloadAssumption DEF Call, TypeOK
<1>6. /\ old.kind \in Opening => task.active /\ task.status \in {"pending", "transferring"}
      /\ old.kind = "init" => job = NoJob /\ stream = NoStream /\ sink = "none"
      /\ old.kind = "granted" => sink = "none"
      /\ old.kind = "metadata" => sink = "waiting" /\ task.status = "transferring"
      /\ old.kind \in Opening => Continues(o)
      /\ old.kind \in Opening /\ ~task.restart /\ n > o =>
           \A i \in DOMAIN staging : staging[i] = Bad
      /\ sink = "open" =>
           task.active /\ task.status = "transferring" /\ old = Idle /\ Continues(n)
      /\ task.status \in {"pending", "transferring"} /\ ~task.active =>
           job = NoJob /\ stream = NoStream /\ sink = "none" /\ old = Idle
    BY <1>2, <1>3, <1>4, <1>5, ConversationNow
<1>7. /\ Flow \/ (old.kind = "init" /\ new.kind = "granted")
      /\ \/ new = old
         \/ new = Idle
         \/ /\ old.kind \in Questions /\ new.kind \in Answers \ {"metadata"}
            /\ p = o
            /\ new.kind = "granted" => old.kind = "init"
            /\ new.kind = "granted" /\ job = NoJob => Continues(o)'
  <2>1. \/ new = old
        \/ new = Idle
        \/ /\ old.kind \in Questions /\ new.kind \in Answers \ {"metadata"}
           /\ p = o
           /\ new.kind = "granted" => old.kind = "init"
           /\ new.kind = "granted" /\ job = NoJob => Continues(call[c].offset)'
      BY <1>1, <1>3, <1>4, <1>5 DEF ServerStep, CallsAreAnswered
  <2>2. ASSUME p = o, Continues(call[c].offset)' PROVE Continues(o)'
    <3>1. o = call'[c].offset
        BY <1>4, <1>5, <2>2
    <3> QED
        BY <2>2, <3>1 DEF Continues
  <2> QED
      BY <1>3, <1>4, <2>1, <2>2 DEF ServerStep
<1>8. c = current' /\ new = call'[c] /\ n = Len(staging')
    BY <1>1, <1>3, <1>4, <1>5
<1>9. CASE Flow /\ (new = old \/ new.kind \notin Opening)
  <2>1. /\ \A m \in Nat : Continues(m) => Continues(m)'
        /\ job = NoJob /\ stream = NoStream => job' = NoJob /\ stream' = NoStream
      BY <1>9 DEF Flow
  <2>2. task.status \in {"pending", "transferring"} /\ ~task.active => new = Idle
      BY <1>6, <1>7, EmptyRecords DEF Questions
  <2>3. new.kind \in Opening => new = old /\ p = o
      BY <1>5, <1>9
  <2>4. new.kind \in Opening => Continues(p)'
      BY <1>5, <1>6, <2>1, <2>3
  <2>5. sink' = "open" =>
            task'.active /\ task'.status = "transferring" /\ new = Idle /\ Continues(n)'
      BY <1>1, <1>5, <1>6, <1>7, <2>1, EmptyRecords DEF Questions
  <2>6. /\ new.kind \in Opening => task'.active /\ task'.status \in {"pending", "transferring"}
        /\ new.kind = "granted" => sink' = "none"
        /\ new.kind = "metadata" => sink' = "waiting" /\ task'.status = "transferring"
        /\ new.kind \in Opening /\ ~task'.restart /\ n > p =>
             \A i \in DOMAIN staging' : staging'[i] = Bad
      BY <1>1, <1>6, <2>3 DEF Opening
  <2>7. new.kind = "init" => job' = NoJob /\ stream' = NoStream /\ sink' = "none"
      BY <1>1, <1>6, <2>1, <2>3 DEF Opening
  <2>8. task'.status \in {"pending", "transferring"} /\ ~task'.active =>
            job' = NoJob /\ stream' = NoStream /\ sink' = "none" /\ new = Idle
      BY <1>1, <1>6, <2>1, <2>2
  <2> QED
      BY <1>5, <1>8, <2>4, <2>5, <2>6, <2>7, <2>8, ConversationLater
<1>10. CASE new # old /\ new.kind = "granted"
  <2>1. old.kind = "init" /\ p = o /\ Continues(p)' /\ sink = "none"
      BY <1>6, <1>7, <1>10, EmptyRecords
  <2>2. "init" \in Opening /\ "granted" \in Opening
      BY DEF Opening
  <2>3. task.active /\ task.status \in {"pending", "transferring"}
      BY <1>6, <2>1, <2>2
  <2> QED
      BY <1>1, <1>5, <1>6, <1>8, <1>10, <2>1, <2>2, <2>3, ConversationLater
<1> QED
  <2>1. new = Idle => new.kind \notin Opening
      BY EmptyRecords DEF Opening
  <2>2. new # old /\ new.kind # "granted" => new.kind \notin Opening
      BY <1>7, <2>1 DEF Opening, Answers
  <2> QED
      BY <1>7, <1>9, <1>10, <2>1, <2>2

-----------------------------------------------------------------------------
(* What the device's assignments do to its task *)

LEMMA TaskIdle ==
    ASSUME NEW t \in Task, NEW u, u = [t EXCEPT !.active = FALSE]
    PROVE  /\ u \in Task /\ u.status = t.status /\ u.known = t.known /\ u.ready = t.ready
           /\ u.restart = t.restart /\ ~u.active
<1>1. PICK b \in BOOLEAN : ~b
    OBVIOUS
<1>2. u = [t EXCEPT !.active = b]
    BY <1>1
<1>3. /\ u \in Task /\ u.status = t.status /\ u.known = t.known /\ u.ready = t.ready
      /\ u.restart = t.restart /\ u.active = b
    BY <1>2 DEF Task
<1> QED
    BY <1>1, <1>3

LEMMA TaskActive ==
    ASSUME NEW t \in Task, NEW u, u = [t EXCEPT !.active = TRUE]
    PROVE  /\ u \in Task /\ u.status = t.status /\ u.known = t.known /\ u.ready = t.ready
           /\ u.restart = t.restart /\ u.active
<1>1. PICK b \in BOOLEAN : b
    OBVIOUS
<1>2. u = [t EXCEPT !.active = b]
    BY <1>1
<1>3. /\ u \in Task /\ u.status = t.status /\ u.known = t.known /\ u.ready = t.ready
      /\ u.restart = t.restart /\ u.active = b
    BY <1>2 DEF Task
<1> QED
    BY <1>1, <1>3

LEMMA TaskReady ==
    ASSUME NEW t \in Task, NEW u, u = [t EXCEPT !.ready = TRUE]
    PROVE  /\ u \in Task /\ u.status = t.status /\ u.known = t.known /\ u.active = t.active
           /\ u.restart = t.restart
<1>1. PICK b \in BOOLEAN : b
    OBVIOUS
<1>2. u = [t EXCEPT !.ready = b]
    BY <1>1
<1> QED
    BY <1>2 DEF Task

LEMMA TaskInStatus ==
    ASSUME NEW t \in Task, NEW s \in Statuses, NEW u, u = [t EXCEPT !.status = s]
    PROVE  /\ u \in Task /\ u.status = s /\ u.known = t.known /\ u.ready = t.ready
           /\ u.restart = t.restart /\ u.active = t.active
BY DEF Task

LEMMA TaskFinishing ==
    ASSUME NEW t \in Task, NEW u, u = [t EXCEPT !.status = "finishing", !.active = TRUE]
    PROVE  /\ u \in Task /\ u.status = "finishing" /\ u.known = t.known /\ u.ready = t.ready
           /\ u.restart = t.restart /\ u.active
<1>0. PICK s \in Statuses : s = "finishing"
    BY DEF Statuses
<1>1. PICK b \in BOOLEAN : b
    OBVIOUS
<1>2. u = [t EXCEPT !.status = s, !.active = b]
    BY <1>0, <1>1
<1>3. /\ u \in Task /\ u.status = s /\ u.known = t.known /\ u.ready = t.ready
      /\ u.restart = t.restart /\ u.active = b
    BY <1>2 DEF Task
<1> QED
    BY <1>0, <1>1, <1>3

\* A status is taken, or the task has one that stays.
LEMMA BecomesOrStays ==
    ASSUME task \in Task, NEW s \in Statuses
    PROVE  /\ Becomes(s) \in Statuses
           /\ \/ Becomes(s) = s
              \/ Becomes(s) = task.status /\ task.status \in Final \cup Cancelling
           /\ task.status \in {"pending", "transferring", "finishing", "failed"} => Becomes(s) = s
BY DEF Becomes, Task, Final, Cancelling

\* A failed task is not active any more; cancellations and unknown files stay.
LEMMA FailedTask ==
    ASSUME task \in Task, NEW r \in BOOLEAN
    PROVE  /\ Failed(r) \in Task /\ Failed(r).known = task.known
           /\ \/ Failed(r) = task
              \/ Failed(r).status = "failed" /\ ~Failed(r).active
           /\ task.known /\ task.status \in {"pending", "transferring", "finishing"} =>
                Failed(r).status = "failed" /\ ~Failed(r).active
<1>1. PICK b \in BOOLEAN : ~b
    OBVIOUS
<1>2. PICK s \in Statuses : s = "failed"
    BY DEF Statuses
<1>3. PICK u : u = [task EXCEPT !.status = s, !.restart = r, !.active = b]
    OBVIOUS
<1>4. /\ u \in Task /\ u.status = s /\ u.known = task.known /\ u.active = b
    BY <1>3 DEF Task
<1>5. [task EXCEPT !.status = "failed", !.restart = r, !.active = FALSE] = u
    BY <1>1, <1>2, <1>3
<1>6. \/ Failed(r) = task
      \/ Failed(r) = u
    BY <1>5 DEF Failed
<1>7. task.known /\ task.status \in {"pending", "transferring", "finishing"} => Failed(r) = u
    BY <1>5 DEF Failed, Final, Cancelling
<1> QED
    BY <1>1, <1>2, <1>4, <1>6, <1>7

-----------------------------------------------------------------------------
(* What the device does, whatever the action *)

\* Only the current connection is asked anything, and to finish only after the
\* publication.
CallsAreMade ==
    /\ call' \in [Links -> Call]
    /\ \A c \in Links :
         \/ call'[c] = call[c]
         \/ /\ c = current /\ link[c] # "unused"
            /\ \/ call'[c].kind \in {"idle", "init", "cancel"}
               \/ call'[c].kind = "metadata" /\ task'.known
               \/ call'[c].kind = "finish" /\ target' # "before"

\* What a status claims is so on the server.
TaskIsTrue(t) ==
    /\ t.status = "completed" => row = "completed"
    /\ t.status = "cancelled" => row = "cancelled"
    /\ t.status = "cancel_failed" => row = "completed"

Sinks == {"none", "waiting", "open", "failed", "finished"}

DeviceStep ==
    /\ UNCHANGED <<row, source>>
    /\ job' \in Job /\ stream' \in Stream /\ JobIsSound'
    /\ link' \in [Links -> {"unused", "up", "down"}]
    /\ \A c \in Links : link'[c] = "unused" => link[c] = "unused"
    /\ current' \in Links \cup {0}
    /\ current' = 0 => job' = NoJob /\ stream' = NoStream /\ sink' = "none"
    /\ current' # 0 => link'[current'] # "unused"
    /\ CallsAreMade
    /\ task' \in Task /\ TaskIsTrue(task')
    /\ task.known => task'.known
    /\ ~task'.known => sink' = "none" /\ staging' = <<>>
    /\ sink' \in Sinks /\ staging' \in Seq(0 .. Size)
    /\ target' \in Targets \ {"wrong"}
    /\ target # "before" => target' # "before"
    /\ overtook' \in Overtaken
    /\ faults' \in 0 .. MaxFaults

LEMMA NothingIsAsked == TypeOK /\ call' = call => CallsAreMade
BY DEF CallsAreMade, TypeOK

LEMMA FaultsAreCounted == TypeOK /\ (Fault \/ faults' = faults) => faults' \in 0 .. MaxFaults
BY DownloadAssumption DEF Fault, TypeOK

\* The device leaves its connection: what is not stored is forgotten.
LEMMA Leaving ==
    ASSUME Inductive, NEW t \in Task, t.known = task.known, TaskIsTrue(t),
           current' = 0, task' = [t EXCEPT !.active = FALSE], sink' = "none",
           job' = NoJob, stream' = NoStream, CallsAreMade,
           UNCHANGED <<row, source, link, staging, overtook>>,
           target' \in {target, "good"}, faults' \in 0 .. MaxFaults
    PROVE  DeviceStep /\ AttemptIsInStep'
<1> USE DEF Inductive
<1>1. task' \in Task /\ task'.status = t.status /\ task'.known = task.known /\ ~task'.active
    BY TaskIdle
<1>2. Flow
    BY NothingFlows
<1>3. TaskIsTrue(task')
    BY <1>1 DEF TaskIsTrue
<1>4. ~task'.known => staging' = <<>>
    BY <1>1 DEF EndsAreSound
<1>5. target' \in Targets \ {"wrong"} /\ (target # "before" => target' # "before")
    BY DEF TypeOK, Targets, PublishedIsVerified
<1>6. DeviceStep
    BY <1>1, <1>2, <1>3, <1>4, <1>5 DEF DeviceStep, Flow, TypeOK, Sinks
<1>7. AttemptIsInStep'
    BY <1>1 DEF AttemptIsInStep
<1> QED
    BY <1>6, <1>7

LEMMA TaskIsTrueNow == PublishedIsVerified => TaskIsTrue(task)
BY DEF PublishedIsVerified, TaskIsTrue

LEMMA LeavingActions ==
    ASSUME Inductive, StopAfterPublishing \/ LearnCancelled \/ Retry \/ CancelFile \/ LoseConnection
    PROVE  DeviceStep /\ AttemptIsInStep'
<1> USE DEF Inductive
<1>0. task \in Task /\ TaskIsTrue(task)
    BY TaskIsTrueNow DEF TypeOK
<1>1. PICK t \in Task :
        /\ Leave(t) /\ t.known = task.known /\ TaskIsTrue(t)
        /\ staging' = staging /\ target' \in {target, "good"}
        /\ Fault \/ faults' = faults
  <2>1. CASE StopAfterPublishing
      BY <1>0, <2>1 DEF StopAfterPublishing
  <2>2. CASE LoseConnection
      BY <1>0, <2>2 DEF LoseConnection, files
  <2>3. CASE LearnCancelled
    <3>1. PICK s \in Statuses : s = "cancelled"
        BY DEF Statuses
    <3>2. PICK t : t = [task EXCEPT !.status = s]
        OBVIOUS
    <3>3. t \in Task /\ t.status = s /\ t.known = task.known
        BY <1>0, <3>2, TaskInStatus
    <3>4. Leave(t) /\ row = "cancelled" /\ UNCHANGED <<files, faults>>
        BY <2>3, <3>1, <3>2 DEF LearnCancelled
    <3>5. TaskIsTrue(t)
        BY <3>1, <3>3, <3>4 DEF TaskIsTrue
    <3> QED
        BY <3>3, <3>4, <3>5 DEF files
  <2>4. CASE Retry \/ CancelFile
    <3>1. PICK s \in {"pending", "cancelling"} : Leave([task EXCEPT !.status = s]) /\ UNCHANGED files /\ Fault
        BY <2>4 DEF Retry, CancelFile
    <3>2. PICK t : t = [task EXCEPT !.status = s]
        OBVIOUS
    <3>3. t \in Task /\ t.status = s /\ t.known = task.known
        BY <1>0, <3>2, TaskInStatus DEF Statuses
    <3>4. TaskIsTrue(t)
        BY <3>1, <3>3 DEF TaskIsTrue
    <3> QED
        BY <3>1, <3>2, <3>3, <3>4 DEF files
  <2> QED
      BY <2>1, <2>2, <2>3, <2>4
<1>2. /\ current' = 0 /\ task' = [t EXCEPT !.active = FALSE] /\ sink' = "none"
      /\ job' = NoJob /\ stream' = NoStream
      /\ UNCHANGED <<row, source, link, call, overtook>>
    BY <1>1 DEF Leave
<1>3. CallsAreMade /\ faults' \in 0 .. MaxFaults
    BY <1>1, <1>2, NothingIsAsked, FaultsAreCounted
<1> QED
    BY <1>1, <1>2, <1>3, Leaving

LEMMA ConnectSteps ==
    ASSUME Inductive, Connect
    PROVE  DeviceStep /\ AttemptIsInStep'
<1> USE DEF Inductive
<1>1. PICK c \in Links :
        /\ link[c] = "unused" /\ link' = [link EXCEPT ![c] = "up"] /\ current' = c
    BY DEF Connect
<1>2. /\ UNCHANGED <<row, source, job, call, stream, task, sink, staging, target, faults, overtook>>
      /\ current = 0
    BY DEF Connect, server, files
<1>3. job = NoJob /\ stream = NoStream /\ sink = "none" /\ call[c] = Idle /\ c # 0
    BY <1>1, <1>2, DownloadAssumption DEF EndsAreSound, Links
<1>4. JobIsSound'
    BY <1>2 DEF JobIsSound
<1>5. DeviceStep
  <2>1. /\ link' \in [Links -> {"unused", "up", "down"}] /\ link'[c] = "up"
        /\ \A b \in Links : link'[b] = "unused" => link[b] = "unused"
      BY <1>1 DEF TypeOK
  <2>2. CallsAreMade /\ TaskIsTrue(task)
      BY <1>2, NothingIsAsked, TaskIsTrueNow
  <2>3. TaskIsTrue(task')
      BY <1>2, <2>2 DEF TaskIsTrue
  <2>4. ~task.known => sink = "none" /\ staging = <<>>
      BY DEF EndsAreSound
  <2> QED
      BY <1>1, <1>2, <1>3, <1>4, <2>1, <2>2, <2>3, <2>4
         DEF DeviceStep, TypeOK, Sinks, PublishedIsVerified
<1>6. ASSUME overtook' # "answer" PROVE ConversationIsInStep'
  <2>1. PICK n \in Nat, o \in Nat : n = Len(staging') /\ o = Idle.offset
      BY <1>2, EmptyRecords DEF TypeOK
  <2>2. Idle.kind \notin Opening
      BY EmptyRecords DEF Opening
  <2>3. c = current' /\ Idle = call'[c] /\ job' = NoJob /\ stream' = NoStream /\ sink' = "none"
      BY <1>1, <1>2, <1>3
  <2> QED
      BY <2>1, <2>2, <2>3, ConversationLater DEF Opening
<1>7. AttemptIsInStep'
  <2>1. ASSUME overtook' # "answer" PROVE \A i \in DOMAIN staging' : staging'[i] \in {i, Bad}
      BY <1>2, <2>1 DEF AttemptIsInStep
  <2> QED
      BY <1>1, <1>3, <1>6, <2>1 DEF AttemptIsInStep
<1> QED
    BY <1>5, <1>7

\* A request other than the initialisation, when nothing is under way.
LEMMA AskingSteps ==
    ASSUME Inductive, current # 0, NEW k \in {"cancel", "finish"}, AskFor(k, 0),
           k = "finish" => target = "good",
           overtook # "answer" => sink # "open",
           task' \in Task, task'.known = task.known,
           task'.status \in {"cancelling", "finishing"}
    PROVE  DeviceStep /\ AttemptIsInStep'
<1> USE DEF Inductive
<1>1. UNCHANGED <<row, source, job, link, stream, current, sink, staging, target, faults, overtook>>
    BY DEF AskFor, server, files
<1>2. PICK c \in Links : c = current
    BY DEF TypeOK
<1>3. PICK r : r = [kind |-> k, offset |-> 0]
    OBVIOUS
<1>4. r \in Call /\ r.kind = k /\ r.offset = 0
    BY <1>3, DownloadAssumption DEF Call, Questions
<1>5. call' \in [Links -> Call] /\ call'[c] = r /\ \A b \in Links \ {c} : call'[b] = call[b]
    BY <1>2, <1>3, <1>4, OneCallIsMade DEF AskFor, TypeOK
<1>6. CallsAreMade
    BY <1>1, <1>2, <1>4, <1>5 DEF CallsAreMade, EndsAreSound
<1>7. TaskIsTrue(task')
    BY DEF TaskIsTrue
<1>8. DeviceStep
  <2>1. JobIsSound'
      BY <1>1 DEF JobIsSound
  <2>2. ~task.known => sink = "none" /\ staging = <<>>
      BY DEF EndsAreSound
  <2>3. link[current] # "unused"
      BY DEF EndsAreSound
  <2> QED
      BY <1>1, <1>6, <1>7, <2>1, <2>2, <2>3 DEF DeviceStep, TypeOK, Sinks, PublishedIsVerified
<1>9. ASSUME overtook' # "answer" PROVE ConversationIsInStep'
  <2>1. PICK n \in Nat, o \in Nat : n = Len(staging') /\ o = r.offset
      BY <1>1, <1>4 DEF TypeOK
  <2>2. r.kind \notin Opening
      BY <1>4 DEF Opening
  <2>3. c = current' /\ r = call'[c] /\ sink' # "open"
      BY <1>1, <1>2, <1>5, <1>9
  <2> QED
      BY <2>1, <2>2, <2>3, ConversationLater DEF Opening
<1>10. AttemptIsInStep'
  <2>1. ASSUME overtook' # "answer" PROVE \A i \in DOMAIN staging' : staging'[i] \in {i, Bad}
      BY <1>1, <2>1 DEF AttemptIsInStep
  <2> QED
      BY <1>1, <1>9, <2>1 DEF AttemptIsInStep
<1> QED
    BY <1>8, <1>10

\* The task fails while nothing is under way.
LEMMA FailingSteps ==
    ASSUME Inductive, current # 0, call[current] = Idle, NEW r \in BOOLEAN, task' = Failed(r),
           overtook # "answer" => sink # "open",
           UNCHANGED <<row, source, job, call, link, stream, current, sink, staging, target, faults,
                       overtook>>
    PROVE  DeviceStep /\ AttemptIsInStep'
<1> USE DEF Inductive
<1>1. PICK c \in Links : c = current
    BY DEF TypeOK
<1>2. /\ task' \in Task /\ task'.known = task.known
      /\ task' = task \/ (task'.status = "failed" /\ ~task'.active)
    BY FailedTask DEF TypeOK
<1>3. TaskIsTrue(task')
    BY <1>2, TaskIsTrueNow DEF TaskIsTrue
<1>4. DeviceStep
  <2>1. JobIsSound'
      BY DEF JobIsSound
  <2>2. ~task.known => sink = "none" /\ staging = <<>>
      BY DEF EndsAreSound
  <2>3. link[current] # "unused"
      BY DEF EndsAreSound
  <2> QED
      BY <1>2, <1>3, <2>1, <2>2, <2>3, NothingIsAsked DEF DeviceStep, TypeOK, Sinks, PublishedIsVerified
<1>5. ASSUME overtook' # "answer" PROVE ConversationIsInStep'
  <2>1. CASE task' = task
      BY <1>5, <2>1 DEF AttemptIsInStep, ConversationIsInStep, Continues, Fresh
  <2>2. CASE task'.status = "failed" /\ ~task'.active
    <3>1. PICK n \in Nat, o \in Nat : n = Len(staging') /\ o = Idle.offset
        BY EmptyRecords DEF TypeOK
    <3>2. Idle.kind \notin Opening
        BY EmptyRecords DEF Opening
    <3>3. c = current' /\ Idle = call'[c] /\ sink' # "open"
        BY <1>1, <1>5
    <3> QED
        BY <2>2, <3>1, <3>2, <3>3, ConversationLater DEF Opening
  <2> QED
      BY <1>2, <2>1, <2>2
<1>6. AttemptIsInStep'
  <2>1. ASSUME overtook' # "answer" PROVE \A i \in DOMAIN staging' : staging'[i] \in {i, Bad}
      BY <2>1 DEF AttemptIsInStep
  <2> QED
      BY <1>5, <2>1 DEF AttemptIsInStep
<1> QED
    BY <1>4, <1>6

\* The initialisation, when nothing is under way and nothing was asked for.
LEMMA InitialisingSteps ==
    ASSUME Inductive, current # 0, NEW o \in 0 .. Size, o = Offset, AskFor("init", o),
           task.status \in {"pending", "transferring"}, ~task.active,
           task' = [task EXCEPT !.active = TRUE]
    PROVE  DeviceStep /\ AttemptIsInStep'
<1> USE DEF Inductive
<1>1. UNCHANGED <<row, source, job, link, stream, current, sink, staging, target, faults, overtook>>
    BY DEF AskFor, server, files
<1>2. PICK c \in Links : c = current
    BY DEF TypeOK
<1>3. PICK r : r = [kind |-> "init", offset |-> o]
    OBVIOUS
<1>4. r \in Call /\ r.kind = "init" /\ r.offset = o
    BY <1>3, DownloadAssumption DEF Call, Questions
<1>5. call' \in [Links -> Call] /\ call'[c] = r /\ \A b \in Links \ {c} : call'[b] = call[b]
    BY <1>2, <1>3, <1>4, OneCallIsMade DEF AskFor, TypeOK
<1>6. CallsAreMade
    BY <1>1, <1>2, <1>4, <1>5 DEF CallsAreMade, EndsAreSound
<1>7. /\ task' \in Task /\ task'.status = task.status /\ task'.known = task.known
      /\ task'.restart = task.restart /\ task'.active
    BY TaskActive DEF TypeOK
<1>8. TaskIsTrue(task')
    BY <1>7 DEF TaskIsTrue
<1>9. DeviceStep
  <2>1. JobIsSound'
      BY <1>1 DEF JobIsSound
  <2>2. ~task.known => sink = "none" /\ staging = <<>>
      BY DEF EndsAreSound
  <2>3. link[current] # "unused"
      BY DEF EndsAreSound
  <2> QED
      BY <1>1, <1>6, <1>7, <1>8, <2>1, <2>2, <2>3 DEF DeviceStep, TypeOK, Sinks, PublishedIsVerified
<1>10. ASSUME overtook' # "answer" PROVE ConversationIsInStep'
  <2>1. PICK n \in Nat : n = Len(staging')
      BY <1>1 DEF TypeOK
  <2>2. o \in Nat
      BY DownloadAssumption
  <2>3. job' = NoJob /\ stream' = NoStream /\ sink' = "none"
      BY <1>1, <1>10 DEF AttemptIsInStep, ConversationIsInStep, Fresh
  <2>4. Len(<<>>) = 0 /\ DOMAIN <<>> = {}
      OBVIOUS
  <2>5. Continues(o)'
      BY <2>3, <2>4, EmptyRecords DEF Continues
  <2>6. ~task'.restart => ~(n > o)
    <3>1. CASE task.known /\ ~task.restart
        BY <1>1, <2>1, <2>2, <3>1 DEF Offset
    <3>2. CASE ~task.known
        BY <1>1, <2>1, <2>2, <2>4, <3>2 DEF EndsAreSound
    <3> QED
        BY <1>7, <3>1, <3>2
  <2>7. c = current' /\ r = call'[c]
      BY <1>1, <1>2, <1>5
  <2> QED
      BY <1>4, <1>7, <2>1, <2>2, <2>3, <2>5, <2>6, <2>7, ConversationLater
<1>11. AttemptIsInStep'
  <2>1. ASSUME overtook' # "answer" PROVE \A i \in DOMAIN staging' : staging'[i] \in {i, Bad}
      BY <1>1, <2>1 DEF AttemptIsInStep
  <2> QED
      BY <1>1, <1>10, <2>1 DEF AttemptIsInStep
<1> QED
    BY <1>9, <1>11

LEMMA AskSteps ==
    ASSUME Inductive, Ask
    PROVE  DeviceStep /\ AttemptIsInStep'
<1> USE DEF Inductive
<1>1. current # 0 /\ call[current] = Idle
    BY DEF Ask
<1>2. ASSUME ~(task.active /\ task.status = "transferring"), overtook # "answer" PROVE sink # "open"
    BY <1>1, <1>2 DEF AttemptIsInStep, ConversationIsInStep
<1>3. CASE task.status = "cancelling" /\ AskFor("cancel", 0) /\ UNCHANGED task
    BY <1>1, <1>2, <1>3, AskingSteps DEF TypeOK
<1>4. CASE task.status = "finishing" /\ target = "good" /\ AskFor("finish", 0)
           /\ task' = [task EXCEPT !.active = TRUE]
  <2>1. task' \in Task /\ task'.status = task.status /\ task'.known = task.known
      BY <1>4, TaskActive DEF TypeOK
  <2> QED
      BY <1>1, <1>2, <1>4, <2>1, AskingSteps
<1>5. CASE task.status = "finishing" /\ target # "good" /\ Stay(Failed(FALSE)) /\ UNCHANGED <<files, faults>>
    BY <1>1, <1>2, <1>5, FailingSteps DEF Stay, server, files
<1>6. CASE /\ task.status \in {"pending", "transferring"} /\ ~task.active
           /\ AskFor("finish", 0) /\ target = "good"
           /\ task' = [task EXCEPT !.status = "finishing", !.active = TRUE]
  <2>1. task \in Task
      BY DEF TypeOK
  <2>2. task' \in Task /\ task'.status = "finishing" /\ task'.known = task.known
      BY <1>6, <2>1, TaskFinishing
  <2> QED
      BY <1>1, <1>2, <1>6, <2>2, AskingSteps
<1>7. CASE /\ task.status \in {"pending", "transferring"} /\ ~task.active
           /\ Stay(Failed(TRUE)) /\ UNCHANGED <<files, faults>>
    BY <1>1, <1>2, <1>7, FailingSteps DEF Stay, server, files
<1>8. CASE /\ task.status \in {"pending", "transferring"} /\ ~task.active
           /\ Offset <= Size /\ AskFor("init", Offset)
           /\ task' = [task EXCEPT !.active = TRUE]
  <2>1. PICK o : o = Offset
      OBVIOUS
  <2>2. o \in 0 .. Size
    <3>1. Len(staging) \in Nat
        BY DEF TypeOK
    <3> QED
        BY <1>8, <2>1, <3>1, DownloadAssumption DEF Offset
  <2> QED
      BY <1>1, <1>8, <2>1, <2>2, InitialisingSteps
<1> QED
    BY <1>3, <1>4, <1>5, <1>6, <1>7, <1>8 DEF Ask

\* The grant names the file; its metadata come next.
LEMMA GrantSteps ==
    ASSUME Inductive, TakeGrant
    PROVE  DeviceStep /\ AttemptIsInStep'
<1> USE DEF Inductive
<1>1. /\ UNCHANGED <<row, source, job, link, stream, current, staging, target, faults, overtook>>
      /\ current # 0 /\ call[current].kind = "granted" /\ sink' = "waiting"
    BY DEF TakeGrant, Answered, server, files
<1>2. PICK c \in Links : c = current
    BY <1>1 DEF TypeOK
<1>3. /\ call' \in [Links -> Call] /\ call'[c].kind = "metadata" /\ call'[c].offset = call[c].offset
      /\ \A b \in Links \ {c} : call'[b] = call[b]
  <2>1. "metadata" \in Questions \cup Answers
      BY DEF Answers
  <2> QED
      BY <1>2, <2>1, OneCallIsAnswered DEF TakeGrant, Took, TypeOK
<1>0. PICK s \in Statuses :
        /\ s = Becomes("transferring")
        /\ s = "transferring" \/ s = task.status
        /\ task.status \in {"pending", "transferring"} => s = "transferring"
  <2>1. PICK t \in Statuses : t = "transferring"
      BY DEF Statuses
  <2>2. PICK s \in Statuses :
          /\ s = Becomes(t) /\ (s = t \/ s = task.status)
          /\ task.status \in {"pending", "transferring"} => s = t
      BY BecomesOrStays DEF TypeOK
  <2> QED
      BY <2>1, <2>2
<1>5. /\ task' \in Task /\ task'.status = s /\ task'.known
      /\ task'.restart = task.restart /\ task'.active = task.active
  <2>1. PICK t \in Task : t = task
      BY DEF TypeOK
  <2>2. PICK u : u = task'
      OBVIOUS
  <2>3. PICK b \in BOOLEAN : b
      OBVIOUS
  <2>4. u = [t EXCEPT !.status = s, !.known = b]
      BY <1>0, <2>1, <2>2, <2>3 DEF TakeGrant
  <2>5. /\ u \in Task /\ u.status = s /\ u.known = b /\ u.ready = t.ready
        /\ u.restart = t.restart /\ u.active = t.active
      BY <2>4 DEF Task
  <2> QED
      BY <2>1, <2>2, <2>3, <2>5
<1>4. CallsAreMade
    BY <1>1, <1>2, <1>3, <1>5 DEF CallsAreMade, EndsAreSound
<1>6. TaskIsTrue(task')
    BY <1>0, <1>5, TaskIsTrueNow DEF TaskIsTrue
<1>7. DeviceStep
  <2>1. JobIsSound'
      BY <1>1 DEF JobIsSound
  <2>2. link[current] # "unused"
      BY <1>1 DEF EndsAreSound
  <2> QED
      BY <1>1, <1>4, <1>5, <1>6, <2>1, <2>2 DEF DeviceStep, TypeOK, Sinks, PublishedIsVerified
<1>8. ASSUME overtook' # "answer" PROVE ConversationIsInStep'
  <2>1. PICK old \in Call, new \in Call : old = call[c] /\ new = call'[c]
      BY <1>3 DEF TypeOK
  <2>2. PICK o \in Nat, n \in Nat : o = old.offset /\ o = new.offset /\ n = Len(staging)
      BY <1>3, <2>1, DownloadAssumption DEF TypeOK, Call
  <2>3. ConversationIsInStep
      BY <1>1, <1>8 DEF AttemptIsInStep
  <2>4. old.kind \in Opening /\ old.kind = "granted" /\ new.kind = "metadata"
      BY <1>1, <1>2, <1>3, <2>1 DEF Opening
  <2>5. /\ task.active /\ task.status \in {"pending", "transferring"}
        /\ Continues(o)
        /\ ~task.restart /\ n > o => \A i \in DOMAIN staging : staging[i] = Bad
      BY <1>2, <2>1, <2>2, <2>3, <2>4, ConversationNow
  <2>6. Continues(o)'
      BY <1>1, <2>5 DEF Continues
  <2>7. c = current' /\ new = call'[c] /\ n = Len(staging')
      BY <1>1, <1>2, <2>1, <2>2
  <2>8. task'.status = "transferring" /\ task'.status \in {"pending", "transferring"} /\ task'.active
      BY <1>0, <1>5, <2>5
  <2>9. ~task'.restart /\ n > o => \A i \in DOMAIN staging' : staging'[i] = Bad
      BY <1>1, <1>5, <2>5
  <2> QED
      BY <1>1, <1>5, <2>2, <2>4, <2>6, <2>7, <2>8, <2>9, ConversationLater
<1>9. AttemptIsInStep'
  <2>1. ASSUME overtook' # "answer" PROVE \A i \in DOMAIN staging' : staging'[i] \in {i, Bad}
      BY <1>1, <2>1 DEF AttemptIsInStep
  <2> QED
      BY <1>1, <1>8, <2>1 DEF AttemptIsInStep
<1> QED
    BY <1>7, <1>9

\* The staging file is cut to the offset asked for, and the sink opens where what
\* is under way begins.
LEMMA MetadataSteps ==
    ASSUME Inductive, TakeMetadata
    PROVE  DeviceStep /\ AttemptIsInStep'
<1> USE DEF Inductive
<1>1. /\ UNCHANGED <<row, source, job, link, stream, current, target, faults, overtook>>
      /\ current # 0 /\ call[current].kind = "metadata"
    BY DEF TakeMetadata, Answered, server
<1>2. PICK c \in Links : c = current
    BY <1>1 DEF TypeOK
<1>3. call' \in [Links -> Call] /\ call'[c] = Idle /\ \A b \in Links \ {c} : call'[b] = call[b]
    BY <1>2, EmptyRecords, OneCallIsMade DEF TakeMetadata, Taken, TypeOK
<1>4. CallsAreMade
    BY <1>1, <1>2, <1>3, EmptyRecords DEF CallsAreMade, EndsAreSound
<1>5. PICK old \in Call : old = call[c]
    BY DEF TypeOK
<1>6. PICK o \in 0 .. Size, n \in Nat : o = old.offset /\ n = Len(staging)
    BY <1>5 DEF TypeOK, Call
<1>7. PICK t : /\ t \in Task /\ task' = [t EXCEPT !.ready = TRUE]
               /\ t.known = task.known /\ TaskIsTrue(t)
               /\ \/ t = task /\ task.status = "failed" /\ UNCHANGED <<sink, staging>>
                  \/ t = task /\ task.status # "failed" /\ n >= o /\ sink' = "open"
                     /\ staging' = SubSeq(staging, 1, o)
                  \/ t = Failed(FALSE) /\ sink' = "failed" /\ staging' = staging
  <2>1. PICK f : f = Failed(FALSE)
      OBVIOUS
  <2>2. f \in Task /\ f.known = task.known /\ (f = task \/ f.status = "failed")
      BY <2>1, FailedTask DEF TypeOK
  <2>3. TaskIsTrue(f) /\ TaskIsTrue(task) /\ task \in Task
      BY <2>2, TaskIsTrueNow DEF TaskIsTrue, TypeOK
  <2>4. CASE /\ task' = [task EXCEPT !.ready = TRUE]
             /\ task.status = "failed" /\ UNCHANGED <<sink, staging>>
      BY <2>3, <2>4
  <2>5. CASE /\ task' = [task EXCEPT !.ready = TRUE]
             /\ task.status # "failed" /\ n >= o /\ sink' = "open" /\ staging' = SubSeq(staging, 1, o)
      BY <2>3, <2>5
  <2>6. CASE /\ task' = [Failed(FALSE) EXCEPT !.ready = TRUE]
             /\ sink' = "failed" /\ staging' = staging
    <3>1. task' = [f EXCEPT !.ready = TRUE]
        BY <2>1, <2>6
    <3> QED
        BY <2>1, <2>2, <2>3, <2>6, <3>1
  <2> QED
      BY <1>2, <1>5, <1>6, <2>4, <2>5, <2>6 DEF TakeMetadata
<1>8. /\ task' \in Task /\ task'.status = t.status /\ task'.known = task.known
      /\ task'.active = t.active /\ task'.restart = t.restart
    BY <1>7, TaskReady
<1>9. TaskIsTrue(task')
    BY <1>7, <1>8 DEF TaskIsTrue
<1>10. /\ staging \in Seq(0 .. Size) /\ staging' \in Seq(0 .. Size)
       /\ n >= o /\ staging' = SubSeq(staging, 1, o) =>
            Len(staging') = o /\ \A i \in 1 .. o : staging'[i] = staging[i]
  <2>0. PICK s \in Seq(0 .. Size) : s = staging
      BY DEF TypeOK
  <2>1. CASE n >= o
    <3>1. 1 \in 1 .. Len(s) + 1 /\ o \in 1 - 1 .. Len(s)
        BY <1>6, <2>0, <2>1, DownloadAssumption
    <3>2. /\ SubSeq(s, 1, o) \in Seq(0 .. Size) /\ Len(SubSeq(s, 1, o)) = o - 1 + 1
          /\ \A i \in 1 .. o - 1 + 1 : SubSeq(s, 1, o)[i] = s[1 + i - 1]
        BY <3>1, Cut
    <3>3. o - 1 + 1 = o /\ \A i \in 1 .. o : 1 + i - 1 = i
        BY DownloadAssumption
    <3>4. /\ SubSeq(s, 1, o) \in Seq(0 .. Size) /\ Len(SubSeq(s, 1, o)) = o
          /\ \A i \in 1 .. o : SubSeq(s, 1, o)[i] = s[i]
        BY <3>2, <3>3
    <3> QED
        BY <1>7, <2>0, <3>4
  <2>2. CASE ~(n >= o)
      BY <1>7, <2>0, <2>2
  <2> QED
      BY <2>1, <2>2
<1>11. task.known
    BY <1>1, <1>2 DEF EndsAreSound
<1>12. DeviceStep
  <2>1. JobIsSound'
      BY <1>1 DEF JobIsSound
  <2>2. link[current] # "unused"
      BY <1>1 DEF EndsAreSound
  <2>3. sink' \in Sinks
      BY <1>7 DEF Sinks, TypeOK
  <2> QED
      BY <1>1, <1>4, <1>8, <1>9, <1>10, <1>11, <2>1, <2>2, <2>3 DEF DeviceStep, TypeOK, PublishedIsVerified
<1>13. ASSUME overtook' # "answer"
       PROVE  /\ ConversationIsInStep'
              /\ \A i \in DOMAIN staging' : staging'[i] \in {i, Bad}
  <2>1. PICK m \in Nat, k \in Nat : m = Len(staging') /\ k = Idle.offset
      BY <1>10, EmptyRecords
  <2>2. o \in Nat /\ old.kind \in Opening /\ old.kind = "metadata"
      BY <1>1, <1>2, <1>5, DownloadAssumption DEF Opening
  <2>3. ConversationIsInStep /\ \A i \in DOMAIN staging : staging[i] \in {i, Bad}
      BY <1>1, <1>13 DEF AttemptIsInStep
  <2>4. task.active /\ task.status = "transferring" /\ Continues(o) /\ sink = "waiting"
      BY <1>2, <1>5, <1>6, <2>2, <2>3, ConversationNow
  <2>5. Continues(o)'
      BY <1>1, <2>4 DEF Continues
  <2>6. Idle.kind \notin Opening /\ c = current' /\ Idle = call'[c]
      BY <1>1, <1>2, <1>3, EmptyRecords DEF Opening
  <2>7. CASE sink' = "open" /\ t = task /\ n >= o /\ staging' = SubSeq(staging, 1, o)
    <3>1. m = o /\ \A i \in 1 .. o : staging'[i] = staging[i]
        BY <1>10, <2>1, <2>7
    <3>2. DOMAIN staging' = 1 .. m /\ DOMAIN staging = 1 .. n
        BY <1>6, <1>10, <2>1
    <3>3. \A i \in DOMAIN staging' : staging'[i] \in {i, Bad}
        BY <2>2, <2>3, <2>7, <3>1, <3>2
    <3>4. task'.active /\ task'.status = "transferring"
        BY <1>8, <2>4, <2>7
    <3>5. ConversationIsInStep'
        BY <2>1, <2>5, <2>6, <2>7, <3>1, <3>4, ConversationLater DEF Opening
    <3> QED
        BY <3>3, <3>5
  <2>8. CASE t = Failed(FALSE) /\ sink' = "failed" /\ staging' = staging
    <3>1. t.status = "failed"
        BY <1>11, <2>4, <2>8, FailedTask DEF TypeOK
    <3>2. task'.status = "failed"
        BY <1>8, <3>1
    <3>3. ConversationIsInStep'
        BY <2>1, <2>6, <2>8, <3>2, ConversationLater DEF Opening
    <3> QED
        BY <2>3, <2>8, <3>3
  <2> QED
      BY <1>7, <2>4, <2>7, <2>8
<1>14. AttemptIsInStep'
    BY <1>1, <1>13 DEF AttemptIsInStep
<1> QED
    BY <1>12, <1>14

LEMMA HeaderSteps ==
    ASSUME Inductive, TakeHeader
    PROVE  DeviceStep /\ AttemptIsInStep'
<1> USE DEF Inductive
<1>1. /\ UNCHANGED <<row, source, job, link, call, current, task, sink, staging, target, faults, overtook>>
      /\ current # 0 /\ (job.state = "sending" \/ stream.end # "none")
      /\ stream' = [stream EXCEPT !.seen = TRUE]
    BY DEF TakeHeader, server, files
<1>2. stream' \in Stream /\ stream'.bytes = stream.bytes /\ stream'.end = stream.end
  <2>1. PICK b \in BOOLEAN : b
      OBVIOUS
  <2>2. stream' = [stream EXCEPT !.seen = b]
      BY <1>1, <2>1
  <2> QED
      BY <2>2 DEF TypeOK, Stream
<1>3. ~(job = NoJob /\ stream = NoStream)
    BY <1>1, EmptyRecords
<1>4. DeviceStep
  <2>1. JobIsSound'
      BY <1>1, <1>2 DEF JobIsSound
  <2>2. link[current] # "unused"
      BY <1>1 DEF EndsAreSound
  <2>3. CallsAreMade /\ TaskIsTrue(task)
      BY <1>1, NothingIsAsked, TaskIsTrueNow
  <2>4. TaskIsTrue(task')
      BY <1>1, <2>3 DEF TaskIsTrue
  <2>5. ~task.known => sink = "none" /\ staging = <<>>
      BY DEF EndsAreSound
  <2> QED
      BY <1>1, <1>2, <2>1, <2>2, <2>3, <2>4, <2>5 DEF DeviceStep, TypeOK, Sinks, PublishedIsVerified
<1>5. ASSUME overtook' # "answer" PROVE ConversationIsInStep'
    BY <1>1, <1>2, <1>3, <1>5 DEF AttemptIsInStep, ConversationIsInStep, Continues, Fresh
<1>6. AttemptIsInStep'
  <2>1. ASSUME overtook' # "answer" PROVE \A i \in DOMAIN staging' : staging'[i] \in {i, Bad}
      BY <1>1, <2>1 DEF AttemptIsInStep
  <2> QED
      BY <1>1, <1>5, <2>1 DEF AttemptIsInStep
<1> QED
    BY <1>4, <1>6

LEMMA OutcomeSteps ==
    ASSUME Inductive, TakeOutcome
    PROVE  DeviceStep /\ AttemptIsInStep'
<1> USE DEF Inductive
<1>1. /\ UNCHANGED <<row, source, job, link, stream, current, sink, staging, target, faults, overtook>>
      /\ current # 0
    BY DEF TakeOutcome, Answered, server, files
<1>2. PICK c \in Links : c = current
    BY <1>1 DEF TypeOK
<1>3. PICK k \in {"refused", "finished", "cancelled", "tooLate"} : k = call[c].kind
    BY <1>2 DEF TakeOutcome, Answered
<1>4. call' \in [Links -> Call] /\ call'[c] = Idle /\ \A b \in Links \ {c} : call'[b] = call[b]
    BY <1>2, EmptyRecords, OneCallIsMade DEF TakeOutcome, Taken, TypeOK
<1>5. CallsAreMade
    BY <1>1, <1>2, <1>4, EmptyRecords DEF CallsAreMade, EndsAreSound
<1>6. PICK s \in Statuses \ {"pending", "transferring"} :
        /\ task' = [task EXCEPT !.status = s, !.active = FALSE]
        /\ s \in {"completed", "cancel_failed"} => row = "completed"
        /\ s = "cancelled" => row = "cancelled"
  <2>1. PICK o \in {"failed", "completed", "cancelled", "cancel_failed"} :
          /\ task' = [task EXCEPT !.status = Becomes(o), !.active = FALSE]
          /\ o \in {"completed", "cancel_failed"} => row = "completed"
          /\ o = "cancelled" => row = "cancelled"
      BY <1>2, <1>3 DEF TakeOutcome, Outcome, AnswersAreTrue
  <2>2. /\ Becomes(o) \in Statuses
        /\ Becomes(o) = o \/ (Becomes(o) = task.status /\ task.status \in Final \cup Cancelling)
    <3>1. o \in Statuses
        BY DEF Statuses
    <3> QED
        BY <3>1, BecomesOrStays DEF TypeOK
  <2>3. TaskIsTrue(task)
      BY TaskIsTrueNow
  <2> QED
      BY <2>1, <2>2, <2>3 DEF TaskIsTrue, Final, Cancelling
<1>7. /\ task' \in Task /\ task'.status = s /\ task'.known = task.known
  <2>1. PICK b \in BOOLEAN : ~b
      OBVIOUS
  <2>2. task' = [task EXCEPT !.status = s, !.active = b] /\ s \in Statuses
      BY <1>6, <2>1 DEF Statuses
  <2> QED
      BY <2>2 DEF TypeOK, Task
<1>8. TaskIsTrue(task')
    BY <1>1, <1>6, <1>7 DEF TaskIsTrue
<1>9. DeviceStep
  <2>1. JobIsSound'
      BY <1>1 DEF JobIsSound
  <2>2. link[current] # "unused"
      BY <1>1 DEF EndsAreSound
  <2>3. ~task.known => sink = "none" /\ staging = <<>>
      BY DEF EndsAreSound
  <2> QED
      BY <1>1, <1>5, <1>7, <1>8, <2>1, <2>2, <2>3 DEF DeviceStep, TypeOK, Sinks, PublishedIsVerified
<1>10. ASSUME overtook' # "answer" PROVE ConversationIsInStep'
  <2>1. PICK n \in Nat, o \in Nat : n = Len(staging') /\ o = Idle.offset
      BY <1>1, EmptyRecords DEF TypeOK
  <2>2. sink # "open"
    <3>1. ConversationIsInStep
        BY <1>1, <1>10 DEF AttemptIsInStep
    <3>2. call[current] # Idle
        BY <1>2, <1>3, EmptyRecords
    <3> QED
        BY <3>1, <3>2 DEF ConversationIsInStep
  <2>3. Idle.kind \notin Opening /\ c = current' /\ Idle = call'[c]
      BY <1>1, <1>2, <1>4, EmptyRecords DEF Opening
  <2>4. task'.status \notin {"pending", "transferring"}
      BY <1>6, <1>7
  <2> QED
      BY <1>1, <2>1, <2>2, <2>3, <2>4, ConversationLater DEF Opening
<1>11. AttemptIsInStep'
  <2>1. ASSUME overtook' # "answer" PROVE \A i \in DOMAIN staging' : staging'[i] \in {i, Bad}
      BY <1>1, <2>1 DEF AttemptIsInStep
  <2> QED
      BY <1>1, <1>10, <2>1 DEF AttemptIsInStep
<1> QED
    BY <1>9, <1>11

LEMMA PutOffSteps ==
    ASSUME Inductive, TakePutOff
    PROVE  DeviceStep /\ AttemptIsInStep'
<1> USE DEF Inductive
<1>1. /\ UNCHANGED <<row, source, link, staging, target, faults, overtook>>
      /\ current # 0
    BY DEF TakePutOff, Answered, files
<1>2. PICK c \in Links : c = current
    BY <1>1 DEF TypeOK
<1>3. call' \in [Links -> Call] /\ call'[c] = Idle /\ \A b \in Links \ {c} : call'[b] = call[b]
    BY <1>2, EmptyRecords, OneCallIsMade DEF TakePutOff, Taken, TypeOK
<1>4. CallsAreMade
    BY <1>1, <1>2, <1>3, EmptyRecords DEF CallsAreMade, EndsAreSound
<1>5. TaskIsTrue(task) /\ task \in Task /\ faults' \in 0 .. MaxFaults
    BY <1>1, TaskIsTrueNow, FaultsAreCounted DEF TypeOK
<1>6. CASE /\ current' = 0 /\ task' = [task EXCEPT !.active = FALSE] /\ sink' = "none"
           /\ job' = NoJob /\ stream' = NoStream
    BY <1>1, <1>4, <1>5, <1>6, Leaving
<1>7. CASE task.status \notin {"pending", "transferring"} /\ UNCHANGED <<current, task, sink, job, stream>>
  <2>1. DeviceStep
    <3>1. JobIsSound'
        BY <1>7 DEF JobIsSound
    <3>2. link[current] # "unused"
        BY <1>1 DEF EndsAreSound
    <3>3. ~task.known => sink = "none" /\ staging = <<>>
        BY DEF EndsAreSound
    <3>4. TaskIsTrue(task')
        BY <1>1, <1>5, <1>7 DEF TaskIsTrue
    <3> QED
        BY <1>1, <1>4, <1>5, <1>7, <3>1, <3>2, <3>3, <3>4 DEF DeviceStep, TypeOK, Sinks, PublishedIsVerified
  <2>2. ASSUME overtook' # "answer" PROVE ConversationIsInStep'
    <3>1. PICK n \in Nat, o \in Nat : n = Len(staging') /\ o = Idle.offset
        BY <1>1, EmptyRecords DEF TypeOK
    <3>2. sink # "open"
        BY <1>1, <1>7, <2>2 DEF AttemptIsInStep, ConversationIsInStep
    <3>3. Idle.kind \notin Opening /\ c = current' /\ Idle = call'[c]
        BY <1>2, <1>3, <1>7, EmptyRecords DEF Opening
    <3> QED
        BY <1>7, <3>1, <3>2, <3>3, ConversationLater DEF Opening
  <2>3. ASSUME overtook' # "answer" PROVE \A i \in DOMAIN staging' : staging'[i] \in {i, Bad}
      BY <1>1, <2>3 DEF AttemptIsInStep
  <2>4. AttemptIsInStep'
      BY <1>1, <1>7, <2>2, <2>3 DEF AttemptIsInStep
  <2> QED
      BY <2>1, <2>4
<1> QED
    BY <1>6, <1>7 DEF TakePutOff

\* What a sequence of units begins with.
LEMMA Beginning ==
    ASSUME NEW s \in Seq(0 .. Size), NEW n \in 0 .. Len(s), NEW h, h = SubSeq(s, 1, n)
    PROVE  h \in Seq(0 .. Size) /\ Len(h) = n /\ \A i \in 1 .. n : h[i] = s[i]
<1>1. 1 \in 1 .. Len(s) + 1 /\ n \in 1 - 1 .. Len(s) /\ n \in Nat
    OBVIOUS
<1>2. h \in Seq(0 .. Size) /\ Len(h) = n - 1 + 1 /\ \A i \in 1 .. n - 1 + 1 : h[i] = s[1 + i - 1]
    BY <1>1, Cut
<1>3. n - 1 + 1 = n /\ \A i \in 1 .. n : 1 + i - 1 = i
    BY <1>1
<1> QED
    BY <1>2, <1>3

\* What is left of a sequence, whatever its elements.
LEMMA Rest ==
    ASSUME NEW S, NEW s \in Seq(S), NEW n \in 0 .. Len(s), NEW r, r = SubSeq(s, n + 1, Len(s))
    PROVE  r \in Seq(S) /\ Len(r) = Len(s) - n /\ \A i \in 1 .. Len(s) - n : r[i] = s[n + i]
<1>1. PICK l \in Nat, a \in Nat : l = Len(s) /\ a = n + 1
    OBVIOUS
<1>2. a \in 1 .. Len(s) + 1 /\ l \in a - 1 .. Len(s) /\ r = SubSeq(s, a, l)
    BY <1>1
<1>3. r \in Seq(S) /\ Len(r) = l - a + 1 /\ \A i \in 1 .. l - a + 1 : r[i] = s[a + i - 1]
    BY <1>2, Cut, ZenonT(30)
<1>4. l - a + 1 = l - n /\ \A i \in 1 .. l - n : a + i - 1 = n + i
    BY <1>1
<1> QED
    BY <1>1, <1>3, <1>4

\* What is left of a sequence of units.
LEMMA Remainder ==
    ASSUME NEW s \in Seq(0 .. Size), NEW n \in 0 .. Len(s), NEW r, r = SubSeq(s, n + 1, Len(s))
    PROVE  r \in Seq(0 .. Size) /\ Len(r) = Len(s) - n /\ \A i \in 1 .. Len(s) - n : r[i] = s[n + i]
<1>1. \A t \in Seq(0 .. Size) : \A m \in 0 .. Len(t) : \A q : q = SubSeq(t, m + 1, Len(t)) =>
        q \in Seq(0 .. Size) /\ Len(q) = Len(t) - m /\ \A i \in 1 .. Len(t) - m : q[i] = t[m + i]
    BY Rest
<1> QED
    BY <1>1

\* Bytes are written where the staging file ends, all that came or, when the write
\* fails, the first of them.
LEMMA BytesSteps ==
    ASSUME Inductive, TakeBytes
    PROVE  DeviceStep /\ AttemptIsInStep'
<1> USE DEF Inductive
<1>1. /\ UNCHANGED <<row, source, job, link, call, current, target, overtook>>
      /\ stream.seen /\ sink = "open"
    BY DEF TakeBytes, server
<1>2. current # 0 /\ task.known
    BY <1>1 DEF EndsAreSound
<1>3. PICK c \in Links : c = current
    BY <1>2 DEF TypeOK
<1>4. PICK s, b : s = staging /\ b = stream.bytes
    OBVIOUS
<1>5. s \in Seq(0 .. Size) /\ b \in Seq(0 .. Size)
    BY <1>4 DEF TypeOK, Stream
<1>6. PICK n \in 1 .. Len(b), m \in 0 .. Len(b) :
        /\ stream' = [stream EXCEPT !.bytes = SubSeq(b, n + 1, Len(b))]
        /\ staging' = s \o SubSeq(b, 1, m)
        /\ \/ m = n /\ UNCHANGED <<task, sink, faults>>
           \/ Fault /\ task' = Failed(FALSE) /\ sink' = "failed"
  <2>1. PICK n \in 1 .. Len(b) :
          /\ stream' = [stream EXCEPT !.bytes = SubSeq(b, n + 1, Len(b))]
          /\ \/ staging' = s \o SubSeq(b, 1, n) /\ UNCHANGED <<task, sink, faults>>
             \/ /\ Fault
                /\ \E torn \in 0 .. n - 1 : staging' = s \o SubSeq(b, 1, torn)
                /\ task' = Failed(FALSE) /\ sink' = "failed"
      BY <1>4 DEF TakeBytes
  <2>2. Len(b) \in Nat /\ n \in 0 .. Len(b) /\ \A torn \in 0 .. n - 1 : torn \in 0 .. Len(b)
      BY <1>5
  <2> QED
      BY <2>1, <2>2
<1>7. PICK h, r : h = SubSeq(b, 1, m) /\ r = SubSeq(b, n + 1, Len(b))
    OBVIOUS
<1>8. PICK l \in Nat, ls \in Nat : l = Len(b) /\ ls = Len(s)
    BY <1>5
<1>9. /\ h \in Seq(0 .. Size) /\ Len(h) = m /\ \A i \in 1 .. m : h[i] = b[i]
  <2>1. m \in 0 .. Len(b) /\ b \in Seq(0 .. Size)
      BY <1>5
  <2> QED
      BY <1>7, <2>1, Beginning
<1>10. /\ r \in Seq(0 .. Size) /\ Len(r) = l - n /\ \A i \in 1 .. l - n : r[i] = b[n + i]
  <2>1. n \in 0 .. Len(b) /\ b \in Seq(0 .. Size)
      BY <1>5
  <2>2. /\ r \in Seq(0 .. Size) /\ Len(r) = Len(b) - n
        /\ \A i \in 1 .. Len(b) - n : r[i] = b[n + i]
      BY <1>7, <2>1, Remainder
  <2> QED
      BY <1>8, <2>2
<1>11. stream' \in Stream /\ stream'.bytes = r /\ stream'.end = stream.end
  <2>1. stream' = [stream EXCEPT !.bytes = r]
      BY <1>6, <1>7
  <2> QED
      BY <1>10, <2>1 DEF TypeOK, Stream
<1>12. staging' \in Seq(0 .. Size) /\ staging' = s \o h
    BY <1>5, <1>6, <1>7, <1>9
<1>13. /\ task' \in Task /\ task'.known = task.known /\ TaskIsTrue(task')
       /\ faults' \in 0 .. MaxFaults /\ sink' \in Sinks
  <2>1. TaskIsTrue(task) /\ task \in Task /\ sink \in Sinks
      BY TaskIsTrueNow DEF TypeOK, Sinks
  <2>2. /\ Failed(FALSE) \in Task /\ Failed(FALSE).known = task.known
        /\ Failed(FALSE) = task \/ Failed(FALSE).status = "failed"
      BY <2>1, FailedTask
  <2>3. task' \in Task /\ task'.known = task.known /\ (task' = task \/ task'.status = "failed")
      BY <1>6, <2>1, <2>2
  <2>4. TaskIsTrue(task')
      BY <1>1, <2>1, <2>3 DEF TaskIsTrue
  <2> QED
      BY <1>6, <2>1, <2>3, <2>4, FaultsAreCounted DEF Sinks
<1>14. DeviceStep
  <2>1. b # <<>>
      BY <1>5, <1>6, <1>8
  <2>2. JobIsSound'
      BY <1>1, <1>4, <1>11, <2>1 DEF JobIsSound
  <2>3. link[current] # "unused"
      BY <1>2 DEF EndsAreSound
  <2> QED
      BY <1>1, <1>2, <1>11, <1>12, <1>13, <2>2, <2>3, NothingIsAsked DEF DeviceStep, TypeOK, PublishedIsVerified
<1>15. ASSUME overtook' # "answer"
       PROVE  /\ \A i \in DOMAIN staging' : staging'[i] \in {i, Bad}
              /\ ConversationIsInStep'
  <2>1. PICK o \in Nat : o = Idle.offset
      BY EmptyRecords
  <2>2. ConversationIsInStep /\ \A i \in DOMAIN staging : staging[i] \in {i, Bad}
      BY <1>1, <1>2, <1>15 DEF AttemptIsInStep
  <2>3. /\ task.active /\ task.status = "transferring" /\ call[c] = Idle
        /\ Continues(ls)
      BY <1>1, <1>3, <1>4, <1>8, <2>2 DEF ConversationIsInStep
  <2>4. s \in Seq(Nat) /\ b \in Seq(Nat) /\ h \in Seq(Nat)
      BY <1>5, <1>9, PositionsAreNumbers, DownloadAssumption
  <2>5. \A i \in 1 .. l : b[i] \in {ls + i, Bad}
      BY <1>4, <1>8, <2>3, <2>4 DEF Continues
  <2>6. \A i \in 1 .. Len(s) : s[i] \in {0 + i, Bad}
      BY <1>4, <2>2, <2>4
  <2>7. \A i \in 1 .. Len(h) : h[i] \in {0 + Len(s) + i, Bad}
    <3>1. ASSUME NEW i \in 1 .. m PROVE h[i] \in {0 + ls + i, Bad}
      <4>1. i \in 1 .. l /\ 0 + ls + i = ls + i
          BY <1>8
      <4> QED
          BY <1>9, <2>5, <4>1
    <3> QED
        BY <1>8, <1>9, <3>1
  <2>8. /\ s \o h \in Seq(Nat) /\ Len(s \o h) = ls + m
        /\ \A i \in 1 .. Len(s \o h) : (s \o h)[i] \in {0 + i, Bad}
      BY <1>8, <1>9, <2>4, <2>6, <2>7, InPlaceTogether
  <2>9. \A i \in DOMAIN staging' : staging'[i] \in {i, Bad}
    <3>1. PICK f : f = s \o h
        OBVIOUS
    <3>3. f \in Seq(Nat) /\ \A i \in 1 .. Len(f) : f[i] \in {0 + i, Bad}
        BY <2>8, <3>1
    <3>2. DOMAIN f = 1 .. Len(f) /\ \A i \in 1 .. Len(f) : 0 + i = i
        BY <3>3
    <3> QED
        BY <1>12, <3>1, <3>2, <3>3
  <2>10. c = current' /\ Idle = call'[c] /\ Idle.kind \notin Opening /\ ls + m = Len(staging')
      BY <1>1, <1>3, <1>12, <2>3, <2>8, EmptyRecords DEF Opening
  <2>11. CASE m = n /\ UNCHANGED <<task, sink, faults>>
    <3>1. PICK k \in Nat : k = ls + n
        OBVIOUS
    <3>2. \A i \in DOMAIN r : r[i] \in {k + i, Bad}
      <4>1. DOMAIN r = 1 .. l - n
          BY <1>10
      <4>2. ASSUME NEW i \in 1 .. l - n PROVE r[i] \in {k + i, Bad}
        <5>1. n + i \in 1 .. l /\ ls + (n + i) = k + i
            BY <1>8, <3>1
        <5> QED
            BY <1>10, <2>5, <5>1
      <4> QED
          BY <4>1, <4>2
    <3>3. k + Len(r) = ls + l
        BY <1>8, <1>10, <3>1
    <3>4. /\ job.state = "sending" => ls + l = job.offset
          /\ stream.end = "fin" => ls + l = Size
        BY <1>4, <1>8, <2>3 DEF Continues
    <3>5. Continues(k)'
        BY <1>1, <1>11, <3>2, <3>3, <3>4 DEF Continues
    <3>6. k = Len(staging') /\ task'.active /\ task'.status = "transferring"
        BY <2>3, <2>10, <2>11, <3>1
    <3>7. ConversationIsInStep'
        BY <2>1, <2>10, <3>5, <3>6, ConversationLater DEF Opening
    <3> QED
        BY <2>9, <3>7
  <2>12. CASE task' = Failed(FALSE) /\ sink' = "failed"
    <3>1. task'.status = "failed"
        BY <1>2, <2>3, <2>12, FailedTask DEF TypeOK
    <3>2. ls + m \in Nat
        BY <1>8
    <3>3. ConversationIsInStep'
        BY <2>1, <2>10, <2>12, <3>1, <3>2, ConversationLater DEF Opening
    <3> QED
        BY <2>9, <3>3
  <2> QED
      BY <1>6, <2>11, <2>12
<1>16. AttemptIsInStep'
    BY <1>1, <1>2, <1>15 DEF AttemptIsInStep
<1> QED
    BY <1>14, <1>16

\* The stream ends: the verified file is published and the finish asked for, or the
\* task fails.
LEMMA EndSteps ==
    ASSUME Inductive, TakeEnd
    PROVE  DeviceStep /\ AttemptIsInStep'
<1> USE DEF Inductive
<1>1. /\ UNCHANGED <<row, source, job, link, current, overtook>>
      /\ stream.end = "fin" /\ sink = "open" /\ call[current] = Idle /\ stream' = NoStream
    BY DEF TakeEnd, server
<1>2. current # 0 /\ task.known /\ link[current] # "unused"
    BY <1>1 DEF EndsAreSound
<1>3. PICK c \in Links : c = current
    BY <1>2 DEF TypeOK
<1>4. job.state # "sending" /\ JobIsSound'
    BY <1>1, EmptyRecords DEF JobIsSound
<1>5. TaskIsTrue(task) /\ task \in Task /\ target \in Targets \ {"wrong"}
    BY TaskIsTrueNow DEF TypeOK, PublishedIsVerified
<1>6. CASE /\ target' = "good" /\ staging' = <<>> /\ sink' = "finished"
           /\ task' = [task EXCEPT !.status = Becomes("finishing")]
           /\ call' = [call EXCEPT ![current] = [kind |-> "finish", offset |-> 0]]
           /\ UNCHANGED faults
  <2>1. PICK r : r = [kind |-> "finish", offset |-> 0]
      OBVIOUS
  <2>2. r \in Call /\ r.kind = "finish" /\ r.offset = 0
      BY <2>1, DownloadAssumption DEF Call, Questions
  <2>3. call' \in [Links -> Call] /\ call'[c] = r /\ \A b \in Links \ {c} : call'[b] = call[b]
      BY <1>3, <1>6, <2>1, <2>2, OneCallIsMade DEF TypeOK
  <2>4. CallsAreMade
      BY <1>2, <1>3, <1>6, <2>2, <2>3 DEF CallsAreMade
  <2>5. PICK s \in Statuses \ {"pending", "transferring"} :
          s = Becomes("finishing") /\ (s = "finishing" \/ s = task.status)
    <3>1. PICK t \in Statuses : t = "finishing"
        BY DEF Statuses
    <3> QED
        BY <1>5, <3>1, BecomesOrStays DEF Final, Cancelling
  <2>6. task' \in Task /\ task'.status = s /\ task'.known = task.known
      BY <1>5, <1>6, <2>5, TaskInStatus
  <2>7. TaskIsTrue(task')
      BY <1>1, <1>5, <2>5, <2>6 DEF TaskIsTrue
  <2>8. PICK e : e = <<>>
      OBVIOUS
  <2>9. e \in Seq(0 .. Size) /\ Len(e) = 0 /\ DOMAIN e = {} /\ staging' = e
      BY <1>6, <2>8
  <2>10. PICK g \in Targets \ {"wrong", "before"} : g = target'
      BY <1>6 DEF Targets
  <2>11. sink' \in Sinks \ {"open"}
      BY <1>6 DEF Sinks
  <2>12. DeviceStep
      BY <1>1, <1>2, <1>4, <1>6, <2>4, <2>6, <2>7, <2>9, <2>10, <2>11, EmptyRecords
         DEF DeviceStep, TypeOK
  <2>13. ConversationIsInStep'
    <3>1. c = current' /\ r.kind \notin Opening /\ s \notin {"pending", "transferring"} /\ sink' # "open"
        BY <1>1, <1>3, <2>2, <2>5, <2>11 DEF Opening
    <3>2. PICK n \in Nat, o \in Nat : n = Len(staging') /\ o = r.offset
        BY <2>2, <2>9
    <3> QED
        BY <2>2, <2>3, <2>6, <3>1, <3>2, ConversationLater DEF Opening
  <2>14. AttemptIsInStep'
      BY <1>1, <1>2, <2>9, <2>13 DEF AttemptIsInStep
  <2> QED
      BY <2>12, <2>14
<1>7. ASSUME NEW r \in BOOLEAN, task' = Failed(r), sink' = "failed", UNCHANGED <<call, files>>,
             Fault \/ faults' = faults
      PROVE  DeviceStep /\ AttemptIsInStep'
  <2>1. /\ task' \in Task /\ task'.known = task.known
        /\ task' = task \/ (task'.status = "failed" /\ ~task'.active)
      BY <1>5, <1>7, FailedTask
  <2>2. TaskIsTrue(task')
      BY <1>1, <1>5, <2>1 DEF TaskIsTrue
  <2>3. CallsAreMade /\ faults' \in 0 .. MaxFaults /\ sink' \in Sinks
      BY <1>7, NothingIsAsked, FaultsAreCounted DEF Sinks
  <2>4. UNCHANGED <<staging, target>>
      BY <1>7 DEF files
  <2>5. DeviceStep
      BY <1>1, <1>2, <1>4, <1>5, <2>1, <2>2, <2>3, <2>4, EmptyRecords DEF DeviceStep, TypeOK
  <2>6. ASSUME overtook' # "answer"
        PROVE  /\ \A i \in DOMAIN staging' : staging'[i] \in {i, Bad}
               /\ ConversationIsInStep'
    <3>1. /\ ConversationIsInStep /\ \A i \in DOMAIN staging : staging[i] \in {i, Bad}
        BY <1>1, <1>2, <2>6 DEF AttemptIsInStep
    <3>2. task.status = "transferring"
        BY <1>1, <3>1 DEF ConversationIsInStep
    <3>3. task'.status = "failed"
        BY <1>2, <1>5, <1>7, <3>2, FailedTask
    <3>4. PICK n \in Nat, o \in Nat : n = Len(staging') /\ o = Idle.offset
        BY <2>4, EmptyRecords DEF TypeOK
    <3>5. c = current' /\ Idle = call'[c] /\ Idle.kind \notin Opening /\ sink' # "open"
        BY <1>1, <1>3, <1>7, EmptyRecords DEF Opening
    <3>6. ConversationIsInStep'
        BY <3>3, <3>4, <3>5, ConversationLater DEF Opening
    <3> QED
        BY <2>4, <3>1, <3>6
  <2>7. AttemptIsInStep'
      BY <1>1, <1>2, <2>6 DEF AttemptIsInStep
  <2> QED
      BY <2>5, <2>7
<1>8. CASE ~Verified /\ task' = Failed(Len(staging) = Size) /\ sink' = "failed" /\ UNCHANGED <<call, files, faults>>
  <2>1. PICK r \in BOOLEAN : r = (Len(staging) = Size)
      OBVIOUS
  <2> QED
      BY <1>7, <1>8, <2>1
<1>9. CASE Fault /\ task' = Failed(FALSE) /\ sink' = "failed" /\ UNCHANGED <<call, files>>
    BY <1>7, <1>9
<1> QED
    BY <1>6, <1>8, <1>9 DEF TakeEnd, Verified

\* A reset ends the transfer, and whatever it overtook is recorded.
LEMMA ResetSteps ==
    ASSUME Inductive, TakeReset
    PROVE  DeviceStep /\ AttemptIsInStep'
<1> USE DEF Inductive
<1>1. /\ UNCHANGED <<row, source, job, link, call, current, staging, target, faults>>
      /\ current # 0 /\ stream.end = "reset" /\ stream' = NoStream
    BY DEF TakeReset, server, files
<1>2. PICK c \in Links : c = current
    BY <1>1 DEF TypeOK
<1>3. job.state # "sending" /\ JobIsSound'
    BY <1>1, EmptyRecords DEF JobIsSound
<1>4. link[current] # "unused" /\ (~task.known => sink = "none" /\ staging = <<>>)
    BY <1>1 DEF EndsAreSound
<1>5. TaskIsTrue(task) /\ task \in Task /\ target \in Targets \ {"wrong"}
    BY TaskIsTrueNow DEF TypeOK, PublishedIsVerified
<1>6. /\ task' = task \/ task' = Failed(FALSE)
      /\ task' \in Task /\ task'.known = task.known
      /\ task' = task \/ (task'.status = "failed" /\ ~task'.active)
    BY <1>5, FailedTask DEF TakeReset
<1>7. TaskIsTrue(task')
    BY <1>1, <1>5, <1>6 DEF TaskIsTrue
<1>8. /\ sink' \in Sinks /\ (~task.known => sink' = "none")
      /\ sink' = sink \/ sink' = "failed"
    BY <1>4 DEF TakeReset, TypeOK, Sinks
<1>9. overtook' \in Overtaken
    BY DEF TakeReset, TypeOK, Overtaken
<1>10. DeviceStep
    BY <1>1, <1>3, <1>4, <1>5, <1>6, <1>7, <1>8, <1>9, EmptyRecords, NothingIsAsked
       DEF DeviceStep, TypeOK
<1>11. ASSUME overtook' # "answer"
       PROVE  overtook # "answer" /\ ConversationIsInStep'
  <2>1. overtook # "answer"
      BY <1>11 DEF TakeReset
  <2>2. ConversationIsInStep
      BY <1>1, <2>1 DEF AttemptIsInStep
  <2>3. \A n \in Nat : Continues(n)'
    <3>1. Len(<<>>) = 0 /\ DOMAIN <<>> = {}
        OBVIOUS
    <3> QED
        BY <1>1, <1>3, <3>1, EmptyRecords DEF Continues
  <2>4. PICK a \in Call : a = call[c]
      BY DEF TypeOK
  <2>5. PICK n \in Nat, o \in Nat : n = Len(staging) /\ o = a.offset
      BY <2>4, DownloadAssumption DEF TypeOK, Call
  <2>6. ~(stream = NoStream)
      BY <1>1, EmptyRecords
  <2>7. c = current' /\ a = call'[c] /\ n = Len(staging') /\ a = call[c] /\ c = current
      BY <1>1, <1>2, <2>4, <2>5
  <2>8. CASE stream.seen /\ sink \notin {"none", "waiting"}
    <3>1. sink' = "failed" /\ task' = Failed(FALSE) /\ task.known
        BY <1>4, <2>8 DEF TakeReset
    <3>2. a.kind \notin Opening
        BY <2>2, <2>5, <2>6, <2>7, <2>8, ConversationNow DEF Opening
    <3>3. task'.status \notin {"pending", "transferring"}
      <4>1. CASE task.status \in {"pending", "transferring"}
          BY <1>5, <3>1, <4>1, FailedTask
      <4>2. CASE task.status \notin {"pending", "transferring"}
          BY <1>6, <4>2
      <4> QED
          BY <4>1, <4>2
    <3> QED
        BY <2>1, <2>5, <2>7, <3>1, <3>2, <3>3, ConversationLater DEF Opening
  <2>9. CASE sink' = sink /\ task' = task
      BY <1>1, <2>1, <2>2, <2>3, <2>5, <2>6, <2>7, <2>9, ConversationNow, ConversationLater DEF Opening
  <2>10. CASE stream.seen /\ ~task.known
    <3>1. sink' = sink /\ task' = task
        BY <1>4, <2>10 DEF TakeReset, Failed
    <3> QED
        BY <2>9, <3>1
  <2>11. CASE ~stream.seen
      BY <2>9, <2>11 DEF TakeReset
  <2> QED
      BY <1>11, <2>8, <2>10, <2>11 DEF TakeReset
<1>12. AttemptIsInStep'
    BY <1>1, <1>11 DEF AttemptIsInStep
<1> QED
    BY <1>10, <1>12

\* A staging file that is cut, overwritten at its end or replaced keeps its units at
\* their places, and stays as short as it was or has nothing right in it.
LEMMA DisturbedFile ==
    ASSUME NEW s \in Seq(0 .. Size), s # <<>>,
           NEW f \in {SubSeq(s, 1, Len(s) - 1), [s EXCEPT ![Len(s)] = Bad]}
                       \cup {[i \in 1 .. Size + 1 |-> Bad]}
    PROVE  /\ f \in Seq(0 .. Size)
           /\ \A i \in DOMAIN f : f[i] = Bad \/ (i \in DOMAIN s /\ f[i] = s[i])
           /\ \/ Len(f) <= Len(s)
              \/ \A i \in DOMAIN f : f[i] = Bad
<1>1. PICK n \in Nat : n = Len(s)
    OBVIOUS
<1>2. n > 0 /\ Size \in Nat /\ Bad \in 0 .. Size /\ DOMAIN s = 1 .. n
    BY <1>1, DownloadAssumption DEF Bad
<1>3. CASE f = SubSeq(s, 1, n - 1)
  <2>1. PICK k \in 0 .. Len(s) : k = n - 1
      BY <1>1, <1>2
  <2>2. ASSUME NEW h, h = SubSeq(s, 1, k)
        PROVE  h \in Seq(0 .. Size) /\ Len(h) = k /\ \A i \in 1 .. k : h[i] = s[i]
      BY <2>2, Beginning
  <2>3. f \in Seq(0 .. Size) /\ Len(f) = k /\ \A i \in 1 .. k : f[i] = s[i]
      BY <1>3, <2>1, <2>2
  <2>4. DOMAIN f = 1 .. k /\ k <= n /\ \A i \in 1 .. k : i \in 1 .. n
      BY <1>1, <1>2, <2>1, <2>3
  <2> QED
      BY <1>1, <1>2, <2>3, <2>4
<1>4. CASE f = [s EXCEPT ![n] = Bad]
  <2>1. f \in Seq(0 .. Size) /\ Len(f) = n
      BY <1>1, <1>2, <1>4
  <2>2. DOMAIN f = 1 .. n /\ \A i \in 1 .. n : f[i] = Bad \/ f[i] = s[i]
      BY <1>1, <1>2, <1>4, <2>1
  <2> QED
      BY <1>1, <1>2, <2>1, <2>2
<1>5. CASE f = [i \in 1 .. Size + 1 |-> Bad]
    BY <1>1, <1>2, <1>5
<1> QED
    BY <1>1, <1>3, <1>4, <1>5

LEMMA DisturbSteps ==
    ASSUME Inductive, DisturbFiles
    PROVE  DeviceStep /\ AttemptIsInStep'
<1> USE DEF Inductive
<1>1. /\ UNCHANGED <<row, source, job, link, call, stream, current, task, sink, overtook>>
      /\ faults' \in 0 .. MaxFaults
    BY FaultsAreCounted DEF DisturbFiles, server
<1>2. \/ target = "good" /\ target' = "removed" /\ staging' = staging
      \/ /\ sink # "open" /\ staging # <<>> /\ target' = target
         /\ staging' \in {SubSeq(staging, 1, Len(staging) - 1), [staging EXCEPT ![Len(staging)] = Bad]}
                \cup {[i \in 1 .. Size + 1 |-> Bad]}
    BY DEF DisturbFiles
<1>0. PICK f : f = staging'
    OBVIOUS
<1>3. PICK s \in Seq(0 .. Size) : s = staging /\ f = staging'
    BY <1>0 DEF TypeOK
<1>4. /\ f \in Seq(0 .. Size)
      /\ f # s => sink # "open" /\ s # <<>>
      /\ \A i \in DOMAIN f : f[i] = Bad \/ (i \in DOMAIN s /\ f[i] = s[i])
      /\ \/ Len(f) <= Len(s)
         \/ \A i \in DOMAIN f : f[i] = Bad
  <2>1. CASE f = s
      BY <1>3, <2>1
  <2>2. CASE /\ sink # "open" /\ s # <<>>
             /\ f \in {SubSeq(s, 1, Len(s) - 1), [s EXCEPT ![Len(s)] = Bad]}
                        \cup {[i \in 1 .. Size + 1 |-> Bad]}
      BY <1>3, <2>2, DisturbedFile, ZenonT(30)
  <2> QED
      BY <1>2, <1>3, <2>1, <2>2
<1>5. target' \in Targets \ {"wrong"} /\ (target # "before" => target' # "before")
    BY <1>2 DEF TypeOK, Targets, PublishedIsVerified
<1>6. DeviceStep
  <2>1. CallsAreMade /\ TaskIsTrue(task)
      BY <1>1, NothingIsAsked, TaskIsTrueNow
  <2>2. TaskIsTrue(task')
      BY <1>1, <2>1 DEF TaskIsTrue
  <2>3. ~task.known => sink = "none" /\ f = <<>>
      BY <1>3, <1>4 DEF EndsAreSound
  <2>4. JobIsSound'
      BY <1>1 DEF JobIsSound
  <2>5. /\ current = 0 => job = NoJob /\ stream = NoStream /\ sink = "none"
        /\ current # 0 => link[current] # "unused"
      BY DEF EndsAreSound
  <2>6. f \in Seq(0 .. Size) /\ staging' = f
      BY <1>3, <1>4
  <2> QED
      BY <1>1, <1>5, <2>1, <2>2, <2>3, <2>4, <2>5, <2>6 DEF DeviceStep, TypeOK, Sinks
<1>7. ASSUME overtook' # "answer" PROVE \A i \in DOMAIN f : f[i] \in {i, Bad}
    BY <1>1, <1>3, <1>4, <1>7 DEF AttemptIsInStep
<1>8. ASSUME overtook' # "answer", current # 0 PROVE ConversationIsInStep'
  <2>1. PICK c \in Links : c = current
      BY <1>8 DEF TypeOK
  <2>2. PICK a \in Call : a = call[c]
      BY DEF TypeOK
  <2>3. PICK o \in Nat, n \in Nat, k \in Nat : o = a.offset /\ n = Len(s) /\ k = Len(f)
      BY <1>4, <2>2, DownloadAssumption DEF Call
  <2>4. ConversationIsInStep /\ n = Len(staging) /\ c = current /\ a = call[c]
      BY <1>1, <1>3, <1>8, <2>1, <2>2, <2>3 DEF AttemptIsInStep
  <2>5. a.kind \in Opening /\ ~task.restart /\ k > o => \A i \in DOMAIN f : f[i] = Bad
    <3>1. ASSUME a.kind \in Opening, ~task.restart, k > o, k <= n PROVE \A i \in DOMAIN f : f[i] = Bad
      <4>1. n > o
          BY <2>3, <3>1
      <4>2. \A i \in DOMAIN s : s[i] = Bad
          BY <1>3, <2>3, <2>4, <3>1, <4>1, ConversationNow
      <4> QED
          BY <1>4, <4>2
    <3> QED
        BY <1>4, <2>3, <3>1
  <2>6. \A m \in Nat : Continues(m) => Continues(m)'
      BY <1>1 DEF Continues
  <2>7. sink = "open" => k = n
      BY <1>4, <2>3
  <2>8. c = current' /\ a = call'[c] /\ k = Len(staging')
      BY <1>1, <1>3, <2>3, <2>4
  <2>9. a.kind \in Opening /\ ~task'.restart /\ k > o => \A i \in DOMAIN staging' : staging'[i] = Bad
      BY <1>1, <1>3, <2>5
  <2> QED
      BY <1>1, <2>3, <2>4, <2>6, <2>7, <2>8, <2>9, ConversationNow, ConversationLater
<1>9. AttemptIsInStep'
    BY <1>1, <1>3, <1>7, <1>8 DEF AttemptIsInStep
<1> QED
    BY <1>6, <1>9

LEMMA DeviceTakesDeviceSteps ==
    ASSUME Inductive, DeviceNext
    PROVE  DeviceStep /\ AttemptIsInStep'
BY LeavingActions, ConnectSteps, AskSteps, GrantSteps, MetadataSteps, HeaderSteps, BytesSteps,
   EndSteps, ResetSteps, OutcomeSteps, PutOffSteps, DisturbSteps DEF DeviceNext

LEMMA DeviceKeeps ==
    ASSUME Inductive, DeviceStep
    PROVE  TypeOK' /\ JobIsSound' /\ EndsAreSound' /\ AnswersAreTrue' /\ PublishedIsVerified'
<1> USE DEF Inductive
<1>1. TypeOK'
    BY DEF DeviceStep, CallsAreMade, TypeOK, Sinks
<1>2. EndsAreSound'
  <2>1. ASSUME NEW c \in Links, link'[c] = "unused" PROVE call'[c] = Idle
    <3>1. link[c] = "unused"
        BY <2>1 DEF DeviceStep
    <3> QED
        BY <3>1 DEF DeviceStep, CallsAreMade, EndsAreSound
  <2>2. ASSUME NEW c \in Links, call'[c].kind = "metadata" PROVE task'.known
    <3>1. CASE call'[c] = call[c]
        BY <2>2, <3>1 DEF DeviceStep, EndsAreSound
    <3>2. CASE call'[c] # call[c]
        BY <2>2, <3>2 DEF DeviceStep, CallsAreMade
    <3> QED
        BY <3>1, <3>2
  <2> QED
      BY <2>1, <2>2 DEF EndsAreSound, DeviceStep
<1>3. AnswersAreTrue'
  <2>1. ASSUME NEW c \in Links
        PROVE  /\ call'[c].kind \in {"finish", "finished"} => target' # "before"
               /\ call'[c].kind \in {"finished", "tooLate"} => row = "completed"
               /\ call'[c].kind = "cancelled" => row = "cancelled"
    <3>1. CASE call'[c] = call[c]
        BY <3>1 DEF DeviceStep, AnswersAreTrue
    <3>2. CASE call'[c] # call[c]
        BY <3>2 DEF DeviceStep, CallsAreMade
    <3> QED
        BY <3>1, <3>2
  <2> QED
      BY <2>1 DEF AnswersAreTrue, DeviceStep
<1>4. PublishedIsVerified'
    BY DEF PublishedIsVerified, DeviceStep, TaskIsTrue
<1> QED
    BY <1>1, <1>2, <1>3, <1>4 DEF DeviceStep

-----------------------------------------------------------------------------
(* The theorems *)

LEMMA InitEstablishes == Init => Inductive
<1> SUFFICES ASSUME Init PROVE Inductive
    OBVIOUS
<1>1. PICK e : e = <<>>
    OBVIOUS
<1>2. e \in Seq(0 .. Size) /\ DOMAIN e = {} /\ staging = e
    BY <1>1 DEF Init
<1>3. task \in Task /\ task.status = "pending" /\ ~task.known /\ ~task.active
    BY DEF Init, Task, Statuses
<1>4. TypeOK
    BY <1>2, <1>3, EmptyRecords, DownloadAssumption
       DEF Init, TypeOK, SourceLength, Links, Targets, Overtaken
<1>5. JobIsSound
  <2>1. Len(<<>>) = 0 /\ DOMAIN <<>> = {} /\ job = NoJob /\ stream = NoStream
      BY DEF Init
  <2> QED
      BY <2>1, EmptyRecords, DownloadAssumption DEF JobIsSound
<1>6. EndsAreSound
    BY <1>3, EmptyRecords DEF Init, EndsAreSound
<1>7. AnswersAreTrue
    BY EmptyRecords DEF Init, AnswersAreTrue
<1>8. PublishedIsVerified
    BY <1>3 DEF Init, PublishedIsVerified
<1>9. AttemptIsInStep
    BY <1>2, <1>3 DEF Init, AttemptIsInStep
<1> QED
    BY <1>4, <1>5, <1>6, <1>7, <1>8, <1>9 DEF Inductive

LEMMA NextKeepsInductive == Inductive /\ [Next]_vars => Inductive'
<1> SUFFICES ASSUME Inductive, [Next]_vars PROVE Inductive'
    OBVIOUS
<1>1. CASE ServerNext
  <2>1. ServerStep
      BY <1>1, ServerTakesServerSteps DEF Inductive
  <2> QED
      BY <2>1, ServerKeepsTypesAndEnds, ServerKeepsAnswers, ServerKeepsStep DEF Inductive
<1>2. CASE DeviceNext
    BY <1>2, DeviceTakesDeviceSteps, DeviceKeeps DEF Inductive
<1>3. CASE UNCHANGED vars
    BY <1>3 DEF vars, server, files, Inductive, TypeOK, JobIsSound, EndsAreSound, AnswersAreTrue,
                PublishedIsVerified, AttemptIsInStep, ConversationIsInStep, Continues, Fresh
<1> QED
    BY <1>1, <1>2, <1>3 DEF Next

\* What is staged and what is under way is one file, every unit at its place.
LEMMA StepImpliesJoins == Inductive => StreamJoins
<1> SUFFICES ASSUME Inductive PROVE StreamJoins
    OBVIOUS
<1> USE DEF Inductive
<1>1. PICK s, b : s = staging /\ b = stream.bytes
    OBVIOUS
<1>2. s \in Seq(Nat) /\ b \in Seq(Nat)
    BY <1>1, PositionsAreNumbers, DownloadAssumption DEF TypeOK, Stream
<1>3. ASSUME sink = "open", overtook # "answer"
      PROVE  /\ \A i \in DOMAIN (s \o b) : (s \o b)[i] \in {i, Bad}
             /\ job.state = "sending" => Len(s \o b) = job.offset
             /\ stream.end = "fin" => Len(s \o b) = Size
  <2>1. current # 0
      BY <1>3 DEF EndsAreSound
  <2>2. ConversationIsInStep /\ \A i \in DOMAIN s : s[i] \in {i, Bad}
      BY <1>1, <1>3, <2>1 DEF AttemptIsInStep
  <2>3. PICK n \in Nat : n = Len(s)
      BY <1>2
  <2>4. Continues(n)
      BY <1>1, <1>3, <2>2, <2>3 DEF ConversationIsInStep
  <2>5. /\ \A i \in 1 .. Len(s) : s[i] \in {0 + i, Bad}
        /\ \A i \in 1 .. Len(b) : b[i] \in {0 + Len(s) + i, Bad}
    <3>1. \A i \in 1 .. Len(s) : s[i] \in {0 + i, Bad}
        BY <1>2, <2>2
    <3>2. ASSUME NEW i \in 1 .. Len(b) PROVE b[i] \in {0 + Len(s) + i, Bad}
      <4>1. i \in DOMAIN b /\ 0 + Len(s) + i = n + i
          BY <1>2, <2>3
      <4> QED
          BY <1>1, <2>4, <4>1 DEF Continues
    <3> QED
        BY <3>1, <3>2
  <2>6. /\ s \o b \in Seq(Nat) /\ Len(s \o b) = n + Len(b)
        /\ \A i \in 1 .. Len(s \o b) : (s \o b)[i] \in {0 + i, Bad}
      BY <1>2, <2>3, <2>5, InPlaceTogether
  <2>7. PICK f : f = s \o b
      OBVIOUS
  <2>8. f \in Seq(Nat) /\ \A i \in 1 .. Len(f) : f[i] \in {0 + i, Bad}
      BY <2>6, <2>7
  <2>9. DOMAIN f = 1 .. Len(f) /\ \A i \in 1 .. Len(f) : 0 + i = i
      BY <2>8
  <2>10. \A i \in DOMAIN f : f[i] \in {i, Bad}
      BY <2>8, <2>9
  <2> QED
      BY <1>1, <2>4, <2>6, <2>7, <2>10 DEF Continues
<1> QED
    BY <1>1, <1>3 DEF StreamJoins, JobIsSound

\* Only a fault takes the published file away.
LEMMA TargetStays ==
    ASSUME Inductive, [Next]_vars, faults' = faults, target = "good"
    PROVE  target' = "good"
<1>1. ~Fault
    BY DEF Fault, Inductive, TypeOK
<1>2. CASE ServerNext
  <2>1. ServerStep
      BY <1>2, ServerTakesServerSteps DEF Inductive
  <2> QED
      BY <2>1 DEF ServerStep, files
<1>3. CASE DeviceNext
  <2>1. CASE TakeEnd
      BY <2>1 DEF TakeEnd, Verified, files
  <2>2. CASE Connect \/ Ask \/ TakeGrant \/ TakeMetadata \/ TakeHeader \/ TakeBytes \/ TakeReset
      BY <2>2 DEF Connect, Ask, AskFor, TakeGrant, TakeMetadata, TakeHeader, TakeBytes, TakeReset, files
  <2>3. CASE TakeOutcome \/ TakePutOff \/ LearnCancelled \/ Retry \/ CancelFile \/ LoseConnection
      BY <2>3 DEF TakeOutcome, TakePutOff, LearnCancelled, Retry, CancelFile, LoseConnection, files
  <2>4. CASE StopAfterPublishing \/ DisturbFiles
      BY <1>1, <2>4 DEF StopAfterPublishing, DisturbFiles
  <2> QED
      BY <1>3, <2>1, <2>2, <2>3, <2>4 DEF DeviceNext
<1>4. CASE UNCHANGED vars
    BY <1>4 DEF vars, files
<1> QED
    BY <1>2, <1>3, <1>4 DEF Next

\* Without a fault, right staged bytes are given up only with the publication or
\* for a file that is fetched anew.
LEMMA RightBytesStay ==
    ASSUME Inductive, [Next]_vars, faults' = faults, Len(staging') < Len(staging),
           \A i \in DOMAIN staging : staging[i] = i
    PROVE  target' = "good" \/ task.restart \/ overtook = "answer"
<1> USE DEF Inductive
<1>1. ~Fault
    BY DEF Fault, TypeOK
<1>2. PICK s \in Seq(0 .. Size), n \in Nat : s = staging /\ n = Len(s)
    BY DEF TypeOK
<1>3. staging' # staging
    BY <1>2
<1>4. CASE ServerNext
  <2>1. ServerStep
      BY <1>4, ServerTakesServerSteps
  <2> QED
      BY <1>3, <2>1 DEF ServerStep, files
<1>5. CASE TakeEnd
    BY <1>3, <1>5 DEF TakeEnd, Verified, files
<1>6. CASE TakeBytes
  <2>1. PICK b \in Seq(0 .. Size) : b = stream.bytes
      BY DEF TypeOK, Stream
  <2>2. PICK k \in 1 .. Len(b) : staging' = s \o SubSeq(b, 1, k)
      BY <1>1, <1>2, <1>6, <2>1 DEF TakeBytes
  <2>3. PICK h : h = SubSeq(b, 1, k)
      OBVIOUS
  <2>4. h \in Seq(0 .. Size)
    <3>1. k \in 0 .. Len(b)
        BY <2>1
    <3> QED
        BY <2>3, <3>1, Beginning
  <2>5. Len(s \o h) >= n
      BY <1>2, <2>4
  <2> QED
      BY <1>2, <2>2, <2>3, <2>5
<1>7. CASE TakeMetadata
  <2>1. PICK c \in Links : c = current /\ current # 0 /\ call[c].kind = "metadata"
      BY <1>7 DEF TakeMetadata, Answered, TypeOK
  <2>2. PICK a \in Call : a = call[c]
      BY DEF TypeOK
  <2>3. PICK o \in Nat : o = a.offset
      BY <2>2, DownloadAssumption DEF Call
  <2>4. n >= o /\ staging' = SubSeq(s, 1, o)
      BY <1>2, <1>3, <1>7, <2>1, <2>2, <2>3 DEF TakeMetadata
  <2>5. Len(SubSeq(s, 1, o)) = o
    <3>1. o \in 0 .. Len(s)
        BY <1>2, <2>4
    <3> QED
        BY <3>1, Beginning
  <2>6. n > o
      BY <1>2, <2>4, <2>5
  <2>7. ASSUME ~task.restart, overtook # "answer" PROVE FALSE
    <3>1. ConversationIsInStep
        BY <2>1, <2>7 DEF AttemptIsInStep
    <3>2. a.kind \in Opening
        BY <2>1, <2>2 DEF Opening
    <3>3. \A i \in DOMAIN staging : staging[i] = Bad
        BY <1>2, <2>1, <2>2, <2>3, <2>6, <2>7, <3>1, <3>2, ConversationNow
    <3>4. 1 \in DOMAIN s
        BY <1>2, <2>6
    <3> QED
        BY <1>2, <3>3, <3>4 DEF Bad
  <2> QED
      BY <2>7
<1>8. CASE Connect \/ Ask \/ TakeGrant \/ TakeHeader \/ TakeReset
    BY <1>3, <1>8 DEF Connect, Ask, AskFor, Stay, TakeGrant, TakeHeader, TakeReset, files
<1>9. CASE TakeOutcome \/ TakePutOff \/ LearnCancelled \/ Retry \/ CancelFile \/ LoseConnection
    BY <1>3, <1>9 DEF TakeOutcome, TakePutOff, LearnCancelled, Retry, CancelFile, LoseConnection, files
<1>10. CASE StopAfterPublishing \/ DisturbFiles
    BY <1>1, <1>10 DEF StopAfterPublishing, DisturbFiles
<1>11. CASE UNCHANGED vars
    BY <1>3, <1>11 DEF vars, files
<1> QED
    BY <1>4, <1>5, <1>6, <1>7, <1>8, <1>9, <1>10, <1>11 DEF Next, DeviceNext

\* What the server has decided it keeps.
LEMMA DecisionsStay ==
    ASSUME Inductive, [Next]_vars, row \in Final
    PROVE  row' = row
<1>1. CASE ServerNext
  <2>1. ServerStep
      BY <1>1, ServerTakesServerSteps DEF Inductive
  <2> QED
      BY <2>1 DEF ServerStep, RowsAreDecided
<1>2. CASE DeviceNext
    BY <1>2, DeviceTakesDeviceSteps DEF DeviceStep
<1>3. CASE UNCHANGED vars
    BY <1>3 DEF vars, server
<1> QED
    BY <1>1, <1>2, <1>3 DEF Next

\* Every reachable state satisfies the inductive invariant: the job, the stream,
\* the sink, the staging file and the conversation fit together.
THEOREM Invariance == Spec => []Inductive
<1>1. Inductive /\ [Next]_vars => Inductive'
    BY NextKeepsInductive
<1> QED
    BY InitEstablishes, <1>1, PTL DEF Spec

\* Every variable keeps its type: no job stands past the end of the file or sends more than
\* its window.
THEOREM TypeCorrect == Spec => []TypeOK
<1>1. Inductive => TypeOK
    BY DEF Inductive
<1> QED
    BY Invariance, <1>1, PTL

\* However often a download was interrupted, resumed or disturbed, what is staged
\* and under way joins up (DownloadScheduler._run, MiniImDownloadSink::open, append).
THEOREM BytesJoinUp == Spec => []StreamJoins
    BY Invariance, StepImpliesJoins, PTL

\* The target is what it was or the verified file, a completed download is a
\* published one, and the device shows as final only what is so on the server
\* (MiniImDownloadSink::finish, handle_file_finish, handleFileResult).
THEOREM PublicationIsVerified == Spec => []PublishedIsVerified
<1>1. Inductive => PublishedIsVerified
    BY DEF Inductive
<1> QED
    BY Invariance, <1>1, PTL

\* No step takes back a decision of the server, nor, without a fault, the published
\* file or right staged bytes (create_or_resume, startFileTask, MiniImDownloadSink::open).
THEOREM DecisionsStand == Spec => NothingIsUndone
<1>1. Inductive /\ [Next]_vars =>
        [/\ row \in Final => row' = row
         /\ target = "good" /\ faults' = faults => target' = "good"
         /\ /\ Len(staging') < Len(staging)
            /\ faults' = faults
            /\ \A i \in DOMAIN staging : staging[i] = i
            => target' = "good" \/ task.restart \/ overtook = "answer"]_vars
    BY DecisionsStay, TargetStays, RightBytesStay
<1> QED
    BY Invariance, <1>1, PTL DEF Spec, NothingIsUndone

-----------------------------------------------------------------------------
(* The download implements FileDelivery *)

\* A step of the server decides once, completes only what is published, and tells
\* the user nothing.
LEMMA ServerDelivers ==
    ASSUME TypeOK, PublishedIsVerified', row \in Final => row' = row, UNCHANGED <<target, task>>
    PROVE  [Delivery!Next]_(Delivery!vars)
<1>1. PICK c, d, q : c = Copy /\ d = Decided /\ q = Decided'
    OBVIOUS
<1>2. UNCHANGED <<Copy, Shown>>
    BY DEF Copy, Shown
<1>3. CASE row \in Final
  <2>1. q = d
      BY <1>1, <1>3 DEF Decided
  <2> QED
      BY <1>1, <1>2, <2>1 DEF Delivery!vars
<1>4. CASE row \notin Final
  <2>1. d = "open"
      BY <1>1, <1>4 DEF Decided
  <2>2. \/ q = "completed" /\ row' = "completed"
        \/ q = "cancelled"
        \/ q = "open"
      BY <1>1 DEF Decided, Final
  <2>3. CASE q = "completed" /\ row' = "completed"
    <3>1. target # "before"
        BY <2>3 DEF PublishedIsVerified
    <3>2. c # "none"
        BY <1>1, <3>1 DEF Copy, TypeOK, Targets
    <3> QED
        BY <1>1, <1>2, <2>1, <2>3, <3>2 DEF Delivery!Next, Delivery!Complete
  <2>4. CASE q = "cancelled"
      BY <1>1, <1>2, <2>1, <2>4 DEF Delivery!Next, Delivery!Cancel
  <2>5. CASE q = "open"
      BY <1>1, <1>2, <2>1, <2>5 DEF Delivery!vars
  <2> QED
      BY <2>2, <2>3, <2>4, <2>5
<1> QED
    BY <1>3, <1>4

\* What the device's task shows in the end stays.
LEMMA FinalStatusStays ==
    ASSUME task \in Task, DeviceNext, task.status \in Final
    PROVE  task'.status = task.status
<1>1. PICK t, u : t \in Task /\ t = task /\ u = task'
    OBVIOUS
<1>2. \A s : Becomes(s) = t.status
    BY <1>1 DEF Becomes
<1>3. \A r : Failed(r) = t
    BY <1>1 DEF Failed
<1>4. CASE Connect \/ TakeHeader \/ DisturbFiles
    BY <1>4 DEF Connect, TakeHeader, DisturbFiles
<1>5. CASE Ask \/ Retry \/ CancelFile \/ LearnCancelled
    BY <1>5 DEF Ask, Retry, CancelFile, LearnCancelled, Final
<1>6. CASE TakeGrant \/ TakeOutcome
  <2>1. PICK b : \/ u = [t EXCEPT !.status = t.status, !.known = b]
                 \/ u = [t EXCEPT !.status = t.status, !.active = b]
      BY <1>1, <1>2, <1>6 DEF TakeGrant, TakeOutcome
  <2>2. u.status = t.status
      BY <1>1, <2>1 DEF Task
  <2> QED
      BY <1>1, <2>2
<1>7. CASE TakeMetadata \/ StopAfterPublishing \/ TakePutOff \/ LoseConnection
  <2>1. PICK b : \/ u = t
                 \/ u = [t EXCEPT !.ready = b]
                 \/ u = [t EXCEPT !.active = b]
      BY <1>1, <1>3, <1>7 DEF TakeMetadata, StopAfterPublishing, TakePutOff, LoseConnection, Leave
  <2>2. u.status = t.status
      BY <1>1, <2>1 DEF Task
  <2> QED
      BY <1>1, <2>2
<1>8. CASE TakeBytes \/ TakeReset
  <2>1. u = t
      BY <1>1, <1>3, <1>8 DEF TakeBytes, TakeReset
  <2> QED
      BY <1>1, <2>1
<1>9. CASE TakeEnd
  <2>1. u = t \/ u = [t EXCEPT !.status = t.status]
      BY <1>1, <1>2, <1>3, <1>9 DEF TakeEnd
  <2>2. u.status = t.status
      BY <1>1, <2>1 DEF Task
  <2> QED
      BY <1>1, <2>2
<1> QED
    BY <1>4, <1>5, <1>6, <1>7, <1>8, <1>9 DEF DeviceNext

\* A step that publishes, or a loss of what was published, tells the user nothing.
LEMMA TargetMovesAlone ==
    ASSUME task \in Task, DeviceNext, target' # target
    PROVE  /\ Shown' = Shown
           /\ target' = "good" \/ (target = "good" /\ target' = "removed")
<1>1. PICK t, u : t \in Task /\ t = task /\ u = task'
    OBVIOUS
<1>2. CASE TakeEnd
  <2>1. target' = "good" /\ u = [t EXCEPT !.status = Becomes("finishing")]
      BY <1>1, <1>2 DEF TakeEnd, Verified, files
  <2>2. PICK s : s = Becomes("finishing")
      OBVIOUS
  <2>3. u.status = s
      BY <1>1, <2>1, <2>2 DEF Task
  <2>4. s = t.status \/ (s = "finishing" /\ t.status \notin Final /\ t.status # "cancel_failed")
      BY <1>1, <2>2 DEF Becomes, Cancelling
  <2> QED
      BY <1>1, <2>1, <2>3, <2>4 DEF Shown, Final
<1>3. CASE StopAfterPublishing
  <2>1. PICK b : u = [t EXCEPT !.active = b]
      BY <1>1, <1>3 DEF StopAfterPublishing, Leave
  <2>2. u.status = t.status
      BY <1>1, <2>1 DEF Task
  <2> QED
      BY <1>1, <1>3, <2>2 DEF StopAfterPublishing, Shown
<1>4. CASE DisturbFiles
    BY <1>4 DEF DisturbFiles, Shown
<1>5. CASE Connect \/ Ask \/ TakeGrant \/ TakeMetadata \/ TakeHeader \/ TakeBytes \/ TakeReset
    BY <1>5 DEF Connect, Ask, AskFor, TakeGrant, TakeMetadata, TakeHeader, TakeBytes, TakeReset, files
<1>6. CASE TakeOutcome \/ TakePutOff \/ LearnCancelled \/ Retry \/ CancelFile \/ LoseConnection
    BY <1>6 DEF TakeOutcome, TakePutOff, LearnCancelled, Retry, CancelFile, LoseConnection, files
<1> QED
    BY <1>2, <1>3, <1>4, <1>5, <1>6 DEF DeviceNext

\* A step of the device publishes, or tells its user something else that is true.
LEMMA DeviceDelivers ==
    ASSUME Inductive, Inductive', DeviceNext
    PROVE  [Delivery!Next]_(Delivery!vars)
<1>0. task \in Task /\ row' = row
    BY DeviceTakesDeviceSteps DEF Inductive, TypeOK, DeviceStep
<1>1. Decided' = Decided
    BY <1>0 DEF Decided
<1>2. PICK d, e, r : d = Decided /\ e = Shown /\ r = Shown'
    OBVIOUS
<1>3. CASE target' # target
  <2>1. /\ r = e
        /\ target' = "good" \/ (target = "good" /\ target' = "removed")
      BY <1>0, <1>2, <1>3, TargetMovesAlone
  <2>2. \/ Copy' = "whole"
        \/ Copy = "whole" /\ Copy' = "lost"
      BY <2>1 DEF Copy
  <2> QED
      BY <1>1, <1>2, <2>1, <2>2 DEF Delivery!Next, Delivery!Publish, Delivery!Lose
<1>4. CASE target' = target /\ task.status \in Final
  <2>1. r = e /\ Copy' = Copy
      BY <1>0, <1>2, <1>4, FinalStatusStays DEF Shown, Copy
  <2> QED
      BY <1>1, <1>2, <2>1 DEF Delivery!vars
<1>5. CASE target' = target /\ task.status \notin Final
  <2>1. e \notin {"completed", "cancelled"} /\ Copy' = Copy
      BY <1>2, <1>5 DEF Shown, Copy
  <2>2. row \in Final => d = row
      BY <1>2 DEF Decided
  <2>3. \/ r = "nothing"
        \/ r = "completed" /\ task'.status = "completed"
        \/ r = "cancelled" /\ task'.status = "cancelled"
        \/ r = "tooLate" /\ task'.status = "cancel_failed"
      BY <1>2 DEF Shown, Final
  <2>4. PublishedIsVerified'
      BY DEF Inductive
  <2>5. /\ r \in {"completed", "tooLate"} => d = "completed"
        /\ r = "cancelled" => d = "cancelled"
      BY <1>0, <2>2, <2>3, <2>4 DEF PublishedIsVerified, Final
  <2>6. r \in {"nothing"} \cup (IF d = "open" THEN {} ELSE {d})
                 \cup (IF d = "completed" THEN {"tooLate"} ELSE {})
      BY <2>3, <2>5
  <2> QED
      BY <1>1, <1>2, <2>1, <2>6 DEF Delivery!Next, Delivery!Show
<1> QED
    BY <1>3, <1>4, <1>5

\* A download implements FileDelivery: the verified file appears at once, the
\* server calls it completed only then, and what the device tells its user is true
\* and final (MiniImDownloadSink::finish, handle_file_finish,
\* MiniImFileTaskStore::update).
THEOREM ImplementsFileDelivery == Spec => DeliverySpec
<1>1. Init => Delivery!Init
    BY DEF Init, Delivery!Init, Copy, Decided, Shown, Final
<1>2. Inductive /\ Inductive' /\ [Next]_vars => [Delivery!Next]_(Delivery!vars)
  <2> SUFFICES ASSUME Inductive, Inductive', [Next]_vars PROVE [Delivery!Next]_(Delivery!vars)
      OBVIOUS
  <2>1. TypeOK /\ PublishedIsVerified' /\ (row \in Final => row' = row)
      BY DecisionsStay DEF Inductive
  <2>2. CASE ServerNext
    <3>1. UNCHANGED <<target, task>>
        BY <2>2, ServerTakesServerSteps DEF Inductive, ServerStep, files
    <3> QED
        BY <2>1, <3>1, ServerDelivers
  <2>3. CASE DeviceNext
      BY <2>3, DeviceDelivers
  <2>4. CASE UNCHANGED vars
    <3>1. UNCHANGED <<target, task>>
        BY <2>4 DEF vars, files
    <3> QED
        BY <2>1, <3>1, ServerDelivers
  <2> QED
      BY <2>2, <2>3, <2>4 DEF Next
<1> QED
    BY <1>1, <1>2, Invariance, PTL DEF Spec, DeliverySpec, Delivery!Spec

=============================================================================
