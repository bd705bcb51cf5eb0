--------------------------- MODULE FileUploadProofs ---------------------------
(***************************************************************************)
(* Proofs about FileUpload: its inductive invariant, the invariants and    *)
(* the action property the run states, for files of any size, any size of  *)
(* commit and any number of faults.                                        *)
(***************************************************************************)
EXTENDS FileUpload, TLAPS

-----------------------------------------------------------------------------
(* The inductive invariant *)

\* Where in the file the buffer of c's stream begins.
Start(c) == stream[c].offset + stream[c].got - Len(stream[c].buffer)

\* A stream stays within the file and its buffer is a piece of it; the one that
\* writes continues where its lease, and so the row, says the file ends.
StreamsAreInPlace == \A c \in Links :
    /\ stream[c].offset + stream[c].got <= Size
    /\ Len(stream[c].buffer) <= stream[c].got
    /\ \A i \in DOMAIN stream[c].buffer : stream[c].buffer[i] \in {Start(c) + i, Bad}
    /\ stream[c].state # "bound" => stream[c].got = 0
    /\ stream[c].state = "bound" /\ lease.owner = c => lease.bound /\ lease.offset = Start(c)

\* An answer that is kept or under way is still true.
AnswersAreTrue ==
    /\ \A n \in Finishes : stored[n] = "finished" => row.status = "completed"
    /\ \A c \in Links :
         /\ call[c].kind \in {"completed", "finished", "tooLate"} => row.status = "completed"
         /\ call[c].kind = "cancelled" => row.status = "cancelled"

\* Requests bear numbers there are, and a connection that asks for a lease, or was
\* granted one and has not heard, has no stream yet.
RequestsAreSound ==
    /\ task.finish <= faults
    /\ \A c \in Links :
         /\ call[c].kind = "finish" => call[c].no \in Finishes
         /\ call[c].kind = "granted" => call[c].no \in 0 .. Size
         /\ call[c].kind \in {"init", "granted"} => stream[c].state = "none"

Inductive ==
    /\ TypeOK
    /\ PublishedIsWhole
    /\ BytesAreInPlace
    /\ lease.owner = 0 => lease = NoLease
    /\ LeaseAgrees
    /\ StreamsAreInPlace
    /\ AnswersAreTrue
    /\ RequestsAreSound
    /\ DeviceShowsTheTruth

-----------------------------------------------------------------------------
(* Facts about sequences and the operators of the model *)

LEMMA Pieces ==
    ASSUME NEW S, NEW s \in Seq(S), NEW a \in 1 .. Len(s) + 1, NEW b \in a - 1 .. Len(s)
    PROVE  /\ SubSeq(s, a, b) \in Seq(S) /\ Len(SubSeq(s, a, b)) = b - a + 1
           /\ \A i \in 1 .. b - a + 1 : SubSeq(s, a, b)[i] = s[a + i - 1]
<1>1. Len(s) \in Nat
    OBVIOUS
<1>2. SubSeq(s, a, b) \in Seq(S) /\ Len(SubSeq(s, a, b)) = b - a + 1
    BY <1>1
<1>3. \A i \in 1 .. b - a + 1 : SubSeq(s, a, b)[i] = s[a + i - 1]
    BY <1>1
<1> QED
    BY <1>2, <1>3

LEMMA Prefixes ==
    ASSUME NEW S, NEW s \in Seq(S), NEW n \in 0 .. Len(s)
    PROVE  /\ SubSeq(s, 1, n) \in Seq(S) /\ Len(SubSeq(s, 1, n)) = n
           /\ \A i \in 1 .. n : SubSeq(s, 1, n)[i] = s[i]
<1>1. Len(s) \in Nat /\ n \in Nat
    OBVIOUS
<1>2. 1 \in 1 .. Len(s) + 1 /\ n \in 1 - 1 .. Len(s)
    BY <1>1
<1>3. /\ SubSeq(s, 1, n) \in Seq(S) /\ Len(SubSeq(s, 1, n)) = n - 1 + 1
      /\ \A i \in 1 .. n - 1 + 1 : SubSeq(s, 1, n)[i] = s[1 + i - 1]
    BY <1>2, Pieces
<1> QED
    BY <1>1, <1>3

LEMMA Joins ==
    ASSUME NEW S, NEW s \in Seq(S), NEW t \in Seq(S)
    PROVE  /\ s \o t \in Seq(S) /\ Len(s \o t) = Len(s) + Len(t)
           /\ \A i \in 1 .. Len(s) : (s \o t)[i] = s[i]
           /\ \A i \in 1 .. Len(t) : (s \o t)[Len(s) + i] = t[i]
<1>1. Len(s) \in Nat /\ Len(t) \in Nat
    OBVIOUS
<1>2. s \o t \in Seq(S) /\ Len(s \o t) = Len(s) + Len(t)
    OBVIOUS
<1>3. \A i \in 1 .. Len(s) : (s \o t)[i] = s[i]
    BY <1>1
<1>4. \A i \in 1 .. Len(t) : (s \o t)[Len(s) + i] = t[i]
    BY <1>1
<1> QED
    BY <1>2, <1>3, <1>4

LEMMA FunctionsAreSequences ==
    ASSUME NEW S, NEW n \in Nat, NEW f \in [1 .. n -> S]
    PROVE  f \in Seq(S) /\ Len(f) = n /\ DOMAIN f = 1 .. n
OBVIOUS

\* What is written at once is part of what is there.
LEMMA WritableIsThere ==
    ASSUME NEW buffer \in Seq(0 .. Size), NEW all \in BOOLEAN
    PROVE  Writable(buffer, all) \in 0 .. Len(buffer)
<1>1. PICK n \in Nat : n = Len(buffer)
    OBVIOUS
<1>2. n % Commit \in 0 .. n
    BY <1>1, UploadAssumption
<1> QED
    BY <1>1, <1>2 DEF Writable

LEMMA Shapes ==
    /\ NoLease \in Lease /\ NoLease.owner = 0
    /\ Idle \in Call /\ Idle.kind = "idle"
    /\ NoStream \in Stream /\ NoStream.state = "none" /\ NoStream.offset = 0
    /\ NoStream.got = 0 /\ NoStream.buffer = <<>>
<1>1. Size \in Nat
    BY UploadAssumption
<1>2. NoLease \in Lease /\ NoLease.owner = 0
    BY <1>1 DEF NoLease, Lease
<1>3. Idle \in Call /\ Idle.kind = "idle"
    BY DEF Idle, Call
<1>4. <<>> \in Seq(0 .. Size)
    OBVIOUS
<1>5. /\ NoStream \in Stream /\ NoStream.state = "none" /\ NoStream.offset = 0
      /\ NoStream.got = 0 /\ NoStream.buffer = <<>>
    BY <1>1, <1>4 DEF NoStream, Stream
<1> QED
    BY <1>2, <1>3, <1>5

\* A lease that is released is the old one or none.
LEMMA ReleasedIsLess == \A c : Released(c) = lease \/ Released(c) = NoLease
BY DEF Released

-----------------------------------------------------------------------------
(* Parts of a step of the server                                           *)
(*                                                                         *)
(* Most actions leave the file alone, at most release the lease, end       *)
(* streams and give true answers.  Each of these parts keeps its part of   *)
(* the invariant.                                                          *)

\* Streams stay or come to rest, and none is opened.
StreamsRest ==
    /\ stream' \in [Links -> Stream]
    /\ \A c \in Links :
         \/ stream'[c] = stream[c]
         \/ /\ stream'[c].state \in {"none", "rejected", "ended"}
            /\ stream'[c].offset = 0 /\ stream'[c].got = 0 /\ stream'[c].buffer = <<>>
            /\ stream[c].state = "none" => stream'[c].state = "none"

LeaseShrinks == lease' = lease \/ lease' = NoLease

\* Calls stay, go, or are answered truly.
CallsAreAnswered ==
    /\ call' \in [Links -> Call]
    /\ \A c \in Links :
         \/ call'[c] = call[c]
         \/ call'[c].kind = "idle"
         \/ /\ call'[c].kind \in Answers
            /\ call'[c].kind = "granted" => call'[c].no \in 0 .. Size /\ stream[c].state = "none"
            /\ call'[c].kind \in {"completed", "finished", "tooLate"} => row'.status = "completed"
            /\ call'[c].kind = "cancelled" => row'.status = "cancelled"

\* The row moves as NothingIsUndone says.
RowMoves ==
    /\ row.status \in Final => row' = row /\ (row.status = "completed" => disk' = disk)
    /\ row'.received < row.received =>
          \/ row'.received = Len(disk)
          \/ row.received = Size /\ row'.status = "failed" /\ ~Verifies

\* What the file's part of a step must show.
FileStep ==
    /\ row' \in Row
    /\ disk' \in Seq(0 .. Size) /\ Len(disk') <= Size
    /\ published' \in Nat
    /\ PublishedIsWhole'
    /\ BytesAreInPlace'
    /\ RowMoves

ServerStep ==
    /\ FileStep
    /\ stored' \in [Finishes -> {"none", "finished", "refused"}]
    /\ \A n \in Finishes : stored'[n] = "finished" => stored[n] = "finished" \/ row'.status = "completed"
    /\ lease' \in Lease /\ (lease'.owner = 0 => lease' = NoLease)
    /\ LeaseAgrees'
    /\ link' \in [Links -> {"unused", "up", "down"}]
    /\ stream' \in [Links -> Stream]
    /\ StreamsAreInPlace'
    /\ \A c \in Links : stream[c].state = "none" => stream'[c].state = "none"
    /\ CallsAreAnswered
    /\ UNCHANGED <<current, task>>
    /\ faults' \in 0 .. MaxFaults /\ faults' >= faults

LEMMA ServerStepKeepsInductive ==
    ASSUME Inductive, ServerStep
    PROVE  Inductive'
<1>1. TypeOK'
    BY DEF Inductive, TypeOK, ServerStep, FileStep, CallsAreAnswered
<1>2. row.status \in Final => row'.status = row.status
    BY DEF ServerStep, FileStep, RowMoves
<1>3. AnswersAreTrue'
  <2>1. \A n \in Finishes : stored'[n] = "finished" => row'.status = "completed"
      BY <1>2 DEF Inductive, AnswersAreTrue, ServerStep, Final
  <2>2. \A c \in Links :
          /\ call'[c].kind \in {"completed", "finished", "tooLate"} => row'.status = "completed"
          /\ call'[c].kind = "cancelled" => row'.status = "cancelled"
    <3> TAKE c \in Links
    <3>1. CASE call'[c] = call[c]
        BY <1>2, <3>1 DEF Inductive, AnswersAreTrue, Final
    <3>2. CASE call'[c] # call[c]
        BY <3>2 DEF ServerStep, CallsAreAnswered
    <3> QED
        BY <3>1, <3>2
  <2> QED
      BY <2>1, <2>2 DEF AnswersAreTrue
<1>4. RequestsAreSound'
  <2>1. task'.finish <= faults'
    <3>1. task.finish \in Nat /\ faults \in Nat /\ faults' \in Nat
        BY UploadAssumption DEF Inductive, TypeOK, Task, Finishes, ServerStep
    <3> QED
        BY <3>1 DEF Inductive, RequestsAreSound, ServerStep
  <2>2. \A c \in Links :
          /\ call'[c].kind = "finish" => call'[c].no \in Finishes
          /\ call'[c].kind = "granted" => call'[c].no \in 0 .. Size
          /\ call'[c].kind \in {"init", "granted"} => stream'[c].state = "none"
    <3> TAKE c \in Links
    <3>1. stream[c].state = "none" => stream'[c].state = "none"
        BY DEF ServerStep
    <3>2. CASE call'[c] = call[c]
        BY <3>1, <3>2 DEF Inductive, RequestsAreSound
    <3>3. CASE call'[c] # call[c]
        BY <3>1, <3>3 DEF ServerStep, CallsAreAnswered, Answers
    <3> QED
        BY <3>2, <3>3
  <2> QED
      BY <2>1, <2>2 DEF RequestsAreSound
<1>5. DeviceShowsTheTruth'
    BY <1>2 DEF Inductive, DeviceShowsTheTruth, ServerStep, Final
<1> QED
    BY <1>1, <1>3, <1>4, <1>5 DEF Inductive, ServerStep, FileStep

\* The file is left alone.
LEMMA FileStays ==
    ASSUME Inductive, UNCHANGED <<row, disk, published>>
    PROVE  FileStep
<1>1. RowMoves
  <2>1. row.received \in Nat
      BY UploadAssumption DEF Inductive, TypeOK, Row
  <2> QED
      BY <2>1 DEF RowMoves
<1>2. PublishedIsWhole' /\ BytesAreInPlace'
    BY DEF Inductive, PublishedIsWhole, BytesAreInPlace
<1> QED
    BY <1>1, <1>2 DEF Inductive, TypeOK, FileStep

\* A lease that is kept or released still agrees.
LEMMA LeaseStays ==
    ASSUME Inductive, LeaseShrinks,
           lease' # NoLease => /\ row' = row
                               /\ link'[lease.owner] = link[lease.owner]
    PROVE  lease' \in Lease /\ (lease'.owner = 0 => lease' = NoLease) /\ LeaseAgrees'
<1>1. CASE lease' = NoLease
    BY <1>1, Shapes DEF LeaseAgrees
<1>2. CASE lease' # NoLease
  <2>1. lease' = lease
      BY <1>2 DEF LeaseShrinks
  <2> QED
      BY <1>2, <2>1 DEF Inductive, TypeOK, LeaseAgrees
<1> QED
    BY <1>1, <1>2

\* Streams that stay or come to rest are in place.
LEMMA StreamsStay ==
    ASSUME Inductive, LeaseShrinks, StreamsRest
    PROVE  /\ stream' \in [Links -> Stream]
           /\ StreamsAreInPlace'
           /\ \A c \in Links : stream[c].state = "none" => stream'[c].state = "none"
<1>1. ASSUME NEW c \in Links
      PROVE  /\ stream'[c].offset + stream'[c].got <= Size
             /\ Len(stream'[c].buffer) <= stream'[c].got
             /\ \A i \in DOMAIN stream'[c].buffer : stream'[c].buffer[i] \in {Start(c)' + i, Bad}
             /\ stream'[c].state # "bound" => stream'[c].got = 0
             /\ stream'[c].state = "bound" /\ lease'.owner = c =>
                    lease'.bound /\ lease'.offset = Start(c)'
  <2>1. CASE stream'[c] = stream[c]
    <3>1. Start(c)' = Start(c)
        BY <2>1 DEF Start
    <3>2. lease' = lease \/ lease'.owner # c
      <4>1. c # 0
          BY DEF Links
      <4> QED
          BY <4>1, Shapes DEF LeaseShrinks
    <3> QED
        BY <2>1, <3>1, <3>2 DEF Inductive, StreamsAreInPlace
  <2>2. CASE stream'[c] # stream[c]
    <3>1. /\ stream'[c].state \in {"none", "rejected", "ended"}
          /\ stream'[c].offset = 0 /\ stream'[c].got = 0 /\ stream'[c].buffer = <<>>
        BY <2>2 DEF StreamsRest
    <3>2. Len(stream'[c].buffer) = 0 /\ DOMAIN stream'[c].buffer = {}
        BY <3>1
    <3> QED
        BY <3>1, <3>2, UploadAssumption
  <2> QED
      BY <2>1, <2>2
<1>2. StreamsAreInPlace'
    BY <1>1 DEF StreamsAreInPlace
<1> QED
    BY <1>2 DEF StreamsRest

LEMMA EndedRests ==
    ASSUME Inductive, NEW c \in Links, NEW state \in {"rejected", "ended"},
           stream[c].state # "none", stream' = Ended(c, state)
    PROVE  StreamsRest
<1>1. PICK t : t = [NoStream EXCEPT !.state = state]
    OBVIOUS
<1>2. t \in Stream /\ t.state = state /\ t.offset = 0 /\ t.got = 0 /\ t.buffer = <<>>
    BY <1>1, Shapes DEF Stream
<1>3. stream' = [stream EXCEPT ![c] = t]
    BY <1>1 DEF Ended
<1>4. stream \in [Links -> Stream]
    BY DEF Inductive, TypeOK
<1>5. \A b \in Links : stream'[b] = IF b = c THEN t ELSE stream[b]
    BY <1>3, <1>4
<1>6. stream' \in [Links -> Stream]
    BY <1>2, <1>3, <1>4
<1> QED
    BY <1>2, <1>5, <1>6 DEF StreamsRest

\* A connection that is closed: its lease, its stream and its call go with it.
LEMMA DroppedRests ==
    ASSUME Inductive, NEW c \in Links, Drops(c)
    PROVE  /\ link' \in [Links -> {"unused", "up", "down"}]
           /\ \A b \in Links : b # c => link'[b] = link[b]
           /\ LeaseShrinks /\ lease'.owner # c
           /\ lease' # NoLease => link'[lease.owner] = link[lease.owner]
           /\ StreamsRest
           /\ CallsAreAnswered
<1>1. /\ link' = [link EXCEPT ![c] = "down"]
      /\ lease' = Released(c)
      /\ stream' = [stream EXCEPT ![c] = NoStream]
      /\ call' = [call EXCEPT ![c] = Idle]
    BY DEF Drops
<1>2. /\ link \in [Links -> {"unused", "up", "down"}]
      /\ stream \in [Links -> Stream] /\ call \in [Links -> Call] /\ lease \in Lease
    BY DEF Inductive, TypeOK
<1>3. /\ link' \in [Links -> {"unused", "up", "down"}]
      /\ \A b \in Links : b # c => link'[b] = link[b]
    BY <1>1, <1>2
<1>4. LeaseShrinks /\ lease'.owner # c
  <2>1. c # 0
      BY DEF Links
  <2> QED
      BY <1>1, <2>1, Shapes DEF Released, LeaseShrinks
<1>5. lease' # NoLease => link'[lease.owner] = link[lease.owner]
  <2>1. lease' # NoLease => lease.owner # c /\ lease.owner # 0
      BY <1>1, <1>4 DEF Released, LeaseShrinks, Inductive
  <2>2. lease.owner \in Links \cup {0}
      BY <1>2 DEF Lease
  <2> QED
      BY <1>3, <2>1, <2>2
<1>6. StreamsRest
    BY <1>1, <1>2, Shapes DEF StreamsRest
<1>7. CallsAreAnswered
    BY <1>1, <1>2, Shapes DEF CallsAreAnswered
<1> QED
    BY <1>3, <1>4, <1>5, <1>6, <1>7

\* An answer.
LEMMA AnswersAnswer ==
    ASSUME Inductive, NEW c \in Links, NEW kind \in Answers, NEW no \in Nat,
           Answer(c, kind, no),
           kind = "granted" => no \in 0 .. Size /\ stream[c].state = "none",
           kind \in {"completed", "finished", "tooLate"} => row'.status = "completed",
           kind = "cancelled" => row'.status = "cancelled"
    PROVE  CallsAreAnswered
<1>1. PICK a : a = IF c = current THEN [kind |-> kind, no |-> no] ELSE Idle
    OBVIOUS
<1>2. /\ a \in Call
      /\ \/ a.kind = "idle"
         \/ a.kind = kind /\ a.no = no
    BY <1>1, Shapes DEF Call
<1>3. call' = [call EXCEPT ![c] = a]
    BY <1>1 DEF Answer
<1>4. call \in [Links -> Call]
    BY DEF Inductive, TypeOK
<1>5. call' \in [Links -> Call] /\ \A b \in Links : call'[b] = IF b = c THEN a ELSE call[b]
    BY <1>2, <1>3, <1>4
<1> QED
    BY <1>2, <1>5 DEF CallsAreAnswered

-----------------------------------------------------------------------------
(* The server's actions, the writes excepted                               *)

\* The end of an unfinished file goes, and the row records no more than is left.
LEMMA FileShrinks ==
    ASSUME Inductive, NEW n \in 0 .. Len(disk), disk' = SubSeq(disk, 1, n),
           row.status \notin Final, row' \in Row, row'.status \notin Final,
           row'.received < row.received => row'.received = Len(disk),
           published' = published
    PROVE  FileStep
<1>1. disk \in Seq(0 .. Size) /\ Len(disk) <= Size /\ Len(disk) \in Nat /\ Size \in Nat
    BY UploadAssumption DEF Inductive, TypeOK
<1>2. /\ disk' \in Seq(0 .. Size) /\ Len(disk') = n
      /\ \A i \in 1 .. n : disk'[i] = disk[i]
    BY <1>1, Prefixes
<1>3. BytesAreInPlace'
  <2>1. DOMAIN disk' = 1 .. n /\ DOMAIN disk = 1 .. Len(disk)
      BY <1>1, <1>2
  <2>2. \A i \in 1 .. n : i \in 1 .. Len(disk)
      BY <1>1
  <2> QED
      BY <1>2, <2>1, <2>2 DEF Inductive, BytesAreInPlace
<1>4. PublishedIsWhole'
    BY DEF Inductive, PublishedIsWhole, Final
<1>5. RowMoves
    BY DEF RowMoves
<1> QED
    BY <1>1, <1>2, <1>3, <1>4, <1>5 DEF Inductive, TypeOK, FileStep

\* A fault is counted.
LEMMA FaultCounts ==
    ASSUME Inductive, Fault \/ UNCHANGED faults
    PROVE  faults' \in 0 .. MaxFaults /\ faults' >= faults
    BY UploadAssumption DEF Inductive, TypeOK, Fault

\* The parts, put together.
LEMMA ServerParts ==
    ASSUME Inductive, FileStep, LeaseShrinks, StreamsRest, CallsAreAnswered,
           lease' # NoLease => row' = row /\ link'[lease.owner] = link[lease.owner],
           link' \in [Links -> {"unused", "up", "down"}],
           stored' = stored, UNCHANGED <<current, task>>,
           Fault \/ UNCHANGED faults
    PROVE  ServerStep
<1>1. lease' \in Lease /\ (lease'.owner = 0 => lease' = NoLease) /\ LeaseAgrees'
    BY LeaseStays
<1>2. /\ stream' \in [Links -> Stream]
      /\ StreamsAreInPlace'
      /\ \A c \in Links : stream[c].state = "none" => stream'[c].state = "none"
    BY StreamsStay
<1>3. faults' \in 0 .. MaxFaults /\ faults' >= faults
    BY FaultCounts
<1>4. stored' \in [Finishes -> {"none", "finished", "refused"}]
    BY DEF Inductive, TypeOK
<1> QED
    BY <1>1, <1>2, <1>3, <1>4 DEF ServerStep

LEMMA NothingCalls ==
    ASSUME Inductive, UNCHANGED call
    PROVE  CallsAreAnswered
BY DEF Inductive, TypeOK, CallsAreAnswered

LEMMA NothingStreams ==
    ASSUME Inductive, UNCHANGED stream
    PROVE  StreamsRest
BY DEF Inductive, TypeOK, StreamsRest

LEMMA RejectDataSteps ==
    ASSUME Inductive, NEW c \in Links, RejectData(c)
    PROVE  ServerStep
<1>1. /\ stream[c].state # "none" /\ stream' = Ended(c, "rejected")
      /\ UNCHANGED <<row, disk, published, stored, link, call, current, task, faults>>
    BY DEF RejectData, device
<1>2. LeaseShrinks
    BY ReleasedIsLess DEF RejectData, LeaseShrinks
<1>3. StreamsRest
    BY <1>1, EndedRests
<1>4. FileStep /\ CallsAreAnswered
    BY <1>1, FileStays, NothingCalls
<1>5. link' \in [Links -> {"unused", "up", "down"}]
    BY <1>1 DEF Inductive, TypeOK
<1> QED
    BY <1>1, <1>2, <1>3, <1>4, <1>5, ServerParts

LEMMA ResetStreamSteps ==
    ASSUME Inductive, NEW c \in Links, ResetStream(c)
    PROVE  ServerStep
<1>1. /\ stream[c].state # "none" /\ stream' = Ended(c, "rejected")
      /\ UNCHANGED <<row, disk, published, stored, link, call, current, task, faults>>
    BY DEF ResetStream, device
<1>2. LeaseShrinks
    BY ReleasedIsLess DEF ResetStream, LeaseShrinks
<1>3. StreamsRest
    BY <1>1, EndedRests
<1>4. FileStep /\ CallsAreAnswered
    BY <1>1, FileStays, NothingCalls
<1>5. link' \in [Links -> {"unused", "up", "down"}]
    BY <1>1 DEF Inductive, TypeOK
<1> QED
    BY <1>1, <1>2, <1>3, <1>4, <1>5, ServerParts

\* Closing a connection that did not write.
LEMMA ClosingSteps ==
    ASSUME Inductive, NEW c \in Links, StorageDiverged(c) \/ NoticeClosed(c)
    PROVE  ServerStep
<1>1. /\ Drops(c)
      /\ UNCHANGED <<row, disk, published, stored, current, task>>
      /\ Fault \/ UNCHANGED faults
    BY DEF StorageDiverged, NoticeClosed, device
<1>2. FileStep
    BY <1>1, FileStays
<1> QED
    BY <1>1, <1>2, DroppedRests, ServerParts

LEMMA CrashSteps ==
    ASSUME Inductive, Crash
    PROVE  ServerStep
<1>1. /\ link' = [c \in Links |-> IF link[c] = "up" THEN "down" ELSE link[c]]
      /\ lease' = NoLease
      /\ stream' = [c \in Links |-> NoStream]
      /\ call' = [c \in Links |-> Idle]
      /\ Fault
      /\ UNCHANGED <<row, disk, published, stored, current, task>>
    BY DEF Crash, device
<1>2. FileStep
    BY <1>1, FileStays
<1>3. link' \in [Links -> {"unused", "up", "down"}]
    BY <1>1 DEF Inductive, TypeOK
<1>4. StreamsRest
    BY <1>1, Shapes DEF StreamsRest
<1>5. CallsAreAnswered
    BY <1>1, Shapes DEF CallsAreAnswered
<1>6. LeaseShrinks
    BY <1>1 DEF LeaseShrinks
<1> QED
    BY <1>1, <1>2, <1>3, <1>4, <1>5, <1>6, ServerParts

\* What a reconciliation leaves of the disk.
LEMMA BoundaryIsThere ==
    ASSUME Inductive
    PROVE  /\ Boundary \in 0 .. Len(disk) /\ Boundary \in 0 .. Size /\ Boundary \in Nat
           /\ Boundary <= row.received
           /\ Boundary < row.received => Boundary = Len(disk)
<1>1. PICK n \in Nat : n = Len(disk) /\ n <= Size
    BY DEF Inductive, TypeOK
<1>2. PICK r \in 0 .. Size : r = row.received
    BY DEF Inductive, TypeOK, Row
<1>3. Boundary = IF n < r THEN n ELSE r
    BY <1>1, <1>2 DEF Boundary
<1> QED
    BY <1>1, <1>2, <1>3, UploadAssumption

LEMMA FailRequestSteps ==
    ASSUME Inductive, NEW c \in Links, FailRequest(c)
    PROVE  ServerStep
<1>1. /\ Answer(c, "unavailable", 0) /\ Fault
      /\ UNCHANGED <<row, published, stored, lease, link, stream, current, task>>
    BY DEF FailRequest, device
<1>2. CallsAreAnswered
    BY <1>1, AnswersAnswer DEF Answers
<1>3. FileStep
  <2>1. CASE UNCHANGED disk
      BY <1>1, <2>1, FileStays
  <2>2. CASE row.status \in {"open", "failed"} /\ disk' = Truncated
    <3>1. row \in Row /\ row.received \in Nat
        BY UploadAssumption DEF Inductive, TypeOK, Row
    <3>2. disk' = SubSeq(disk, 1, Boundary)
        BY <2>2 DEF Truncated
    <3> QED
        BY <1>1, <2>2, <3>1, <3>2, BoundaryIsThere, FileShrinks DEF Final
  <2> QED
      BY <2>1, <2>2 DEF FailRequest
<1>4. StreamsRest /\ LeaseShrinks
    BY <1>1, NothingStreams DEF LeaseShrinks
<1>5. link' \in [Links -> {"unused", "up", "down"}]
    BY <1>1 DEF Inductive, TypeOK
<1> QED
    BY <1>1, <1>2, <1>3, <1>4, <1>5, ServerParts

LEMMA LoseBytesSteps ==
    ASSUME Inductive, LoseBytes
    PROVE  ServerStep
<1>1. /\ row.status \in {"open", "failed"} /\ Fault
      /\ UNCHANGED <<row, published, stored, lease, link, call, stream, current, task>>
    BY DEF LoseBytes, device
<1>2. FileStep
  <2>1. PICK n \in 0 .. Len(disk) - 1 : disk' = SubSeq(disk, 1, n)
      BY DEF LoseBytes
  <2>2. Len(disk) \in Nat /\ row \in Row /\ row.received \in Nat
      BY UploadAssumption DEF Inductive, TypeOK, Row
  <2>3. n \in 0 .. Len(disk)
      BY <2>2
  <2> QED
      BY <1>1, <2>1, <2>2, <2>3, FileShrinks DEF Final
<1>3. StreamsRest /\ LeaseShrinks /\ CallsAreAnswered
    BY <1>1, NothingStreams, NothingCalls DEF LeaseShrinks
<1>4. link' \in [Links -> {"unused", "up", "down"}]
    BY <1>1 DEF Inductive, TypeOK
<1> QED
    BY <1>1, <1>2, <1>3, <1>4, ServerParts

\* A cancellation ends the transfer, its lease and the streams that wrote it.
LEMMA CancelParts ==
    ASSUME Inductive, Cancel, Cancellable
    PROVE  /\ FileStep /\ LeaseShrinks /\ lease' = NoLease /\ StreamsRest
           /\ row'.status = "cancelled"
           /\ link' \in [Links -> {"unused", "up", "down"}]
           /\ stored' = stored
<1>1. /\ row' = [row EXCEPT !.status = "cancelled"]
      /\ lease' = NoLease
      /\ stream' = [c \in Links |-> IF stream[c].state = "bound"
                                    THEN [NoStream EXCEPT !.state = "rejected"] ELSE stream[c]]
      /\ UNCHANGED <<disk, published, stored, link>>
    BY DEF Cancel
<1>2. row \in Row /\ row.status # "completed" /\ row.received \in Nat
    BY UploadAssumption DEF Inductive, TypeOK, Row, Cancellable
<1>3. row' \in Row /\ row'.status = "cancelled" /\ row'.received = row.received
    BY <1>1, <1>2 DEF Row
<1>4. row.status = "cancelled" => row' = row
    BY <1>1, <1>2 DEF Row
<1>5. RowMoves
    BY <1>2, <1>3, <1>4 DEF RowMoves, Final
<1>6. PublishedIsWhole' /\ BytesAreInPlace'
    BY <1>1, <1>2, <1>3 DEF Inductive, PublishedIsWhole, BytesAreInPlace
<1>7. FileStep
    BY <1>1, <1>3, <1>5, <1>6 DEF FileStep, Inductive, TypeOK
<1>8. StreamsRest
  <2>1. PICK t : t = [NoStream EXCEPT !.state = "rejected"]
      OBVIOUS
  <2>2. t \in Stream /\ t.state = "rejected" /\ t.offset = 0 /\ t.got = 0 /\ t.buffer = <<>>
      BY <2>1, Shapes DEF Stream
  <2>3. stream' = [c \in Links |-> IF stream[c].state = "bound" THEN t ELSE stream[c]]
      BY <1>1, <2>1
  <2>4. stream \in [Links -> Stream]
      BY DEF Inductive, TypeOK
  <2> QED
      BY <2>2, <2>3, <2>4 DEF StreamsRest
<1> QED
    BY <1>1, <1>3, <1>7, <1>8 DEF LeaseShrinks, Inductive, TypeOK

LEMMA CancelElsewhereSteps ==
    ASSUME Inductive, CancelElsewhere
    PROVE  ServerStep
<1>1. Cancel /\ Cancellable /\ Fault /\ UNCHANGED <<call, current, task>>
    BY DEF CancelElsewhere, device
<1> QED
    BY <1>1, CancelParts, NothingCalls, ServerParts

LEMMA HandleCancelSteps ==
    ASSUME Inductive, NEW c \in Links, HandleCancel(c)
    PROVE  ServerStep
<1>1. UNCHANGED <<current, task, faults>>
    BY DEF HandleCancel, device
<1>2. CASE Cancellable /\ Cancel /\ Answer(c, "cancelled", 0)
  <2>1. CallsAreAnswered
      BY <1>2, CancelParts, AnswersAnswer DEF Answers
  <2> QED
      BY <1>1, <1>2, <2>1, CancelParts, ServerParts
<1>3. CASE ~Cancellable /\ Answer(c, "tooLate", 0) /\ UNCHANGED <<server, link, stream>>
  <2>1. UNCHANGED <<row, disk, published, stored, lease, link, stream>>
      BY <1>3 DEF server
  <2>2. CallsAreAnswered
      BY <1>3, <2>1, AnswersAnswer DEF Answers, Cancellable
  <2>3. FileStep /\ StreamsRest /\ LeaseShrinks
      BY <2>1, FileStays, NothingStreams DEF LeaseShrinks
  <2>4. link' \in [Links -> {"unused", "up", "down"}]
      BY <2>1 DEF Inductive, TypeOK
  <2> QED
      BY <1>1, <2>1, <2>2, <2>3, <2>4, ServerParts
<1> QED
    BY <1>2, <1>3 DEF HandleCancel

\* An initialisation that is granted puts the lease where disk and row now end.
LEMMA HandleInitSteps ==
    ASSUME Inductive, NEW c \in Links, HandleInit(c)
    PROVE  ServerStep
<1>1. /\ link[c] = "up" /\ call[c].kind = "init"
      /\ UNCHANGED <<published, stored, link, stream, current, task, faults>>
    BY DEF HandleInit, Asked, device
<1>2. link' \in [Links -> {"unused", "up", "down"}] /\ StreamsRest
    BY <1>1, NothingStreams DEF Inductive, TypeOK
<1>3. ASSUME NEW kind \in Answers \ {"granted"},
             kind \in {"completed", "finished", "tooLate"} => row.status = "completed",
             kind # "cancelled",
             Answer(c, kind, 0), UNCHANGED <<row, disk, lease>>
      PROVE  ServerStep
  <2>1. CallsAreAnswered
      BY <1>3, AnswersAnswer
  <2>2. FileStep /\ LeaseShrinks
      BY <1>1, <1>3, FileStays DEF LeaseShrinks
  <2> QED
      BY <1>1, <1>2, <1>3, <2>1, <2>2, ServerParts
<1>4. CASE /\ row.status \in {"none", "open", "failed"}
           /\ disk' = Truncated
           /\ row' = [status |-> "open", received |-> Boundary]
           /\ lease' = [owner |-> c, offset |-> Boundary, bound |-> FALSE]
           /\ Answer(c, "granted", Boundary)
  <2>1. PICK n \in Nat : n = Boundary
      BY BoundaryIsThere
  <2>2. /\ row' \in Row /\ row'.status = "open" /\ row'.received = n
        /\ lease' \in Lease /\ lease'.owner = c /\ lease'.offset = n /\ lease'.bound = FALSE
      BY <1>4, <2>1, BoundaryIsThere DEF Row, Lease
  <2>3. FileStep
    <3>1. disk' = SubSeq(disk, 1, n) /\ n \in 0 .. Len(disk)
        BY <1>4, <2>1, BoundaryIsThere DEF Truncated
    <3>2. row'.received < row.received => row'.received = Len(disk)
        BY <2>1, <2>2, BoundaryIsThere
    <3> QED
        BY <1>1, <1>4, <2>2, <3>1, <3>2, FileShrinks DEF Final
  <2>4. stream[c].state = "none"
      BY <1>1 DEF Inductive, RequestsAreSound
  <2>5. CallsAreAnswered
      BY <1>4, <2>1, <2>4, BoundaryIsThere, AnswersAnswer DEF Answers
  <2>6. LeaseAgrees' /\ lease'.owner # 0
      BY <1>1, <2>2 DEF LeaseAgrees, Links
  <2>7. StreamsAreInPlace'
    <3>1. ASSUME NEW b \in Links
          PROVE  /\ stream'[b] = stream[b] /\ Start(b)' = Start(b)
                 /\ ~(stream[b].state = "bound" /\ lease'.owner = b)
        BY <1>1, <2>2, <2>4 DEF Start
    <3> QED
        BY <3>1 DEF Inductive, StreamsAreInPlace
  <2>8. faults' \in 0 .. MaxFaults /\ faults' >= faults
      BY <1>1, FaultCounts
  <2> QED
      BY <1>1, <1>2, <2>2, <2>3, <2>5, <2>6, <2>7, <2>8 DEF ServerStep, Inductive, TypeOK
<1>5. CASE Answer(c, "busy", 0) /\ UNCHANGED <<row, disk, lease>>
    BY <1>3, <1>5 DEF Answers
<1>6. CASE Answer(c, "refused", 0) /\ UNCHANGED <<row, disk, lease>>
    BY <1>3, <1>6 DEF Answers
<1>7. CASE row.status = "completed" /\ Answer(c, "completed", 0) /\ UNCHANGED <<row, disk, lease>>
    BY <1>3, <1>7 DEF Answers
<1> QED
    BY <1>4, <1>5, <1>6, <1>7 DEF HandleInit

\* Storing the answer of a finish.
LEMMA StoredAnswer ==
    ASSUME Inductive, NEW no \in Finishes, NEW answer \in {"finished", "refused"},
           stored' = [stored EXCEPT ![no] = answer],
           answer = "finished" => row'.status = "completed"
    PROVE  /\ stored' \in [Finishes -> {"none", "finished", "refused"}]
           /\ \A n \in Finishes :
                 stored'[n] = "finished" => stored[n] = "finished" \/ row'.status = "completed"
    BY DEF Inductive, TypeOK

\* A finish: whatever it decides, its own lease at most goes, and the row is
\* completed only with the whole file.
LEMMA FinishParts ==
    ASSUME Inductive, NEW c \in Links, NEW no \in Finishes, Finish(c, no),
           lease.owner \in {0, c}, UNCHANGED <<disk, stream>>
    PROVE  /\ FileStep /\ LeaseShrinks /\ CallsAreAnswered
           /\ lease' # NoLease => row' = row
           /\ stored' \in [Finishes -> {"none", "finished", "refused"}]
           /\ \A n \in Finishes :
                 stored'[n] = "finished" => stored[n] = "finished" \/ row'.status = "completed"
<1>1. LeaseShrinks
    BY ReleasedIsLess DEF Finish, LeaseShrinks
<1>2. lease' # NoLease => lease' = lease
    BY <1>1 DEF LeaseShrinks
<1>3. Released(c) = NoLease
    BY DEF Inductive, Released
<1>4. row \in Row /\ row.received \in 0 .. Size /\ Size \in Nat /\ published \in Nat
    BY UploadAssumption DEF Inductive, TypeOK, Row
<1>5. CASE /\ stored' = [stored EXCEPT ![no] = "refused"]
           /\ Answer(c, "refused", 0)
           /\ UNCHANGED <<row, published, lease>>
  <2>1. FileStep
      BY <1>5, FileStays
  <2>2. CallsAreAnswered
      BY <1>5, AnswersAnswer DEF Answers
  <2> QED
      BY <1>1, <1>5, <2>1, <2>2, StoredAnswer
<1>6. CASE /\ Answer(c, "notYet", 0)
           /\ UNCHANGED <<row, published, stored, lease>>
  <2>1. FileStep
      BY <1>6, FileStays
  <2>2. CallsAreAnswered
      BY <1>6, AnswersAnswer DEF Answers
  <2> QED
      BY <1>1, <1>6, <2>1, <2>2 DEF Inductive, TypeOK
<1>7. CASE /\ row.status \in {"open", "failed"} /\ row.received = Size /\ ~Verifies
           /\ row' = Rewound
           /\ lease' = Released(c)
           /\ stored' = [stored EXCEPT ![no] = "refused"]
           /\ Answer(c, "refused", 0)
           /\ UNCHANGED published
  <2>1. row' \in Row /\ row'.status = "failed"
      BY <1>4, <1>7 DEF Rewound, Row
  <2>2. RowMoves
      BY <1>7, <2>1 DEF RowMoves, Final
  <2>3. PublishedIsWhole' /\ BytesAreInPlace'
      BY <1>7, <2>1 DEF Inductive, PublishedIsWhole, BytesAreInPlace
  <2>4. FileStep
      BY <1>7, <2>1, <2>2, <2>3 DEF FileStep, Inductive, TypeOK
  <2>5. CallsAreAnswered
      BY <1>7, AnswersAnswer DEF Answers
  <2> QED
      BY <1>1, <1>3, <1>7, <2>4, <2>5, StoredAnswer
<1>8. CASE /\ row.status \in {"open", "failed"} /\ Verifies
           /\ row' = [row EXCEPT !.status = "completed"]
           /\ published' = published + 1
           /\ lease' = Released(c)
           /\ stored' = [stored EXCEPT ![no] = "finished"]
           /\ Answer(c, "finished", 0)
  <2>1. row' \in Row /\ row'.status = "completed" /\ row'.received = row.received
      BY <1>4, <1>8 DEF Row
  <2>2. RowMoves
      BY <1>4, <1>8, <2>1 DEF RowMoves, Final
  <2>3. PublishedIsWhole' /\ BytesAreInPlace' /\ published' \in Nat
    <3>1. published = 0
        BY <1>8 DEF Inductive, PublishedIsWhole
    <3> QED
        BY <1>8, <2>1, <3>1 DEF Inductive, PublishedIsWhole, BytesAreInPlace, Verifies
  <2>4. FileStep
      BY <2>1, <2>2, <2>3 DEF FileStep, Inductive, TypeOK
  <2>5. CallsAreAnswered
      BY <1>8, <2>1, AnswersAnswer DEF Answers
  <2> QED
      BY <1>1, <1>3, <1>8, <2>1, <2>4, <2>5, StoredAnswer
<1> QED
    BY <1>5, <1>6, <1>7, <1>8 DEF Finish

LEMMA HandleFinishSteps ==
    ASSUME Inductive, NEW c \in Links, HandleFinish(c)
    PROVE  ServerStep
<1> DEFINE no == call[c].no
<1>1. /\ call[c].kind = "finish"
      /\ UNCHANGED <<disk, link, stream, current, task, faults>>
    BY DEF HandleFinish, Asked, device
<1>2. no \in Finishes
    BY <1>1 DEF Inductive, RequestsAreSound
<1> HIDE DEF no
<1>3. link' \in [Links -> {"unused", "up", "down"}] /\ StreamsRest
    BY <1>1, NothingStreams DEF Inductive, TypeOK
<1>4. CASE /\ Answer(c, "busy", 0)
           /\ UNCHANGED <<row, published, stored, lease>>
  <2>1. FileStep /\ LeaseShrinks
      BY <1>1, <1>4, FileStays DEF LeaseShrinks
  <2>2. CallsAreAnswered
      BY <1>4, AnswersAnswer DEF Answers
  <2> QED
      BY <1>1, <1>3, <1>4, <2>1, <2>2, ServerParts
<1>5. CASE /\ stored[no] # "none"
           /\ Answer(c, stored[no], 0)
           /\ lease' = IF stored[no] = "finished" THEN Released(c) ELSE lease
           /\ UNCHANGED <<row, published, stored>>
  <2>1. FileStep /\ LeaseShrinks
      BY <1>1, <1>5, ReleasedIsLess, FileStays DEF LeaseShrinks
  <2>2. PICK answer \in {"finished", "refused"} : answer = stored[no]
      BY <1>2, <1>5 DEF Inductive, TypeOK
  <2>3. answer = "finished" => row'.status = "completed"
      BY <1>2, <1>5, <2>2 DEF Inductive, AnswersAreTrue
  <2>4. CallsAreAnswered
      BY <1>5, <2>2, <2>3, AnswersAnswer DEF Answers
  <2> QED
      BY <1>1, <1>3, <1>5, <2>1, <2>4, ServerParts
<1>6. CASE lease.owner \in {0, c} /\ Finish(c, no)
  <2>1. /\ FileStep /\ LeaseShrinks /\ CallsAreAnswered
        /\ lease' # NoLease => row' = row
        /\ stored' \in [Finishes -> {"none", "finished", "refused"}]
        /\ \A n \in Finishes :
              stored'[n] = "finished" => stored[n] = "finished" \/ row'.status = "completed"
      BY <1>1, <1>2, <1>6, FinishParts
  <2>2. lease' \in Lease /\ (lease'.owner = 0 => lease' = NoLease) /\ LeaseAgrees'
      BY <1>1, <2>1, LeaseStays
  <2>3. /\ stream' \in [Links -> Stream]
        /\ StreamsAreInPlace'
        /\ \A b \in Links : stream[b].state = "none" => stream'[b].state = "none"
      BY <1>3, <2>1, StreamsStay
  <2>4. faults' \in 0 .. MaxFaults /\ faults' >= faults
      BY <1>1, FaultCounts
  <2> QED
      BY <1>1, <1>3, <2>1, <2>2, <2>3, <2>4 DEF ServerStep
<1>7. CASE /\ row.status = "completed"
           /\ stored' = [stored EXCEPT ![no] = "finished"]
           /\ lease' = Released(c)
           /\ Answer(c, "finished", 0)
           /\ UNCHANGED <<row, published>>
  <2>1. FileStep /\ LeaseShrinks
      BY <1>1, <1>7, ReleasedIsLess, FileStays DEF LeaseShrinks
  <2>2. CallsAreAnswered
      BY <1>7, AnswersAnswer DEF Answers
  <2>3. /\ stored' \in [Finishes -> {"none", "finished", "refused"}]
        /\ \A n \in Finishes :
              stored'[n] = "finished" => stored[n] = "finished" \/ row'.status = "completed"
      BY <1>2, <1>7, StoredAnswer
  <2>4. lease' \in Lease /\ (lease'.owner = 0 => lease' = NoLease) /\ LeaseAgrees'
      BY <1>1, <1>7, <2>1, LeaseStays
  <2>5. /\ stream' \in [Links -> Stream]
        /\ StreamsAreInPlace'
        /\ \A b \in Links : stream[b].state = "none" => stream'[b].state = "none"
      BY <1>3, <2>1, StreamsStay
  <2>6. faults' \in 0 .. MaxFaults /\ faults' >= faults
      BY <1>1, FaultCounts
  <2> QED
      BY <1>1, <1>3, <2>1, <2>2, <2>3, <2>4, <2>5, <2>6 DEF ServerStep
<1> QED
    BY <1>4, <1>5, <1>6, <1>7 DEF HandleFinish, no

-----------------------------------------------------------------------------
(* The server's writes *)

\* A stream that may write continues where the row says the file ends, and what
\* it has buffered and will still bring fits in the file.
LEMMA WriterIsInPlace ==
    ASSUME Inductive, NEW c \in Links, MayWrite(c)
    PROVE  /\ lease.owner = c /\ row.status = "open" /\ row \in Row
           /\ stream[c] \in Stream /\ stream[c].state \in {"sending", "bound"}
           /\ stream[c].offset \in Nat /\ stream[c].got \in Nat
           /\ Len(stream[c].buffer) \in Nat /\ stream[c].buffer \in Seq(0 .. Size)
           /\ Len(stream[c].buffer) <= stream[c].got
           /\ stream[c].offset + stream[c].got <= Size
           /\ row.received \in Nat
           /\ row.received = stream[c].offset + stream[c].got - Len(stream[c].buffer)
           /\ \A i \in 1 .. Len(stream[c].buffer) : stream[c].buffer[i] \in {row.received + i, Bad}
<1>1. stream[c] \in Stream /\ row \in Row
    BY DEF Inductive, TypeOK
<1>2. /\ stream[c].offset \in Nat /\ stream[c].got \in Nat
      /\ Len(stream[c].buffer) \in Nat /\ stream[c].buffer \in Seq(0 .. Size)
      /\ row.received \in Nat
    BY <1>1, UploadAssumption DEF Stream, Row
<1>3. /\ Len(stream[c].buffer) <= stream[c].got
      /\ stream[c].offset + stream[c].got <= Size
      /\ \A i \in DOMAIN stream[c].buffer : stream[c].buffer[i] \in {Start(c) + i, Bad}
      /\ stream[c].state # "bound" => stream[c].got = 0
      /\ stream[c].state = "bound" /\ lease.owner = c => lease.bound /\ lease.offset = Start(c)
    BY DEF Inductive, StreamsAreInPlace
<1>4. /\ lease.owner = c /\ row.status = "open" /\ row.received = lease.offset
      /\ stream[c].state \in {"sending", "bound"}
    BY DEF MayWrite, Binds
<1>5. row.received = Start(c)
  <2>1. CASE stream[c].state = "bound"
      BY <1>3, <1>4, <2>1
  <2>2. CASE stream[c].state = "sending"
    <3>1. lease.offset = stream[c].offset
        BY <2>2 DEF MayWrite, Binds
    <3>2. stream[c].got = 0 /\ Len(stream[c].buffer) = 0
        BY <1>2, <1>3, <2>2
    <3> QED
        BY <1>2, <1>4, <3>1, <3>2 DEF Start
  <2> QED
      BY <1>4, <2>1, <2>2
<1>6. \A i \in 1 .. Len(stream[c].buffer) : stream[c].buffer[i] \in {row.received + i, Bad}
    BY <1>2, <1>3, <1>5
<1> QED
    BY <1>1, <1>2, <1>3, <1>4, <1>5, <1>6 DEF Start

\* A piece of the file, continued.
LEMMA PieceGrows ==
    ASSUME NEW start \in Nat,
           NEW buffer \in Seq(0 .. Size),
           \A i \in 1 .. Len(buffer) : buffer[i] \in {start + i, Bad},
           NEW units \in Seq(0 .. Size),
           \A i \in 1 .. Len(units) : units[i] \in {start + Len(buffer) + i, Bad}
    PROVE  /\ buffer \o units \in Seq(0 .. Size)
           /\ Len(buffer \o units) = Len(buffer) + Len(units)
           /\ \A i \in 1 .. Len(buffer \o units) : (buffer \o units)[i] \in {start + i, Bad}
<1>1. PICK m \in Nat : m = Len(buffer)
    OBVIOUS
<1>2. PICK n \in Nat : n = Len(units)
    OBVIOUS
<1>3. /\ buffer \o units \in Seq(0 .. Size)
      /\ Len(buffer \o units) = m + n
      /\ \A i \in 1 .. m : (buffer \o units)[i] = buffer[i]
      /\ \A i \in 1 .. n : (buffer \o units)[m + i] = units[i]
    BY <1>1, <1>2, Joins
<1>4. ASSUME NEW i \in 1 .. m + n
      PROVE  (buffer \o units)[i] \in {start + i, Bad}
  <2>1. CASE i \in 1 .. m
      BY <1>1, <1>3, <2>1
  <2>2. CASE i \notin 1 .. m
    <3>1. PICK j \in 1 .. n : i = m + j
      <4>1. i - m \in 1 .. n /\ i = m + (i - m)
          BY <1>1, <1>2, <2>2
      <4> QED
          BY <4>1
    <3>2. (buffer \o units)[i] = units[j]
        BY <1>3, <3>1
    <3>3. units[j] \in {start + m + j, Bad}
        BY <1>1, <1>2, <3>1
    <3>4. start + m + j = start + i
        BY <1>1, <3>1
    <3> QED
        BY <3>2, <3>3, <3>4
  <2> QED
      BY <2>1, <2>2
<1> QED
    BY <1>1, <1>2, <1>3, <1>4

\* The row, when n more units are recorded.
Recorded(n) == [row EXCEPT !.received = @ + n]

\* What is written continues the file, and the row records no more than that.
LEMMA FileGrows ==
    ASSUME Inductive, row.status = "open",
           NEW buffer \in Seq(0 .. Size), NEW k \in 0 .. Len(buffer), NEW done \in 0 .. k,
           row.received + Len(buffer) <= Size,
           \A i \in 1 .. Len(buffer) : buffer[i] \in {row.received + i, Bad},
           k > 0 => StorageAgrees,
           disk' = disk \o SubSeq(buffer, 1, k),
           row' = Recorded(done),
           published' = published
    PROVE  /\ FileStep
           /\ row'.status = "open" /\ row'.received = row.received + done
           /\ row'.received \in 0 .. Size
<1>1. PICK m \in Nat : m = Len(disk)
    BY DEF Inductive, TypeOK
<1>2. PICK n \in Nat : n = Len(buffer)
    OBVIOUS
<1>3. disk \in Seq(0 .. Size) /\ m <= Size /\ Size \in Nat /\ k \in 0 .. n
    BY <1>1, <1>2, UploadAssumption DEF Inductive, TypeOK
<1>4. row \in Row /\ row.received \in Nat
    BY UploadAssumption DEF Inductive, TypeOK, Row
<1>5. PICK piece : piece = SubSeq(buffer, 1, k)
    OBVIOUS
<1>6. /\ piece \in Seq(0 .. Size) /\ Len(piece) = k
      /\ \A i \in 1 .. k : piece[i] = buffer[i]
    BY <1>5, Prefixes
<1>7. /\ disk' \in Seq(0 .. Size) /\ Len(disk') = m + k
      /\ \A i \in 1 .. m : disk'[i] = disk[i]
      /\ \A i \in 1 .. k : disk'[m + i] = piece[i]
    BY <1>1, <1>3, <1>5, <1>6, Joins
<1>8. Len(disk') <= Size
  <2>1. CASE k = 0
      BY <1>3, <1>7, <2>1
  <2>2. CASE k > 0
    <3>1. m = row.received
        BY <1>1, <2>2 DEF StorageAgrees
    <3> QED
        BY <1>2, <1>3, <1>7, <3>1
  <2> QED
      BY <1>3, <2>1, <2>2
<1>9. BytesAreInPlace'
  <2>1. ASSUME NEW i \in 1 .. m + k
        PROVE  disk'[i] \in {i, Bad}
    <3>1. CASE i \in 1 .. m
      <4>1. DOMAIN disk = 1 .. m
          BY <1>1, <1>3
      <4>2. disk[i] \in {i, Bad}
          BY <3>1, <4>1 DEF Inductive, BytesAreInPlace
      <4> QED
          BY <1>7, <3>1, <4>2
    <3>2. CASE i \notin 1 .. m
      <4>1. PICK j \in 1 .. k : i = m + j
        <5>1. i - m \in 1 .. k /\ i = m + (i - m)
            BY <1>3, <3>2
        <5> QED
            BY <5>1
      <4>2. m = row.received
        <5>1. k > 0
            BY <1>3, <4>1
        <5> QED
            BY <1>1, <5>1 DEF StorageAgrees
      <4>3. buffer[j] \in {row.received + j, Bad}
        <5>1. j \in 1 .. Len(buffer)
            BY <1>2, <1>3, <4>1
        <5> QED
            BY <5>1
      <4>4. disk'[i] = buffer[j]
          BY <1>6, <1>7, <4>1
      <4> QED
          BY <4>1, <4>2, <4>3, <4>4
    <3> QED
        BY <3>1, <3>2
  <2>2. DOMAIN disk' = 1 .. m + k
      BY <1>7
  <2> QED
      BY <2>1, <2>2 DEF BytesAreInPlace
<1>10. row' \in Row /\ row'.status = "open" /\ row'.received = row.received + done
  <2>1. done \in Nat /\ row.received + done \in 0 .. Size
      BY <1>2, <1>3, <1>4
  <2> QED
      BY <1>4, <2>1 DEF Row, Recorded
<1>11. RowMoves
  <2>1. done \in Nat
      BY <1>3
  <2>2. ~(row'.received < row.received)
      BY <1>4, <1>10, <2>1
  <2> QED
      BY <2>2 DEF RowMoves, Final
<1>12. PublishedIsWhole' /\ published' \in Nat
    BY <1>10 DEF Inductive, TypeOK, PublishedIsWhole
<1>13. row'.received \in 0 .. Size
    BY <1>10 DEF Row
<1> QED
    BY <1>7, <1>8, <1>9, <1>10, <1>11, <1>12, <1>13 DEF FileStep

\* What arrives continues what has arrived, up to the end of the file.
LEMMA ArrivalsFit ==
    ASSUME Inductive, NEW c \in Links, MayWrite(c), NEW a \in Arrivals(c)
    PROVE  /\ a.units \in Seq(0 .. Size) /\ Len(a.units) \in Nat /\ a.end \in BOOLEAN
           /\ stream[c].offset + stream[c].got + Len(a.units) <= Size
           /\ \A i \in 1 .. Len(a.units) :
                 a.units[i] \in {stream[c].offset + stream[c].got + i, Bad}
<1>1. PICK at \in Nat : at = stream[c].offset + stream[c].got /\ at <= Size
  <2>1. stream[c].offset \in Nat /\ stream[c].got \in Nat /\ stream[c].offset + stream[c].got <= Size
      BY WriterIsInPlace
  <2> QED
      BY <2>1
<1>2. PICK left \in Nat : left = Size - at
    BY <1>1, UploadAssumption
<1>3. Size - stream[c].offset - stream[c].got = left
    BY <1>1, <1>2, WriterIsInPlace, UploadAssumption
<1>4. /\ a.end \in BOOLEAN
      /\ \/ \E n \in 1 .. left : a.units = [i \in 1 .. n |-> stream[c].offset + stream[c].got + i]
         \/ \E n \in 1 .. left : a.units = [i \in 1 .. n |-> Bad]
         \/ a.units = <<>>
    BY <1>3 DEF Arrivals
<1>5. ASSUME NEW n \in 1 .. left, a.units = [i \in 1 .. n |-> at + i]
      PROVE  /\ a.units \in Seq(0 .. Size) /\ Len(a.units) = n
             /\ \A i \in 1 .. n : a.units[i] = at + i
  <2>1. n \in Nat /\ \A i \in 1 .. n : at + i \in 0 .. Size
      BY <1>1, <1>2, UploadAssumption
  <2>2. a.units \in [1 .. n -> 0 .. Size]
      BY <1>5, <2>1
  <2> QED
      BY <1>5, <2>1, <2>2, FunctionsAreSequences
<1>6. ASSUME NEW n \in 1 .. left, a.units = [i \in 1 .. n |-> Bad]
      PROVE  /\ a.units \in Seq(0 .. Size) /\ Len(a.units) = n
             /\ \A i \in 1 .. n : a.units[i] = Bad
  <2>1. n \in Nat /\ Bad \in 0 .. Size
      BY <1>2, UploadAssumption DEF Bad
  <2>2. a.units \in [1 .. n -> 0 .. Size]
      BY <1>6, <2>1
  <2> QED
      BY <1>6, <2>1, <2>2, FunctionsAreSequences
<1>7. CASE \E n \in 1 .. left : a.units = [i \in 1 .. n |-> stream[c].offset + stream[c].got + i]
  <2>1. PICK n \in 1 .. left : a.units = [i \in 1 .. n |-> at + i]
      BY <1>1, <1>7
  <2>2. /\ a.units \in Seq(0 .. Size) /\ Len(a.units) = n
        /\ \A i \in 1 .. n : a.units[i] = at + i
      BY <1>5, <2>1
  <2>3. n \in Nat /\ at + n <= Size
      BY <1>1, <1>2, UploadAssumption
  <2> QED
      BY <1>1, <1>4, <2>2, <2>3
<1>8. CASE \E n \in 1 .. left : a.units = [i \in 1 .. n |-> Bad]
  <2>1. PICK n \in 1 .. left : a.units = [i \in 1 .. n |-> Bad]
      BY <1>8
  <2>2. /\ a.units \in Seq(0 .. Size) /\ Len(a.units) = n
        /\ \A i \in 1 .. n : a.units[i] = Bad
      BY <1>6, <2>1
  <2>3. n \in Nat /\ at + n <= Size
      BY <1>1, <1>2, UploadAssumption
  <2> QED
      BY <1>1, <1>4, <2>2, <2>3
<1>9. CASE a.units = <<>>
  <2>1. a.units \in Seq(0 .. Size) /\ Len(a.units) = 0
      BY <1>9
  <2> QED
      BY <1>1, <1>4, <2>1
<1> QED
    BY <1>4, <1>7, <1>8, <1>9

\* One stream changes, and stays in place with the lease.
LEMMA OneStreamChanges ==
    ASSUME Inductive, NEW c \in Links, NEW t \in Stream,
           stream' = [stream EXCEPT ![c] = t],
           lease'.owner \in {0, c} \/ lease' = lease,
           t.offset + t.got <= Size, Len(t.buffer) <= t.got,
           \A i \in DOMAIN t.buffer :
              t.buffer[i] \in {t.offset + t.got - Len(t.buffer) + i, Bad},
           t.state # "bound" => t.got = 0,
           t.state = "bound" /\ lease'.owner = c =>
              lease'.bound /\ lease'.offset = t.offset + t.got - Len(t.buffer)
    PROVE  /\ stream' \in [Links -> Stream] /\ StreamsAreInPlace'
           /\ stream'[c] = t /\ \A b \in Links : b # c => stream'[b] = stream[b]
<1>1. stream \in [Links -> Stream]
    BY DEF Inductive, TypeOK
<1>2. /\ stream' \in [Links -> Stream]
      /\ stream'[c] = t /\ \A b \in Links : b # c => stream'[b] = stream[b]
    BY <1>1
<1>3. ASSUME NEW b \in Links
      PROVE  /\ stream'[b].offset + stream'[b].got <= Size
             /\ Len(stream'[b].buffer) <= stream'[b].got
             /\ \A i \in DOMAIN stream'[b].buffer : stream'[b].buffer[i] \in {Start(b)' + i, Bad}
             /\ stream'[b].state # "bound" => stream'[b].got = 0
             /\ stream'[b].state = "bound" /\ lease'.owner = b =>
                    lease'.bound /\ lease'.offset = Start(b)'
  <2>1. CASE b = c
    <3>1. Start(b)' = t.offset + t.got - Len(t.buffer)
        BY <1>2, <2>1 DEF Start
    <3> QED
        BY <1>2, <2>1, <3>1
  <2>2. CASE b # c
    <3>1. stream'[b] = stream[b] /\ Start(b)' = Start(b)
        BY <1>2, <2>2 DEF Start
    <3>2. lease' = lease \/ lease'.owner # b
        BY <2>2 DEF Links
    <3> QED
        BY <3>1, <3>2 DEF Inductive, StreamsAreInPlace
  <2> QED
      BY <2>1, <2>2
<1> QED
    BY <1>2, <1>3 DEF StreamsAreInPlace

\* c's stream, bound, when so much of it has arrived and this is not yet written;
\* and the lease, moved with it.
Continued(c, got, rest) == [stream[c] EXCEPT !.state = "bound", !.got = got, !.buffer = rest]
LeaseAt(c, offset) == [owner |-> c, offset |-> offset, bound |-> TRUE]
Rested(state) == [NoStream EXCEPT !.state = state]

LEMMA LeaseAtShape ==
    ASSUME NEW c \in Links, NEW n \in 0 .. Size
    PROVE  /\ LeaseAt(c, n) \in Lease /\ LeaseAt(c, n).owner = c
           /\ LeaseAt(c, n).bound /\ LeaseAt(c, n).offset = n
           /\ c # 0
BY DEF LeaseAt, Lease, Links

LEMMA ContinuedShape ==
    ASSUME NEW c \in Links, stream[c] \in Stream, NEW got \in 0 .. Size, NEW rest \in Seq(0 .. Size)
    PROVE  /\ Continued(c, got, rest) \in Stream
           /\ Continued(c, got, rest).state = "bound"
           /\ Continued(c, got, rest).offset = stream[c].offset
           /\ Continued(c, got, rest).got = got
           /\ Continued(c, got, rest).buffer = rest
BY DEF Continued, Stream

LEMMA RestedShape ==
    ASSUME NEW state \in {"rejected", "ended"}
    PROVE  /\ Rested(state) \in Stream /\ Rested(state).state = state
           /\ Rested(state).offset = 0 /\ Rested(state).got = 0 /\ Rested(state).buffer = <<>>
BY Shapes DEF Rested, Stream

LEMMA HandleDataSteps ==
    ASSUME Inductive, NEW c \in Links, HandleData(c)
    PROVE  ServerStep
<1>1. PICK a \in Arrivals(c) :
        \E buffer, got, k :
          /\ buffer = stream[c].buffer \o a.units
          /\ got = stream[c].got + Len(a.units)
          /\ \/ k = Writable(buffer, TRUE)
             \/ k = Writable(buffer, FALSE)
          /\ link[c] = "up" /\ MayWrite(c)
          /\ Fault \/ UNCHANGED faults
          /\ k > 0 => StorageAgrees
          /\ disk' = disk \o SubSeq(buffer, 1, k)
          /\ row' = Recorded(k)
          /\ \/ lease' = NoLease /\ a.end
             \/ lease' = LeaseAt(c, row'.received)
          /\ \/ stream' = Ended(c, "ended") /\ a.end
             \/ stream' = [stream EXCEPT ![c] = Continued(c, got, SubSeq(buffer, k + 1, Len(buffer)))]
                /\ ~a.end
          /\ UNCHANGED <<published, stored, link, call, current, task>>
  <2>1. PICK a \in Arrivals(c) :
          LET buffer == stream[c].buffer \o a.units
              got == stream[c].got + Len(a.units)
              timer == a.units = <<>>
              k == Writable(buffer, timer \/ a.end \/ stream[c].offset + got = Size)
          IN /\ Arrives(c, a)
             /\ MayWrite(c)
             /\ k > 0 => StorageAgrees
             /\ disk' = disk \o SubSeq(buffer, 1, k)
             /\ row' = [row EXCEPT !.received = @ + k]
             /\ lease' = IF a.end /\ row'.received # Size THEN NoLease
                         ELSE [owner |-> c, offset |-> row'.received, bound |-> TRUE]
             /\ stream' = IF a.end THEN Ended(c, "ended")
                          ELSE [stream EXCEPT ![c] = [@ EXCEPT !.state = "bound", !.got = got,
                                                               !.buffer = SubSeq(buffer, k + 1, Len(buffer))]]
             /\ UNCHANGED <<published, stored, link, call, device>>
      BY DEF HandleData
  <2> DEFINE buffer == stream[c].buffer \o a.units
             got == stream[c].got + Len(a.units)
             k == Writable(buffer, a.units = <<>> \/ a.end \/ stream[c].offset + got = Size)
  <2>2. k = Writable(buffer, TRUE) \/ k = Writable(buffer, FALSE)
      BY DEF Writable
  <2>3. link[c] = "up" /\ (Fault \/ UNCHANGED faults)
      BY <2>1 DEF Arrives
  <2>4. /\ MayWrite(c)
        /\ k > 0 => StorageAgrees
        /\ disk' = disk \o SubSeq(buffer, 1, k)
        /\ row' = Recorded(k)
        /\ \/ lease' = NoLease /\ a.end
           \/ lease' = LeaseAt(c, row'.received)
        /\ UNCHANGED <<published, stored, link, call, current, task>>
      BY <2>1 DEF Recorded, LeaseAt, device
  <2>5. \/ stream' = Ended(c, "ended") /\ a.end
        \/ stream' = [stream EXCEPT ![c] = Continued(c, got, SubSeq(buffer, k + 1, Len(buffer)))]
           /\ ~a.end
      BY <2>1 DEF Continued
  <2> HIDE DEF buffer, got, k
  <2>6. buffer = stream[c].buffer \o a.units /\ got = stream[c].got + Len(a.units)
      BY DEF buffer, got
  <2> QED
      BY <2>2, <2>3, <2>4, <2>5, <2>6
<1>2. PICK buffer, got, k :
          /\ buffer = stream[c].buffer \o a.units
          /\ got = stream[c].got + Len(a.units)
          /\ \/ k = Writable(buffer, TRUE)
             \/ k = Writable(buffer, FALSE)
          /\ link[c] = "up" /\ MayWrite(c)
          /\ Fault \/ UNCHANGED faults
          /\ k > 0 => StorageAgrees
          /\ disk' = disk \o SubSeq(buffer, 1, k)
          /\ row' = Recorded(k)
          /\ \/ lease' = NoLease /\ a.end
             \/ lease' = LeaseAt(c, row'.received)
          /\ \/ stream' = Ended(c, "ended") /\ a.end
             \/ stream' = [stream EXCEPT ![c] = Continued(c, got, SubSeq(buffer, k + 1, Len(buffer)))]
                /\ ~a.end
          /\ UNCHANGED <<published, stored, link, call, current, task>>
    BY <1>1
<1>3. /\ lease.owner = c /\ row.status = "open" /\ row \in Row
      /\ stream[c] \in Stream /\ stream[c].state \in {"sending", "bound"}
      /\ stream[c].offset \in Nat /\ stream[c].got \in Nat
      /\ Len(stream[c].buffer) \in Nat /\ stream[c].buffer \in Seq(0 .. Size)
      /\ Len(stream[c].buffer) <= stream[c].got
      /\ stream[c].offset + stream[c].got <= Size
      /\ row.received \in Nat
      /\ row.received = stream[c].offset + stream[c].got - Len(stream[c].buffer)
      /\ \A i \in 1 .. Len(stream[c].buffer) : stream[c].buffer[i] \in {row.received + i, Bad}
    BY <1>2, WriterIsInPlace
<1>4. /\ a.units \in Seq(0 .. Size) /\ Len(a.units) \in Nat /\ a.end \in BOOLEAN
      /\ stream[c].offset + stream[c].got + Len(a.units) <= Size
      /\ \A i \in 1 .. Len(a.units) :
            a.units[i] \in {stream[c].offset + stream[c].got + i, Bad}
    BY <1>2, ArrivalsFit
<1>5. /\ buffer \in Seq(0 .. Size)
      /\ Len(buffer) = Len(stream[c].buffer) + Len(a.units)
      /\ \A i \in 1 .. Len(buffer) : buffer[i] \in {row.received + i, Bad}
  <2>1. row.received + Len(stream[c].buffer) = stream[c].offset + stream[c].got
      BY <1>3
  <2>2. \A i \in 1 .. Len(a.units) :
            a.units[i] \in {row.received + Len(stream[c].buffer) + i, Bad}
      BY <1>4, <2>1
  <2>3. PICK old, more : old = stream[c].buffer /\ more = a.units
      OBVIOUS
  <2>4. /\ old \in Seq(0 .. Size) /\ more \in Seq(0 .. Size) /\ row.received \in Nat
        /\ \A i \in 1 .. Len(old) : old[i] \in {row.received + i, Bad}
        /\ \A i \in 1 .. Len(more) : more[i] \in {row.received + Len(old) + i, Bad}
      BY <1>3, <1>4, <2>2, <2>3
  <2>5. /\ old \o more \in Seq(0 .. Size)
        /\ Len(old \o more) = Len(old) + Len(more)
        /\ \A i \in 1 .. Len(old \o more) : (old \o more)[i] \in {row.received + i, Bad}
      BY <2>4, PieceGrows
  <2> QED
      BY <1>2, <2>3, <2>5
<1>6. PICK n \in Nat : /\ n = Len(buffer) /\ row.received + n <= Size
                       /\ row.received + n = stream[c].offset + got
                       /\ n <= got /\ got \in 0 .. Size
  <2>1. PICK o \in Nat, g \in Nat, m \in Nat, u \in Nat, r \in Nat :
            /\ o = stream[c].offset /\ g = stream[c].got /\ m = Len(stream[c].buffer)
            /\ u = Len(a.units) /\ r = row.received
      BY <1>3, <1>4
  <2>2. m <= g /\ o + g + u <= Size /\ r = o + g - m
      BY <1>3, <1>4, <2>1
  <2>3. Len(buffer) = m + u /\ got = g + u
      BY <1>2, <1>5, <2>1
  <2>4. m + u \in Nat /\ r + (m + u) = o + (g + u) /\ m + u <= g + u /\ g + u \in 0 .. Size
      BY <2>2, UploadAssumption
  <2>5. /\ m + u \in Nat /\ m + u = Len(buffer) /\ row.received + (m + u) <= Size
        /\ row.received + (m + u) = stream[c].offset + got
        /\ m + u <= got /\ got \in 0 .. Size
    <3>1. r + (m + u) <= Size
        BY <2>2, <2>4, UploadAssumption
    <3> QED
        BY <2>1, <2>3, <2>4, <3>1
  <2> QED
      BY <2>5
<1>7. k \in 0 .. n /\ k \in 0 .. Len(buffer) /\ k \in 0 .. k
  <2>1. k = Writable(buffer, TRUE) \/ k = Writable(buffer, FALSE)
      BY <1>2
  <2>2. buffer \in Seq(0 .. Size)
      BY <1>5
  <2>3. Writable(buffer, TRUE) \in 0 .. Len(buffer) /\ Writable(buffer, FALSE) \in 0 .. Len(buffer)
      BY <2>2, WritableIsThere
  <2>4. n \in Nat /\ n = Len(buffer)
      BY <1>6
  <2>5. k \in 0 .. Len(buffer)
      BY <2>1, <2>3
  <2>6. k \in 0 .. n /\ k \in Nat
      BY <2>4, <2>5
  <2> QED
      BY <2>5, <2>6
<1>8. /\ FileStep
      /\ row'.status = "open" /\ row'.received = row.received + k
      /\ row'.received \in 0 .. Size
    BY <1>2, <1>3, <1>5, <1>6, <1>7, FileGrows
<1>9. /\ lease' \in Lease /\ (lease'.owner = 0 => lease' = NoLease)
      /\ lease'.owner \in {0, c}
      /\ lease' # NoLease => lease' = LeaseAt(c, row'.received)
  <2>1. /\ LeaseAt(c, row'.received) \in Lease /\ LeaseAt(c, row'.received).owner = c /\ c # 0
      BY <1>8, LeaseAtShape
  <2> QED
      BY <1>2, <2>1, Shapes
<1>10. LeaseAgrees'
  <2>1. LeaseAt(c, row'.received).owner = c /\ LeaseAt(c, row'.received).offset = row'.received
      BY <1>8, LeaseAtShape
  <2> QED
      BY <1>2, <1>8, <1>9, <2>1 DEF LeaseAgrees
<1>11. /\ stream' \in [Links -> Stream] /\ StreamsAreInPlace'
       /\ \A b \in Links : stream[b].state = "none" => stream'[b].state = "none"
  <2>1. CASE a.end
    <3>1. PICK t : t = Rested("ended")
        OBVIOUS
    <3>2. /\ t \in Stream /\ t.state = "ended"
          /\ t.offset = 0 /\ t.got = 0 /\ t.buffer = <<>>
        BY <3>1, RestedShape
    <3>3. stream' = [stream EXCEPT ![c] = t]
        BY <1>2, <2>1, <3>1 DEF Ended, Rested
    <3>4. Len(t.buffer) = 0 /\ DOMAIN t.buffer = {}
        BY <3>2
    <3>5. t.offset + t.got <= Size /\ Len(t.buffer) <= t.got
        BY <3>2, <3>4, UploadAssumption
    <3>6. /\ stream' \in [Links -> Stream] /\ StreamsAreInPlace'
          /\ stream'[c] = t /\ \A b \in Links : b # c => stream'[b] = stream[b]
        BY <1>9, <3>2, <3>3, <3>4, <3>5, OneStreamChanges
    <3> QED
        BY <1>3, <3>6
  <2>2. CASE ~a.end
    <3>1. PICK rest : rest = SubSeq(buffer, k + 1, Len(buffer))
        OBVIOUS
    <3>2. /\ rest \in Seq(0 .. Size) /\ Len(rest) = n - k
          /\ \A i \in 1 .. n - k : rest[i] \in {row'.received + i, Bad}
      <4>1. k + 1 \in 1 .. Len(buffer) + 1 /\ Len(buffer) \in (k + 1) - 1 .. Len(buffer)
          BY <1>6, <1>7
      <4>2. /\ rest \in Seq(0 .. Size) /\ Len(rest) = Len(buffer) - (k + 1) + 1
            /\ \A i \in 1 .. Len(buffer) - (k + 1) + 1 : rest[i] = buffer[k + 1 + i - 1]
        <5>1. buffer \in Seq(0 .. Size)
            BY <1>5
        <5>2. PICK at, end : at = k + 1 /\ end = Len(buffer)
            OBVIOUS
        <5>3. at \in 1 .. Len(buffer) + 1 /\ end \in at - 1 .. Len(buffer) /\ rest = SubSeq(buffer, at, end)
            BY <3>1, <4>1, <5>2
        <5>4. /\ SubSeq(buffer, at, end) \in Seq(0 .. Size)
              /\ Len(SubSeq(buffer, at, end)) = end - at + 1
              /\ \A i \in 1 .. end - at + 1 : SubSeq(buffer, at, end)[i] = buffer[at + i - 1]
            BY <5>1, <5>3, Pieces
        <5> QED
            BY <5>2, <5>3, <5>4
      <4>3. Len(rest) = n - k
          BY <1>6, <1>7, <4>2
      <4>4. ASSUME NEW i \in 1 .. n - k
            PROVE  rest[i] \in {row'.received + i, Bad}
        <5>1. i \in 1 .. Len(buffer) - (k + 1) + 1 /\ k + 1 + i - 1 = k + i /\ k + i \in 1 .. Len(buffer)
            BY <1>6, <1>7
        <5>2. rest[i] = buffer[k + i]
            BY <4>2, <5>1
        <5>3. buffer[k + i] \in {row.received + (k + i), Bad}
            BY <1>5, <5>1
        <5>4. row.received + (k + i) = row'.received + i
            BY <1>3, <1>7, <1>8
        <5> QED
            BY <5>2, <5>3, <5>4
      <4> QED
          BY <4>2, <4>3, <4>4
    <3>4. PICK t : t = Continued(c, got, rest)
        OBVIOUS
    <3>5. /\ t \in Stream /\ t.state = "bound" /\ t.offset = stream[c].offset
          /\ t.got = got /\ t.buffer = rest
      <4>1. stream[c] \in Stream
          BY <1>3
      <4>2. got \in 0 .. Size
          BY <1>6
      <4>3. rest \in Seq(0 .. Size)
          BY <3>2
      <4>4. /\ Continued(c, got, rest) \in Stream
            /\ Continued(c, got, rest).state = "bound"
            /\ Continued(c, got, rest).offset = stream[c].offset
            /\ Continued(c, got, rest).got = got
            /\ Continued(c, got, rest).buffer = rest
          BY <4>1, <4>2, <4>3, ContinuedShape
      <4> QED
          BY <3>4, <4>4
    <3>6. stream' = [stream EXCEPT ![c] = t]
        BY <1>2, <2>2, <3>1, <3>4
    <3>7. /\ t.offset + t.got - Len(t.buffer) = row'.received
          /\ t.offset + t.got <= Size /\ Len(t.buffer) <= t.got
      <4>1. PICK r \in Nat : r = row.received /\ row'.received = r + k
          BY <1>3, <1>8
      <4>2. t.offset + t.got = r + n /\ Len(t.buffer) = n - k
          BY <1>6, <3>2, <3>5, <4>1
      <4>3. t.got \in Nat /\ n <= t.got
          BY <1>6, <3>5, UploadAssumption
      <4>4. r + n <= Size /\ k \in Nat /\ n \in Nat
          BY <1>6, <1>7, <4>1
      <4>5. t.offset + t.got - Len(t.buffer) = r + n - (n - k)
        <5>1. t.offset \in Nat /\ t.got \in Nat
            BY <1>3, <3>5, <4>3
        <5> QED
            BY <4>2, <4>4, <5>1
      <4>6. r + n - (n - k) = r + k /\ n - k <= n
          BY <4>1, <4>4
      <4>7. Len(t.buffer) <= t.got
          BY <4>2, <4>3, <4>4
      <4> QED
          BY <4>1, <4>2, <4>4, <4>5, <4>6, <4>7
    <3>9. \A i \in DOMAIN t.buffer : t.buffer[i] \in {t.offset + t.got - Len(t.buffer) + i, Bad}
      <4>1. DOMAIN t.buffer = 1 .. n - k
          BY <3>2, <3>5
      <4> QED
          BY <3>2, <3>5, <3>7, <4>1
    <3>10. t.state = "bound" /\ lease'.owner = c =>
              lease'.bound /\ lease'.offset = t.offset + t.got - Len(t.buffer)
      <4>1. lease'.owner = c => lease' = LeaseAt(c, row'.received)
          BY <1>2, <2>2
      <4>2. LeaseAt(c, row'.received).bound /\ LeaseAt(c, row'.received).offset = row'.received
          BY <1>8, LeaseAtShape
      <4> QED
          BY <3>7, <4>1, <4>2
    <3>11. /\ stream' \in [Links -> Stream] /\ StreamsAreInPlace'
           /\ stream'[c] = t /\ \A b \in Links : b # c => stream'[b] = stream[b]
        BY <1>9, <3>5, <3>6, <3>7, <3>9, <3>10, OneStreamChanges
    <3> QED
        BY <1>3, <3>11
  <2> QED
      BY <1>4, <2>1, <2>2
<1>12. faults' \in 0 .. MaxFaults /\ faults' >= faults
    BY <1>2, FaultCounts
<1>13. /\ link' \in [Links -> {"unused", "up", "down"}]
       /\ stored' \in [Finishes -> {"none", "finished", "refused"}]
       /\ stored' = stored
    BY <1>2 DEF Inductive, TypeOK
<1>14. CallsAreAnswered
    BY <1>2, NothingCalls
<1> QED
    BY <1>2, <1>8, <1>9, <1>10, <1>11, <1>12, <1>13, <1>14 DEF ServerStep

LEMMA StorageFailsSteps ==
    ASSUME Inductive, NEW c \in Links, StorageFails(c)
    PROVE  ServerStep
<1>1. /\ MayWrite(c) /\ StorageAgrees /\ Fault /\ Drops(c)
      /\ UNCHANGED <<published, stored, current, task>>
    BY DEF StorageFails, device
<1>2. /\ lease.owner = c /\ row.status = "open" /\ row \in Row
      /\ stream[c].offset \in Nat /\ stream[c].got \in Nat
      /\ Len(stream[c].buffer) \in Nat /\ stream[c].buffer \in Seq(0 .. Size)
      /\ Len(stream[c].buffer) <= stream[c].got
      /\ stream[c].offset + stream[c].got <= Size
      /\ row.received \in Nat
      /\ row.received = stream[c].offset + stream[c].got - Len(stream[c].buffer)
      /\ \A i \in 1 .. Len(stream[c].buffer) : stream[c].buffer[i] \in {row.received + i, Bad}
    BY <1>1, WriterIsInPlace
<1>3. PICK count \in 0 .. Size - stream[c].offset - stream[c].got :
        \E buffer, units, done, torn :
          /\ units = [i \in 1 .. count |-> stream[c].offset + stream[c].got + i]
          /\ buffer = stream[c].buffer \o units
          /\ done \in 0 .. Len(buffer) - 1
          /\ torn \in 0 .. (IF Len(buffer) - done < Commit THEN Len(buffer) - done ELSE Commit)
          /\ disk' = disk \o SubSeq(buffer, 1, done + torn)
          /\ row' = Recorded(done)
    BY DEF StorageFails, Recorded
<1>4. PICK n, old, buffer, units, done, torn :
          /\ n \in 0 .. Size - stream[c].offset - stream[c].got
          /\ old = stream[c].buffer
          /\ units = [i \in 1 .. n |-> stream[c].offset + stream[c].got + i]
          /\ buffer = old \o units
          /\ done \in 0 .. Len(buffer) - 1
          /\ torn \in 0 .. (IF Len(buffer) - done < Commit THEN Len(buffer) - done ELSE Commit)
          /\ disk' = disk \o SubSeq(buffer, 1, done + torn)
          /\ row' = Recorded(done)
    BY <1>3
<1>5. PICK at \in Nat, m \in Nat, r \in Nat :
          /\ at = stream[c].offset + stream[c].got /\ m = Len(stream[c].buffer)
          /\ r = row.received /\ r + m = at /\ n \in Nat /\ at + n <= Size
  <2>1. PICK o \in Nat, g \in Nat, m \in Nat :
            o = stream[c].offset /\ g = stream[c].got /\ m = Len(stream[c].buffer)
      BY <1>2
  <2>2. o + g <= Size /\ m <= g /\ row.received = o + g - m
      BY <1>2, <2>1
  <2>3. n \in 0 .. Size - o - g
      BY <1>4, <2>1
  <2>4. o + g \in Nat /\ o + g - m \in Nat /\ (o + g - m) + m = o + g
      BY <2>2
  <2>5. n \in Nat /\ o + g + n <= Size
      BY <2>2, <2>3, UploadAssumption
  <2>6. o + g = stream[c].offset + stream[c].got
      BY <2>1
  <2> QED
      BY <2>1, <2>2, <2>4, <2>5, <2>6
<1>6. units \in Seq(0 .. Size) /\ Len(units) = n /\ \A i \in 1 .. n : units[i] = at + i
  <2>1. units = [i \in 1 .. n |-> at + i]
      BY <1>4, <1>5
  <2>0. n \in Nat /\ at \in Nat /\ at + n <= Size /\ Size \in Nat
      BY <1>5, UploadAssumption
  <2>2. \A i \in 1 .. n : at + i \in 0 .. Size
      BY <2>0
  <2>3. units \in [1 .. n -> 0 .. Size]
      BY <2>1, <2>2
  <2> QED
      BY <1>5, <2>1, <2>3, FunctionsAreSequences
<1>7. /\ buffer \in Seq(0 .. Size)
      /\ Len(buffer) = m + n
      /\ \A i \in 1 .. Len(buffer) : buffer[i] \in {row.received + i, Bad}
  <2>1. /\ old \in Seq(0 .. Size) /\ row.received \in Nat /\ Len(old) = m
        /\ \A i \in 1 .. Len(old) : old[i] \in {row.received + i, Bad}
      BY <1>2, <1>4, <1>5
  <2>2. \A i \in 1 .. Len(units) : units[i] \in {row.received + Len(old) + i, Bad}
    <3>1. \A i \in 1 .. n : at + i = row.received + Len(old) + i
        BY <1>5, <2>1
    <3> QED
        BY <1>6, <3>1
  <2>3. units \in Seq(0 .. Size) /\ Len(units) = n
      BY <1>6
  <2>4. /\ old \o units \in Seq(0 .. Size)
        /\ Len(old \o units) = Len(old) + Len(units)
        /\ \A i \in 1 .. Len(old \o units) : (old \o units)[i] \in {row.received + i, Bad}
      BY <2>1, <2>2, <2>3, PieceGrows
  <2>5. buffer = old \o units
      BY <1>4
  <2> QED
      BY <2>1, <2>3, <2>4, <2>5
<1>8. PICK k \in 0 .. Len(buffer) : k = done + torn /\ done \in 0 .. k
  <2>1. PICK len \in Nat : len = Len(buffer)
      BY <1>7
  <2>2. done \in Nat /\ done <= len /\ torn \in Nat /\ done + torn <= len
    <3>1. done \in 0 .. len - 1 /\ torn \in 0 .. (IF len - done < Commit THEN len - done ELSE Commit)
        BY <1>4, <2>1
    <3> QED
        BY <2>1, <3>1, UploadAssumption
  <2>3. done + torn \in 0 .. Len(buffer) /\ done \in 0 .. done + torn
      BY <2>1, <2>2
  <2> QED
      BY <2>3
<1>9. FileStep
  <2>1. row.received + Len(buffer) <= Size
    <3>1. n \in Nat /\ r + m = at
        BY <1>5
    <3>2. r + (m + n) = at + n
        BY <3>1
    <3> QED
        BY <1>5, <1>7, <3>2
  <2>2. disk' = disk \o SubSeq(buffer, 1, k)
      BY <1>4, <1>8
  <2> QED
      BY <1>1, <1>2, <1>4, <1>7, <1>8, <2>1, <2>2, FileGrows
<1>10. lease' = NoLease
    BY <1>1, <1>2 DEF Drops, Released
<1> QED
    BY <1>1, <1>9, <1>10, DroppedRests, ServerParts

\* Every action of the server.
LEMMA ServerNextSteps ==
    ASSUME Inductive, ServerNext
    PROVE  ServerStep
<1>1. ASSUME NEW c \in Links,
             \/ RejectData(c) \/ HandleData(c) \/ StorageFails(c) \/ StorageDiverged(c) \/ ResetStream(c)
             \/ HandleInit(c) \/ HandleFinish(c) \/ HandleCancel(c) \/ FailRequest(c)
             \/ NoticeClosed(c)
      PROVE  ServerStep
    BY <1>1, RejectDataSteps, HandleDataSteps, StorageFailsSteps, ClosingSteps, ResetStreamSteps,
       HandleInitSteps, HandleFinishSteps, HandleCancelSteps, FailRequestSteps
<1> QED
    BY <1>1, CrashSteps, LoseBytesSteps, CancelElsewhereSteps DEF ServerNext

-----------------------------------------------------------------------------
(* A step of the device: nothing changes on the server but what it is sent *)

\* What the device asks for is sound, and what it takes is gone.
CallsAreAsked ==
    /\ call' \in [Links -> Call]
    /\ \A c \in Links :
         \/ call'[c] = call[c] /\ stream'[c] = stream[c]
         \/ call'[c].kind = "idle"
         \/ /\ call'[c].kind \in Questions
            /\ call'[c].kind = "finish" => call'[c].no \in Finishes
            /\ call'[c].kind = "init" => stream'[c].state = "none"

\* The task shows what the answers and events said.
TaskIsTrue ==
    /\ task' \in Task
    /\ task'.finish <= faults'
    /\ task'.status = "completed" => row.status = "completed"
    /\ task'.status = "cancelled" => row.status = "cancelled"
    /\ task'.status = "cancel_failed" => row.status = "completed"

DeviceStep ==
    /\ UNCHANGED <<row, disk, published, stored, lease>>
    /\ link' \in [Links -> {"unused", "up", "down"}]
    /\ \A c \in Links : link[c] = "up" => link'[c] = "up"
    /\ stream' \in [Links -> Stream] /\ StreamsAreInPlace'
    /\ CallsAreAsked
    /\ current' \in Links \cup {0}
    /\ TaskIsTrue
    /\ faults' \in 0 .. MaxFaults

LEMMA DeviceStepKeepsInductive ==
    ASSUME Inductive, DeviceStep
    PROVE  Inductive' /\ RowMoves
<1>1. TypeOK'
    BY DEF Inductive, TypeOK, DeviceStep, CallsAreAsked, TaskIsTrue
<1>2. FileStep
    BY FileStays DEF DeviceStep
<1>3. LeaseAgrees' /\ (lease'.owner = 0 => lease' = NoLease)
  <2>1. lease # NoLease => lease.owner \in Links
      BY DEF Inductive, TypeOK, Lease
  <2> QED
      BY <2>1 DEF Inductive, LeaseAgrees, DeviceStep
<1>4. AnswersAreTrue'
  <2>1. \A n \in Finishes : stored'[n] = "finished" => row'.status = "completed"
      BY DEF Inductive, AnswersAreTrue, DeviceStep
  <2>2. \A c \in Links :
          /\ call'[c].kind \in {"completed", "finished", "tooLate"} => row'.status = "completed"
          /\ call'[c].kind = "cancelled" => row'.status = "cancelled"
    <3> TAKE c \in Links
    <3>1. CASE call'[c] = call[c]
        BY <3>1 DEF Inductive, AnswersAreTrue, DeviceStep
    <3>2. CASE call'[c].kind \in {"idle"} \cup Questions
        BY <3>2 DEF Questions
    <3> QED
        BY <3>1, <3>2 DEF DeviceStep, CallsAreAsked
  <2> QED
      BY <2>1, <2>2 DEF AnswersAreTrue
<1>5. RequestsAreSound'
  <2>1. \A c \in Links :
          /\ call'[c].kind = "finish" => call'[c].no \in Finishes
          /\ call'[c].kind = "granted" => call'[c].no \in 0 .. Size
          /\ call'[c].kind \in {"init", "granted"} => stream'[c].state = "none"
    <3> TAKE c \in Links
    <3>1. CASE call'[c] = call[c] /\ stream'[c] = stream[c]
        BY <3>1 DEF Inductive, RequestsAreSound
    <3>2. CASE call'[c].kind = "idle"
        BY <3>2
    <3>3. CASE /\ call'[c].kind \in Questions
               /\ call'[c].kind = "finish" => call'[c].no \in Finishes
               /\ call'[c].kind = "init" => stream'[c].state = "none"
        BY <3>3 DEF Questions
    <3> QED
        BY <3>1, <3>2, <3>3 DEF DeviceStep, CallsAreAsked
  <2> QED
      BY <2>1 DEF RequestsAreSound, DeviceStep, TaskIsTrue
<1>6. DeviceShowsTheTruth'
    BY DEF DeviceShowsTheTruth, DeviceStep, TaskIsTrue
<1> QED
    BY <1>1, <1>2, <1>3, <1>4, <1>5, <1>6 DEF Inductive, FileStep, DeviceStep

\* The parts the device's actions leave alone.
LEMMA TaskStays ==
    ASSUME Inductive, task' = task, Fault \/ UNCHANGED faults
    PROVE  TaskIsTrue
<1>1. task.finish \in Nat /\ faults \in Nat /\ task.finish <= faults
    BY UploadAssumption DEF Inductive, TypeOK, Task, Finishes, RequestsAreSound
<1>2. faults' \in Nat /\ faults' >= faults
    BY FaultCounts, UploadAssumption
<1>3. task'.finish <= faults'
    BY <1>1, <1>2
<1> QED
    BY <1>3 DEF Inductive, TypeOK, DeviceShowsTheTruth, TaskIsTrue

\* The task takes a status the server warrants.
LEMMA TaskMoves ==
    ASSUME Inductive, Fault \/ UNCHANGED faults,
           NEW t \in Task, task' = t, t.finish = task.finish,
           t.status = "completed" => row.status = "completed",
           t.status = "cancelled" => row.status = "cancelled",
           t.status = "cancel_failed" => row.status = "completed"
    PROVE  TaskIsTrue
<1>1. task.finish \in Nat /\ faults \in Nat /\ task.finish <= faults
    BY UploadAssumption DEF Inductive, TypeOK, Task, Finishes, RequestsAreSound
<1>2. faults' \in Nat /\ faults' >= faults
    BY FaultCounts, UploadAssumption
<1>3. task'.finish <= faults'
    BY <1>1, <1>2
<1> QED
    BY <1>3 DEF TaskIsTrue

LEMMA StreamsUntouched ==
    ASSUME Inductive, UNCHANGED <<stream, lease>>
    PROVE  stream' \in [Links -> Stream] /\ StreamsAreInPlace'
BY NothingStreams, StreamsStay DEF LeaseShrinks

LEMMA CallsUntouched ==
    ASSUME Inductive, UNCHANGED <<call, stream>>
    PROVE  CallsAreAsked
BY DEF Inductive, TypeOK, CallsAreAsked

LEMMA LinksUntouched ==
    ASSUME Inductive, UNCHANGED link
    PROVE  /\ link' \in [Links -> {"unused", "up", "down"}]
           /\ \A c \in Links : link[c] = "up" => link'[c] = "up"
BY DEF Inductive, TypeOK

\* An answer is taken.
LEMMA TakenIsGone ==
    ASSUME Inductive, current # 0, Taken, \A c \in Links : c # current => stream'[c] = stream[c]
    PROVE  CallsAreAsked
<1>1. /\ call \in [Links -> Call] /\ current \in Links
      /\ call' = [call EXCEPT ![current] = Idle]
    BY DEF Inductive, TypeOK, Taken
<1>2. /\ call' \in [Links -> Call]
      /\ call'[current].kind = "idle" /\ \A c \in Links : c # current => call'[c] = call[c]
    BY <1>1, Shapes
<1> QED
    BY <1>1, <1>2 DEF CallsAreAsked

\* The task with another status, and with what an answer says besides.
WithStatus(status) == [task EXCEPT !.status = status]
WithOutcome(status, known, rejected) ==
    [task EXCEPT !.status = status, !.known = known, !.rejected = rejected]

LEMMA WithStatusShape ==
    ASSUME task \in Task, NEW status \in Statuses
    PROVE  /\ WithStatus(status) \in Task /\ WithStatus(status).status = status
           /\ WithStatus(status).finish = task.finish
BY DEF WithStatus, Task

LEMMA WithOutcomeShape ==
    ASSUME task \in Task, NEW status \in Statuses, NEW known \in BOOLEAN, NEW rejected \in BOOLEAN
    PROVE  /\ WithOutcome(status, known, rejected) \in Task
           /\ WithOutcome(status, known, rejected).status = status
           /\ WithOutcome(status, known, rejected).finish = task.finish
BY DEF WithOutcome, Task

LEMMA ConnectSteps ==
    ASSUME Inductive, Connect
    PROVE  DeviceStep
<1>1. /\ task.status \notin Final
      /\ task' = WithStatus(IF task.status = "finishing" THEN "pending" ELSE task.status)
      /\ UNCHANGED <<row, disk, published, stored, lease, call, stream, faults>>
    BY DEF Connect, server, WithStatus
<1>2. PICK c \in Links : link[c] = "unused" /\ link' = [link EXCEPT ![c] = "up"] /\ current' = c
    BY DEF Connect
<1>3. /\ link' \in [Links -> {"unused", "up", "down"}]
      /\ \A b \in Links : link[b] = "up" => link'[b] = "up"
    BY <1>2 DEF Inductive, TypeOK
<1>4. TaskIsTrue
  <2>1. PICK status \in Statuses :
            /\ status = IF task.status = "finishing" THEN "pending" ELSE task.status
            /\ status \in {task.status, "pending"}
      BY DEF Inductive, TypeOK, Task, Statuses
  <2>2. PICK t \in Task : t = WithStatus(status) /\ t.status = status /\ t.finish = task.finish
      BY WithStatusShape DEF Inductive, TypeOK
  <2>3. task' = t
      BY <1>1, <2>1, <2>2
  <2>4. /\ t.status = "completed" => row.status = "completed"
        /\ t.status = "cancelled" => row.status = "cancelled"
        /\ t.status = "cancel_failed" => row.status = "completed"
      BY <2>1, <2>2 DEF Inductive, DeviceShowsTheTruth
  <2> QED
      BY <1>1, <2>2, <2>3, <2>4, TaskMoves
<1>5. stream' \in [Links -> Stream] /\ StreamsAreInPlace' /\ CallsAreAsked
    BY <1>1, StreamsUntouched, CallsUntouched
<1>6. faults' \in 0 .. MaxFaults
    BY <1>1 DEF Inductive, TypeOK
<1> QED
    BY <1>1, <1>2, <1>3, <1>4, <1>5, <1>6 DEF DeviceStep

LEMMA AskSteps ==
    ASSUME Inductive, Ask
    PROVE  DeviceStep
<1>1. /\ current \in Links /\ current # 0
      /\ UNCHANGED <<row, disk, published, stored, lease, link, stream, current, task, faults>>
    BY DEF Ask, Inductive, TypeOK, server, device
<1>2. PICK a : /\ call' = [call EXCEPT ![current] = a]
               /\ \/ a = [kind |-> "init", no |-> 0] /\ stream[current].state = "none"
                  \/ a = [kind |-> "finish", no |-> task.finish]
                  \/ a = [kind |-> "cancel", no |-> 0]
    BY DEF Ask
<1>3. /\ a \in Call /\ a.kind \in Questions
      /\ a.kind = "finish" => a.no \in Finishes
      /\ a.kind = "init" => stream[current].state = "none"
  <2>1. task.finish \in Finishes /\ task.finish \in Nat
      BY UploadAssumption DEF Inductive, TypeOK, Task, Finishes
  <2> QED
      BY <1>2, <2>1 DEF Call, Questions
<1>4. CallsAreAsked
  <2>1. call \in [Links -> Call]
      BY DEF Inductive, TypeOK
  <2>2. /\ call' \in [Links -> Call]
        /\ call'[current] = a /\ \A c \in Links : c # current => call'[c] = call[c]
      BY <1>1, <1>2, <1>3, <2>1
  <2> QED
      BY <1>1, <1>3, <2>2 DEF CallsAreAsked
<1>5. stream' \in [Links -> Stream] /\ StreamsAreInPlace' /\ TaskIsTrue
    BY <1>1, StreamsUntouched, TaskStays
<1>6. faults' \in 0 .. MaxFaults /\ current' \in Links \cup {0}
    BY <1>1 DEF Inductive, TypeOK
<1> QED
    BY <1>1, <1>4, <1>5, <1>6, LinksUntouched DEF DeviceStep

LEMMA OpenStreamSteps ==
    ASSUME Inductive, OpenStream
    PROVE  DeviceStep
<1>1. /\ current \in Links /\ current # 0 /\ Taken
      /\ call[current].kind = "granted"
      /\ UNCHANGED <<row, disk, published, stored, lease, link, current>>
      /\ Fault \/ UNCHANGED faults
    BY DEF OpenStream, Answered, Inductive, TypeOK, server
<1>2. PICK offset \in 0 .. Size : offset = call[current].no
    BY <1>1 DEF Inductive, RequestsAreSound
<1>3. PICK t : t = [NoStream EXCEPT !.state = "sending", !.offset = offset]
    OBVIOUS
<1>4. t \in Stream /\ t.state = "sending" /\ t.offset = offset /\ t.got = 0 /\ t.buffer = <<>>
    BY <1>3, Shapes DEF Stream
<1>5. \/ task' = [task EXCEPT !.status = "transferring", !.known = TRUE]
         /\ stream' = [stream EXCEPT ![current] = t]
      \/ task' = [task EXCEPT !.status = "failed", !.known = TRUE] /\ stream' = stream
    BY <1>2, <1>3 DEF OpenStream
<1>6. TaskIsTrue
  <2>1. task \in Task
      BY DEF Inductive, TypeOK
  <2>2. PICK u \in Task : /\ task' = u
                          /\ u.status \in {"transferring", "failed"} /\ u.finish = task.finish
      BY <1>5, <2>1, ZenonT(30) DEF Task, Statuses
  <2> QED
      BY <1>1, <2>2, TaskMoves
<1>7. /\ stream' \in [Links -> Stream] /\ StreamsAreInPlace'
      /\ \A c \in Links : c # current => stream'[c] = stream[c]
  <2>1. CASE stream' = [stream EXCEPT ![current] = t]
    <3>1. Len(t.buffer) = 0 /\ DOMAIN t.buffer = {} /\ t.offset + t.got <= Size /\ Len(t.buffer) <= t.got
        BY <1>2, <1>4, UploadAssumption
    <3> QED
        BY <1>1, <1>4, <2>1, <3>1, OneStreamChanges
  <2>2. CASE stream' = stream
      BY <1>1, <2>2, StreamsUntouched
  <2> QED
      BY <1>5, <2>1, <2>2
<1>8. CallsAreAsked
    BY <1>1, <1>7, TakenIsGone
<1>9. faults' \in 0 .. MaxFaults /\ current' \in Links \cup {0}
    BY <1>1, FaultCounts
<1> QED
    BY <1>1, <1>6, <1>7, <1>8, <1>9, LinksUntouched DEF DeviceStep

\* The actions that at most change the task and leave the connection.
LEMMA TaskSteps ==
    ASSUME Inductive, UNCHANGED <<row, disk, published, stored, lease, link, call, stream>>,
           current' \in {current, 0}, TaskIsTrue, Fault \/ UNCHANGED faults
    PROVE  DeviceStep
<1>1. stream' \in [Links -> Stream] /\ StreamsAreInPlace' /\ CallsAreAsked
    BY StreamsUntouched, CallsUntouched
<1>2. faults' \in 0 .. MaxFaults /\ current' \in Links \cup {0}
    BY FaultCounts DEF Inductive, TypeOK
<1> QED
    BY <1>1, <1>2, LinksUntouched DEF DeviceStep

LEMMA AllSentSteps ==
    ASSUME Inductive, AllSent
    PROVE  DeviceStep
<1>1. /\ task' = WithStatus("finishing")
      /\ UNCHANGED <<row, disk, published, stored, lease, link, call, stream, current, faults>>
    BY DEF AllSent, server, WithStatus
<1>2. PICK t \in Task : t = WithStatus("finishing") /\ t.status = "finishing" /\ t.finish = task.finish
    BY WithStatusShape DEF Inductive, TypeOK, Statuses
<1>3. TaskIsTrue
    BY <1>1, <1>2, TaskMoves
<1> QED
    BY <1>1, <1>3, TaskSteps

\* The stream was rejected, or the connection is lost: the task stays.
LEMMA LeavingSteps ==
    ASSUME Inductive, StreamFailed \/ LoseConnection
    PROVE  DeviceStep
<1>1. /\ current' = 0 /\ task' = task
      /\ Fault \/ UNCHANGED faults
      /\ UNCHANGED <<row, disk, published, stored, lease, link, call, stream>>
    BY DEF StreamFailed, LoseConnection, Restart, server
<1> QED
    BY <1>1, TaskStays, TaskSteps

LEMMA CancelFileSteps ==
    ASSUME Inductive, CancelFile
    PROVE  DeviceStep
<1>1. /\ task' = WithStatus("cancelling") /\ current' = 0 /\ Fault
      /\ UNCHANGED <<row, disk, published, stored, lease, link, call, stream>>
    BY DEF CancelFile, Restart, server, WithStatus
<1>2. PICK t \in Task : t = WithStatus("cancelling") /\ t.status = "cancelling" /\ t.finish = task.finish
    BY WithStatusShape DEF Inductive, TypeOK, Statuses
<1>3. TaskIsTrue
    BY <1>1, <1>2, TaskMoves
<1> QED
    BY <1>1, <1>3, TaskSteps

LEMMA LearnOutcomeSteps ==
    ASSUME Inductive, LearnOutcome
    PROVE  DeviceStep
<1>1. /\ row.status \in Final /\ task' = WithStatus(row.status) /\ current' \in {current, 0}
      /\ UNCHANGED <<row, disk, published, stored, lease, link, call, stream, faults>>
    BY DEF LearnOutcome, Restart, server, WithStatus
<1>2. PICK status \in Statuses : status = row.status /\ status \in Final
    BY <1>1 DEF Final, Statuses
<1>3. PICK t \in Task : t = WithStatus(status) /\ t.status = status /\ t.finish = task.finish
    BY WithStatusShape DEF Inductive, TypeOK
<1>4. TaskIsTrue
    BY <1>1, <1>2, <1>3, TaskMoves DEF Final
<1> QED
    BY <1>1, <1>4, TaskSteps

LEMMA RetrySteps ==
    ASSUME Inductive, Retry
    PROVE  DeviceStep
<1>1. /\ current' = 0 /\ Fault
      /\ task' = [task EXCEPT !.status = "pending", !.rejected = FALSE,
                              !.finish = IF task.rejected THEN task.finish + 1 ELSE task.finish]
      /\ UNCHANGED <<row, disk, published, stored, lease, link, call, stream>>
    BY DEF Retry, Restart, server
<1>2. PICK n \in Nat : n = task.finish /\ n <= faults
    BY UploadAssumption DEF Inductive, TypeOK, Task, Finishes, RequestsAreSound
<1>3. faults \in Nat /\ faults < MaxFaults /\ faults' = faults + 1 /\ MaxFaults \in Nat
    BY <1>1, UploadAssumption DEF Inductive, TypeOK, Fault
<1>4. PICK m \in Finishes : m = (IF task.rejected THEN task.finish + 1 ELSE task.finish) /\ m <= faults'
  <2>1. n \in Finishes /\ n + 1 \in Finishes /\ n <= faults' /\ n + 1 <= faults'
      BY <1>2, <1>3 DEF Finishes
  <2> QED
      BY <1>2, <2>1
<1>5. /\ task' = [task EXCEPT !.status = "pending", !.rejected = FALSE, !.finish = m]
      /\ task \in Task
    BY <1>1, <1>4 DEF Inductive, TypeOK
<1>6. task' \in Task /\ task'.status = "pending" /\ task'.finish = m
    BY <1>5 DEF Task, Statuses
<1>7. TaskIsTrue
    BY <1>4, <1>6 DEF TaskIsTrue
<1> QED
    BY <1>1, <1>7, TaskSteps

\* A definite answer is taken, and the task shows what it says.
LEMMA TakeOutcomeSteps ==
    ASSUME Inductive, TakeOutcome
    PROVE  DeviceStep
<1>1. /\ current \in Links /\ current # 0 /\ Taken
      /\ call[current].kind \in {"refused", "completed", "finished", "cancelled", "tooLate"}
      /\ UNCHANGED <<row, disk, published, stored, lease, link, stream, current, faults>>
    BY DEF TakeOutcome, Answered, Inductive, TypeOK, server
<1>2. /\ call[current].kind \in {"completed", "finished", "tooLate"} => row.status = "completed"
      /\ call[current].kind = "cancelled" => row.status = "cancelled"
    BY <1>1 DEF Inductive, AnswersAreTrue
<1>3. TaskIsTrue
  <2>1. CASE task' = task
      BY <1>1, <2>1, TaskStays
  <2>2. CASE task' # task
    <3>1. PICK status : status = Outcome(call[current].kind)
        OBVIOUS
    <3>2. /\ status \in {"failed", "completed", "cancelled", "cancel_failed"}
          /\ status = "completed" => row.status = "completed"
          /\ status = "cancelled" => row.status = "cancelled"
          /\ status = "cancel_failed" => row.status = "completed"
      <4>1. CASE call[current].kind = "refused"
          BY <3>1, <4>1 DEF Outcome
      <4>2. CASE call[current].kind \in {"completed", "finished"}
          BY <1>2, <3>1, <4>2 DEF Outcome
      <4>3. CASE call[current].kind = "cancelled"
          BY <1>2, <3>1, <4>3 DEF Outcome
      <4>4. CASE call[current].kind = "tooLate"
          BY <1>2, <3>1, <4>4 DEF Outcome
      <4> QED
          BY <1>1, <4>1, <4>2, <4>3, <4>4
    <3>3. task' = [task EXCEPT !.status = Outcome(call[current].kind),
                               !.known = task.known \/ call[current].kind = "completed",
                               !.rejected = IF call[current].kind = "refused"
                                            THEN task.status = "finishing" ELSE task.rejected]
        BY <2>2 DEF TakeOutcome
    <3>4. task.known \in BOOLEAN /\ task.rejected \in BOOLEAN /\ task \in Task
        BY DEF Inductive, TypeOK, Task
    <3>5. PICK known \in BOOLEAN, rejected \in BOOLEAN : task' = WithOutcome(status, known, rejected)
      <4>1. (task.known \/ call[current].kind = "completed") \in BOOLEAN
          OBVIOUS
      <4>2. (IF call[current].kind = "refused" THEN task.status = "finishing" ELSE task.rejected) \in BOOLEAN
          BY <3>4
      <4> QED
          BY <3>1, <3>3, <4>1, <4>2 DEF WithOutcome
    <3>6. /\ WithOutcome(status, known, rejected) \in Task
          /\ WithOutcome(status, known, rejected).status = status
          /\ WithOutcome(status, known, rejected).finish = task.finish
        BY <3>2, <3>4, WithOutcomeShape DEF Statuses
    <3> QED
        BY <1>1, <3>2, <3>5, <3>6, TaskMoves
  <2> QED
      BY <2>1, <2>2
<1>4. CallsAreAsked
    BY <1>1, TakenIsGone
<1>5. stream' \in [Links -> Stream] /\ StreamsAreInPlace'
    BY <1>1, StreamsUntouched
<1>6. faults' \in 0 .. MaxFaults /\ current' \in Links \cup {0}
    BY <1>1, FaultCounts
<1> QED
    BY <1>1, <1>3, <1>4, <1>5, <1>6, LinksUntouched DEF DeviceStep

LEMMA TakePutOffSteps ==
    ASSUME Inductive, TakePutOff
    PROVE  DeviceStep
<1>1. /\ current \in Links /\ current # 0 /\ Taken /\ current' \in {current, 0}
      /\ UNCHANGED <<row, disk, published, stored, lease, link, stream, task, faults>>
    BY DEF TakePutOff, Answered, Restart, Inductive, TypeOK, server
<1>2. TaskIsTrue /\ CallsAreAsked
    BY <1>1, TaskStays, TakenIsGone
<1>3. stream' \in [Links -> Stream] /\ StreamsAreInPlace'
    BY <1>1, StreamsUntouched
<1>4. faults' \in 0 .. MaxFaults /\ current' \in Links \cup {0}
    BY <1>1, FaultCounts
<1> QED
    BY <1>1, <1>2, <1>3, <1>4, LinksUntouched DEF DeviceStep

\* Every action of the device.
LEMMA DeviceNextSteps ==
    ASSUME Inductive, DeviceNext
    PROVE  DeviceStep
BY ConnectSteps, AskSteps, OpenStreamSteps, AllSentSteps, LeavingSteps, TakeOutcomeSteps,
   TakePutOffSteps, LearnOutcomeSteps, RetrySteps, CancelFileSteps DEF DeviceNext

-----------------------------------------------------------------------------
(* The theorems *)

LEMMA InitEstablishes == Init => Inductive
<1> SUFFICES ASSUME Init PROVE Inductive
    OBVIOUS
<1>1. /\ row = [status |-> "none", received |-> 0] /\ disk = <<>> /\ published = 0
      /\ stored = [n \in Finishes |-> "none"] /\ lease = NoLease
      /\ link = [c \in Links |-> "unused"] /\ call = [c \in Links |-> Idle]
      /\ stream = [c \in Links |-> NoStream] /\ current = 0
      /\ task = [status |-> "pending", known |-> FALSE, finish |-> 0, rejected |-> FALSE]
      /\ faults = 0
    BY DEF Init
<1>2. Size \in Nat /\ MaxFaults \in Nat
    BY UploadAssumption
<1>3. disk \in Seq(0 .. Size) /\ Len(disk) = 0 /\ DOMAIN disk = {}
    BY <1>1
<1>4. row \in Row /\ task \in Task
    BY <1>1, <1>2 DEF Row, Task, Statuses, Finishes
<1>5. TypeOK
    BY <1>1, <1>2, <1>3, <1>4, Shapes DEF TypeOK
<1>6. PublishedIsWhole /\ BytesAreInPlace /\ DeviceShowsTheTruth
    BY <1>1, <1>3 DEF PublishedIsWhole, BytesAreInPlace, DeviceShowsTheTruth
<1>7. LeaseAgrees /\ AnswersAreTrue /\ RequestsAreSound
    BY <1>1, <1>2, Shapes DEF LeaseAgrees, AnswersAreTrue, RequestsAreSound
<1>8. StreamsAreInPlace
  <2>1. ASSUME NEW c \in Links
        PROVE  stream[c] = NoStream
      BY <1>1
  <2>2. Len(NoStream.buffer) = 0 /\ DOMAIN NoStream.buffer = {}
      BY Shapes
  <2> QED
      BY <1>2, <2>1, <2>2, Shapes DEF StreamsAreInPlace
<1> QED
    BY <1>1, <1>5, <1>6, <1>7, <1>8 DEF Inductive

LEMMA NextKeepsInductive == Inductive /\ [Next]_vars => Inductive' /\ RowMoves
<1> SUFFICES ASSUME Inductive, [Next]_vars PROVE Inductive' /\ RowMoves
    OBVIOUS
<1>1. CASE ServerNext
    BY <1>1, ServerNextSteps, ServerStepKeepsInductive DEF ServerStep, FileStep
<1>2. CASE DeviceNext
    BY <1>2, DeviceNextSteps, DeviceStepKeepsInductive
<1>3. CASE UNCHANGED vars
  <2>1. /\ UNCHANGED <<row, disk, published, stored, lease, link, call, stream, current, task, faults>>
        /\ current' \in {current, 0}
      BY <1>3 DEF vars, server, device
  <2>2. TaskIsTrue
      BY <2>1, TaskStays
  <2> QED
      BY <2>1, <2>2, TaskSteps, DeviceStepKeepsInductive
<1> QED
    BY <1>1, <1>2, <1>3 DEF Next

\* Every reachable state satisfies the inductive invariant: the file on the
\* server, the lease, the streams, the answers and the device's task fit together.
THEOREM Invariance == Spec => []Inductive
<1>1. Inductive /\ [Next]_vars => Inductive'
    BY NextKeepsInductive
<1> QED
    BY InitEstablishes, <1>1, PTL DEF Spec

\* Every variable keeps its type; no buffer, row or file outgrows the announced size.
THEOREM TypeCorrect == Spec => []TypeOK
<1>1. Inductive => TypeOK
    BY DEF Inductive
<1> QED
    BY Invariance, <1>1, PTL

\* A completed transfer is the device's file, whole and in order, with one
\* message; no other transfer has any (handle_file_finish, apply_finish).
THEOREM CompletedIsWhole == Spec => []PublishedIsWhole
<1>1. Inductive => PublishedIsWhole
    BY DEF Inductive
<1> QED
    BY Invariance, <1>1, PTL

\* A byte on the disk is at its own place, whatever failed, crashed or arrived
\* late (append_file_chunk, _reconcile_upload).
THEOREM NoByteIsMisplaced == Spec => []BytesAreInPlace
<1>1. Inductive => BytesAreInPlace
    BY DEF Inductive
<1> QED
    BY Invariance, <1>1, PTL

\* The owner of the lease is connected, and the lease is where the row says the
\* file ends (UploadRegistry against file_transfers).
THEOREM LeaseIsTrue == Spec => []LeaseAgrees
<1>1. Inductive => LeaseAgrees
    BY DEF Inductive
<1> QED
    BY Invariance, <1>1, PTL

\* The device shows as final only what is so on the server
\* (MiniImFileTaskStore::update, handleFileResult).
THEOREM ShownIsTrue == Spec => []DeviceShowsTheTruth
<1>1. Inductive => DeviceShowsTheTruth
    BY DEF Inductive
<1> QED
    BY Invariance, <1>1, PTL

\* No step undoes a completed or cancelled transfer, and none loses recorded
\* progress but with the bytes (apply_finish, cancel_transfer, rewind_upload).
THEOREM ProgressIsKept == Spec => NothingIsUndone
<1>1. Inductive /\ [Next]_vars =>
        [/\ row.status \in Final => row' = row /\ (row.status = "completed" => disk' = disk)
         /\ row'.received < row.received =>
              \/ row'.received = Len(disk)
              \/ row.received = Size /\ row'.status = "failed" /\ ~Verifies]_vars
    BY NextKeepsInductive DEF RowMoves
<1> QED
    BY Invariance, <1>1, PTL DEF Spec, NothingIsUndone

-----------------------------------------------------------------------------
(* The upload implements FileDelivery *)

\* A message is there exactly for a completed transfer, and then with the file.
LEMMA CopyIsCompleted ==
    ASSUME PublishedIsWhole
    PROVE  Copy = IF row.status = "completed" THEN "whole" ELSE "none"
BY DEF PublishedIsWhole, Copy, Verifies

\* A step of the server publishes and decides at once, and tells the user nothing.
LEMMA ServerDelivers ==
    ASSUME Inductive, Inductive', RowMoves, task' = task
    PROVE  [Delivery!Next]_(Delivery!vars)
<1>1. PICK c, d, e : c = Copy /\ d = Decided /\ e = Shown
    OBVIOUS
<1>2. PICK p, q, r : p = Copy' /\ q = Decided' /\ r = Shown'
    OBVIOUS
<1>3. r = e
    BY <1>1, <1>2 DEF Shown
<1>4. c = IF row.status = "completed" THEN "whole" ELSE "none"
    BY <1>1, CopyIsCompleted DEF Inductive
<1>5. p = IF row'.status = "completed" THEN "whole" ELSE "none"
  <2>1. PublishedIsWhole'
      BY DEF Inductive
  <2> QED
      BY <1>2, <2>1 DEF PublishedIsWhole, Copy, Verifies
<1>6. /\ d = IF row.status \in Final THEN row.status ELSE "open"
      /\ q = IF row'.status \in Final THEN row'.status ELSE "open"
    BY <1>1, <1>2 DEF Decided
<1>7. CASE row.status \in Final
  <2>1. row' = row
      BY <1>7 DEF RowMoves
  <2>2. p = c /\ q = d
      BY <1>4, <1>5, <1>6, <2>1
  <2> QED
      BY <1>1, <1>2, <1>3, <2>2 DEF Delivery!vars
<1>8. CASE row.status \notin Final
  <2>1. d = "open" /\ c = "none"
      BY <1>4, <1>6, <1>8 DEF Final
  <2>2. \/ p = "whole" /\ q = "completed"
        \/ p = "none" /\ q = "cancelled"
        \/ p = "none" /\ q = "open"
      BY <1>5, <1>6 DEF Final
  <2>3. CASE p = "whole" /\ q = "completed"
      BY <1>1, <1>2, <1>3, <2>1, <2>3 DEF Delivery!Next, Delivery!Complete
  <2>4. CASE p = "none" /\ q = "cancelled"
      BY <1>1, <1>2, <1>3, <2>1, <2>4 DEF Delivery!Next, Delivery!Cancel
  <2>5. CASE p = "none" /\ q = "open"
      BY <1>1, <1>2, <1>3, <2>1, <2>5 DEF Delivery!vars
  <2> QED
      BY <2>2, <2>3, <2>4, <2>5
<1> QED
    BY <1>7, <1>8

\* What the device's task shows in the end stays.
LEMMA FinalTasksStay ==
    ASSUME DeviceNext, task.status \in Final
    PROVE  task' = task
<1>1. CASE Connect \/ Ask \/ StreamFailed \/ TakePutOff \/ LoseConnection
    BY <1>1 DEF Connect, Ask, StreamFailed, TakePutOff, LoseConnection, device
<1>2. CASE OpenStream \/ AllSent \/ LearnOutcome \/ Retry \/ CancelFile
    BY <1>2 DEF OpenStream, AllSent, LearnOutcome, Retry, CancelFile, Final
<1>3. CASE TakeOutcome
    BY <1>3 DEF TakeOutcome
<1> QED
    BY <1>1, <1>2, <1>3 DEF DeviceNext

\* A step of the device only tells its user something else, and something true.
LEMMA DeviceDelivers ==
    ASSUME Inductive, Inductive', DeviceNext
    PROVE  [Delivery!Next]_(Delivery!vars)
<1>1. UNCHANGED <<row, disk, published>>
    BY DeviceNextSteps DEF DeviceStep
<1>2. PICK d, e, r : d = Decided /\ e = Shown /\ r = Shown'
    OBVIOUS
<1>3. UNCHANGED <<Copy, Decided>>
    BY <1>1 DEF Copy, Decided, Verifies
<1>4. CASE task.status \in Final
  <2>1. Shown' = Shown
      BY <1>4, FinalTasksStay DEF Shown
  <2> QED
      BY <1>3, <2>1 DEF Delivery!vars
<1>5. CASE task.status \notin Final
  <2>1. e \notin {"completed", "cancelled"}
      BY <1>2, <1>5 DEF Shown
  <2>2. /\ d = "completed" \/ d = "cancelled" \/ d = "open"
        /\ row.status \in Final => d = row.status
      BY <1>2 DEF Decided, Final
  <2>3. \/ r = "nothing"
        \/ r = "completed" /\ task'.status = "completed"
        \/ r = "cancelled" /\ task'.status = "cancelled"
        \/ r = "tooLate" /\ task'.status = "cancel_failed"
      BY <1>2 DEF Shown, Final
  <2>4. DeviceShowsTheTruth'
      BY DEF Inductive
  <2>5. /\ r \in {"completed", "tooLate"} => d = "completed"
        /\ r = "cancelled" => d = "cancelled"
      BY <1>1, <2>2, <2>3, <2>4 DEF DeviceShowsTheTruth, Final
  <2>6. r \in {"nothing"} \cup (IF d = "open" THEN {} ELSE {d})
                 \cup (IF d = "completed" THEN {"tooLate"} ELSE {})
      BY <2>3, <2>5
  <2> QED
      BY <1>2, <1>3, <2>1, <2>6 DEF Delivery!Next, Delivery!Show
<1> QED
    BY <1>4, <1>5

\* Only the device changes its task.
LEMMA ServerLeavesTheTask ==
    ASSUME Inductive, ServerNext
    PROVE  task' = task
BY ServerNextSteps DEF ServerStep

\* An upload implements FileDelivery: its message appears once, with the whole file
\* and the server's decision, and what the device tells its user is true and final
\* (handle_file_finish, cancel_transfer, MiniImFileTaskStore::update).
THEOREM ImplementsFileDelivery == Spec => DeliverySpec
<1>1. Init => Delivery!Init
    BY DEF Init, Delivery!Init, Copy, Decided, Shown, Final
<1>2. Inductive /\ Inductive' /\ [Next]_vars => [Delivery!Next]_(Delivery!vars)
  <2> SUFFICES ASSUME Inductive, Inductive', [Next]_vars PROVE [Delivery!Next]_(Delivery!vars)
      OBVIOUS
  <2>1. RowMoves
      BY NextKeepsInductive
  <2>2. CASE ServerNext
      BY <2>1, <2>2, ServerLeavesTheTask, ServerDelivers
  <2>3. CASE DeviceNext
      BY <2>3, DeviceDelivers
  <2>4. CASE UNCHANGED vars
    <3>1. task' = task
        BY <2>4 DEF vars, device
    <3> QED
        BY <2>1, <3>1, ServerDelivers
  <2> QED
      BY <2>2, <2>3, <2>4 DEF Next
<1> QED
    BY <1>1, <1>2, Invariance, PTL DEF Spec, DeliverySpec, Delivery!Spec

=============================================================================
