----------------------- MODULE DurableRequestsProofs -----------------------
(***************************************************************************)
(* Proofs about DurableRequests: its inductive invariant, the invariants   *)
(* the model-checking runs state, and the refinement of ExactlyOnce, for   *)
(* any devices, intents, contents and bounds.                              *)
(*                                                                         *)
(* The proof goes in two layers.  What a device does, whatever the action, *)
(* is an instance of one relation, DeviceStep: rows move along their life, *)
(* a queue gains at most a new request, and only the oldest pending        *)
(* request is sent.  What the server executes is the other case.           *)
(***************************************************************************)
EXTENDS DurableRequests, WellFoundedInduction, TLAPS

-----------------------------------------------------------------------------
(* The inductive invariant *)

\* Request r is under way with content c, on its connection or on an abandoned one.
UnderWay(r, c) ==
  \/ [request |-> r, content |-> c] \in stray
  \/ \E n \in DOMAIN up[r[1]] : up[r[1]][n] = [intent |-> r[2], content |-> c]

\* Executing r has no effect any more: it is answered, or its message is there.
Closed(r) == results[r] # Undecided \/ (kind = "message" /\ Existing(r[2]) # {})

\* Request r is answered, if at all, about an effect that is its own (or equal
\* in content to what it asked for).
ResultIsBacked(r) ==
  /\ results[r].verdict = "none" => results[r] = Undecided
  /\ results[r].verdict = "refused" => results[r] = Refused
  /\ results[r] # Undecided => row[r].status # "none"
  /\ results[r].verdict = "accepted" =>
       LET n == results[r].entity
       IN /\ n \in DOMAIN effects
          /\ IF kind = "message" THEN effects[n].request[2] = r[2] ELSE effects[n].request = r
          /\ effects[n].content = row[r].content

ResultsAreBacked == \A r \in Requests : ResultIsBacked(r)

\* An effect and the answer of its request are stored together.
EffectsAreRecorded ==
  \A n \in DOMAIN effects : results[effects[n].request] = Accepted(n)

\* What a row says is decided.
RowIsDecided(r) ==
  /\ row[r].status # "none" => row[r].content \in Contents
  /\ row[r].status = "failed" => results[r] = Refused
  /\ row[r].status = "confirmed" => Closed(r)

RowsAreDecided == \A r \in Requests : RowIsDecided(r)

\* What is under way was asked for, with that content.
RequestsAreOwn ==
  \A r \in Requests, c \in Contents : UnderWay(r, c) =>
    row[r].status # "none" /\ row[r].content = c

\* An answer under way is the stored one, or says that nothing was stored.
AnswerIsTrue(d, m) ==
  /\ row[<<d, m.intent>>].status # "none"
  /\ m.result = Busy \/ (m.result = results[<<d, m.intent>>] /\ m.result # Undecided)

AnswersAreTrue == \A d \in Devices, m \in Answer :
  (\E n \in DOMAIN down[d] : down[d][n] = m) => AnswerIsTrue(d, m)

\* A queue holds each of its requests once.
QueueIsOwn(d) ==
  /\ \A n \in DOMAIN queue[d] : row[<<d, queue[d][n]>>].status # "none"
  /\ \A m, n \in DOMAIN queue[d] : m # n => queue[d][m] # queue[d][n]

QueuesAreOwn == \A d \in Devices : QueueIsOwn(d)

\* Nothing is sent before everything asked for earlier is closed.
Sent(r) == results[r] # Undecided \/ \E c \in Contents : UnderWay(r, c)

EarlierIsClosed ==
  \A d \in Devices : \A m, n \in DOMAIN queue[d] :
    m < n /\ Sent(<<d, queue[d][n]>>) => Closed(<<d, queue[d][m]>>)

Inductive ==
  /\ TypeOK
  /\ ResultsAreBacked
  /\ EffectsAreRecorded
  /\ AtMostOneEffect
  /\ ConfirmedTookEffect
  /\ RowsAreDecided
  /\ RequestsAreOwn
  /\ AnswersAreTrue
  /\ QueuesAreOwn
  /\ EarlierIsClosed
  /\ EffectsKeepOrder

-----------------------------------------------------------------------------
(* Natural numbers *)

\* Every nonempty set of naturals has a least element.
LEMMA LeastOf ==
  ASSUME NEW T, T \subseteq Nat, T # {}
  PROVE  \E x \in T : \A y \in T : x <= y
<1> DEFINE R == OpToRel(<, Nat)
<1>1. IsWellFoundedOn(R, Nat) BY NatLessThanWellFounded
<1>2. PICK x \in T : \A y \in T : <<y, x>> \notin R
  <2> HIDE DEF R
  <2> QED BY <1>1, WFMin
<1>3. \A y \in T : ~(y < x) BY <1>2 DEF OpToRel
<1> QED BY <1>3

-----------------------------------------------------------------------------
(* What a device does *)

\* Row r moves along its life: it is asked for, or stays what was asked for and
\* says only what is decided.
RowMoves(r) ==
  \/ row'[r] = row[r]
  \/ /\ row[r].status = "none"
     /\ row'[r].status = "pending"
     /\ row'[r].content \in Contents
  \/ /\ row[r].status # "none" /\ row'[r].status # "none"
     /\ row'[r].content = row[r].content
     /\ row[r].status = "confirmed" => row'[r].status = "confirmed"
     /\ row'[r].status = "failed" => results[r] = Refused
     /\ row'[r].status = "confirmed" =>
          /\ row'[r].entity \in DOMAIN effects
          /\ Closed(r)
          /\ LET e == effects[row'[r].entity]
             IN /\ IF kind = "message" THEN e.request[2] = r[2] ELSE e.request = r
                /\ e.content = row[r].content \/ r[2] \in wiped

\* One row moves at a time.
OneRowMoves == \A q, r \in Requests : row'[q] # row[q] /\ row'[r] # row[r] => q = r

\* The queue of d is as it was, or has a new request at its end.
QueueGrows(d) ==
  \/ queue'[d] = queue[d]
  \/ \E i \in Intents :
       /\ queue'[d] = Append(queue[d], i)
       /\ row[<<d, i>>].status = "none"
       /\ row'[<<d, i>>].status # "none"

\* Request r with content c is the oldest pending one of queue q.
Oldest(d, q, rows, r, c) ==
  \E n \in DOMAIN q :
    /\ r = <<d, q[n]>>
    /\ rows[r].status = "pending"
    /\ c = rows[r].content
    /\ \A m \in DOMAIN q : m < n => rows[<<d, q[m]>>].status # "pending"

\* What is under way was under way, or is the oldest pending request of its device.
SendsOldest ==
  \A r \in Requests, c \in Contents : UnderWay(r, c)' =>
    UnderWay(r, c) \/ Oldest(r[1], queue'[r[1]], row', r, c)

\* No answer is under way that was not, but that of a transaction rolled back.
AnswersRemain ==
  \A d \in Devices : \A n \in DOMAIN down'[d] :
    \/ \E k \in DOMAIN down[d] : down'[d][n] = down[d][k]
    \/ down'[d][n].result = Busy /\ row[<<d, down'[d][n].intent>>].status # "none"

\* A step that decides nothing.
DeviceStep ==
  /\ TypeOK'
  /\ UNCHANGED <<kind, results, effects>>
  /\ wiped \subseteq wiped'
  /\ OneRowMoves
  /\ \A r \in Requests : RowMoves(r)
  /\ \A d \in Devices : QueueGrows(d)
  /\ SendsOldest
  /\ AnswersRemain

LEMMA KindIsKnown ==
  ASSUME TypeOK
  PROVE  kind \in {"message", "control"}
BY ParametersAssumption DEF TypeOK

\* What is closed stays closed.
LEMMA ClosedStays ==
  ASSUME UNCHANGED <<kind, results, effects>>, NEW r
  PROVE  Closed(r)' <=> Closed(r)
BY DEF Closed, Existing

LEMMA EffectsHaveRequests ==
  ASSUME TypeOK
  PROVE  /\ Len(effects) \in Nat /\ DOMAIN effects = 1..Len(effects)
         /\ \A n \in DOMAIN effects : effects[n].request \in Requests
<1> DEFINE E == [request : Requests, content : Contents]
<1>1. effects \in Seq(E) BY DEF TypeOK
<1>2. \A e \in E : e.request \in Requests OBVIOUS
<1> HIDE DEF E
<1>3. Len(effects) \in Nat /\ DOMAIN effects = 1..Len(effects)
      /\ \A n \in DOMAIN effects : effects[n] \in E
  BY <1>1
<1> QED BY <1>2, <1>3

LEMMA DeviceStepPreserves ==
  ASSUME Inductive, DeviceStep
  PROVE  Inductive'
<1> USE DEF Inductive, DeviceStep
<1>0. /\ kind' = kind /\ results' = results /\ effects' = effects
      /\ \A r : Closed(r)' <=> Closed(r)
  BY ClosedStays
<1>r. ASSUME NEW r \in Requests
      PROVE  /\ row[r].status # "none" => row'[r].status # "none" /\ row'[r].content = row[r].content
             /\ row'[r] # row[r] /\ row[r].status = "none" => row'[r].status = "pending"
  BY DEF RowMoves
<1>p. \A d \in Devices, i \in Intents : <<d, i>> \in Requests BY DEF Requests
<1>1. ResultsAreBacked'
  <2> SUFFICES ASSUME NEW r \in Requests PROVE ResultIsBacked(r)'
    BY DEF ResultsAreBacked
  <2>1. ResultIsBacked(r) BY DEF ResultsAreBacked
  <2>2. results[r].verdict = "accepted" => results[r] # Undecided BY DEF Undecided
  <2> QED BY <2>1, <2>2, <1>0, <1>r DEF ResultIsBacked
<1>2. EffectsAreRecorded' BY <1>0 DEF EffectsAreRecorded
<1>3. AtMostOneEffect' BY <1>0 DEF AtMostOneEffect
<1>4. ConfirmedTookEffect'
  <2> SUFFICES ASSUME NEW r \in Requests, row'[r].status = "confirmed"
               PROVE  /\ row'[r].entity \in DOMAIN effects
                      /\ LET e == effects[row'[r].entity]
                         IN /\ IF kind = "message" THEN e.request[2] = r[2] ELSE e.request = r
                            /\ e.content = row'[r].content \/ r[2] \in wiped'
    BY <1>0 DEF ConfirmedTookEffect
  <2>1. RowMoves(r) OBVIOUS
  <2>2. CASE row'[r] = row[r] BY <2>2 DEF ConfirmedTookEffect
  <2>3. CASE row'[r] # row[r] BY <2>1, <2>3 DEF RowMoves
  <2> QED BY <2>2, <2>3
<1>5. RowsAreDecided'
  <2> SUFFICES ASSUME NEW r \in Requests PROVE RowIsDecided(r)'
    BY DEF RowsAreDecided
  <2>1. RowMoves(r) /\ RowIsDecided(r) BY DEF RowsAreDecided
  <2> QED BY <2>1, <1>0 DEF RowMoves, RowIsDecided
<1>6. RequestsAreOwn'
  <2> SUFFICES ASSUME NEW r \in Requests, NEW c \in Contents, UnderWay(r, c)'
               PROVE  row'[r].status # "none" /\ row'[r].content = c
    BY DEF RequestsAreOwn
  <2>1. CASE UnderWay(r, c) BY <2>1, <1>r DEF RequestsAreOwn
  <2>2. CASE Oldest(r[1], queue'[r[1]], row', r, c) BY <2>2 DEF Oldest
  <2> QED BY <2>1, <2>2 DEF SendsOldest
<1>7. AnswersAreTrue'
  <2> SUFFICES ASSUME NEW d \in Devices, NEW m \in Answer,
                      NEW n \in DOMAIN down'[d], down'[d][n] = m
               PROVE  AnswerIsTrue(d, m)'
    BY DEF AnswersAreTrue
  <2>1. <<d, m.intent>> \in Requests BY <1>p DEF Answer
  <2>2. CASE \E k \in DOMAIN down[d] : down'[d][n] = down[d][k]
    <3>1. AnswerIsTrue(d, m) BY <2>2 DEF AnswersAreTrue
    <3> QED BY <3>1, <2>1, <1>0, <1>r DEF AnswerIsTrue
  <2>3. CASE m.result = Busy /\ row[<<d, m.intent>>].status # "none"
    BY <2>1, <2>3, <1>r DEF AnswerIsTrue, Busy
  <2> QED BY <2>2, <2>3 DEF AnswersRemain
<1>8. QueuesAreOwn'
  <2> SUFFICES ASSUME NEW d \in Devices PROVE QueueIsOwn(d)'
    BY DEF QueuesAreOwn
  <2>1. QueueIsOwn(d) /\ QueueGrows(d) /\ queue[d] \in Seq(Intents) BY DEF QueuesAreOwn, TypeOK
  <2>2. \A n \in DOMAIN queue[d] : <<d, queue[d][n]>> \in Requests BY <2>1, <1>p
  <2>3. CASE queue'[d] = queue[d] BY <2>1, <2>2, <2>3, <1>r DEF QueueIsOwn
  <2>4. ASSUME NEW i \in Intents, queue'[d] = Append(queue[d], i),
               row[<<d, i>>].status = "none", row'[<<d, i>>].status # "none"
        PROVE  QueueIsOwn(d)'
    <3>1. /\ Len(queue[d]) \in Nat /\ DOMAIN queue[d] = 1..Len(queue[d])
          /\ DOMAIN queue'[d] = 1..(Len(queue[d]) + 1)
          /\ \A n \in 1..Len(queue[d]) : queue'[d][n] = queue[d][n]
          /\ queue'[d][Len(queue[d]) + 1] = i
      BY <2>1, <2>4
    <3>2. \A n \in 1..Len(queue[d]) :
            /\ row[<<d, queue[d][n]>>].status # "none"
            /\ row'[<<d, queue[d][n]>>].status # "none"
            /\ queue[d][n] # i
      BY <2>1, <2>2, <2>4, <3>1, <1>r, ZenonT(30) DEF QueueIsOwn
    <3>3. \A n \in DOMAIN queue'[d] : row'[<<d, queue'[d][n]>>].status # "none"
      BY <3>1, <3>2, <2>4
    <3>5. \A k, l \in 1..Len(queue[d]) : k # l => queue[d][k] # queue[d][l]
      BY <2>1, <3>1 DEF QueueIsOwn
    <3>4. ASSUME NEW m \in DOMAIN queue'[d], NEW n \in DOMAIN queue'[d], m # n
          PROVE  queue'[d][m] # queue'[d][n]
      <4>1. CASE m \in 1..Len(queue[d]) /\ n \in 1..Len(queue[d])
        BY <4>1, <3>1, <3>4, <3>5
      <4>2. CASE m = Len(queue[d]) + 1 \/ n = Len(queue[d]) + 1
        <5>1. \A k \in 1..Len(queue[d]) : queue'[d][k] # i BY <3>1, <3>2
        <5> QED BY <4>2, <3>1, <3>4, <5>1
      <4> QED BY <4>1, <4>2, <3>1
    <3> QED BY <3>3, <3>4 DEF QueueIsOwn
  <2> QED BY <2>1, <2>3, <2>4 DEF QueueGrows
<1>9. EarlierIsClosed'
  <2> SUFFICES ASSUME NEW d \in Devices, NEW m \in DOMAIN queue'[d], NEW n \in DOMAIN queue'[d],
                      m < n, Sent(<<d, queue[d][n]>>)'
               PROVE  Closed(<<d, queue[d][m]>>)'
    BY DEF EarlierIsClosed
  <2>0. queue'[d] \in Seq(Intents) /\ queue[d] \in Seq(Intents)
    BY DEF TypeOK
  <2>i. queue'[d][n] \in Intents /\ queue'[d][m] \in Intents BY <2>0
  <2>r. PICK r \in Requests : r = <<d, queue'[d][n]>> BY <2>i, <1>p
  <2>e. PICK earlier \in Requests : earlier = <<d, queue'[d][m]>> BY <2>i, <1>p
  <2>1. r[1] = d /\ Sent(r)' BY <2>r
  <2> SUFFICES Closed(earlier)' BY <2>e
  <2>2. Sent(r)
        \/ \E c \in Contents : Oldest(d, queue'[d], row', r, c)
    BY <2>1, <1>0 DEF Sent, SendsOldest
  <2>3. CASE Sent(r)
    <3>1. row[r].status # "none"
      BY <2>1, <2>3 DEF Sent, RequestsAreOwn, ResultsAreBacked, ResultIsBacked
    <3>2. n \in DOMAIN queue[d] /\ m \in DOMAIN queue[d]
          /\ queue'[d][n] = queue[d][n] /\ queue'[d][m] = queue[d][m]
      <4>1. CASE queue'[d] = queue[d] BY <4>1
      <4>2. ASSUME NEW i \in Intents, queue'[d] = Append(queue[d], i),
                   row[<<d, i>>].status = "none"
            PROVE  n \in DOMAIN queue[d] /\ m \in DOMAIN queue[d]
                   /\ queue'[d][n] = queue[d][n] /\ queue'[d][m] = queue[d][m]
        <5>1. /\ Len(queue[d]) \in Nat /\ DOMAIN queue[d] = 1..Len(queue[d])
              /\ DOMAIN queue'[d] = 1..(Len(queue[d]) + 1)
              /\ \A k \in 1..Len(queue[d]) : queue'[d][k] = queue[d][k]
              /\ queue'[d][Len(queue[d]) + 1] = i
          BY <2>0, <4>2
        <5>2. n # Len(queue[d]) + 1 BY <5>1, <4>2, <3>1, <2>r
        <5> QED BY <5>1, <5>2
      <4>3. QueueGrows(d) OBVIOUS
      <4> QED BY <4>1, <4>2, <4>3 DEF QueueGrows
    <3>3. Closed(earlier) BY <3>2, <2>3, <2>r, <2>e DEF EarlierIsClosed
    <3> QED BY <3>3, <1>0
  <2>4. ASSUME NEW c \in Contents, Oldest(d, queue'[d], row', r, c) PROVE Closed(earlier)'
    <3>1. PICK k \in DOMAIN queue'[d] :
            /\ r = <<d, queue'[d][k]>>
            /\ \A j \in DOMAIN queue'[d] : j < k => row'[<<d, queue'[d][j]>>].status # "pending"
      BY <2>4 DEF Oldest
    <3>2. k = n BY <3>1, <2>r, <1>8 DEF QueuesAreOwn, QueueIsOwn
    <3>3. row'[earlier].status \notin {"pending", "none"}
      BY <3>1, <3>2, <2>e, <2>0, <1>8 DEF QueuesAreOwn, QueueIsOwn
    <3>4. row'[earlier].status \in {"confirmed", "failed"}
      BY <3>3 DEF TypeOK, Row
    <3>5. RowIsDecided(earlier)' BY <1>5 DEF RowsAreDecided
    <3> QED BY <3>4, <3>5, <1>0 DEF RowIsDecided, Closed, Refused, Undecided
  <2> QED BY <2>2, <2>3, <2>4
<1>10. EffectsKeepOrder'
  <2> SUFFICES ASSUME NEW d \in Devices, NEW m \in DOMAIN queue'[d], NEW n \in DOMAIN queue'[d],
                      m < n,
                      NEW x \in EffectsOf(<<d, queue'[d][m]>>), NEW y \in EffectsOf(<<d, queue'[d][n]>>)
               PROVE  x < y
    BY <1>0 DEF EffectsKeepOrder, EffectsOf
  <2>1. /\ queue'[d] \in Seq(Intents) /\ queue[d] \in Seq(Intents) /\ QueueGrows(d)
    BY DEF TypeOK
  <2>2. \A i \in Intents : row[<<d, i>>].status = "none" => EffectsOf(<<d, i>>) = {}
    <3> SUFFICES ASSUME NEW i \in Intents, NEW z \in EffectsOf(<<d, i>>)
                 PROVE  row[<<d, i>>].status # "none"
      OBVIOUS
    <3>1. results[<<d, i>>] = Accepted(z) BY DEF EffectsOf, EffectsAreRecorded
    <3> QED BY <3>1, <1>p DEF Accepted, Undecided, ResultsAreBacked, ResultIsBacked
  <2>3. CASE queue'[d] = queue[d] BY <2>3 DEF EffectsKeepOrder
  <2>4. ASSUME NEW i \in Intents, queue'[d] = Append(queue[d], i), row[<<d, i>>].status = "none"
        PROVE  x < y
    <3>1. /\ Len(queue[d]) \in Nat /\ DOMAIN queue[d] = 1..Len(queue[d])
          /\ DOMAIN queue'[d] = 1..(Len(queue[d]) + 1)
          /\ \A k \in 1..Len(queue[d]) : queue'[d][k] = queue[d][k]
          /\ queue'[d][Len(queue[d]) + 1] = i
      BY <2>1, <2>4
    <3>2. n # Len(queue[d]) + 1 BY <3>1, <2>2, <2>4
    <3>3. n \in DOMAIN queue[d] /\ m \in DOMAIN queue[d]
          /\ queue'[d][n] = queue[d][n] /\ queue'[d][m] = queue[d][m]
      BY <3>1, <3>2, SMTT(30)
    <3> QED BY <3>3 DEF EffectsKeepOrder
  <2> QED BY <2>1, <2>3, <2>4 DEF QueueGrows
<1> QED BY <1>1, <1>2, <1>3, <1>4, <1>5, <1>6, <1>7, <1>8, <1>9, <1>10

-----------------------------------------------------------------------------
(* What the server decides *)

\* Request r stays answered, is refused, takes effect, or is taken for the effect
\* of an equal request.
Decides(r, c) ==
  \/ results[r] # Undecided /\ UNCHANGED <<results, effects>>
  \/ /\ results[r] = Undecided
     /\ \/ results' = [results EXCEPT ![r] = Refused] /\ UNCHANGED effects
        \/ /\ Existing(r[2]) = {}
           /\ results' = [results EXCEPT ![r] = Accepted(Len(effects) + 1)]
           /\ effects' = Append(effects, [request |-> r, content |-> c])
        \/ \E n \in Existing(r[2]) :
             /\ effects[n].content = c
             /\ results' = [results EXCEPT ![r] = Accepted(n)]
             /\ UNCHANGED effects

\* Executing a request decides it, and its answer is what is stored.
LEMMA ExecuteDecides ==
  ASSUME TypeOK, NEW r \in Requests, NEW c \in Contents, Execute(r, c)
  PROVE  Decides(r, c) /\ AnswerTo(r, c) = results'[r] /\ results'[r] # Undecided
<1>0. Len(effects) \in Nat /\ DOMAIN effects = 1..Len(effects) BY DEF TypeOK
<1>r. r \in DOMAIN results BY DEF TypeOK
<1>1. CASE results[r] # Undecided
  BY <1>1 DEF Execute, AnswerTo, Decides
<1>2. CASE results[r] = Undecided
  <2> DEFINE v == Verdict(r[2], c)
  <2>1. /\ results' = [results EXCEPT ![r] = v]
        /\ effects' = IF v = Accepted(Len(effects) + 1)
                      THEN Append(effects, [request |-> r, content |-> c]) ELSE effects
        /\ AnswerTo(r, c) = v
    BY <1>2 DEF Execute, AnswerTo, Retained
  <2>2. results'[r] = v BY <2>1, <1>r
  <2>3. CASE v = Refused
    BY <2>1, <2>2, <2>3, <1>2 DEF Refused, Accepted, Decides, Undecided
  <2>4. CASE Existing(r[2]) = {} /\ v = Accepted(Len(effects) + 1)
    BY <2>1, <2>2, <2>4, <1>2 DEF Accepted, Decides, Undecided
  <2>5. ASSUME NEW n \in Existing(r[2]), effects[n].content = c, v = Accepted(n)
        PROVE  Decides(r, c) /\ AnswerTo(r, c) = results'[r] /\ results'[r] # Undecided
    <3>1. n # Len(effects) + 1 BY <1>0 DEF Existing
    <3>2. v # Accepted(Len(effects) + 1) BY <3>1, <2>5 DEF Accepted
    <3>3. v # Undecided BY <2>5 DEF Accepted, Undecided
    <3>4. results' = [results EXCEPT ![r] = Accepted(n)] /\ UNCHANGED effects
      BY <2>1, <2>5, <3>2
    <3> QED BY <2>1, <2>2, <2>5, <3>3, <3>4, <1>2 DEF Decides
  <2>6. \/ v = Refused
        \/ Existing(r[2]) = {} /\ v = Accepted(Len(effects) + 1)
        \/ \E n \in Existing(r[2]) : effects[n].content = c /\ v = Accepted(n)
    BY DEF Verdict
  <2> HIDE DEF v
  <2> QED BY <2>3, <2>4, <2>5, <2>6
<1> QED BY <1>1, <1>2

LEMMA DecidesIsTyped ==
  ASSUME TypeOK, NEW r \in Requests, NEW c \in Contents, Decides(r, c)
  PROVE  /\ results' \in [Requests -> Result]
         /\ effects' \in Seq([request : Requests, content : Contents])
<1>0. /\ results \in [Requests -> Result] /\ effects \in Seq([request : Requests, content : Contents])
      /\ Len(effects) \in Nat /\ DOMAIN effects = 1..Len(effects)
  BY DEF TypeOK
<1>1. Refused \in Result /\ \A n \in Nat : Accepted(n) \in Result
  BY DEF Refused, Accepted, Result
<1>2. Existing(r[2]) \subseteq Nat BY <1>0 DEF Existing
<1>3. results' \in [Requests -> Result] BY <1>0, <1>1, <1>2 DEF Decides
<1>4. effects' \in Seq([request : Requests, content : Contents])
  <2>1. CASE effects' = effects BY <2>1, <1>0
  <2>2. CASE effects' = Append(effects, [request |-> r, content |-> c])
    <3>1. [request |-> r, content |-> c] \in [request : Requests, content : Contents] OBVIOUS
    <3> QED BY <2>2, <3>1, <1>0
  <2> QED BY <2>1, <2>2 DEF Decides
<1> QED BY <1>3, <1>4

\* The server executes request r with content c.
ServerStep(r, c) ==
  /\ TypeOK'
  /\ UNCHANGED <<kind, queue, row, wiped>>
  /\ UnderWay(r, c)
  /\ Decides(r, c)
  /\ results'[r] # Undecided
  /\ \A q \in Requests, k \in Contents : UnderWay(q, k)' => UnderWay(q, k)
  /\ \A d \in Devices : \A n \in DOMAIN down'[d] :
       \/ \E k \in DOMAIN down[d] : down'[d][n] = down[d][k]
       \/ d = r[1] /\ down'[d][n].intent = r[2] /\ down'[d][n].result = results'[r]

LEMMA ServerStepPreserves ==
  ASSUME Inductive, NEW r \in Requests, NEW c \in Contents, ServerStep(r, c)
  PROVE  Inductive'
<1> USE DEF Inductive, ServerStep
<1>0. /\ kind' = kind /\ queue' = queue /\ row' = row /\ wiped' = wiped
      /\ kind \in {"message", "control"}
  BY KindIsKnown
<1>r. row[r].status # "none" /\ row[r].content = c BY DEF RequestsAreOwn
<1>p. \A d \in Devices, i \in Intents : <<d, i>> \in Requests BY DEF Requests
<1>e. Len(effects) \in Nat /\ DOMAIN effects = 1..Len(effects)
      /\ \A n \in DOMAIN effects : effects[n].request \in Requests
  BY EffectsHaveRequests
\* What has been decided stays decided.
<1>s. /\ \A q \in Requests : results[q] # Undecided => results'[q] = results[q]
      /\ \A q \in Requests : q # r => results'[q] = results[q]
      /\ \A q \in Requests : results'[q] # Undecided => q = r \/ results[q] # Undecided
  BY DEF Decides, TypeOK
<1>g. /\ DOMAIN effects \subseteq DOMAIN effects'
      /\ \A n \in DOMAIN effects : effects'[n] = effects[n]
      /\ \A n \in DOMAIN effects' : n \notin DOMAIN effects =>
           /\ n = Len(effects) + 1
           /\ effects'[n].request = r /\ effects'[n].content = c
           /\ results[r] = Undecided /\ results'[r] = Accepted(n) /\ Existing(r[2]) = {}
  <2>1. CASE effects' = effects BY <2>1
  <2>2. CASE /\ effects' = Append(effects, [request |-> r, content |-> c])
             /\ results[r] = Undecided
             /\ results' = [results EXCEPT ![r] = Accepted(Len(effects) + 1)]
             /\ Existing(r[2]) = {}
    <3>1. /\ DOMAIN effects' = 1..(Len(effects) + 1)
          /\ \A n \in 1..Len(effects) : effects'[n] = effects[n]
          /\ effects'[Len(effects) + 1] = [request |-> r, content |-> c]
      BY <2>2, <1>e
    <3>2. results'[r] = Accepted(Len(effects) + 1) BY <2>2 DEF TypeOK
    <3> QED BY <2>2, <3>1, <3>2, <1>e
  <2> QED BY <2>1, <2>2 DEF Decides
<1>c. \A q \in Requests : Closed(q) => Closed(q)'
  BY <1>0, <1>s, <1>g DEF Closed, Existing
<1>1. ResultsAreBacked'
  <2> SUFFICES ASSUME NEW q \in Requests PROVE ResultIsBacked(q)'
    BY DEF ResultsAreBacked
  <2>1. ResultIsBacked(q) BY DEF ResultsAreBacked
  <2>2. CASE results'[q] = results[q]
    BY <2>1, <2>2, <1>0, <1>g, <1>e DEF ResultIsBacked
  <2>3. CASE results'[q] # results[q]
    <3>1. q = r /\ results[r] = Undecided BY <2>3, <1>s
    <3>2. CASE results'[r] = Refused
      BY <3>1, <3>2, <1>r, <1>0 DEF ResultIsBacked, Refused
    <3>3. ASSUME NEW n, results'[r] = Accepted(n), n \in DOMAIN effects',
                 effects'[n].content = c,
                 IF kind = "message" THEN effects'[n].request[2] = r[2] ELSE effects'[n].request = r
          PROVE  ResultIsBacked(q)'
      BY <3>1, <3>3, <1>r, <1>0 DEF ResultIsBacked, Accepted, Undecided
    <3>4. CASE effects' = Append(effects, [request |-> r, content |-> c])
               /\ results' = [results EXCEPT ![r] = Accepted(Len(effects) + 1)]
      <4>1. results'[r] = Accepted(Len(effects) + 1) BY <3>4 DEF TypeOK
      <4>2. Len(effects) + 1 \in DOMAIN effects'
            /\ effects'[Len(effects) + 1] = [request |-> r, content |-> c]
        BY <3>4, <1>e
      <4> QED BY <3>3, <4>1, <4>2
    <3>5. ASSUME NEW n \in Existing(r[2]), effects[n].content = c,
                 results' = [results EXCEPT ![r] = Accepted(n)]
          PROVE  ResultIsBacked(q)'
      <4>1. results'[r] = Accepted(n) BY <3>5 DEF TypeOK
      <4>2. n \in DOMAIN effects /\ kind = "message" /\ effects[n].request[2] = r[2]
        BY <3>5 DEF Existing
      <4> QED BY <3>3, <3>5, <4>1, <4>2, <1>g
    <3>6. CASE results' = [results EXCEPT ![r] = Refused]
      <4>1. results'[r] = Refused BY <3>6 DEF TypeOK
      <4> QED BY <3>2, <4>1
    <3> QED BY <3>1, <3>4, <3>5, <3>6 DEF Decides
  <2> QED BY <2>2, <2>3
<1>2. EffectsAreRecorded'
  <2> SUFFICES ASSUME NEW n \in DOMAIN effects' PROVE results'[effects'[n].request] = Accepted(n)
    BY DEF EffectsAreRecorded
  <2>1. CASE n \in DOMAIN effects
    <3>1. results[effects[n].request] = Accepted(n) BY <2>1 DEF EffectsAreRecorded
    <3> QED BY <2>1, <3>1, <1>s, <1>g, <1>e DEF Accepted, Undecided
  <2>2. CASE n \notin DOMAIN effects BY <2>2, <1>g
  <2> QED BY <2>1, <2>2
<1>3. AtMostOneEffect'
  <2> SUFFICES ASSUME NEW m \in DOMAIN effects', NEW n \in DOMAIN effects', m # n
               PROVE  /\ effects'[m].request # effects'[n].request
                      /\ kind = "message" => effects'[m].request[2] # effects'[n].request[2]
    BY <1>0 DEF AtMostOneEffect
  <2>1. effects'[m].request # effects'[n].request
    <3>1. results'[effects'[m].request] = Accepted(m) /\ results'[effects'[n].request] = Accepted(n)
      BY <1>2 DEF EffectsAreRecorded
    <3>2. Accepted(m) # Accepted(n) BY DEF Accepted
    <3> QED BY <3>1, <3>2
  <2>2. \A k \in DOMAIN effects : kind = "message" /\ Existing(r[2]) = {} => effects[k].request[2] # r[2]
    BY DEF Existing
  <2>3. CASE m \in DOMAIN effects /\ n \in DOMAIN effects
    BY <2>1, <2>3, <1>g DEF AtMostOneEffect
  <2>4. CASE m \in DOMAIN effects /\ n \notin DOMAIN effects
    BY <2>1, <2>2, <2>4, <1>g
  <2>5. CASE m \notin DOMAIN effects /\ n \in DOMAIN effects
    BY <2>1, <2>2, <2>5, <1>g
  <2>6. CASE m \notin DOMAIN effects /\ n \notin DOMAIN effects
    BY <2>6, <1>g
  <2> QED BY <2>3, <2>4, <2>5, <2>6
<1>4. ConfirmedTookEffect'
  BY <1>0, <1>g DEF ConfirmedTookEffect
<1>5. RowsAreDecided'
  <2> SUFFICES ASSUME NEW q \in Requests PROVE RowIsDecided(q)'
    BY DEF RowsAreDecided
  <2>1. RowIsDecided(q) BY DEF RowsAreDecided
  <2> QED BY <2>1, <1>0, <1>s, <1>c DEF RowIsDecided, Refused, Undecided
<1>6. RequestsAreOwn' BY <1>0 DEF RequestsAreOwn
<1>7. AnswersAreTrue'
  <2> SUFFICES ASSUME NEW d \in Devices, NEW m \in Answer,
                      NEW n \in DOMAIN down'[d], down'[d][n] = m
               PROVE  AnswerIsTrue(d, m)'
    BY DEF AnswersAreTrue
  <2>1. <<d, m.intent>> \in Requests BY <1>p DEF Answer
  <2>2. CASE \E k \in DOMAIN down[d] : down'[d][n] = down[d][k]
    <3>1. AnswerIsTrue(d, m) BY <2>2 DEF AnswersAreTrue
    <3> QED BY <3>1, <2>1, <1>0, <1>s DEF AnswerIsTrue
  <2>3. CASE d = r[1] /\ m.intent = r[2] /\ m.result = results'[r]
    <3>1. <<d, m.intent>> = r BY <2>3 DEF Requests
    <3> QED BY <2>3, <3>1, <1>0, <1>r DEF AnswerIsTrue
  <2> QED BY <2>2, <2>3
<1>8. QueuesAreOwn' BY <1>0 DEF QueuesAreOwn, QueueIsOwn
<1>q. \A d \in Devices : \A n \in DOMAIN queue[d] : <<d, queue[d][n]>> \in Requests
  BY <1>p DEF TypeOK
<1>9. EarlierIsClosed'
  <2> SUFFICES ASSUME NEW d \in Devices, NEW m \in DOMAIN queue[d], NEW n \in DOMAIN queue[d],
                      m < n, Sent(<<d, queue[d][n]>>)'
               PROVE  Closed(<<d, queue[d][m]>>)'
    BY <1>0 DEF EarlierIsClosed
  <2>1. PICK q \in Requests : q = <<d, queue[d][n]>> BY <1>q
  <2>2. PICK earlier \in Requests : earlier = <<d, queue[d][m]>> BY <1>q
  <2>3. Sent(q)' BY <2>1, <1>0
  <2>4. Sent(q)
    <3>1. CASE results'[q] # Undecided BY <3>1, <1>s DEF Sent
    <3>2. CASE \E k \in Contents : UnderWay(q, k)' BY <3>2 DEF Sent
    <3> QED BY <2>3, <3>1, <3>2 DEF Sent
  <2>5. Closed(earlier) BY <2>1, <2>2, <2>4 DEF EarlierIsClosed
  <2>6. Closed(earlier)' BY <2>5, <1>c
  <2> QED BY <2>2, <2>6, <1>0
<1>10. EffectsKeepOrder'
  <2> SUFFICES ASSUME NEW d \in Devices, NEW m \in DOMAIN queue[d], NEW n \in DOMAIN queue[d],
                      m < n,
                      NEW x \in DOMAIN effects', effects'[x].request = <<d, queue[d][m]>>,
                      NEW y \in DOMAIN effects', effects'[y].request = <<d, queue[d][n]>>
               PROVE  x < y
    BY <1>0 DEF EffectsKeepOrder, EffectsOf
  <2>1. CASE x \in DOMAIN effects /\ y \in DOMAIN effects
    BY <2>1, <1>g DEF EffectsKeepOrder, EffectsOf
  <2>2. CASE x \in DOMAIN effects /\ y \notin DOMAIN effects
    BY <2>2, <1>g, <1>e
  <2>3. CASE x \notin DOMAIN effects
    <3>0. effects'[x].request = r /\ results[r] = Undecided /\ Existing(r[2]) = {}
      BY <2>3, <1>g
    <3>1. r = <<d, queue[d][m]>> /\ results[r] = Undecided /\ Existing(r[2]) = {}
      BY <3>0
    <3>2. ~Closed(r) BY <3>1 DEF Closed
    <3>3. y \in DOMAIN effects
      <4>1. SUFFICES ASSUME y \notin DOMAIN effects PROVE FALSE OBVIOUS
      <4>2. effects'[y].request = r BY <4>1, <1>g
      <4>3. queue[d][m] # queue[d][n]
        <5>1. m # n BY SMTT(30) DEF TypeOK
        <5> QED BY <5>1 DEF QueuesAreOwn, QueueIsOwn
      <4> QED BY <3>1, <4>2, <4>3
    <3>4. PICK q \in Requests : q = <<d, queue[d][n]>> BY <1>q
    <3>5. results[q] = Accepted(y) BY <3>3, <3>4, <1>g DEF EffectsAreRecorded
    <3>6. Sent(q) BY <3>5 DEF Sent, Accepted, Undecided
    <3> QED BY <3>1, <3>2, <3>4, <3>6 DEF EarlierIsClosed
  <2> QED BY <2>1, <2>2, <2>3
<1> QED BY <1>1, <1>2, <1>3, <1>4, <1>5, <1>6, <1>7, <1>8, <1>9, <1>10

-----------------------------------------------------------------------------
(* Every action is one or the other *)

\* The types of what travels and of the volatile state.
TransportOK ==
  /\ session' \in [Devices -> Session]
  /\ up' \in [Devices -> Seq(Request)]
  /\ down' \in [Devices -> Seq(Answer)]
  /\ stray' \in SUBSET [request : Requests, content : Contents]
  /\ badSaves' \in Nat

\* The answers of d are among those given, the others' are as they were.
AnswersAmong(d, answers) ==
  \A e \in Devices : \A n \in DOMAIN down'[e] :
    IF e = d THEN \E k \in DOMAIN answers : down'[e][n] = answers[k]
    ELSE \E k \in DOMAIN down[e] : down'[e][n] = down[e][k]

\* Leaving a connection moves what is under way, and adds nothing.
LEMMA DisconnectMoves ==
  ASSUME TypeOK, NEW d \in Devices, Disconnect(d), badSaves' \in Nat
  PROVE  /\ TransportOK
         /\ \A r \in Requests, c \in Contents : UnderWay(r, c)' => UnderWay(r, c)
         /\ \A answers : AnswersAmong(d, answers)
<1>0. /\ session \in [Devices -> Session] /\ up \in [Devices -> Seq(Request)]
      /\ down \in [Devices -> Seq(Answer)]
      /\ stray \in SUBSET [request : Requests, content : Contents]
  BY DEF TypeOK
<1>1. /\ session' = [session EXCEPT ![d] = Down]
      /\ up' = [up EXCEPT ![d] = <<>>]
      /\ down' = [down EXCEPT ![d] = <<>>]
      /\ stray' = stray \cup {[request |-> <<d, up[d][n].intent>>, content |-> up[d][n].content]
                               : n \in DOMAIN up[d]}
  BY DEF Disconnect
<1>2. \A n \in DOMAIN up[d] : up[d][n] \in Request /\ up[d][n].intent \in Intents
                               /\ up[d][n].content \in Contents
                               /\ up[d][n] = [intent |-> up[d][n].intent, content |-> up[d][n].content]
  <2>1. \A n \in DOMAIN up[d] : up[d][n] \in Request BY <1>0
  <2> QED BY <2>1 DEF Request
<1>3. TransportOK
  <2>1. Down \in Session BY DEF Down, Session
  <2>2. \A n \in DOMAIN up[d] :
          [request |-> <<d, up[d][n].intent>>, content |-> up[d][n].content]
            \in [request : Requests, content : Contents]
    BY <1>2 DEF Requests
  <2> QED BY <1>0, <1>1, <2>1, <2>2 DEF TransportOK
<1>4. ASSUME NEW r \in Requests, NEW c \in Contents, UnderWay(r, c)'
      PROVE  UnderWay(r, c)
  <2>1. r[1] \in Devices /\ r = <<r[1], r[2]>> BY DEF Requests
  <2>2. CASE [request |-> r, content |-> c] \in stray BY <2>2 DEF UnderWay
  <2>3. ASSUME NEW n \in DOMAIN up[d],
               [request |-> r, content |-> c]
                 = [request |-> <<d, up[d][n].intent>>, content |-> up[d][n].content]
        PROVE  UnderWay(r, c)
    <3>1. r = <<d, up[d][n].intent>> /\ c = up[d][n].content BY <2>3
    <3>2. r[1] = d /\ up[d][n] = [intent |-> r[2], content |-> c] BY <3>1, <1>2
    <3> QED BY <3>2 DEF UnderWay
  <2>4. CASE \E n \in DOMAIN up'[r[1]] : up'[r[1]][n] = [intent |-> r[2], content |-> c]
    BY <2>1, <2>4, <1>0, <1>1 DEF UnderWay
  <2>5. [request |-> r, content |-> c] \in stray'
        \/ \E n \in DOMAIN up'[r[1]] : up'[r[1]][n] = [intent |-> r[2], content |-> c]
    BY <1>4 DEF UnderWay
  <2> QED BY <2>2, <2>3, <2>4, <2>5, <1>1
<1>5. ASSUME NEW answers PROVE AnswersAmong(d, answers)
  BY <1>0, <1>1 DEF AnswersAmong
<1> QED BY <1>3, <1>4, <1>5

\* pump() sends the oldest pending request or nothing.
LEMMA PumpSendsOldest ==
  ASSUME TypeOK, NEW d \in Devices, NEW s \in Session, NEW q \in Seq(Intents),
         NEW rows \in [Requests -> Row], NEW resend \in BOOLEAN, NEW answers \in Seq(Answer),
         \A r \in Requests : rows[r].status = "pending" => rows[r].content \in Contents,
         Pump(d, s, q, rows, resend, answers)
  PROVE  /\ TransportOK
         /\ \A r \in Requests, c \in Contents : UnderWay(r, c)' =>
              UnderWay(r, c) \/ (r[1] = d /\ Oldest(d, q, rows, r, c))
         /\ AnswersAmong(d, answers)
<1> DEFINE i == NextPending(d, q, rows)
<1>0. /\ session \in [Devices -> Session] /\ up \in [Devices -> Seq(Request)]
      /\ down \in [Devices -> Seq(Answer)] /\ badSaves \in Nat
      /\ stray \in SUBSET [request : Requests, content : Contents]
  BY DEF TypeOK
<1>a. ASSUME down' = [down EXCEPT ![d] = answers] PROVE AnswersAmong(d, answers)
  BY <1>0, <1>a DEF AnswersAmong
<1>u. ASSUME UNCHANGED <<up, stray>>, NEW r, NEW c, UnderWay(r, c)' PROVE UnderWay(r, c)
  BY <1>u DEF UnderWay
<1>1. CASE /\ Sends(s, i, resend)
           /\ session' = [session EXCEPT ![d] = [s EXCEPT !.active = i]]
           /\ up' = [up EXCEPT ![d] = Append(@, [intent |-> i, content |-> rows[<<d, i>>].content])]
           /\ down' = [down EXCEPT ![d] = answers]
           /\ UNCHANGED <<stray, badSaves>>
  <2>1. i # None BY <1>1 DEF Sends
  <2>2. PICK n \in Pending(d, q, rows) : i = q[n] /\ \A m \in Pending(d, q, rows) : n <= m
    <3>1. Pending(d, q, rows) # {} /\ i = q[CHOOSE n \in Pending(d, q, rows) :
                                              \A m \in Pending(d, q, rows) : n <= m]
      BY <2>1 DEF NextPending
    <3>2. Pending(d, q, rows) \subseteq Nat BY DEF Pending
    <3>3. \E n \in Pending(d, q, rows) : \A m \in Pending(d, q, rows) : n <= m
      BY <3>1, <3>2, LeastOf
    <3> QED BY <3>1, <3>3
  <2>3. /\ n \in DOMAIN q /\ i \in Intents /\ <<d, i>> \in Requests
        /\ rows[<<d, i>>].status = "pending" /\ rows[<<d, i>>].content \in Contents
    BY <2>2 DEF Pending, Requests
  <2>4. \A m \in DOMAIN q : m < n => rows[<<d, q[m]>>].status # "pending"
    <3> SUFFICES ASSUME NEW m \in DOMAIN q, m < n, rows[<<d, q[m]>>].status = "pending"
                 PROVE  FALSE
      OBVIOUS
    <3>1. m \in Pending(d, q, rows) BY DEF Pending
    <3>2. n <= m BY <3>1, <2>2
    <3> QED BY <3>2, <2>3
  <2> HIDE DEF i
  <2> DEFINE m == [intent |-> i, content |-> rows[<<d, i>>].content]
  <2>5. m \in Request BY <2>3 DEF Request
  <2>6. [s EXCEPT !.active = i] \in Session BY <2>3 DEF Session
  <2>7. /\ up'[d] = Append(up[d], m) /\ up[d] \in Seq(Request)
        /\ \A e \in Devices : e # d => up'[e] = up[e]
        /\ stray' = stray
    BY <1>0, <1>1
  <2>8. TransportOK BY <1>0, <1>1, <2>5, <2>6 DEF TransportOK
  <2>9. ASSUME NEW r \in Requests, NEW c \in Contents, UnderWay(r, c)', ~UnderWay(r, c)
        PROVE  r[1] = d /\ Oldest(d, q, rows, r, c)
    <3>1. r[1] \in Devices /\ r = <<r[1], r[2]>> BY DEF Requests
    <3>2. PICK k \in DOMAIN up'[r[1]] : up'[r[1]][k] = [intent |-> r[2], content |-> c]
      BY <2>7, <2>9 DEF UnderWay
    <3>3. r[1] = d BY <2>7, <2>9, <3>1, <3>2 DEF UnderWay
    <3>4. up'[d][k] = m
      <4>1. /\ DOMAIN up'[d] = 1..(Len(up[d]) + 1) /\ DOMAIN up[d] = 1..Len(up[d])
            /\ Len(up[d]) \in Nat
            /\ \A j \in 1..Len(up[d]) : up'[d][j] = up[d][j]
            /\ up'[d][Len(up[d]) + 1] = m
        BY <2>7
      <4>2. CASE k = Len(up[d]) + 1 BY <4>1, <4>2
      <4>3. CASE k \in 1..Len(up[d])
        BY <4>1, <4>3, <3>2, <3>3, <2>9 DEF UnderWay
      <4> QED BY <4>1, <4>2, <4>3, <3>2, <3>3
    <3>5. r[2] = i /\ c = rows[<<d, i>>].content BY <3>2, <3>3, <3>4
    <3>6. r = <<d, q[n]>> BY <3>1, <3>3, <3>5, <2>2
    <3> QED BY <3>3, <3>5, <3>6, <2>2, <2>3, <2>4 DEF Oldest
  <2> QED BY <2>8, <2>9, <1>1, <1>a
<1>2. CASE StopPumping(d, s, answers)
  <2>1. CASE kind = "message"
    <3>1. /\ session' = [session EXCEPT ![d] = [s EXCEPT !.timer = FALSE]]
          /\ down' = [down EXCEPT ![d] = answers] /\ UNCHANGED <<up, stray>>
          /\ badSaves' = badSaves + 1
      BY <1>2, <2>1 DEF StopPumping
    <3>2. [s EXCEPT !.timer = FALSE] \in Session BY DEF Session
    <3>3. TransportOK BY <3>1, <3>2, <1>0 DEF TransportOK
    <3> QED BY <3>1, <3>3, <1>a, <1>u
  <2>2. CASE kind # "message"
    <3>1. Disconnect(d) /\ badSaves' \in Nat BY <1>2, <2>2, <1>0 DEF StopPumping
    <3> QED BY <3>1, DisconnectMoves
  <2> QED BY <2>1, <2>2
<1>3. CASE /\ session' = [session EXCEPT
                ![d] = [s EXCEPT !.active = IF s.ready /\ i = None THEN None ELSE @]]
           /\ down' = [down EXCEPT ![d] = answers]
           /\ UNCHANGED <<up, stray, badSaves>>
  <2>1. [s EXCEPT !.active = IF s.ready /\ i = None THEN None ELSE @] \in Session
    <3> HIDE DEF i
    <3> QED BY DEF Session
  <2>2. TransportOK BY <1>3, <2>1, <1>0 DEF TransportOK
  <2> QED BY <1>3, <2>2, <1>a, <1>u
<1> QED BY <1>1, <1>2, <1>3 DEF Pump

\* Taking a request from a connection adds nothing to what is under way.
LEMMA ConsumedMoves ==
  ASSUME NEW d \in Devices, up \in [Devices -> Seq(Request)], up[d] # <<>>,
         up' = [up EXCEPT ![d] = Tail(@)], stray' = stray
  PROVE  \A r \in Requests, c \in Contents : UnderWay(r, c)' => UnderWay(r, c)
<1> SUFFICES ASSUME NEW r \in Requests, NEW c \in Contents, UnderWay(r, c)' PROVE UnderWay(r, c)
  OBVIOUS
<1>1. r[1] \in Devices BY DEF Requests
<1>2. CASE [request |-> r, content |-> c] \in stray BY <1>2 DEF UnderWay
<1>3. ASSUME NEW n \in DOMAIN up'[r[1]], up'[r[1]][n] = [intent |-> r[2], content |-> c]
      PROVE  UnderWay(r, c)
  <2>1. CASE r[1] # d
    <3>1. up'[r[1]] = up[r[1]] BY <1>1, <2>1
    <3> QED BY <1>3, <3>1 DEF UnderWay
  <2>2. CASE r[1] = d
    <3>1. up'[d] = Tail(up[d]) /\ up[d] \in Seq(Request) OBVIOUS
    <3>2. /\ n \in 1..(Len(up[d]) - 1) /\ Tail(up[d])[n] = up[d][n + 1]
          /\ DOMAIN up[d] = 1..Len(up[d]) /\ Len(up[d]) \in Nat
      BY <1>3, <2>2, <3>1
    <3>3. n + 1 \in DOMAIN up[d] BY <3>2
    <3> QED BY <1>3, <2>2, <3>1, <3>2, <3>3 DEF UnderWay
  <2> QED BY <2>1, <2>2
<1> QED BY <1>2, <1>3 DEF UnderWay

LEMMA RowsStay ==
  ASSUME row' = row
  PROVE  OneRowMoves /\ \A r \in Requests : RowMoves(r)
BY DEF OneRowMoves, RowMoves

LEMMA QueuesStay ==
  ASSUME queue' = queue
  PROVE  \A d \in Devices : QueueGrows(d)
BY DEF QueueGrows

LEMMA TransportStays ==
  ASSUME UNCHANGED <<up, down, stray>>
  PROVE  SendsOldest /\ AnswersRemain
<1>1. \A r, c : UnderWay(r, c)' => UnderWay(r, c) BY DEF UnderWay
<1> QED BY <1>1 DEF SendsOldest, AnswersRemain

\* The end of a handler that pumps: rows and queues have moved, and the rest is
\* what pump() does.
LEMMA PumpIsDeviceStep ==
  ASSUME Inductive, NEW d \in Devices, NEW s \in Session, NEW resend \in BOOLEAN,
         NEW answers \in Seq(Answer),
         \A n \in DOMAIN answers : \E k \in DOMAIN down[d] : answers[n] = down[d][k],
         row' \in [Requests -> Row], OneRowMoves, \A r \in Requests : RowMoves(r),
         queue' \in [Devices -> Seq(Intents)], \A e \in Devices : QueueGrows(e),
         Pump(d, s, queue'[d], row', resend, answers),
         UNCHANGED <<kind, server, losses, changes>>
  PROVE  DeviceStep
<1> USE DEF Inductive
<1>1. \A r \in Requests : row'[r].status = "pending" => row'[r].content \in Contents
  <2> SUFFICES ASSUME NEW r \in Requests, row'[r].status = "pending" PROVE row'[r].content \in Contents
    OBVIOUS
  <2>1. RowIsDecided(r) /\ RowMoves(r) BY DEF RowsAreDecided
  <2> QED BY <2>1 DEF RowIsDecided, RowMoves
<1>2. /\ TransportOK
      /\ \A r \in Requests, c \in Contents : UnderWay(r, c)' =>
           UnderWay(r, c) \/ (r[1] = d /\ Oldest(d, queue'[d], row', r, c))
      /\ AnswersAmong(d, answers)
  <2>1. queue'[d] \in Seq(Intents) OBVIOUS
  <2> QED BY <1>1, <2>1, PumpSendsOldest
<1>3. TypeOK' BY <1>2 DEF TypeOK, TransportOK, server
<1>4. SendsOldest BY <1>2 DEF SendsOldest
<1>5. AnswersRemain
  <2> SUFFICES ASSUME NEW e \in Devices, NEW n \in DOMAIN down'[e]
               PROVE  \E k \in DOMAIN down[e] : down'[e][n] = down[e][k]
    BY DEF AnswersRemain
  <2>1. CASE e # d BY <1>2, <2>1 DEF AnswersAmong
  <2>2. CASE e = d
    <3>1. PICK k \in DOMAIN answers : down'[e][n] = answers[k] BY <1>2, <2>2 DEF AnswersAmong
    <3>2. PICK j \in DOMAIN down[d] : answers[k] = down[d][j] OBVIOUS
    <3> QED BY <2>2, <3>1, <3>2
  <2> QED BY <2>1, <2>2
<1> QED BY <1>3, <1>4, <1>5 DEF DeviceStep, server

LEMMA ConnectStep ==
  ASSUME Inductive, NEW d \in Devices, Connect(d)
  PROVE  DeviceStep
<1>1. TypeOK'
  <2>1. [Down EXCEPT !.up = TRUE, !.timer = TRUE] \in Session BY DEF Down, Session
  <2> QED BY <2>1 DEF Inductive, TypeOK, Connect, network, server, budgets
<1> QED BY <1>1, RowsStay, QueuesStay, TransportStays DEF Connect, network, server, DeviceStep

LEMMA FallBehindStep ==
  ASSUME Inductive, NEW d \in Devices, FallBehind(d)
  PROVE  DeviceStep
<1>1. TypeOK'
  <2>1. [session[d] EXCEPT !.ready = FALSE] \in Session BY DEF Inductive, TypeOK, Session
  <2> QED BY <2>1 DEF Inductive, TypeOK, FallBehind, network, server
<1> QED BY <1>1, RowsStay, QueuesStay, TransportStays DEF FallBehind, network, server, DeviceStep

LEMMA BecomeReadyStep ==
  ASSUME Inductive, NEW d \in Devices, BecomeReady(d)
  PROVE  DeviceStep
<1> DEFINE s == [session[d] EXCEPT !.ready = TRUE]
<1>1. s \in Session BY DEF Inductive, TypeOK, Session
<1>2. /\ Pump(d, s, queue'[d], row', FALSE, down[d])
      /\ UNCHANGED <<kind, queue, row, server, losses, changes>>
  BY DEF BecomeReady
<1>3. row' \in [Requests -> Row] /\ queue' \in [Devices -> Seq(Intents)] /\ down[d] \in Seq(Answer)
  BY <1>2 DEF Inductive, TypeOK
<1> HIDE DEF s
<1> QED BY <1>1, <1>2, <1>3, RowsStay, QueuesStay, PumpIsDeviceStep

LEMMA TickStep ==
  ASSUME Inductive, NEW d \in Devices, Tick(d)
  PROVE  DeviceStep
<1>1. session[d] \in Session BY DEF Inductive, TypeOK
<1>2. /\ Pump(d, session[d], queue'[d], row', TRUE, down[d])
      /\ UNCHANGED <<kind, queue, row, server, losses, changes>>
  BY DEF Tick
<1>3. row' \in [Requests -> Row] /\ queue' \in [Devices -> Seq(Intents)] /\ down[d] \in Seq(Answer)
  BY <1>2 DEF Inductive, TypeOK
<1> QED BY <1>1, <1>2, <1>3, RowsStay, QueuesStay, PumpIsDeviceStep

LEMMA EnqueueStep ==
  ASSUME Inductive, NEW d \in Devices, NEW i \in Intents, NEW c \in Contents, Enqueue(d, i, c)
  PROVE  DeviceStep
<1>0. /\ row \in [Requests -> Row] /\ queue \in [Devices -> Seq(Intents)] /\ down[d] \in Seq(Answer)
      /\ session[d] \in Session /\ <<d, i>> \in Requests
  BY DEF Inductive, TypeOK, Requests
<1>1. /\ Pump(d, session[d], queue'[d], row', FALSE, down[d])
      /\ UNCHANGED <<kind, server, losses, changes>>
  BY DEF Enqueue
<1>2. CASE row[<<d, i>>].status = "none"
  <2> DEFINE new == [status |-> "pending", content |-> c, entity |-> 0]
  <2>1. queue' = [queue EXCEPT ![d] = Append(@, i)] /\ row' = [row EXCEPT ![<<d, i>>] = new]
    BY <1>2 DEF Enqueue
  <2>2. new \in Row BY DEF Row
  <2>3. row' \in [Requests -> Row] /\ queue' \in [Devices -> Seq(Intents)]
    BY <2>1, <2>2, <1>0
  <2>4. \A r \in Requests : RowMoves(r)
    BY <1>2, <1>0, <2>1 DEF RowMoves
  <2>5. \A e \in Devices : QueueGrows(e)
    BY <1>2, <1>0, <2>1 DEF QueueGrows
  <2>6. OneRowMoves BY <1>0, <2>1 DEF OneRowMoves
  <2> QED BY <1>0, <1>1, <2>3, <2>4, <2>5, <2>6, PumpIsDeviceStep
<1>3. CASE row[<<d, i>>].status # "none"
  <2>1. queue' = queue /\ row' = row BY <1>3 DEF Enqueue
  <2> QED BY <1>0, <1>1, <2>1, RowsStay, QueuesStay, PumpIsDeviceStep
<1> QED BY <1>2, <1>3

LEMMA RetryStep ==
  ASSUME Inductive, NEW d \in Devices, NEW i \in Intents, Retry(d, i)
  PROVE  DeviceStep
<1>0. /\ row \in [Requests -> Row] /\ queue \in [Devices -> Seq(Intents)] /\ down[d] \in Seq(Answer)
      /\ session[d] \in Session /\ <<d, i>> \in Requests
  BY DEF Inductive, TypeOK, Requests
<1>1. /\ row[<<d, i>>].status = "failed"
      /\ row' = [row EXCEPT ![<<d, i>>].status = "pending"]
      /\ Pump(d, session[d], queue'[d], row', FALSE, down[d])
      /\ UNCHANGED <<kind, queue, server, losses, changes>>
  BY DEF Retry
<1>2. [row[<<d, i>>] EXCEPT !.status = "pending"] \in Row BY <1>0 DEF Row
<1>3. row' \in [Requests -> Row] BY <1>0, <1>1, <1>2
<1>4. \A r \in Requests : RowMoves(r)
  <2> SUFFICES ASSUME NEW r \in Requests PROVE RowMoves(r) OBVIOUS
  <2>1. CASE r # <<d, i>> BY <2>1, <1>0, <1>1 DEF RowMoves
  <2>2. CASE r = <<d, i>>
    <3>1. row[r] \in Row /\ row'[r] = [row[r] EXCEPT !.status = "pending"] BY <2>2, <1>0, <1>1
    <3>2. row'[r].status = "pending" /\ row'[r].content = row[r].content BY <3>1 DEF Row
    <3> QED BY <2>2, <3>2, <1>1 DEF RowMoves
  <2> QED BY <2>1, <2>2
<1>5. OneRowMoves BY <1>0, <1>1 DEF OneRowMoves
<1> QED BY <1>0, <1>1, <1>3, <1>4, <1>5, QueuesStay, PumpIsDeviceStep

LEMMA LoseConnectionStep ==
  ASSUME Inductive, NEW d \in Devices, LoseConnection(d)
  PROVE  DeviceStep
<1>0. TypeOK BY DEF Inductive
<1>1. Disconnect(d) /\ badSaves' \in Nat /\ UNCHANGED <<kind, queue, row, server, changes>>
  BY <1>0 DEF LoseConnection, TypeOK
<1>2. /\ TransportOK
      /\ \A r \in Requests, c \in Contents : UnderWay(r, c)' => UnderWay(r, c)
      /\ AnswersAmong(d, down[d])
  BY <1>0, <1>1, DisconnectMoves
<1>3. TypeOK'
  <2>1. losses' \in Nat BY <1>0 DEF TypeOK, LoseConnection
  <2> QED BY <1>0, <1>1, <1>2, <2>1 DEF TypeOK, TransportOK, server
<1>4. SendsOldest BY <1>2 DEF SendsOldest
<1>5. AnswersRemain BY <1>2 DEF AnswersRemain, AnswersAmong
<1> QED BY <1>1, <1>3, <1>4, <1>5, RowsStay, QueuesStay DEF DeviceStep, server

\* What an answer under way makes of its row is what was decided.
LEMMA AnswerMovesRow ==
  ASSUME Inductive, NEW d \in Devices, NEW m \in Answer, AnswerIsTrue(d, m),
         row' = [row EXCEPT ![<<d, m.intent>>] = Settled(@, m.result)]
  PROVE  row' \in [Requests -> Row] /\ OneRowMoves /\ \A r \in Requests : RowMoves(r)
<1> DEFINE r == <<d, m.intent>>
<1>0. r \in Requests /\ row \in [Requests -> Row] /\ results \in [Requests -> Result]
      /\ m.result \in Result \cup {Busy}
  BY DEF Inductive, TypeOK, Answer, Requests
<1>1. row[r] \in Row /\ row[r].status # "none" /\ row[r].content \in Contents
  BY <1>0 DEF Inductive, RowsAreDecided, RowIsDecided, AnswerIsTrue
<1>2. row'[r] = Settled(row[r], m.result) /\ \A q \in Requests : q # r => row'[q] = row[q]
  BY <1>0
<1>3. ResultIsBacked(r) BY <1>0 DEF Inductive, ResultsAreBacked
<1>4. m.result = Busy \/ (m.result = results[r] /\ results[r] # Undecided)
  BY DEF AnswerIsTrue
<1> HIDE DEF r
<1>5. row'[r] \in Row /\ RowMoves(r)
  <2>1. CASE Final(row[r]) BY <1>1, <1>2, <2>1 DEF Settled, RowMoves
  <2>2. CASE ~Final(row[r]) /\ m.result = Busy
    <3>1. row'[r] = [row[r] EXCEPT !.status = "pending"] BY <1>2, <2>2 DEF Settled
    <3>2. row[r].status # "confirmed" BY <2>2 DEF Final
    <3> QED BY <3>1, <3>2, <1>1 DEF Row, RowMoves
  <2>3. CASE ~Final(row[r]) /\ m.result # Busy
    <3> DEFINE status == IF m.result.verdict = "accepted" THEN "confirmed" ELSE "failed"
    <3>1. row'[r] = [row[r] EXCEPT !.status = status, !.entity = m.result.entity]
      BY <1>2, <2>3 DEF Settled
    <3>2. m.result = results[r] /\ results[r] # Undecided /\ m.result \in Result
      BY <2>3, <1>0, <1>4
    <3>3. m.result.entity \in Nat /\ m.result.verdict \in {"none", "accepted", "refused"}
      BY <3>2 DEF Result
    <3>4. /\ row'[r].status = status /\ row'[r].content = row[r].content
          /\ row'[r].entity = m.result.entity /\ row'[r] \in Row
      BY <3>1, <3>3, <1>1, ZenonT(30) DEF Row
    <3>5. CASE m.result.verdict = "accepted"
      BY <3>2, <3>4, <3>5, <1>1, <1>3 DEF RowMoves, ResultIsBacked, Closed
    <3>7. row[r].status # "confirmed" BY <2>3 DEF Final
    <3>6. CASE m.result.verdict # "accepted"
      <4>1. results[r] = Refused BY <3>2, <3>3, <3>6, <1>3 DEF ResultIsBacked
      <4> QED BY <3>4, <3>6, <3>7, <4>1, <1>1 DEF RowMoves
    <3> QED BY <3>5, <3>6
  <2> QED BY <2>1, <2>2, <2>3, <1>4
<1>6. \A q \in Requests : row'[q] \in Row /\ RowMoves(q)
  BY <1>0, <1>2, <1>5 DEF RowMoves
<1>7. row' \in [Requests -> Row]
  <2>1. DOMAIN row' = Requests BY <1>0
  <2>2. row' = [q \in Requests |-> row'[q]] BY <1>0, <2>1
  <2> QED BY <2>2, <1>6
<1>8. OneRowMoves BY <1>0, <1>2 DEF OneRowMoves
<1> QED BY <1>6, <1>7, <1>8

LEMMA HandleAnswerStep ==
  ASSUME Inductive, NEW d \in Devices, HandleAnswer(d)
  PROVE  DeviceStep
<1> DEFINE m == Head(down[d])
<1>0. /\ row \in [Requests -> Row] /\ queue \in [Devices -> Seq(Intents)]
      /\ down[d] \in Seq(Answer) /\ down[d] # <<>> /\ session[d] \in Session
  BY DEF Inductive, TypeOK, HandleAnswer
<1>1. /\ m \in Answer /\ m = down[d][1] /\ 1 \in DOMAIN down[d]
      /\ Tail(down[d]) \in Seq(Answer)
      /\ \A n \in DOMAIN Tail(down[d]) : \E k \in DOMAIN down[d] : Tail(down[d])[n] = down[d][k]
  <2>1. /\ Len(down[d]) \in Nat /\ Len(down[d]) >= 1 /\ DOMAIN down[d] = 1..Len(down[d])
        /\ Tail(down[d]) \in Seq(Answer) /\ m = down[d][1] /\ m \in Answer
        /\ DOMAIN Tail(down[d]) = 1..(Len(down[d]) - 1)
        /\ \A n \in 1..(Len(down[d]) - 1) : Tail(down[d])[n] = down[d][n + 1]
    BY <1>0
  <2>2. \A n \in 1..(Len(down[d]) - 1) : n + 1 \in DOMAIN down[d] BY <2>1
  <2> QED BY <2>1, <2>2
<1>2. AnswerIsTrue(d, m) BY <1>1 DEF Inductive, AnswersAreTrue
<1>3. UNCHANGED <<kind, queue, server, losses, changes>> BY DEF HandleAnswer
<1> HIDE DEF m
<1>4. CASE /\ row' = [row EXCEPT ![<<d, m.intent>>] = Settled(@, m.result)]
           /\ Pump(d, session[d], queue[d], row', FALSE, Tail(down[d]))
  <2>1. row' \in [Requests -> Row] /\ OneRowMoves /\ \A r \in Requests : RowMoves(r)
    BY <1>1, <1>2, <1>4, AnswerMovesRow
  <2>2. Pump(d, session[d], queue'[d], row', FALSE, Tail(down[d])) BY <1>4, <1>3
  <2> QED BY <1>0, <1>1, <1>3, <2>1, <2>2, QueuesStay, PumpIsDeviceStep
<1>5. CASE UNCHANGED row /\ StopPumping(d, session[d], Tail(down[d]))
  <2>0. TypeOK BY DEF Inductive
  <2>1. /\ TransportOK
        /\ \A r \in Requests, c \in Contents : UnderWay(r, c)' => UnderWay(r, c)
        /\ AnswersAmong(d, Tail(down[d]))
    <3>1. CASE kind = "message"
      <4>1. /\ session' = [session EXCEPT ![d] = [session[d] EXCEPT !.timer = FALSE]]
            /\ down' = [down EXCEPT ![d] = Tail(down[d])] /\ UNCHANGED <<up, stray>>
            /\ badSaves' = badSaves + 1
        BY <1>5, <3>1 DEF StopPumping
      <4>2. [session[d] EXCEPT !.timer = FALSE] \in Session BY <1>0 DEF Session
      <4>3. TransportOK BY <4>1, <4>2, <1>1, <2>0 DEF TransportOK, TypeOK
      <4>4. AnswersAmong(d, Tail(down[d])) BY <4>1, <2>0 DEF AnswersAmong, TypeOK
      <4>5. \A r, c : UnderWay(r, c)' => UnderWay(r, c) BY <4>1 DEF UnderWay
      <4> QED BY <4>3, <4>4, <4>5
    <3>2. CASE kind # "message"
      <4>1. Disconnect(d) /\ badSaves' \in Nat BY <1>5, <3>2, <2>0 DEF StopPumping, TypeOK
      <4> QED BY <2>0, <4>1, DisconnectMoves
    <3> QED BY <3>1, <3>2
  <2>2. TypeOK' BY <2>0, <2>1, <1>3, <1>5 DEF TypeOK, TransportOK, server
  <2>3. SendsOldest BY <2>1 DEF SendsOldest
  <2>4. AnswersRemain
    <3> SUFFICES ASSUME NEW e \in Devices, NEW n \in DOMAIN down'[e]
                 PROVE  \E k \in DOMAIN down[e] : down'[e][n] = down[e][k]
      BY DEF AnswersRemain
    <3> QED BY <2>1, <1>1 DEF AnswersAmong
  <2> QED BY <1>3, <1>5, <2>2, <2>3, <2>4, RowsStay, QueuesStay DEF DeviceStep, server
<1>6. \/ /\ row' = [row EXCEPT ![<<d, m.intent>>] = Settled(@, m.result)]
         /\ Pump(d, session[d], queue[d], row', FALSE, Tail(down[d]))
      \/ UNCHANGED row /\ StopPumping(d, session[d], Tail(down[d]))
  BY DEF HandleAnswer, m
<1> QED BY <1>4, <1>5, <1>6

LEMMA SettleTerminalStep ==
  ASSUME Inductive, NEW d \in Devices, NEW i \in Intents, SettleTerminal(d, i)
  PROVE  DeviceStep
<1> DEFINE r == <<d, i>>
<1>0. /\ row \in [Requests -> Row] /\ r \in Requests /\ r[2] = i
      /\ DOMAIN effects \subseteq Nat
  BY SMTT(30) DEF Inductive, TypeOK, Requests
<1>1. /\ kind = "message" /\ i \in wiped /\ row[r].status # "none"
      /\ UNCHANGED <<kind, queue, session, network, server, budgets>>
  BY DEF SettleTerminal
<1>2. PICK n \in Existing(i) :
        row' = [row EXCEPT ![r].status = "confirmed", ![r].entity = n]
  BY DEF SettleTerminal
<1>3. n \in DOMAIN effects /\ n \in Nat /\ effects[n].request[2] = i
  BY <1>0, <1>2 DEF Existing
<1> HIDE DEF r
<1>4. row' = [row EXCEPT ![r] = [row[r] EXCEPT !.status = "confirmed", !.entity = n]]
  BY <1>0, <1>2
<1>5. row[r] \in Row BY <1>0
<1>6. LET new == [row[r] EXCEPT !.status = "confirmed", !.entity = n]
      IN /\ new \in Row /\ new.status = "confirmed" /\ new.entity = n
         /\ new.content = row[r].content
  BY <1>3, <1>5 DEF Row
<1>7. row' \in [Requests -> Row] BY <1>0, <1>4, <1>6
<1>8. \A q \in Requests : RowMoves(q)
  <2> SUFFICES ASSUME NEW q \in Requests PROVE RowMoves(q) OBVIOUS
  <2>1. CASE q # r BY <2>1, <1>0, <1>4 DEF RowMoves
  <2>2. CASE q = r
    <3>1. row'[r].status = "confirmed" /\ row'[r].entity = n /\ row'[r].content = row[r].content
      BY <1>0, <1>4, <1>6
    <3>2. Closed(r) BY <1>0, <1>1, <1>2 DEF Closed
    <3> QED BY <2>2, <3>1, <3>2, <1>0, <1>1, <1>3 DEF RowMoves
  <2> QED BY <2>1, <2>2
<1>9. TypeOK' BY <1>1, <1>7 DEF Inductive, TypeOK, network, server, budgets
<1>10. OneRowMoves BY <1>0, <1>4 DEF OneRowMoves
<1> QED BY <1>1, <1>8, <1>9, <1>10, QueuesStay, TransportStays DEF DeviceStep, network, server

LEMMA FailRequestStep ==
  ASSUME Inductive, NEW d \in Devices, FailRequest(d)
  PROVE  DeviceStep
<1> DEFINE m == Head(up[d])
<1>0. /\ up \in [Devices -> Seq(Request)] /\ down \in [Devices -> Seq(Answer)]
      /\ up[d] # <<>> /\ losses \in Nat
  BY DEF Inductive, TypeOK, FailRequest
<1>1. /\ down' = [down EXCEPT ![d] = Append(@, [intent |-> m.intent, result |-> Busy])]
      /\ up' = [up EXCEPT ![d] = Tail(@)]
      /\ losses' = losses + 1
      /\ UNCHANGED <<kind, queue, row, session, stray, server, badSaves, changes>>
  BY DEF FailRequest, clientVars
<1>2. /\ m \in Request /\ m = up[d][1] /\ 1 \in DOMAIN up[d] BY <1>0
<1>3. m.intent \in Intents /\ m.content \in Contents
      /\ m = [intent |-> m.intent, content |-> m.content]
  BY <1>2 DEF Request
<1>4. UnderWay(<<d, m.intent>>, m.content) BY <1>2, <1>3 DEF UnderWay
<1>5. row[<<d, m.intent>>].status # "none"
  BY <1>3, <1>4 DEF Inductive, RequestsAreOwn, Requests
<1>6. [intent |-> m.intent, result |-> Busy] \in Answer BY <1>3 DEF Answer
<1> HIDE DEF m
<1>7. TypeOK'
  <2>1. down' \in [Devices -> Seq(Answer)] BY <1>0, <1>1, <1>6
  <2>2. up' \in [Devices -> Seq(Request)] BY <1>0, <1>1
  <2> QED BY <1>0, <1>1, <2>1, <2>2 DEF Inductive, TypeOK, server
<1>8. SendsOldest
  <2>1. \A r \in Requests, c \in Contents : UnderWay(r, c)' => UnderWay(r, c)
    BY <1>0, <1>1, ConsumedMoves
  <2> QED BY <2>1 DEF SendsOldest
<1>9. AnswersRemain
  <2> SUFFICES ASSUME NEW e \in Devices, NEW n \in DOMAIN down'[e]
               PROVE  \/ \E k \in DOMAIN down[e] : down'[e][n] = down[e][k]
                      \/ down'[e][n].result = Busy /\ row[<<e, down'[e][n].intent>>].status # "none"
    BY DEF AnswersRemain
  <2>1. CASE e # d BY <2>1, <1>0, <1>1
  <2>2. CASE e = d
    <3>1. down'[d] = Append(down[d], [intent |-> m.intent, result |-> Busy]) /\ down[d] \in Seq(Answer)
      BY <1>0, <1>1
    <3>2. CASE n \in 1..Len(down[d]) BY <2>2, <3>1, <3>2
    <3>3. CASE n = Len(down[d]) + 1
      <4>1. down'[d][n] = [intent |-> m.intent, result |-> Busy] BY <3>1, <3>3
      <4> QED BY <2>2, <4>1, <1>5
    <3>4. n \in 1..Len(down[d]) \/ n = Len(down[d]) + 1 BY <2>2, <3>1
    <3> QED BY <3>2, <3>3, <3>4
  <2> QED BY <2>1, <2>2
<1> QED BY <1>1, <1>7, <1>8, <1>9, RowsStay, QueuesStay DEF DeviceStep, server

\* The other steps of the server and its users decide nothing.
LEMMA OtherSteps ==
  ASSUME Inductive, DropStray \/ ChangeMembership \/ (\E i \in Intents : Wipe(i)) \/ UNCHANGED vars
  PROVE  DeviceStep
<1> USE DEF Inductive
<1>1. CASE DropStray
  <2>1. PICK m \in stray : stray' = stray \ {m} /\ UNCHANGED <<clientVars, up, down, server, budgets>>
    BY <1>1 DEF DropStray
  <2>2. TypeOK' BY <2>1 DEF TypeOK, clientVars, server, budgets
  <2>3. \A r, c : UnderWay(r, c)' => UnderWay(r, c) BY <2>1 DEF UnderWay
  <2>4. SendsOldest /\ AnswersRemain BY <2>1, <2>3 DEF SendsOldest, AnswersRemain
  <2> QED BY <2>1, <2>2, <2>4, RowsStay, QueuesStay DEF DeviceStep, clientVars, server
<1>2. CASE ChangeMembership
  <2>1. TypeOK' BY <1>2 DEF ChangeMembership, TypeOK, clientVars, network
  <2> QED BY <1>2, <2>1, RowsStay, QueuesStay, TransportStays
          DEF ChangeMembership, DeviceStep, clientVars, network
<1>3. ASSUME NEW i \in Intents, Wipe(i) PROVE DeviceStep
  <2>1. TypeOK' BY <1>3 DEF Wipe, TypeOK, clientVars, network, budgets
  <2> QED BY <1>3, <2>1, RowsStay, QueuesStay, TransportStays DEF Wipe, DeviceStep, clientVars, network
<1>4. CASE UNCHANGED vars
  <2>1. TypeOK' BY <1>4 DEF vars, TypeOK, clientVars, network, server, budgets
  <2> QED BY <1>4, <2>1, RowsStay, QueuesStay, TransportStays
          DEF vars, DeviceStep, clientVars, network, server, budgets
<1> QED BY <1>1, <1>2, <1>3, <1>4

LEMMA HandleRequestStep ==
  ASSUME Inductive, NEW d \in Devices, HandleRequest(d)
  PROVE  \E r \in Requests, c \in Contents : ServerStep(r, c)
<1> DEFINE m == Head(up[d])
<1> DEFINE answer == [intent |-> m.intent, result |-> AnswerTo(<<d, m.intent>>, m.content)]
<1>0. /\ up \in [Devices -> Seq(Request)] /\ down \in [Devices -> Seq(Answer)]
      /\ up[d] # <<>> /\ TypeOK
  BY DEF Inductive, TypeOK, HandleRequest
<1>1. /\ Execute(<<d, m.intent>>, m.content)
      /\ down' = [down EXCEPT ![d] = Append(@, answer)]
      /\ up' = [up EXCEPT ![d] = Tail(@)]
      /\ UNCHANGED <<clientVars, stray, permitted, wiped, budgets>>
  BY DEF HandleRequest
<1>2. /\ m \in Request /\ m = up[d][1] /\ 1 \in DOMAIN up[d] BY <1>0
<1>3. m.intent \in Intents /\ m.content \in Contents
      /\ m = [intent |-> m.intent, content |-> m.content]
  BY <1>2 DEF Request
<1>4. PICK r \in Requests : r = <<d, m.intent>> BY <1>3 DEF Requests
<1>5. PICK c \in Contents : c = m.content BY <1>3
<1>6. r[1] = d /\ r[2] = m.intent BY <1>4
<1>7. UnderWay(r, c) BY <1>2, <1>3, <1>5, <1>6 DEF UnderWay
<1>8. Decides(r, c) /\ AnswerTo(r, c) = results'[r] /\ results'[r] # Undecided
  <2>1. Execute(r, c) BY <1>1, <1>4, <1>5
  <2> QED BY <1>0, <2>1, ExecuteDecides
<1>9. answer.intent = r[2] /\ answer.result = results'[r]
  BY <1>4, <1>5, <1>6, <1>8
<1>t. results' \in [Requests -> Result] /\ effects' \in Seq([request : Requests, content : Contents])
  BY <1>0, <1>8, DecidesIsTyped
<1>a. answer \in Answer
  <2>1. answer = [intent |-> r[2], result |-> results'[r]] BY <1>4, <1>5, <1>6, <1>8
  <2>2. results'[r] \in Result BY <1>t
  <2> QED BY <2>1, <2>2, <1>3, <1>6 DEF Answer
<1> HIDE DEF m, answer
<1>10. TypeOK'
  <2>1. down' \in [Devices -> Seq(Answer)] BY <1>0, <1>1, <1>a
  <2>2. up' \in [Devices -> Seq(Request)] BY <1>0, <1>1
  <2> QED BY <1>0, <1>1, <1>t, <2>1, <2>2 DEF TypeOK, clientVars, budgets
<1>11. \A q \in Requests, k \in Contents : UnderWay(q, k)' => UnderWay(q, k)
  BY <1>0, <1>1, ConsumedMoves
<1>12. ASSUME NEW e \in Devices, NEW n \in DOMAIN down'[e]
       PROVE  \/ \E k \in DOMAIN down[e] : down'[e][n] = down[e][k]
              \/ e = r[1] /\ down'[e][n].intent = r[2] /\ down'[e][n].result = results'[r]
  <2>1. CASE e # d BY <2>1, <1>0, <1>1
  <2>2. CASE e = d
    <3>1. down'[d] = Append(down[d], answer) /\ down[d] \in Seq(Answer)
      BY <1>0, <1>1
    <3>2. CASE n \in 1..Len(down[d]) BY <2>2, <3>1, <3>2
    <3>3. CASE n = Len(down[d]) + 1
      <4>1. down'[d][n] = answer BY <3>1, <3>3
      <4> QED BY <2>2, <4>1, <1>6, <1>9
    <3>4. n \in 1..Len(down[d]) \/ n = Len(down[d]) + 1 BY <2>2, <3>1
    <3> QED BY <3>2, <3>3, <3>4
  <2> QED BY <2>1, <2>2
<1>13. ServerStep(r, c)
  BY <1>1, <1>7, <1>8, <1>10, <1>11, <1>12 DEF ServerStep, clientVars
<1> QED BY <1>13

LEMMA HandleStrayStep ==
  ASSUME Inductive, HandleStray
  PROVE  \E r \in Requests, c \in Contents : ServerStep(r, c)
<1>0. TypeOK /\ stray \in SUBSET [request : Requests, content : Contents]
  BY DEF Inductive, TypeOK
<1>1. PICK m \in stray :
        /\ Execute(m.request, m.content)
        /\ stray' = stray \ {m}
        /\ UNCHANGED <<clientVars, up, down, permitted, wiped, budgets>>
  BY DEF HandleStray
<1>2. /\ m.request \in Requests /\ m.content \in Contents
      /\ m = [request |-> m.request, content |-> m.content]
  BY <1>0
<1>3. PICK r \in Requests, c \in Contents : r = m.request /\ c = m.content BY <1>2
<1>4. UnderWay(r, c) BY <1>2, <1>3 DEF UnderWay
<1>5. Decides(r, c) /\ results'[r] # Undecided
  <2>1. Execute(r, c) BY <1>1, <1>3
  <2> QED BY <1>0, <2>1, ExecuteDecides
<1>t. results' \in [Requests -> Result] /\ effects' \in Seq([request : Requests, content : Contents])
  BY <1>0, <1>5, DecidesIsTyped
<1>6. TypeOK' BY <1>0, <1>1, <1>t DEF TypeOK, clientVars, budgets
<1>7. \A q \in Requests, k \in Contents : UnderWay(q, k)' => UnderWay(q, k)
  BY <1>1 DEF UnderWay
<1>8. ServerStep(r, c)
  BY <1>1, <1>4, <1>5, <1>6, <1>7 DEF ServerStep, clientVars
<1> QED BY <1>8

-----------------------------------------------------------------------------
(* The invariant *)

LEMMA InitInductive ==
  ASSUME Init
  PROVE  Inductive
<1> USE DEF Init
<1>1. TypeOK
  <2>1. NoRow \in Row BY DEF NoRow, Row
  <2>2. Down \in Session BY DEF Down, Session
  <2>3. Undecided \in Result BY DEF Undecided, Result
  <2> QED BY <2>1, <2>2, <2>3 DEF TypeOK
<1>2. \A r \in Requests : row[r].status = "none" /\ results[r] = Undecided /\ results[r].verdict = "none"
  BY DEF NoRow, Undecided
<1>3. DOMAIN effects = {} BY DEF Init
<1>4. \A d \in Devices : DOMAIN queue[d] = {} /\ DOMAIN up[d] = {} /\ DOMAIN down[d] = {} OBVIOUS
<1>5. ResultsAreBacked BY <1>2 DEF ResultsAreBacked, ResultIsBacked
<1>6. EffectsAreRecorded /\ AtMostOneEffect BY <1>3 DEF EffectsAreRecorded, AtMostOneEffect
<1>7. ConfirmedTookEffect /\ RowsAreDecided
  BY <1>2 DEF ConfirmedTookEffect, RowsAreDecided, RowIsDecided
<1>8. RequestsAreOwn
  <2>1. \A r \in Requests : r[1] \in Devices BY DEF Requests
  <2> QED BY <1>4, <2>1 DEF RequestsAreOwn, UnderWay
<1>9. AnswersAreTrue BY <1>4 DEF AnswersAreTrue
<1>10. QueuesAreOwn /\ EarlierIsClosed /\ EffectsKeepOrder
  BY <1>4 DEF QueuesAreOwn, QueueIsOwn, EarlierIsClosed, EffectsKeepOrder
<1> QED BY <1>1, <1>5, <1>6, <1>7, <1>8, <1>9, <1>10 DEF Inductive

\* Every step is a device's or the server's.
LEMMA NextIsOneOrOther ==
  ASSUME Inductive, [Next]_vars
  PROVE  DeviceStep \/ \E r \in Requests, c \in Contents : ServerStep(r, c)
<1>1. ASSUME NEW d \in Devices,
             \/ HandleRequest(d) \/ FailRequest(d)
             \/ Connect(d) \/ BecomeReady(d) \/ FallBehind(d)
             \/ Tick(d) \/ HandleAnswer(d) \/ LoseConnection(d)
      PROVE  DeviceStep \/ \E r \in Requests, c \in Contents : ServerStep(r, c)
  BY <1>1, HandleRequestStep, FailRequestStep, ConnectStep, BecomeReadyStep, FallBehindStep,
     TickStep, HandleAnswerStep, LoseConnectionStep
<1>2. ASSUME NEW d \in Devices, NEW i \in Intents,
             Retry(d, i) \/ SettleTerminal(d, i) \/ \E c \in Contents : Enqueue(d, i, c)
      PROVE  DeviceStep
  BY <1>2, RetryStep, SettleTerminalStep, EnqueueStep
<1>3. CASE HandleStray BY <1>3, HandleStrayStep
<1>4. CASE DropStray \/ ChangeMembership \/ (\E i \in Intents : Wipe(i)) \/ UNCHANGED vars
  BY <1>4, OtherSteps
<1> QED BY <1>1, <1>2, <1>3, <1>4 DEF Next

\* The inductive invariant holds in every reachable state.
THEOREM Invariance == Spec => []Inductive
<1>1. Init => Inductive BY InitInductive
<1>2. Inductive /\ [Next]_vars => Inductive'
  BY NextIsOneOrOther, DeviceStepPreserves, ServerStepPreserves
<1> QED BY <1>1, <1>2, PTL DEF Spec

-----------------------------------------------------------------------------
(* What the runs check *)

\* Every variable keeps its type.
THEOREM TypeCorrect == Spec => []TypeOK
<1>1. Inductive => TypeOK BY DEF Inductive
<1> QED BY <1>1, Invariance, PTL

\* A request takes effect at most once, and a message intent appears once in the
\* conversation whichever devices sent it, however often requests were sent,
\* answered, lost or executed late (ControlWriteRepo.execute,
\* MessageService._apply_send_message).
THEOREM EffectsAreUnique == Spec => []AtMostOneEffect
<1>1. Inductive => AtMostOneEffect BY DEF Inductive
<1> QED BY <1>1, Invariance, PTL

\* A row shown as sent is in the conversation under its intent and with its text,
\* unless that message was recalled or burned since
\* (MiniImMessageOutbox::acknowledge, MiniImControlWriteStore::acknowledge).
THEOREM ConfirmationsAreTrue == Spec => []ConfirmedTookEffect
<1>1. Inductive => ConfirmedTookEffect BY DEF Inductive
<1> QED BY <1>1, Invariance, PTL

\* A request shown as failed has not taken effect and never will on its own: the
\* refusal is on record (ControlWriteRepo.execute keeps definite failures).
THEOREM FailuresAreTrue == Spec => []FailedNeverTakesEffect
<1>1. ASSUME Inductive PROVE FailedNeverTakesEffect
  <2> SUFFICES ASSUME NEW r \in Requests, row[r].status = "failed"
               PROVE  EffectsOf(r) = {} /\ results[r] = Refused
    BY DEF FailedNeverTakesEffect
  <2>1. results[r] = Refused BY <1>1 DEF Inductive, RowsAreDecided, RowIsDecided
  <2>2. ASSUME NEW n \in EffectsOf(r) PROVE FALSE
    <3>1. results[r] = Accepted(n) BY <1>1 DEF Inductive, EffectsAreRecorded, EffectsOf
    <3> QED BY <2>1, <3>1 DEF Refused, Accepted
  <2> QED BY <2>1, <2>2
<1> QED BY <1>1, Invariance, PTL

\* What one device asked for takes effect in the order in which its user asked,
\* across resends, reconnections and late copies
\* (nextPending: ORDER BY rowid LIMIT 1, one active request).
THEOREM OrderIsKept == Spec => []EffectsKeepOrder
<1>1. Inductive => EffectsKeepOrder BY DEF Inductive
<1> QED BY <1>1, Invariance, PTL

-----------------------------------------------------------------------------
(* The refinement of ExactlyOnce *)

LEMMA OnceInit ==
  ASSUME Init
  PROVE  Once!Init
<1> USE DEF Init
<1>1. KeyOf(kind) \in {KeyOf(k) : k \in Kinds} OBVIOUS
<1>2. {r \in Requests : row[r].status # "none"} = {} BY DEF NoRow
<1>3. [r \in Requests |-> results[r].verdict] = [r \in Requests |-> "none"] BY DEF Undecided
<1>4. [n \in DOMAIN effects |-> effects[n].request] = <<>> OBVIOUS
<1>5. [r \in Requests |-> Told(r)] = [r \in Requests |-> "nothing"] BY DEF Told, NoRow
<1> QED BY <1>1, <1>2, <1>3, <1>4, <1>5 DEF Once!Init

\* The abstract log holds an effect under the key of r.
InLogOf(r) == \E n \in DOMAIN effects : KeyOf(kind)[effects[n].request] = KeyOf(kind)[r]

LEMMA SameEffect ==
  ASSUME TypeOK, NEW r \in Requests, NEW n \in DOMAIN effects
  PROVE  KeyOf(kind)[effects[n].request] = KeyOf(kind)[r]
           <=> IF kind = "message" THEN effects[n].request[2] = r[2] ELSE effects[n].request = r
<1>1. effects[n].request \in Requests BY EffectsHaveRequests
<1> QED BY <1>1 DEF KeyOf

LEMMA InLogIs ==
  ASSUME TypeOK, NEW r
  PROVE  Once!InLog(KeyOf(kind)[r]) <=> InLogOf(r)
BY DEF Once!InLog, InLogOf

\* What a device is told about a request asks, teaches, or changes nothing.
LEMMA DeviceStepRefines ==
  ASSUME Inductive, DeviceStep
  PROVE  Once!Next \/ UNCHANGED Once!vars
<1> USE DEF DeviceStep
<1>0. /\ KeyOf(kind)' = KeyOf(kind)
      /\ [q \in Requests |-> results[q].verdict]' = [q \in Requests |-> results[q].verdict]
      /\ [n \in DOMAIN effects |-> effects[n].request]' = [n \in DOMAIN effects |-> effects[n].request]
  BY DEF KeyOf
<1>1. CASE \A q \in Requests : row'[q] = row[q]
  <2>1. {q \in Requests : row[q].status # "none"}' = {q \in Requests : row[q].status # "none"}
    BY <1>1
  <2>2. [q \in Requests |-> Told(q)]' = [q \in Requests |-> Told(q)] BY <1>1 DEF Told
  <2> QED BY <1>0, <2>1, <2>2 DEF Once!vars
<1>2. ASSUME NEW r \in Requests, row'[r] # row[r]
      PROVE  Once!Next \/ UNCHANGED Once!vars
  <2> DEFINE asked == {q \in Requests : row[q].status # "none"}
  <2> DEFINE told == [q \in Requests |-> Told(q)]
  <2>1. \A q \in Requests : q # r => row'[q] = row[q] BY <1>2 DEF OneRowMoves
  <2>2. told' = [told EXCEPT ![r] = Told(r)'] BY <2>1 DEF Told
  <2>3. CASE row[r].status = "none"
    <3>1. row'[r].status = "pending" BY <1>2, <2>3 DEF RowMoves
    <3>2. r \notin asked /\ asked' = asked \cup {r} BY <2>1, <2>3, <3>1
    <3>3. told' = told BY <2>2, <2>3, <3>1 DEF Told
    <3>4. Once!Ask(r) BY <1>0, <3>2, <3>3 DEF Once!Ask
    <3> QED BY <3>4 DEF Once!Next
  <2>4. CASE row[r].status # "none"
    <3>1. /\ row'[r].status # "none"
          /\ row[r].status = "confirmed" => row'[r].status = "confirmed"
          /\ row'[r].status = "failed" => results[r] = Refused
          /\ row'[r].status = "confirmed" =>
               /\ row'[r].entity \in DOMAIN effects
               /\ LET e == effects[row'[r].entity]
                  IN IF kind = "message" THEN e.request[2] = r[2] ELSE e.request = r
      BY <1>2, <2>4 DEF RowMoves
    <3>2. asked' = asked /\ r \in asked BY <2>1, <2>4, <3>1
    <3>3. told[r] = Told(r) OBVIOUS
    <3>4. CASE Told(r)' = Told(r)
      <4>1. told' = told BY <2>2, <3>4
      <4> QED BY <1>0, <3>2, <4>1 DEF Once!vars
    <3>5. CASE Told(r)' # Told(r) /\ row'[r].status = "confirmed"
      <4>1. Told(r)' = "accepted" /\ told[r] # "accepted" BY <3>5 DEF Told
      <4>2. InLogOf(r) BY <3>1, <3>5, SameEffect DEF InLogOf, Inductive
      <4>3. Once!InLog(KeyOf(kind)[r]) BY <4>2, InLogIs DEF Inductive
      <4>4. Once!Learn(r) BY <1>0, <2>2, <3>2, <4>1, <4>3 DEF Once!Learn
      <4> QED BY <4>4 DEF Once!Next
    <3>6. CASE Told(r)' # Told(r) /\ row'[r].status = "failed"
      <4>1. Told(r)' = "refused" /\ told[r] # "accepted" BY <3>1, <3>6 DEF Told
      <4>2. [q \in Requests |-> results[q].verdict][r] = "refused" BY <3>1, <3>6 DEF Refused
      <4>3. Once!Learn(r) BY <1>0, <2>2, <3>2, <4>1, <4>2 DEF Once!Learn
      <4> QED BY <4>3 DEF Once!Next
    <3>7. CASE Told(r)' # Told(r) /\ row'[r].status = "pending"
      <4>1. Told(r)' = "nothing" /\ told[r] = "refused" BY <3>1, <3>7 DEF Told
      <4>2. Once!AskAgain(r) BY <1>0, <2>2, <3>2, <4>1 DEF Once!AskAgain
      <4> QED BY <4>2 DEF Once!Next
    <3>8. row'[r].status \in {"pending", "confirmed", "failed"} BY <3>1 DEF TypeOK, Row
    <3> QED BY <3>4, <3>5, <3>6, <3>7, <3>8
  <2> QED BY <2>3, <2>4
<1> QED BY <1>1, <1>2

\* What the server executes decides its request, once.
LEMMA ServerStepRefines ==
  ASSUME Inductive, NEW r \in Requests, NEW c \in Contents, ServerStep(r, c)
  PROVE  Once!Next \/ UNCHANGED Once!vars
<1> USE DEF ServerStep
<1> DEFINE asked == {q \in Requests : row[q].status # "none"}
<1> DEFINE verdict == [q \in Requests |-> results[q].verdict]
<1> DEFINE log == [n \in DOMAIN effects |-> effects[n].request]
<1> DEFINE told == [q \in Requests |-> Told(q)]
<1>0. /\ KeyOf(kind)' = KeyOf(kind) /\ asked' = asked /\ told' = told
      /\ r \in asked /\ TypeOK /\ r \in DOMAIN results
  BY DEF KeyOf, Told, Inductive, RequestsAreOwn, TypeOK
<1>1. CASE UNCHANGED <<results, effects>>
  <2>1. verdict' = verdict /\ log' = log BY <1>1
  <2> QED BY <1>0, <2>1 DEF Once!vars
<1>2. ASSUME results[r] = Undecided, NEW v \in Result, results' = [results EXCEPT ![r] = v]
      PROVE  verdict[r] = "none" /\ verdict' = [verdict EXCEPT ![r] = v.verdict]
  <2>1. results \in [Requests -> Result] BY <1>0 DEF TypeOK
  <2>2. \A q \in Requests : results'[q].verdict = IF q = r THEN v.verdict ELSE results[q].verdict
    BY <2>1, <1>2
  <2>3. verdict' = [q \in Requests |-> IF q = r THEN v.verdict ELSE results[q].verdict]
    BY <2>2
  <2>4. verdict[r] = "none" BY <1>2 DEF Undecided
  <2>5. [verdict EXCEPT ![r] = v.verdict]
          = [q \in Requests |-> IF q = r THEN v.verdict ELSE results[q].verdict]
    OBVIOUS
  <2> QED BY <2>3, <2>4, <2>5
<1>3. CASE results[r] = Undecided /\ results' = [results EXCEPT ![r] = Refused] /\ UNCHANGED effects
  <2>1. log' = log BY <1>3
  <2>2. verdict[r] = "none" /\ verdict' = [verdict EXCEPT ![r] = "refused"]
    <3>1. Refused \in Result /\ Refused.verdict = "refused" BY DEF Refused, Result
    <3> QED BY <3>1, <1>2, <1>3
  <2> HIDE DEF asked, verdict, log, told
  <2>3. Once!Refuse(r) BY <2>1, <2>2 DEF Once!Refuse, verdict, log
  <2>4. Once!Decide(r) BY <2>3, <1>0 DEF Once!Decide, asked, told
  <2> QED BY <2>4 DEF Once!Next
<1>4. CASE /\ results[r] = Undecided /\ Existing(r[2]) = {}
           /\ results' = [results EXCEPT ![r] = Accepted(Len(effects) + 1)]
           /\ effects' = Append(effects, [request |-> r, content |-> c])
  <2>0. effects \in Seq([request : Requests, content : Contents]) /\ Len(effects) \in Nat
        /\ DOMAIN effects = 1..Len(effects)
    BY <1>0 DEF TypeOK
  <2>1. ~InLogOf(r)
    <3> SUFFICES ASSUME NEW n \in DOMAIN effects,
                        KeyOf(kind)[effects[n].request] = KeyOf(kind)[r]
                 PROVE  FALSE
      BY DEF InLogOf
    <3>1. IF kind = "message" THEN effects[n].request[2] = r[2] ELSE effects[n].request = r
      BY <1>0, SameEffect
    <3>2. results[effects[n].request] = Accepted(n) BY DEF Inductive, EffectsAreRecorded
    <3> QED BY <3>1, <3>2, <1>4 DEF Existing, Accepted, Undecided
  <2>2. verdict[r] = "none" /\ verdict' = [verdict EXCEPT ![r] = "accepted"]
    <3>1. Accepted(Len(effects) + 1) \in Result /\ Accepted(Len(effects) + 1).verdict = "accepted"
      BY <2>0 DEF Accepted, Result
    <3> QED BY <3>1, <1>2, <1>4
  <2>3. log' = Append(log, r)
    <3>1. /\ Len(effects') = Len(effects) + 1 /\ DOMAIN effects' = 1..(Len(effects) + 1)
          /\ \A n \in 1..Len(effects) : effects'[n] = effects[n]
          /\ effects'[Len(effects) + 1] = [request |-> r, content |-> c]
      BY <2>0, <1>4
    <3>2. log \in Seq(Requests) /\ Len(log) = Len(effects)
      <4>1. log \in [1..Len(effects) -> Requests] BY <1>0, <2>0, EffectsHaveRequests
      <4> HIDE DEF log
      <4> QED BY <4>1, <2>0
    <3>3. /\ DOMAIN Append(log, r) = 1..(Len(effects) + 1)
          /\ \A n \in 1..Len(effects) : Append(log, r)[n] = effects[n].request
          /\ Append(log, r)[Len(effects) + 1] = r
      BY <2>0, <3>2
    <3>4. \A n \in 1..(Len(effects) + 1) : effects'[n].request = Append(log, r)[n]
      BY <2>0, <3>1, <3>3
    <3>5. Append(log, r) = [n \in 1..(Len(effects) + 1) |-> Append(log, r)[n]]
      BY <3>2, <3>3
    <3> HIDE DEF log
    <3>6. [n \in DOMAIN effects' |-> effects'[n].request] = Append(log, r)
      BY <3>1, <3>4, <3>5
    <3> QED BY <3>6 DEF log
  <2>4. ~Once!InLog(KeyOf(kind)[r]) BY <1>0, <2>1, InLogIs
  <2> HIDE DEF asked, verdict, log, told
  <2>5. Once!Accept(r) BY <2>2, <2>3, <2>4 DEF Once!Accept, verdict, log
  <2>6. Once!Decide(r) BY <2>5, <1>0 DEF Once!Decide, asked, told
  <2> QED BY <2>6 DEF Once!Next
<1>5. ASSUME results[r] = Undecided, NEW n \in Existing(r[2]),
             results' = [results EXCEPT ![r] = Accepted(n)], UNCHANGED effects
      PROVE  Once!Next
  <2>1. n \in DOMAIN effects /\ n \in Nat /\ kind = "message" /\ effects[n].request[2] = r[2]
    BY <1>5, <1>0 DEF Existing, TypeOK
  <2>2. InLogOf(r) BY <2>1, <1>0, SameEffect DEF InLogOf
  <2>3. Once!InLog(KeyOf(kind)[r]) BY <1>0, <2>2, InLogIs
  <2>4. verdict[r] = "none" /\ verdict' = [verdict EXCEPT ![r] = "accepted"]
    <3>1. Accepted(n) \in Result /\ Accepted(n).verdict = "accepted"
      BY <2>1 DEF Accepted, Result
    <3> QED BY <3>1, <1>2, <1>5
  <2>5. log' = log BY <1>5
  <2> HIDE DEF asked, verdict, log, told
  <2>6. Once!Accept(r) BY <2>3, <2>4, <2>5 DEF Once!Accept, verdict, log
  <2>7. Once!Decide(r) BY <2>6, <1>0 DEF Once!Decide, asked, told
  <2> QED BY <2>7 DEF Once!Next
<1> QED BY <1>1, <1>3, <1>4, <1>5 DEF Decides

\* The requests, the stored answers and the rows of the devices implement
\* ExactlyOnce: a request is decided once, takes effect at most once, and what a
\* device tells its user is what was decided, or that the effect is there
\* (ControlWriteRepo.execute, MiniImMessageOutbox, MiniImControlWriteStore).
THEOREM ImplementsExactlyOnce == Spec => ExactlyOnceSpec
<1>1. Init => Once!Init BY OnceInit
<1>2. Inductive /\ [Next]_vars => [Once!Next]_(Once!vars)
  BY NextIsOneOrOther, DeviceStepRefines, ServerStepRefines
<1> QED BY <1>1, <1>2, Invariance, PTL DEF Spec, ExactlyOnceSpec, Once!Spec

=============================================================================
