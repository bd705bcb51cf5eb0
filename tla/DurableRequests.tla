-------------------------- MODULE DurableRequests --------------------------
(***************************************************************************)
(* The durable request queues of one user's devices and the server's       *)
(* stored results.                                                         *)
(*                                                                         *)
(* A device saves what its user asked for (a message to send, a change to  *)
(* a conversation) with a request id before it sends it, sends the oldest  *)
(* pending request only, sends it again until it is answered, on this or a *)
(* later connection, and keeps the answer.  The server executes a request  *)
(* and stores its answer in one transaction; a request it has answered is  *)
(* answered again from that record.                                        *)
(*                                                                         *)
(* The two queues of a device (message_outbox and control_outbox) share    *)
(* nothing but the connection, so a behaviour is about one of them: kind,  *)
(* fixed in Init, says which.  A device uses an intent once, so            *)
(* <<device, intent>> names the request id.                                *)
(***************************************************************************)
EXTENDS Naturals, Sequences

CONSTANTS
  Kinds,      \* "message" (MiniImMessageOutbox), "control" (MiniImControlWriteStore), or both
  Devices,    \* the devices of the user
  Intents,    \* client_msg_id: what the user means to do, on any device
  Contents,   \* the text and settings of a request
  None,       \* no intent
  MaxQueue,   \* bound: requests and answers of a device in flight
  MaxLosses,  \* bound: lost connections and transactions rolled back
  MaxBadSaves,\* bound: failures of the device's own database
  MaxChanges  \* bound: changes of the user's membership

ASSUME ParametersAssumption ==
  /\ Kinds \subseteq {"message", "control"} /\ Kinds # {}
  /\ None \notin Intents
  /\ MaxQueue \in Nat \ {0}
  /\ {MaxLosses, MaxBadSaves, MaxChanges} \subseteq Nat

VARIABLES
  kind,       \* the queue this behaviour is about
  queue,      \* per device, its intents in the order of their rows
  row,        \* per request, its row
  session,    \* per device, the volatile state of the connection
  up,         \* per device, requests in flight
  down,       \* per device, answers in flight
  stray,      \* requests of abandoned connections the server may still execute
  permitted,  \* the user may act on the conversation (is_member)
  results,    \* control_write_results
  effects,    \* the committed effects, in order
  wiped,      \* intents whose message was recalled or burned
  losses, badSaves, changes

clientVars == <<kind, queue, row, session>>
network == <<up, down, stray>>
server == <<permitted, results, effects, wiped>>
budgets == <<losses, badSaves, changes>>
vars == <<clientVars, network, server, budgets>>

Requests == Devices \X Intents

Row == [status : {"none", "pending", "confirmed", "failed"},
        content : Contents \cup {None}, entity : Nat]
NoRow == [status |-> "none", content |-> None, entity |-> 0]

Session == [up : BOOLEAN, ready : BOOLEAN, timer : BOOLEAN, active : Intents \cup {None}]
Down == [up |-> FALSE, ready |-> FALSE, timer |-> FALSE, active |-> None]

\* A stored answer: entity is the position of the effect it stands for.
Result == [verdict : {"none", "accepted", "refused"}, entity : Nat]
Undecided == [verdict |-> "none", entity |-> 0]
Refused == [verdict |-> "refused", entity |-> 0]
Accepted(n) == [verdict |-> "accepted", entity |-> n]
\* The answer of a transaction that was rolled back: 503, nothing stored.
Busy == [verdict |-> "busy", entity |-> 0]

Request == [intent : Intents, content : Contents]
Answer == [intent : Intents, result : Result \cup {Busy}]

TypeOK ==
  /\ kind \in Kinds
  /\ queue \in [Devices -> Seq(Intents)]
  /\ row \in [Requests -> Row]
  /\ session \in [Devices -> Session]
  /\ up \in [Devices -> Seq(Request)]
  /\ down \in [Devices -> Seq(Answer)]
  /\ stray \in SUBSET [request : Requests, content : Contents]
  /\ permitted \in BOOLEAN
  /\ results \in [Requests -> Result]
  /\ effects \in Seq([request : Requests, content : Contents])
  /\ wiped \in SUBSET Intents
  /\ {losses, badSaves, changes} \subseteq Nat

Init ==
  /\ kind \in Kinds
  /\ queue = [d \in Devices |-> <<>>]
  /\ row = [r \in Requests |-> NoRow]
  /\ session = [d \in Devices |-> Down]
  /\ up = [d \in Devices |-> <<>>]
  /\ down = [d \in Devices |-> <<>>]
  /\ stray = {}
  /\ permitted = TRUE
  /\ results = [r \in Requests |-> Undecided]
  /\ effects = <<>>
  /\ wiped = {}
  /\ losses = 0 /\ badSaves = 0 /\ changes = 0

-----------------------------------------------------------------------------
(* Server *)

Existing_Never(i) == {}  \* mutant: the message identity is not looked up

\* The message of the same sender, conversation and client_msg_id, if any.
\* Control writes have no identity but their request id.
Existing(i) ==
  {n \in DOMAIN effects : kind = "message" /\ effects[n].request[2] = i}

Verdict_IgnoresContent(i, c) ==  \* mutant: any message of this intent will do
  IF ~permitted THEN Refused
  ELSE IF Existing(i) = {} THEN Accepted(Len(effects) + 1)
  ELSE Accepted(CHOOSE n \in Existing(i) : TRUE)

\* What the business transaction decides about intent i with content c.
Verdict(i, c) ==
  IF ~permitted THEN Refused
  ELSE IF Existing(i) = {} THEN Accepted(Len(effects) + 1)
  ELSE LET n == CHOOSE n \in Existing(i) : TRUE
       IN IF effects[n].content = c THEN Accepted(n) ELSE Refused

Retained_OnlySuccess(result) ==  \* mutant: a refusal is not stored
  IF result.verdict = "refused" THEN Undecided ELSE result

\* Which answers are stored with the transaction: all that are not retryable.
Retained(result) == result

\* One transaction: a request already answered changes nothing.
Execute(r, c) ==
  IF results[r] # Undecided THEN UNCHANGED <<results, effects>>
  ELSE LET result == Verdict(r[2], c)
       IN /\ results' = [results EXCEPT ![r] = Retained(result)]
          /\ effects' = IF result = Accepted(Len(effects) + 1)
                        THEN Append(effects, [request |-> r, content |-> c]) ELSE effects

\* The answer sent for request r with content c.
AnswerTo(r, c) == IF results[r] # Undecided THEN results[r] ELSE Verdict(r[2], c)

HandleRequest(d) ==
  /\ up[d] # <<>>
  /\ LET m == Head(up[d])
         r == <<d, m.intent>>
     IN /\ Execute(r, m.content)
        /\ down' = [down EXCEPT ![d] =
                      Append(@, [intent |-> m.intent, result |-> AnswerTo(r, m.content)])]
  /\ up' = [up EXCEPT ![d] = Tail(@)]
  /\ UNCHANGED <<clientVars, stray, permitted, wiped, budgets>>

\* The transaction fails (sqlite3.Error): rolled back, answered 503.
FailRequest(d) ==
  /\ up[d] # <<>>
  /\ losses < MaxLosses
  /\ losses' = losses + 1
  /\ down' = [down EXCEPT ![d] = Append(@, [intent |-> Head(up[d]).intent, result |-> Busy])]
  /\ up' = [up EXCEPT ![d] = Tail(@)]
  /\ UNCHANGED <<clientVars, stray, server, badSaves, changes>>

\* A request of an abandoned connection is executed; nobody hears the answer.
HandleStray ==
  \E m \in stray :
    /\ Execute(m.request, m.content)
    /\ stray' = stray \ {m}
    /\ UNCHANGED <<clientVars, up, down, permitted, wiped, budgets>>

DropStray ==
  \E m \in stray :
    /\ stray' = stray \ {m}
    /\ UNCHANGED <<clientVars, up, down, server, budgets>>

\* The user is removed from the conversation, or joins it again.
ChangeMembership ==
  /\ changes < MaxChanges
  /\ changes' = changes + 1
  /\ permitted' = ~permitted
  /\ UNCHANGED <<clientVars, network, results, effects, wiped, losses, badSaves>>

\* A message is recalled by its sender, or burned.
Wipe(i) ==
  /\ Existing(i) # {}
  /\ i \notin wiped
  /\ wiped' = wiped \cup {i}
  /\ UNCHANGED <<clientVars, network, permitted, results, effects, budgets>>

-----------------------------------------------------------------------------
(* Device *)

Pending(d, q, rows) == {n \in DOMAIN q : rows[<<d, q[n]>>].status = "pending"}

NextPending_Newest(d, q, rows) ==  \* mutant: ORDER BY rowid DESC
  LET P == Pending(d, q, rows)
  IN IF P = {} THEN None ELSE q[CHOOSE n \in P : \A m \in P : m <= n]

\* The oldest pending row.
NextPending(d, q, rows) ==
  LET P == Pending(d, q, rows)
  IN IF P = {} THEN None ELSE q[CHOOSE n \in P : \A m \in P : n <= m]

Sends_NewOnly(s, i, resend) ==  \* mutant: the active request is never sent again
  s.ready /\ i # None /\ i # s.active

\* In session s, pump() sends intent i: the synchronisation has caught up, and
\* i is not the active request, or is due again.
Sends(s, i, resend) == s.ready /\ i # None /\ (resend \/ i # s.active)

\* The connection of d is gone; what it had sent may still arrive, once.
Disconnect(d) ==
  /\ session' = [session EXCEPT ![d] = Down]
  /\ up' = [up EXCEPT ![d] = <<>>]
  /\ down' = [down EXCEPT ![d] = <<>>]
  /\ stray' = stray \cup {[request |-> <<d, up[d][n].intent>>, content |-> up[d][n].content]
                            : n \in DOMAIN up[d]}

\* The device's database refuses a write.  The message queue stops its timer
\* and keeps the connection, the control queue disconnects.
StopPumping(d, s, answers) ==
  /\ badSaves < MaxBadSaves
  /\ badSaves' = badSaves + 1
  /\ IF kind = "message"
     THEN /\ session' = [session EXCEPT ![d] = [s EXCEPT !.timer = FALSE]]
          /\ down' = [down EXCEPT ![d] = answers]
          /\ UNCHANGED <<up, stray>>
     ELSE Disconnect(d)

\* pump() in session s with the rows in order q: the attempt is saved and sent,
\* or saving it fails, or there is nothing to send.  answers are the answers d
\* has still to handle.
Pump(d, s, q, rows, resend, answers) ==
  LET i == NextPending(d, q, rows)
  IN \/ /\ Sends(s, i, resend)
        /\ Len(up[d]) + Len(answers) < MaxQueue
        /\ session' = [session EXCEPT ![d] = [s EXCEPT !.active = i]]
        /\ up' = [up EXCEPT ![d] = Append(@, [intent |-> i, content |-> rows[<<d, i>>].content])]
        /\ down' = [down EXCEPT ![d] = answers]
        /\ UNCHANGED <<stray, badSaves>>
     \/ /\ Sends(s, i, resend)
        /\ StopPumping(d, s, answers)
     \/ /\ ~Sends(s, i, resend)
        /\ session' = [session EXCEPT
             ![d] = [s EXCEPT !.active = IF s.ready /\ i = None THEN None ELSE @]]
        /\ down' = [down EXCEPT ![d] = answers]
        /\ UNCHANGED <<up, stray, badSaves>>

\* welcome: the queue starts, and waits for the synchronisation.
Connect(d) ==
  /\ ~session[d].up
  /\ session' = [session EXCEPT ![d] = [Down EXCEPT !.up = TRUE, !.timer = TRUE]]
  /\ UNCHANGED <<kind, queue, row, network, server, budgets>>

\* The synchronisation has caught up with the stream, or falls behind again.
BecomeReady(d) ==
  /\ session[d].up /\ ~session[d].ready
  /\ Pump(d, [session[d] EXCEPT !.ready = TRUE], queue[d], row, FALSE, down[d])
  /\ UNCHANGED <<kind, queue, row, server, losses, changes>>

FallBehind(d) ==
  /\ session[d].ready
  /\ losses < MaxLosses
  /\ losses' = losses + 1
  /\ session' = [session EXCEPT ![d].ready = FALSE]
  /\ UNCHANGED <<kind, queue, row, network, server, badSaves, changes>>

\* The user asks for i with content c.  Asking again changes nothing; asking
\* for something else under the same intent is refused before it is saved.
Enqueue(d, i, c) ==
  /\ session[d].up
  /\ row[<<d, i>>].status = "none" \/ row[<<d, i>>].content = c
  /\ IF row[<<d, i>>].status = "none"
     THEN /\ queue' = [queue EXCEPT ![d] = Append(@, i)]
          /\ row' = [row EXCEPT ![<<d, i>>] = [status |-> "pending", content |-> c, entity |-> 0]]
     ELSE UNCHANGED <<queue, row>>
  /\ Pump(d, session[d], queue'[d], row', FALSE, down[d])
  /\ UNCHANGED <<kind, server, losses, changes>>

\* The user retries a failed message: the same request, pending again.
Retry(d, i) ==
  /\ kind = "message"
  /\ session[d].up
  /\ row[<<d, i>>].status = "failed"
  /\ row' = [row EXCEPT ![<<d, i>>].status = "pending"]
  /\ Pump(d, session[d], queue[d], row', FALSE, down[d])
  /\ UNCHANGED <<kind, queue, server, losses, changes>>

\* The retry timer, 5000 ms after the last attempt.
Tick(d) ==
  /\ session[d].ready /\ session[d].timer
  /\ Pump(d, session[d], queue[d], row, TRUE, down[d])
  /\ UNCHANGED <<kind, queue, row, server, losses, changes>>

Settled_Any(old, result) ==  \* mutant: a late answer overwrites a confirmation
  IF result = Busy THEN [old EXCEPT !.status = "pending"]
  ELSE [old EXCEPT !.status = IF result.verdict = "accepted" THEN "confirmed" ELSE "failed",
                   !.entity = result.entity]

\* A confirmed row is final; a failed control write too, while a late answer
\* still changes a failed message.
Final(old) == old.status = "confirmed" \/ (kind = "control" /\ old.status # "pending")

\* acknowledge(): what an answer makes of a row.
Settled(old, result) ==
  IF Final(old) THEN old
  ELSE IF result = Busy THEN [old EXCEPT !.status = "pending"]
  ELSE [old EXCEPT !.status = IF result.verdict = "accepted" THEN "confirmed" ELSE "failed",
                   !.entity = result.entity]

\* An answer arrives: it is saved and the next request goes out, or saving fails.
HandleAnswer(d) ==
  /\ session[d].up
  /\ down[d] # <<>>
  /\ LET m == Head(down[d])
         r == <<d, m.intent>>
     IN \/ /\ row' = [row EXCEPT ![r] = Settled(@, m.result)]
           /\ Pump(d, session[d], queue[d], row', FALSE, Tail(down[d]))
        \/ /\ ~Final(row[r])
           /\ UNCHANGED row
           /\ StopPumping(d, session[d], Tail(down[d]))
  /\ UNCHANGED <<kind, queue, server, losses, changes>>

\* The synchronisation delivers the recall or burn of the user's own message:
\* the row of that intent, whatever its state, is settled and its text erased.
SettleTerminal(d, i) ==
  /\ kind = "message"
  /\ session[d].up
  /\ i \in wiped
  /\ row[<<d, i>>].status # "none"
  /\ \E n \in Existing(i) :
       row' = [row EXCEPT ![<<d, i>>].status = "confirmed", ![<<d, i>>].entity = n]
  /\ UNCHANGED <<kind, queue, session, network, server, budgets>>

\* The connection is lost, the server restarts, the user disconnects, or the
\* device crashes: rows survive, everything else of the device is gone.
LoseConnection(d) ==
  /\ session[d].up
  /\ losses < MaxLosses
  /\ losses' = losses + 1
  /\ Disconnect(d)
  /\ UNCHANGED <<kind, queue, row, server, badSaves, changes>>

Next ==
  \/ \E d \in Devices :
       \/ HandleRequest(d) \/ FailRequest(d)
       \/ Connect(d) \/ BecomeReady(d) \/ FallBehind(d)
       \/ Tick(d) \/ HandleAnswer(d) \/ LoseConnection(d)
       \/ \E i \in Intents : Retry(d, i) \/ SettleTerminal(d, i)
       \/ \E i \in Intents, c \in Contents : Enqueue(d, i, c)
  \/ \E i \in Intents : Wipe(i)
  \/ HandleStray \/ DropStray \/ ChangeMembership

Spec == Init /\ [][Next]_vars

\* The timers and both ends of a connection keep running.
Fairness ==
  \A d \in Devices :
    /\ WF_vars(Connect(d))
    /\ WF_vars(BecomeReady(d))
    /\ WF_vars(Tick(d))
    /\ WF_vars(HandleRequest(d))
    /\ WF_vars(HandleAnswer(d))

FairSpec == Spec /\ Fairness

\* With a user who keeps retrying what failed.
RetryingSpec == FairSpec /\ \A d \in Devices, i \in Intents : WF_vars(Retry(d, i))

-----------------------------------------------------------------------------
(* Properties *)

EffectsOf(r) == {n \in DOMAIN effects : effects[n].request = r}

\* A request takes effect at most once, however often it was sent, answered,
\* lost or executed late; and a message intent of the user appears once in the
\* conversation even when two devices sent it (ControlWriteRepo.execute,
\* MessageService._apply_send_message).
AtMostOneEffect ==
  \A m, n \in DOMAIN effects :
    m # n => /\ effects[m].request # effects[n].request
             /\ kind = "message" => effects[m].request[2] # effects[n].request[2]

\* A row shown as sent is in the conversation under its intent and with its
\* text, unless that message was recalled or burned since
\* (MiniImMessageOutbox::acknowledge, MiniImControlWriteStore::acknowledge).
ConfirmedTookEffect ==
  \A r \in Requests : row[r].status = "confirmed" =>
    /\ row[r].entity \in DOMAIN effects
    /\ LET e == effects[row[r].entity]
       IN /\ IF kind = "message" THEN e.request[2] = r[2] ELSE e.request = r
          /\ e.content = row[r].content \/ r[2] \in wiped

\* A request shown as failed has not taken effect and never will on its own:
\* the refusal is on record, so no copy still under way can be executed
\* (ControlWriteRepo.execute keeps definite failures).
FailedNeverTakesEffect ==
  \A r \in Requests : row[r].status = "failed" =>
    EffectsOf(r) = {} /\ results[r] = Refused

\* What one device asked for takes effect in the order in which its user
\* asked, across resends, reconnections and late copies
\* (nextPending: ORDER BY rowid LIMIT 1, one active request).
EffectsKeepOrder ==
  \A d \in Devices : \A m, n \in DOMAIN queue[d] : m < n =>
    \A x \in EffectsOf(<<d, queue[d][m]>>), y \in EffectsOf(<<d, queue[d][n]>>) : x < y

\* Once connections hold and the device can save, every pending request is
\* answered (the 500 ms timer, resending after 5000 ms, pumping on ready).
\* A failed save stops the timer of the message queue until the next welcome
\* (failMessageOutbox), so a message may wait after one; a control write may not.
PendingIsSettled ==
  \A r \in Requests :
    (row[r].status = "pending") ~>
      \/ row[r].status # "pending"
      \/ kind = "message" /\ session[r[1]].up /\ ~session[r[1]].timer

\* A message that failed while its author was no member is sent when it is
\* retried after the author became a member again.  This is what
\* tools/test_native_flow.py:1219 (explicit retry after a 403) says; the code
\* answers the retried request from the stored refusal.
FailedCanBeRetried ==
  \A r \in Requests :
    (row[r].status = "failed" /\ permitted) ~> (row[r].status = "confirmed" \/ ~permitted)

\* The design implements ExactlyOnce: in particular nothing is taken back, an
\* effect, a stored answer, or what a device told its user of a request that took
\* effect (acknowledge of a confirmed row).
Told(r) ==
  CASE row[r].status = "confirmed" -> "accepted"
    [] row[r].status = "failed" -> "refused"
    [] OTHER -> "nothing"

KeyOf(k) == [r \in Requests |-> IF k = "message" THEN r[2] ELSE r]

Once == INSTANCE ExactlyOnce WITH
  Keys <- {KeyOf(k) : k \in Kinds},
  key <- KeyOf(kind),
  asked <- {r \in Requests : row[r].status # "none"},
  verdict <- [r \in Requests |-> results[r].verdict],
  log <- [n \in DOMAIN effects |-> effects[n].request],
  told <- [r \in Requests |-> Told(r)]

ExactlyOnceSpec == Once!Spec

=============================================================================
