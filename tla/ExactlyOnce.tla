---------------------------- MODULE ExactlyOnce ----------------------------
(***************************************************************************)
(* What the durable request queues promise their user, without connections,*)
(* retries or lost answers: a request is decided once, its effect enters   *)
(* the log at most once, and what its author is told is what was decided   *)
(* (or that an equal request has taken effect).  DurableRequests           *)
(* implements it.                                                          *)
(***************************************************************************)
EXTENDS Naturals, Sequences

CONSTANTS
  Requests,
  Keys      \* the rules for which requests ask for one effect

VARIABLES
  key,      \* the rule in force: requests with one key ask for one effect
  asked,    \* requests whose author was promised an answer
  verdict,  \* what was decided
  log,      \* the effects, in order
  told      \* what the author believes

vars == <<key, asked, verdict, log, told>>

Init ==
  /\ key \in Keys
  /\ asked = {}
  /\ verdict = [r \in Requests |-> "none"]
  /\ log = <<>>
  /\ told = [r \in Requests |-> "nothing"]

InLog(k) == \E n \in DOMAIN log : key[log[n]] = k

Ask(r) ==
  /\ r \notin asked
  /\ asked' = asked \cup {r}
  /\ UNCHANGED <<key, verdict, log, told>>

Refuse(r) ==
  /\ verdict[r] = "none"
  /\ verdict' = [verdict EXCEPT ![r] = "refused"]
  /\ UNCHANGED log

Accept(r) ==
  /\ verdict[r] = "none"
  /\ verdict' = [verdict EXCEPT ![r] = "accepted"]
  /\ IF InLog(key[r]) THEN UNCHANGED log ELSE log' = Append(log, r)

Decide(r) ==
  /\ r \in asked
  /\ Refuse(r) \/ Accept(r)
  /\ UNCHANGED <<key, asked, told>>

\* The author learns what was decided, or that the effect is in the log, which
\* settles the matter.
Learn(r) ==
  /\ r \in asked
  /\ told[r] # "accepted"
  /\ \/ verdict[r] # "none" /\ told' = [told EXCEPT ![r] = verdict[r]]
     \/ InLog(key[r]) /\ told' = [told EXCEPT ![r] = "accepted"]
  /\ UNCHANGED <<key, asked, verdict, log>>

\* A refused request is asked again.
AskAgain(r) ==
  /\ told[r] = "refused"
  /\ told' = [told EXCEPT ![r] = "nothing"]
  /\ UNCHANGED <<key, asked, verdict, log>>

Next == \E r \in Requests : Ask(r) \/ Decide(r) \/ Learn(r) \/ AskAgain(r)

Spec == Init /\ [][Next]_vars

=============================================================================
