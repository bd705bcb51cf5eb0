-------------------------- MODULE EventReplication --------------------------
(***************************************************************************)
(* What the synchronisation of a user's events promises, without saying    *)
(* how: a stream that only grows, replicas that only gain events of it,    *)
(* and reports "this replica has applied everything up to n" that are true *)
(* when they are recorded and never taken back.  SyncStream implements it. *)
(***************************************************************************)
EXTENDS Naturals

CONSTANT Devices

VARIABLES
  total,     \* length of the stream
  have,      \* have[d]: the events replica d has applied
  reported   \* reported[d]: the prefix recorded as applied by replica d

vars == <<total, have, reported>>

Init ==
  /\ total = 0
  /\ have = [d \in Devices |-> {}]
  /\ reported = [d \in Devices |-> 0]

\* Events are appended.
Grow ==
  /\ total' \in Nat
  /\ total' > total
  /\ UNCHANGED <<have, reported>>

\* A replica applies events of the stream, in any order.
Receive(d) ==
  /\ \E S \in SUBSET (1..total) : have' = [have EXCEPT ![d] = @ \cup S]
  /\ UNCHANGED <<total, reported>>

\* A longer prefix is recorded for a replica that holds all of it.  Recording
\* may itself append events (deliveries announced to the sender).
Report(d) ==
  /\ \E n \in 1..total :
       /\ n > reported[d]
       /\ \A p \in 1..n : p \in have[d]
       /\ reported' = [reported EXCEPT ![d] = n]
  /\ total' \in Nat
  /\ total' >= total
  /\ UNCHANGED have

Next == Grow \/ \E d \in Devices : Receive(d) \/ Report(d)

Spec == Init /\ [][Next]_vars

=============================================================================
