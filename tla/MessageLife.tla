---------------------------- MODULE MessageLife ----------------------------
(***************************************************************************)
(* What a conversation promises of a message, without members, positions,  *)
(* timers and tables: it is for the users it was sent to, for nobody else  *)
(* and from then on; each of them can be handed its text until it is gone  *)
(* for that user, and never again; what is read stays read; and a text     *)
(* goes one user at a time from those who have read it, or is taken back   *)
(* from all of them at once.  ChatStore implements it.                     *)
(***************************************************************************)
EXTENDS Integers

CONSTANTS
  Users,
  Last     \* the last message there may be

VARIABLES
  life,    \* what a message is to a user: none, unread, read, gone
  text     \* the messages whose text a user can be handed

vars == <<life, text>>

Messages == 1 .. Last

Init ==
  /\ life = [m \in Messages |-> [u \in Users |-> "none"]]
  /\ text = [u \in Users |-> {}]

\* Messages are sent one after the other, each to somebody.  A sender that is among
\* its receivers has read it; one that is not gets nothing.
Send(m, sender, receivers) ==
  /\ receivers # {}
  /\ \A n \in Messages : n < m <=> \E u \in Users : life[n][u] # "none"
  /\ life' = [n \in Messages |->
                [u \in Users |-> IF n # m THEN life[n][u]
                                 ELSE IF u \notin receivers THEN "none"
                                 ELSE IF u = sender THEN "read" ELSE "unread"]]
  /\ text' = [u \in Users |-> IF u \in receivers THEN text[u] \cup {m} ELSE text[u]]

\* A reader reads everything it has, up to a message.
Read(reader, through) ==
  /\ life' = [m \in Messages |->
                [u \in Users |-> IF u = reader /\ m <= through /\ life[m][u] = "unread"
                                 THEN "read" ELSE life[m][u]]]
  /\ UNCHANGED text

\* Texts burn for users who have read them.
Burn(due) ==
  /\ \A d \in due : life[d[1]][d[2]] = "read"
  /\ life' = [m \in Messages |-> [u \in Users |-> IF <<m, u>> \in due THEN "gone" ELSE life[m][u]]]
  /\ text' = [u \in Users |-> {m \in text[u] : <<m, u>> \notin due}]

\* A message is taken back, read or not.
Recall(m) ==
  /\ \E u \in Users : life[m][u] \in {"unread", "read"}
  /\ life' = [n \in Messages |->
                [u \in Users |-> IF n = m /\ life[n][u] # "none" THEN "gone" ELSE life[n][u]]]
  /\ text' = [u \in Users |-> text[u] \ {m}]

Next ==
  \/ \E m \in Messages, u \in Users, us \in SUBSET Users : Send(m, u, us)
  \/ \E u \in Users, m \in Messages : Read(u, m)
  \/ \E due \in SUBSET (Messages \X Users) : Burn(due)
  \/ \E m \in Messages : Recall(m)

Spec == Init /\ [][Next]_vars

=============================================================================
