--------------------------- MODULE FileDelivery ---------------------------
(***************************************************************************)
(* What the transfer of a file promises, in either direction, without      *)
(* connections, streams or pieces: its copy appears whole and at once, the *)
(* server decides once whether it was completed, which needs the copy, or  *)
(* cancelled, and the device tells its user what was decided, in the end   *)
(* for good.  FileUpload and FileDownload implement it.                    *)
(***************************************************************************)

VARIABLES
  copy,     \* the file at its destination: none, whole, or whole once and lost
  outcome,  \* what the server decided
  shown     \* what the device tells its user of the outcome

vars == <<copy, outcome, shown>>

Init ==
  /\ copy = "none"
  /\ outcome = "open"
  /\ shown = "nothing"

\* The copy appears, or one that was lost appears again.
Publish ==
  /\ copy' = "whole"
  /\ UNCHANGED <<outcome, shown>>

\* Others take it away.
Lose ==
  /\ copy = "whole"
  /\ copy' = "lost"
  /\ UNCHANGED <<outcome, shown>>

\* With the copy in place or, where it is the server's own, in the same step.
Complete ==
  /\ outcome = "open"
  /\ outcome' = "completed"
  /\ copy' \in {copy, "whole"} \ {"none"}
  /\ UNCHANGED shown

Cancel ==
  /\ outcome = "open"
  /\ outcome' = "cancelled"
  /\ UNCHANGED <<copy, shown>>

\* Before the end the device may be told that it is too late to cancel, or be
\* asked again.
Show ==
  /\ shown \notin {"completed", "cancelled"}
  /\ shown' \in {"nothing"} \cup (IF outcome = "open" THEN {} ELSE {outcome})
                 \cup (IF outcome = "completed" THEN {"tooLate"} ELSE {})
  /\ UNCHANGED <<copy, outcome>>

Next == Publish \/ Lose \/ Complete \/ Cancel \/ Show

Spec == Init /\ [][Next]_vars

=============================================================================
