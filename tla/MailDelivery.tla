------------------------------ MODULE MailDelivery ------------------------------
(***************************************************************************)
(* What an SmtpServer object promises its owner about each message, with   *)
(* neither commands nor connections: a message is delivered at most once,  *)
(* it is delivered when it is reported sent, and it is never delivered     *)
(* when it is reported refused.  A message reported in doubt may have been *)
(* delivered, or may still be, after the report.                           *)
(***************************************************************************)
EXTENDS Naturals, Sequences

CONSTANT MaxSends

VARIABLES
  submitted,  \* how many messages the owner has handed over
  delivered,  \* the messages the relay has accepted, by number
  reports     \* what the owner was told of each, in order

Reports == {"sent", "refused", "doubt"}

Init == submitted = 0 /\ delivered = {} /\ reports = <<>>

(* One message at a time: the next comes after the report on the last. *)
Submit ==
  /\ Len(reports) = submitted /\ submitted < MaxSends
  /\ submitted' = submitted + 1
  /\ UNCHANGED <<delivered, reports>>

Deliver(n) ==
  /\ n \notin delivered
  /\ n > Len(reports) \/ reports[n] = "doubt"
  /\ delivered' = delivered \cup {n}
  /\ UNCHANGED <<submitted, reports>>

Report(r) ==
  /\ Len(reports) < submitted
  /\ r = "sent"    => submitted \in delivered
  /\ r = "refused" => submitted \notin delivered
  /\ reports' = Append(reports, r)
  /\ UNCHANGED <<submitted, delivered>>

Next ==
  \/ Submit
  \/ \E n \in 1 .. submitted : Deliver(n)
  \/ \E r \in Reports : Report(r)

Spec == Init /\ [][Next]_<<submitted, delivered, reports>>
===============================================================================
