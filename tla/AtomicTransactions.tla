------------------------- MODULE AtomicTransactions -------------------------
(***************************************************************************)
(* What the transactions on one shipment promise, without statements,      *)
(* locks and queues: each takes effect in one step, or not at all.  In     *)
(* that step it puts its status and its history row, and a webhook finds   *)
(* the payment not PAID, although it looked two statements earlier.  This  *)
(* is how Delivery takes them.                                             *)
(***************************************************************************)
CONSTANT Transactions

Webhooks == {"webhookPaid", "webhookUnpaid", "webhookPending"}
Kinds == {"scanShipment", "pickShipment", "pickUpShipment", "expiryJob"} \cup Webhooks

VARIABLES
  kind,       \* which operation each transaction belongs to
  outcome,    \* running, or how it ended
  status,     \* the transaction whose status the shipment has
  newest,     \* the transaction of the newest history row
  paid        \* does the row of the payment say PAID

Init ==
  /\ kind \in [Transactions -> Kinds]
  /\ outcome = [t \in Transactions |-> "running"]
  /\ status = "before" /\ newest = "before"
  /\ paid = FALSE

End(t, result) ==
  /\ outcome[t] = "running"
  /\ outcome' = [outcome EXCEPT ![t] = result]
  /\ UNCHANGED kind

Apply(t) ==
  /\ End(t, "committed")
  /\ kind[t] \in Webhooks => ~paid
  /\ IF kind[t] = "webhookPending" THEN UNCHANGED <<status, newest>>
     ELSE status' = t /\ newest' = t
  /\ paid' = (kind[t] = "webhookPaid"
              \/ (paid /\ kind[t] \notin Webhooks \cup {"expiryJob"}))

\* The webhook of a payment that is PAID already changes nothing.
Skip(t) ==
  /\ End(t, "skipped")
  /\ kind[t] \in Webhooks /\ paid
  /\ UNCHANGED <<status, newest, paid>>

Fail(t) ==
  /\ End(t, "rolledBack")
  /\ UNCHANGED <<status, newest, paid>>

Next == \E t \in Transactions : Apply(t) \/ Skip(t) \/ Fail(t)

Spec == Init /\ [][Next]_<<kind, outcome, status, newest, paid>>
=============================================================================
