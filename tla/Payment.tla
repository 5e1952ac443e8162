------------------------------ MODULE Payment ------------------------------
(***************************************************************************)
(* The life of a shipment's payment, from ShipmentsService.create to the   *)
(* READY_TO_PICKUP that lets a courier touch the parcel.  Four parties     *)
(* change the same two rows (Payment, Shipment) without a common lock:     *)
(*   - create(), which is three database steps around one call to Xendit;  *)
(*   - handlePaymentWebhook(), one instance per notification being served; *)
(*   - the delayed Bull job payment-expired-job;                           *)
(*   - a crash of the Node process, which loses every request in flight.   *)
(* Xendit itself is external: it owns the invoice, and it repeats every    *)
(* notification until one is answered 200.                                 *)
(*                                                                         *)
(* Every await of the code is a step boundary.  A Prisma transaction       *)
(* publishes its writes at its commit; while it is open it holds the lock  *)
(* of the payment row it has updated (InnoDB).                             *)
(***************************************************************************)
EXTENDS Naturals, Sequences, FiniteSets

CONSTANTS
  Shipments,     \* shipments being created
  NoShipment,    \* the value of an unused handler
  Handlers,      \* webhook requests the process serves at the same time
  Notified,      \* the statuses Xendit sends notifications about
  MaxFaults,     \* bound: how many failures happen in a behaviour
  MaxAttempts    \* attempts of a Bull job (queue.service.ts: 3)

Statuses == {"PENDING", "PAID", "SETTLED", "EXPIRED", "FAILED"}
Paid == {"PAID", "SETTLED"}

ASSUME PaymentAssumption ==
  /\ NoShipment \notin Shipments
  /\ Notified \subseteq Statuses
  /\ MaxFaults \in Nat
  /\ MaxAttempts \in Nat \ {0}

VARIABLES
  invoice,       \* Xendit: the invoice of each shipment
  due,           \* has the invoice's expiryDate passed
  sent,          \* notifications Xendit has to deliver
  acked,         \* notifications answered 200
  create,        \* how far the create() of each shipment is
  payment,       \* Payment.status, "NoRow" before the row exists
  paymentStatus, \* Shipment.paymentStatus, "NoRow" before the row exists
  ready,         \* deliveryStatus READY_TO_PICKUP, trackingNumber, qrCodeImage
  history,       \* Shipment's rows of ShipmentHistory, oldest first
  hook,          \* the webhook request each handler is serving
  job,           \* the payment-expired-job of each payment
  attempts,      \* attempts of that job that have failed
  stalled,       \* has that job been taken back from a dead worker
  mails,         \* types of email ever queued for each shipment
  faults         \* failures so far

xenditVars == <<invoice, due, sent>>
rowVars    == <<payment, paymentStatus, ready, history>>
jobVars    == <<job, attempts, stalled>>
vars == <<invoice, due, sent, acked, create, payment, paymentStatus, ready,
          history, hook, job, attempts, stalled, mails, faults>>

Notifications == [ship : Shipments, status : Notified]

CreateSteps == {"idle", "saved", "calling", "refused", "invoiced", "recorded",
                "mailed", "done", "rejected", "lost"}
CreateEnded == {"idle", "done", "rejected", "lost"}
InTx     == {"updated", "cancelled", "mailed"}
JobSteps == {"none", "delayed", "active", "loaded", "expired",
             "completed", "failed", "removed"}
JobRunning == {"active", "loaded", "expired"}
MailTypes  == {"payment-notification", "payment-success",
               "payment-success without tracking number", "payment-expired"}
HistoryRows == {"PENDING", "READY_TO_PICKUP", "EXPIRED", "FAILED"}

\* A request: where it is, its notification, and the snapshot of ready it read.
Requests == [pc : {"idle", "found"} \cup InTx, ship : Shipments \cup {NoShipment},
             status : Statuses, ready : BOOLEAN]

Idle == [pc |-> "idle", ship |-> NoShipment, status |-> "PENDING", ready |-> FALSE]

Init ==
  /\ invoice = [s \in Shipments |-> "none"]
  /\ due = [s \in Shipments |-> FALSE]
  /\ sent = {}
  /\ acked = {}
  /\ create = [s \in Shipments |-> "idle"]
  /\ payment = [s \in Shipments |-> "NoRow"]
  /\ paymentStatus = [s \in Shipments |-> "NoRow"]
  /\ ready = [s \in Shipments |-> FALSE]
  /\ history = [s \in Shipments |-> <<>>]
  /\ hook = [h \in Handlers |-> Idle]
  /\ job = [s \in Shipments |-> "none"]
  /\ attempts = [s \in Shipments |-> 0]
  /\ stalled = [s \in Shipments |-> FALSE]
  /\ mails = [s \in Shipments |-> {}]
  /\ faults = 0

\* Something fails: a call, a statement, a response on its way.
Fault == faults < MaxFaults /\ faults' = faults + 1

Queue(s, type) == mails' = [mails EXCEPT ![s] = @ \cup {type}]

---------------------------------------------------------------------------
(* Xendit, external: what create() and the webhook rely on.                *)

\* Xendit has something to tell about s, if it notifies that status at all.
Announce(s, status) ==
  sent' = sent \cup {n \in Notifications : n.ship = s /\ n.status = status}

\* The customer pays an open invoice before its deadline.
XenditPay(s) ==
  /\ invoice[s] = "PENDING" /\ ~due[s]
  /\ invoice' = [invoice EXCEPT ![s] = "PAID"]
  /\ Announce(s, "PAID")
  /\ UNCHANGED <<due, acked, create, rowVars, hook, jobVars, mails, faults>>

XenditSettle(s) ==
  /\ invoice[s] = "PAID"
  /\ invoice' = [invoice EXCEPT ![s] = "SETTLED"]
  /\ Announce(s, "SETTLED")
  /\ UNCHANGED <<due, acked, create, rowVars, hook, jobVars, mails, faults>>

XenditExpire(s) ==
  /\ invoice[s] = "PENDING" /\ due[s]
  /\ invoice' = [invoice EXCEPT ![s] = "EXPIRED"]
  /\ Announce(s, "EXPIRED")
  /\ UNCHANGED <<due, acked, create, rowVars, hook, jobVars, mails, faults>>

\* While the invoice is open: it is open, or an attempt to pay it failed.
XenditReport(s, status) ==
  /\ invoice[s] = "PENDING"
  /\ status \in {"PENDING", "FAILED"} \cap Notified
  /\ [ship |-> s, status |-> status] \notin sent
  /\ Announce(s, status)
  /\ UNCHANGED <<invoice, due, acked, create, rowVars, hook, jobVars, mails, faults>>

\* The expiryDate of the invoice passes, on Xendit's clock and on ours.
Deadline(s) ==
  /\ invoice[s] # "none" /\ ~due[s]
  /\ due' = [due EXCEPT ![s] = TRUE]
  /\ UNCHANGED <<invoice, sent, acked, create, rowVars, hook, jobVars, mails, faults>>

\* The 200 gets lost on its way back: Xendit will send n again.
ForgetAck(n) ==
  /\ n \in acked
  /\ Fault
  /\ acked' = acked \ {n}
  /\ UNCHANGED <<xenditVars, create, rowVars, hook, jobVars, mails>>

---------------------------------------------------------------------------
(* ShipmentsService.create.                                                *)

Step(s, from, to) == create[s] = from /\ create' = [create EXCEPT ![s] = to]

\* First transaction: shipment and shipment detail.
SaveShipment(s) ==
  /\ Step(s, "idle", "saved")
  /\ paymentStatus' = [paymentStatus EXCEPT ![s] = "PENDING"]
  /\ UNCHANGED <<xenditVars, acked, payment, ready, history, hook, jobVars, mails, faults>>

\* xenditService.createInvoice: Xendit opens the invoice, then answers.
CreateInvoice(s) ==
  /\ Step(s, "saved", "calling")
  /\ invoice' = [invoice EXCEPT ![s] = "PENDING"]
  /\ UNCHANGED <<due, sent, acked, rowVars, hook, jobVars, mails, faults>>

InvoiceAnswered(s) ==
  /\ Step(s, "calling", "invoiced")
  /\ UNCHANGED <<xenditVars, acked, rowVars, hook, jobVars, mails, faults>>

\* createInvoice throws: Xendit refused, or opened the invoice and the answer is lost.
InvoiceThrows(s) ==
  /\ Step(s, "saved", "refused") \/ Step(s, "calling", "refused")
  /\ Fault
  /\ UNCHANGED <<xenditVars, acked, rowVars, hook, jobVars, mails>>

\* The catch block: compensate the first transaction, answer 503.
Compensate(s) ==
  /\ Step(s, "refused", "rejected")
  /\ paymentStatus' = [paymentStatus EXCEPT ![s] = "FAILED"]
  /\ UNCHANGED <<xenditVars, acked, payment, ready, history, hook, jobVars, mails, faults>>

\* Second transaction: the payment and the first history row.
RecordPayment(s) ==
  /\ Step(s, "invoiced", "recorded")
  /\ payment' = [payment EXCEPT ![s] = "PENDING"]
  /\ history' = [history EXCEPT ![s] = Append(@, "PENDING")]
  /\ UNCHANGED <<xenditVars, acked, paymentStatus, ready, hook, jobVars, mails, faults>>

\* The compensation or the second transaction throws: nothing catches it, answer 500.
CreateThrows(s) ==
  /\ Step(s, "refused", "lost") \/ Step(s, "invoiced", "lost")
  /\ Fault
  /\ UNCHANGED <<xenditVars, acked, rowVars, hook, jobVars, mails>>

\* addEmailJob; a failure is only logged.
QueueNotification(s) ==
  /\ Step(s, "recorded", "mailed")
  /\ \/ Queue(s, "payment-notification") /\ UNCHANGED faults
     \/ Fault /\ UNCHANGED mails
  /\ UNCHANGED <<xenditVars, acked, rowVars, hook, jobVars>>

\* addPaymentExpiryJob; a failure is only logged, and then there is no job.
QueueExpiry(s) ==
  /\ Step(s, "mailed", "done")
  /\ \/ job' = [job EXCEPT ![s] = "delayed"] /\ UNCHANGED faults
     \/ Fault /\ UNCHANGED job
  /\ UNCHANGED <<xenditVars, acked, rowVars, hook, attempts, stalled, mails>>

---------------------------------------------------------------------------
(* ShipmentsService.handlePaymentWebhook.                                  *)

Goto(h, pc) == hook' = [hook EXCEPT ![h].pc = pc]

\* The transaction of some handler holds the lock of s's payment row.
RowLocked(s) == \E h \in Handlers : hook[h].ship = s /\ hook[h].pc \in InTx

\* The answer to the notification h serves; only a 200 stops Xendit's retries.
RespondAlways200(h, ok) ==
  acked' = acked \cup {[ship |-> hook[h].ship, status |-> hook[h].status]}
Respond(h, ok) ==
  acked' = IF ok THEN acked \cup {[ship |-> hook[h].ship, status |-> hook[h].status]}
                 ELSE acked

\* Xendit delivers n, in any order, possibly to several handlers at once, and
\* the handler reads the payment with its shipment.  Without a payment row it
\* answers 404: nothing changes and n stays unanswered.
Deliver(h, n) ==
  /\ hook[h] = Idle
  /\ n \in sent \ acked
  /\ payment[n.ship] # "NoRow"
  /\ hook' = [hook EXCEPT ![h] = [pc |-> "found", ship |-> n.ship, status |-> n.status,
                                  ready |-> ready[n.ship]]]
  /\ UNCHANGED <<xenditVars, acked, create, rowVars, jobVars, mails, faults>>

\* The where clause of updateMany, evaluated on the locked row.
NotYetPaidUnchecked(s) == TRUE
NotYetPaid(s) == payment[s] \notin Paid

\* The branch of the handler that a status takes.
PaidBranchUnlessExpired(status) == status # "EXPIRED"
PaidBranch(status) == status \in Paid
ExpiryBranch(status) == status \in {"EXPIRED", "FAILED"}

\* updateMany matches the row: the transaction now holds it.
UpdatePayment(h) ==
  /\ hook[h].pc = "found"
  /\ ~RowLocked(hook[h].ship)
  /\ NotYetPaid(hook[h].ship)
  /\ IF PaidBranch(hook[h].status) \/ ExpiryBranch(hook[h].status)
       THEN Goto(h, "updated")
       ELSE Goto(h, "mailed")
  /\ UNCHANGED <<xenditVars, acked, create, rowVars, jobVars, mails, faults>>

\* updateMany matches nothing: already PAID or SETTLED, skip and answer 200.
SkipPaid(h) ==
  /\ hook[h].pc = "found"
  /\ ~RowLocked(hook[h].ship)
  /\ ~NotYetPaid(hook[h].ship)
  /\ hook' = [hook EXCEPT ![h] = Idle]
  /\ Respond(h, TRUE)
  /\ UNCHANGED <<xenditVars, create, rowVars, jobVars, mails, faults>>

\* cancelPaymentExpiredJob removes a job that is not running; what it throws
\* (Redis, or a job that has just become active) is only logged.
CancelExpiry(h) ==
  /\ hook[h].pc = "updated"
  /\ Goto(h, "cancelled")
  /\ LET s == hook[h].ship IN
       \/ /\ job' = [job EXCEPT ![s] = IF @ = "delayed" THEN "removed" ELSE @]
          /\ UNCHANGED faults
       \/ Fault /\ UNCHANGED job
  /\ UNCHANGED <<xenditVars, acked, create, rowVars, attempts, stalled, mails>>

\* The email the branch queues; the success one carries the tracking number
\* that the handler read before it wrote one.
OutcomeMail(r) ==
  IF ~PaidBranch(r.status) THEN "payment-expired"
  ELSE IF r.ready THEN "payment-success"
  ELSE "payment-success without tracking number"

QueueOutcome(h) ==
  /\ hook[h].pc = "cancelled"
  /\ Goto(h, "mailed")
  /\ \/ Queue(hook[h].ship, OutcomeMail(hook[h])) /\ UNCHANGED faults
     \/ Fault /\ UNCHANGED mails
  /\ UNCHANGED <<xenditVars, acked, create, rowVars, jobVars>>

\* What the transaction writes to the shipment and to its history.
MirrorPaidOnly(s, status) == IF PaidBranch(status) THEN status ELSE paymentStatus[s]
Mirror(s, status) ==
  IF PaidBranch(status) \/ ExpiryBranch(status) THEN status ELSE paymentStatus[s]
TrailPaidOnly(s, status) ==
  IF PaidBranch(status) THEN Append(history[s], "READY_TO_PICKUP") ELSE history[s]
Trail(s, status) ==
  IF PaidBranch(status) THEN Append(history[s], "READY_TO_PICKUP")
  ELSE IF ExpiryBranch(status) THEN Append(history[s], status)
  ELSE history[s]

CommitWebhook(h) ==
  /\ hook[h].pc = "mailed"
  /\ LET s == hook[h].ship
         status == hook[h].status
     IN /\ payment' = [payment EXCEPT ![s] = status]
        /\ paymentStatus' = [paymentStatus EXCEPT ![s] = Mirror(s, status)]
        /\ history' = [history EXCEPT ![s] = Trail(s, status)]
        /\ ready' = [ready EXCEPT ![s] = @ \/ PaidBranch(status)]
  /\ hook' = [hook EXCEPT ![h] = Idle]
  /\ Respond(h, TRUE)
  /\ UNCHANGED <<xenditVars, create, jobVars, mails, faults>>

\* The read or the transaction throws (a statement, generateQrCode, a timeout):
\* it rolls back, the answer is an error.  What was done to the queues stays.
WebhookThrows(h) ==
  /\ hook[h].pc # "idle"
  /\ Fault
  /\ hook' = [hook EXCEPT ![h] = Idle]
  /\ Respond(h, FALSE)
  /\ UNCHANGED <<xenditVars, create, rowVars, jobVars, mails>>

---------------------------------------------------------------------------
(* PaymentExpiredQueueProcessor.handleExpiryPayment.                       *)

SetJob(s, step) == job' = [job EXCEPT ![s] = step]

\* Bull hands a job whose delay is over to the worker, which runs one at a time.
JobStart(s) ==
  /\ job[s] = "delayed" /\ due[s]
  /\ \A t \in Shipments : job[t] \notin JobRunning
  /\ SetJob(s, "active")
  /\ UNCHANGED <<xenditVars, acked, create, rowVars, hook, attempts, stalled, mails, faults>>

\* The guard of the job, on what it reads outside any transaction.
NeverExpires(s) == FALSE
StillPending(s) == payment[s] = "PENDING"

JobRead(s) ==
  /\ job[s] = "active"
  /\ SetJob(s, IF StillPending(s) THEN "loaded" ELSE "completed")
  /\ UNCHANGED <<xenditVars, acked, create, rowVars, hook, attempts, stalled, mails, faults>>

\* The transaction of the job: it updates by id, whatever the row says by now.
JobExpire(s) ==
  /\ job[s] = "loaded"
  /\ ~RowLocked(s)
  /\ SetJob(s, "expired")
  /\ payment' = [payment EXCEPT ![s] = "EXPIRED"]
  /\ paymentStatus' = [paymentStatus EXCEPT ![s] = "EXPIRED"]
  /\ history' = [history EXCEPT ![s] = Append(@, "EXPIRED")]
  /\ UNCHANGED <<xenditVars, acked, create, ready, hook, attempts, stalled, mails, faults>>

\* addEmailJob; a failure is only logged.
JobMail(s) ==
  /\ job[s] = "expired"
  /\ SetJob(s, "completed")
  /\ \/ Queue(s, "payment-expired") /\ UNCHANGED faults
     \/ Fault /\ UNCHANGED mails
  /\ UNCHANGED <<xenditVars, acked, create, rowVars, hook, attempts, stalled>>

\* The read or the transaction throws: Bull retries after a backoff, or gives up.
RetryOrFail(s) == IF attempts[s] + 1 < MaxAttempts THEN "delayed" ELSE "failed"

JobThrows(s) ==
  /\ job[s] \in {"active", "loaded"}
  /\ Fault
  /\ SetJob(s, RetryOrFail(s))
  /\ attempts' = [attempts EXCEPT ![s] = @ + 1]
  /\ UNCHANGED <<xenditVars, acked, create, rowVars, hook, stalled, mails>>

---------------------------------------------------------------------------
\* The process dies and is restarted.  Requests are gone, open transactions
\* roll back; Redis keeps the jobs, and Bull takes a running one back once.
Crash ==
  /\ Fault
  /\ create' = [s \in Shipments |->
                  IF create[s] \in CreateEnded THEN create[s] ELSE "lost"]
  /\ hook' = [h \in Handlers |-> Idle]
  /\ job' = [s \in Shipments |->
               IF job[s] \notin JobRunning THEN job[s]
               ELSE IF stalled[s] THEN "failed" ELSE "delayed"]
  /\ stalled' = [s \in Shipments |-> stalled[s] \/ job[s] \in JobRunning]
  /\ UNCHANGED <<xenditVars, acked, rowVars, attempts, mails>>

---------------------------------------------------------------------------
CreateNext(s) ==
  \/ SaveShipment(s) \/ CreateInvoice(s) \/ InvoiceAnswered(s) \/ Compensate(s)
  \/ RecordPayment(s) \/ QueueNotification(s) \/ QueueExpiry(s)

HookNext(h) ==
  UpdatePayment(h) \/ SkipPaid(h) \/ CancelExpiry(h) \/ QueueOutcome(h) \/ CommitWebhook(h)

JobNext(s) == JobStart(s) \/ JobRead(s) \/ JobExpire(s) \/ JobMail(s)

XenditNext(s) ==
  \/ XenditPay(s) \/ XenditSettle(s) \/ XenditExpire(s) \/ Deadline(s)
  \/ \E status \in Notified : XenditReport(s, status)

Next ==
  \/ \E s \in Shipments :
       CreateNext(s) \/ InvoiceThrows(s) \/ CreateThrows(s)
       \/ JobNext(s) \/ JobThrows(s) \/ XenditNext(s)
  \/ \E h \in Handlers :
       HookNext(h) \/ WebhookThrows(h) \/ \E n \in Notifications : Deliver(h, n)
  \/ \E n \in Notifications : ForgetAck(n)
  \/ Crash

Spec == Init /\ [][Next]_vars

(***************************************************************************)
(* What is bound to run: the code of the process between two awaits, a job *)
(* whose delay is over, the clock, and Xendit's repetition of a            *)
(* notification until it is answered 200.  A shipment need not be created  *)
(* or paid, Xendit need not expire an invoice, and nothing has to fail.    *)
(***************************************************************************)
Fairness ==
  /\ \A s \in Shipments :
       /\ WF_vars(CreateNext(s) /\ create[s] # "idle")
       /\ WF_vars(JobNext(s))
       /\ WF_vars(Deadline(s))
  /\ \A h \in Handlers : WF_vars(HookNext(h))
  /\ \A n \in Notifications : WF_vars(\E h \in Handlers : Deliver(h, n))

FairSpec == Spec /\ Fairness

---------------------------------------------------------------------------
\* The type invariant: every row, job and request holds a value the code can
\* give it (shipments.service.ts:115-397, payment-expired-queue.processor.ts).
TypeOK ==
  /\ invoice \in [Shipments -> {"none", "PENDING", "PAID", "SETTLED", "EXPIRED"}]
  /\ due \in [Shipments -> BOOLEAN]
  /\ sent \subseteq Notifications
  /\ acked \subseteq sent
  /\ create \in [Shipments -> CreateSteps]
  /\ payment \in [Shipments -> Statuses \cup {"NoRow"}]
  /\ paymentStatus \in [Shipments -> Statuses \cup {"NoRow"}]
  /\ ready \in [Shipments -> BOOLEAN]
  /\ history \in [Shipments -> Seq(HistoryRows)]
  /\ hook \in [Handlers -> Requests]
  /\ job \in [Shipments -> JobSteps]
  /\ attempts \in [Shipments -> 0..MaxAttempts]
  /\ stalled \in [Shipments -> BOOLEAN]
  /\ mails \in [Shipments -> SUBSET MailTypes]
  /\ faults \in 0..MaxFaults

\* A parcel is handed to the couriers only for money Xendit really holds: no
\* FAILED, EXPIRED or PENDING notification, in whatever order and however often
\* it comes, sets READY_TO_PICKUP (shipments.service.ts:273-300).
ReadyIsPaid == \A s \in Shipments : ready[s] => invoice[s] \in Paid

\* An answered payment is never lost: once Xendit has its 200 for PAID or
\* SETTLED and will not repeat it, the shipment is READY_TO_PICKUP, whatever
\* failed or was skipped on the way (shipments.service.ts:252-339).
AckedIsReady == \A n \in acked : n.status \in Paid => ready[n.ship]

\* Payment.status and Shipment.paymentStatus never part, though three writers
\* update them in different statements.  The one exception the code makes: a
\* PENDING notification updates the payment alone (shipments.service.ts:340-357,
\* payment-expired-queue.processor.ts:70-79).
MirrorsAgree == \A s \in Shipments :
  payment[s] # "NoRow" =>
    \/ payment[s] = paymentStatus[s]
    \/ payment[s] = "PENDING" /\ paymentStatus[s] \in {"EXPIRED", "FAILED"}

Last(q) == q[Len(q)]
RowFor(status) == IF status \in Paid THEN "READY_TO_PICKUP" ELSE status

\* The history is a true record: its newest row is the one that goes with the
\* shipment's paymentStatus, and there are no rows before there is a payment.
AuditTrail == \A s \in Shipments :
  IF payment[s] = "NoRow" THEN history[s] = <<>>
  ELSE history[s] # <<>> /\ Last(history[s]) = RowFor(paymentStatus[s])

\* A payment is applied once however often and however concurrently Xendit
\* repeats PAID and SETTLED: after a READY_TO_PICKUP row the trail can only
\* go on with the expiry job's overwrite (shipments.service.ts:253-271).
PaidOnce == \A s \in Shipments :
  \A i \in 1 .. Len(history[s]) - 1 :
    history[s][i] = "READY_TO_PICKUP" => history[s][i + 1] = "EXPIRED"

\* How often the payment of s has been applied, and how many transactions of its
\* job may have overwritten one: of the run that ended, and of one that Bull has
\* taken back from a dead worker.
Applied(s) == Cardinality({i \in 1 .. Len(history[s]) : history[s][i] = "READY_TO_PICKUP"})
JobRuns(s) == (IF job[s] \in {"expired", "completed", "failed"} THEN 1 ELSE 0)
              + (IF stalled[s] THEN 1 ELSE 0)

\* Only runs of the expiry job take a payment back, each of them at most one: no
\* EXPIRED or FAILED notification, however late, and no attempt that Bull runs
\* again makes room for one payment more.  So a parcel on its way is set back to
\* READY_TO_PICKUP twice at most, and never without a job (shipments.service.ts:
\* 253-300, payment-expired-queue.processor.ts:63-87, queue.service.ts:46-55).
TakenBackByJob == \A s \in Shipments : Applied(s) <= 1 + JobRuns(s)

\* All of the above rows together: every reachable behaviour of requests, jobs,
\* crashes and retries is, seen from the history and READY_TO_PICKUP alone, a
\* behaviour of the ledger (shipments.service.ts:173-194, 253-366,
\* payment-expired-queue.processor.ts:69-87).
Ledger == INSTANCE PaymentLedger WITH trail <- history, released <- ready
ImplementsLedger == Ledger!Spec

\* The customer is told the truth: a success email is queued only for a payment
\* Xendit has, even when the transaction that queued it rolls back afterwards
\* (shipments.service.ts:320-339, 377-394).
MailIsTrue == \A s \in Shipments :
  mails[s] \cap {"payment-success", "payment-success without tracking number"} # {}
    => invoice[s] \in Paid

\* A payment whose invoice Xendit has expired does not stay PENDING, whichever of
\* job, queues and transactions failed (queue.service.ts:30-56,
\* payment-expired-queue.processor.ts:57-87, shipments.service.ts:340-366).
ExpiryHappens == \A s \in Shipments :
  (payment[s] = "PENDING" /\ invoice[s] = "EXPIRED") ~> (payment[s] # "PENDING")

\* The job settles an overdue payment without a word from Xendit once it is in
\* the queue, through any one failed attempt, lost email or crash in the middle
\* (queue.service.ts:46-55, payment-expired-queue.processor.ts:57-125).
JobSettles == \A s \in Shipments :
  (job[s] = "delayed" /\ due[s]) ~> (payment[s] # "PENDING" \/ faults > 1)

\* Money that Xendit holds gets the parcel moving, through crashes, failed
\* transactions, 404s before the payment row exists and the expiry job coming
\* first, as long as create() got to write the payment row.
PaidIsHonoured == \A s \in Shipments :
  (invoice[s] \in Paid /\ payment[s] # "NoRow") ~> ready[s]

\* What PaidIsHonoured rests on: as long as money that Xendit holds has not moved
\* the parcel, its notification is still to come, or to come again; no failure
\* is answered 200 (shipments.service.ts:253-339).
MoneyIsOnItsWay == \A s \in Shipments :
  "PAID" \in Notified /\ invoice[s] \in Paid /\ ~ready[s] =>
    [ship |-> s, status |-> "PAID"] \in sent \ acked

\* What ExpiryHappens and JobSettles rest on: a shipment that still waits for its
\* payment has not been given up.  No outcome of it has been answered 200, an
\* expiry is still to come, its job is not done, and where a webhook has
\* removed the job, even in a transaction that rolled back, a notification of
\* the outcome is still to come (shipments.service.ts:311-366,
\* payment-expired-queue.processor.ts:57-87).
UndecidedIsInHand == \A s \in Shipments : paymentStatus[s] = "PENDING" =>
  /\ \A n \in acked : n.ship = s => n.status = "PENDING"
  /\ "EXPIRED" \in Notified /\ invoice[s] = "EXPIRED" =>
       [ship |-> s, status |-> "EXPIRED"] \in sent \ acked
  /\ job[s] \notin {"expired", "completed"}
  /\ job[s] = "removed" =>
       \E n \in sent \ acked : n.ship = s /\ n.status # "PENDING"

---------------------------------------------------------------------------
(* What a comment of the code says, and the code does not do.               *)

\* The comment on the job's guard says the job skips totally once the webhook
\* has changed the status: so nothing takes a paid shipment back.
PaidIsFinal ==
  [][\A s \in Shipments : paymentStatus[s] \in Paid => paymentStatus'[s] \in Paid]_vars
=============================================================================
