-------------------------- MODULE Shipments_proofs --------------------------
(***************************************************************************)
(* Theorems about ShipmentsService: the safety of a shipment's payment and *)
(* what its liveness rests on, for any number of shipments, concurrent     *)
(* webhook requests, failures and job attempts, and for any set of         *)
(* statuses Xendit notifies; and its price, for every distance and weight. *)
(***************************************************************************)
EXTENDS Payment, ShipmentCost, FiniteSetTheorems, TLAPS

---------------------------------------------------------------------------
(* Who writes what: the frame of every step.                               *)

\* Each group of variables changes only in the actions that write it.
LEMMA Writers ==
  ASSUME [Next]_vars
  PROVE  /\ \/ \E s \in Shipments :
                 \/ XenditPay(s) \/ XenditSettle(s) \/ XenditExpire(s) \/ Deadline(s)
                 \/ CreateInvoice(s) \/ \E status \in Notified : XenditReport(s, status)
            \/ UNCHANGED xenditVars
         /\ \/ \E h \in Handlers : SkipPaid(h) \/ CommitWebhook(h)
            \/ acked' \subseteq acked
         /\ \/ \E s \in Shipments : CreateNext(s) \/ InvoiceThrows(s) \/ CreateThrows(s)
            \/ Crash
            \/ UNCHANGED create
         /\ \/ \E s \in Shipments :
                 SaveShipment(s) \/ Compensate(s) \/ RecordPayment(s) \/ JobExpire(s)
            \/ \E h \in Handlers : CommitWebhook(h)
            \/ UNCHANGED rowVars
         /\ \/ \E h \in Handlers :
                 HookNext(h) \/ WebhookThrows(h) \/ \E n \in Notifications : Deliver(h, n)
            \/ Crash
            \/ UNCHANGED hook
         /\ \/ \E s \in Shipments : QueueExpiry(s) \/ JobNext(s) \/ JobThrows(s)
            \/ \E h \in Handlers : CancelExpiry(h)
            \/ Crash
            \/ UNCHANGED jobVars
         /\ \/ \E s \in Shipments : QueueNotification(s) \/ JobMail(s)
            \/ \E h \in Handlers : QueueOutcome(h)
            \/ UNCHANGED mails
         /\ Fault \/ UNCHANGED faults
<1> USE DEF Next, vars, xenditVars, rowVars, jobVars, CreateNext, HookNext, JobNext, XenditNext,
            XenditPay, XenditSettle, XenditExpire, XenditReport, Deadline, ForgetAck,
            SaveShipment, CreateInvoice, InvoiceAnswered, InvoiceThrows, Compensate,
            RecordPayment, CreateThrows, QueueNotification, QueueExpiry, Deliver,
            UpdatePayment, SkipPaid, CancelExpiry, QueueOutcome, CommitWebhook,
            WebhookThrows, Respond, JobStart, JobRead, JobExpire, JobMail, JobThrows, Crash
<1>1. \/ \E s \in Shipments :
           \/ XenditPay(s) \/ XenditSettle(s) \/ XenditExpire(s) \/ Deadline(s)
           \/ CreateInvoice(s) \/ \E status \in Notified : XenditReport(s, status)
      \/ UNCHANGED xenditVars
  OBVIOUS
<1>2. \/ \E h \in Handlers : SkipPaid(h) \/ CommitWebhook(h)
      \/ acked' \subseteq acked
  OBVIOUS
<1>3. \/ \E s \in Shipments : CreateNext(s) \/ InvoiceThrows(s) \/ CreateThrows(s)
      \/ Crash
      \/ UNCHANGED create
  OBVIOUS
<1>4. \/ \E s \in Shipments :
           SaveShipment(s) \/ Compensate(s) \/ RecordPayment(s) \/ JobExpire(s)
      \/ \E h \in Handlers : CommitWebhook(h)
      \/ UNCHANGED rowVars
  OBVIOUS
<1>5. \/ \E h \in Handlers :
           HookNext(h) \/ WebhookThrows(h) \/ \E n \in Notifications : Deliver(h, n)
      \/ Crash
      \/ UNCHANGED hook
  OBVIOUS
<1>6. \/ \E s \in Shipments : QueueExpiry(s) \/ JobNext(s) \/ JobThrows(s)
      \/ \E h \in Handlers : CancelExpiry(h)
      \/ Crash
      \/ UNCHANGED jobVars
  OBVIOUS
<1>7. \/ \E s \in Shipments : QueueNotification(s) \/ JobMail(s)
      \/ \E h \in Handlers : QueueOutcome(h)
      \/ UNCHANGED mails
  OBVIOUS
<1>8. Fault \/ UNCHANGED faults
  OBVIOUS
<1>. QED BY <1>1, <1>2, <1>3, <1>4, <1>5, <1>6, <1>7, <1>8

---------------------------------------------------------------------------
(* The parts of the inductive invariant that no run checks by itself.      *)

\* A request in flight serves a notification Xendit has sent, about a payment
\* that has a row: the handler has read it, and rows are never deleted.
RequestsOK == \A h \in Handlers :
  hook[h].pc # "idle" =>
    /\ [ship |-> hook[h].ship, status |-> hook[h].status] \in sent
    /\ payment[hook[h].ship] # "NoRow"

\* An open transaction holds its payment row alone and has found it unpaid.
LockOK == \A h \in Handlers :
  hook[h].pc \in InTx =>
    /\ payment[hook[h].ship] \notin Paid
    /\ \A g \in Handlers \ {h} :
         hook[g].pc \in InTx => hook[g].ship # hook[h].ship

\* What the rows look like at each step of create().
Unrecorded == {"idle", "saved", "calling", "refused", "invoiced"}
CreateOK == \A s \in Shipments :
  /\ create[s] \in {"idle", "saved"} => invoice[s] = "none"
  /\ create[s] \in Unrecorded => payment[s] = "NoRow"
  /\ create[s] \in Unrecorded \ {"idle"} => paymentStatus[s] = "PENDING"
  /\ create[s] \in {"recorded", "mailed", "done"} => payment[s] # "NoRow"

\* A job exists only once create() has queued it, and a live one has attempts left.
JobOK == \A s \in Shipments :
  /\ create[s] # "done" => job[s] = "none"
  /\ job[s] = "none" => attempts[s] = 0
  /\ job[s] \in JobRunning \cup {"delayed"} => attempts[s] < MaxAttempts

\* A shipment is ready when its payment is paid, and not before it has one.
RowsOK == \A s \in Shipments :
  /\ payment[s] = "NoRow" => ~ready[s]
  /\ payment[s] \in Paid => ready[s]

\* Xendit announces a payment only when it has the money.
SentOK == \A n \in sent : n.status \in Paid => invoice[n.ship] \in Paid

IInv ==
  /\ TypeOK
  /\ RequestsOK
  /\ LockOK
  /\ CreateOK
  /\ JobOK
  /\ RowsOK
  /\ SentOK
  /\ ReadyIsPaid
  /\ AckedIsReady
  /\ MailIsTrue
  /\ MirrorsAgree
  /\ AuditTrail
  /\ PaidOnce

---------------------------------------------------------------------------
(* Types.                                                                  *)

\* Xendit takes no notification back.
LEMMA SentGrows == ASSUME [Next]_vars PROVE sent \subseteq sent'
BY Writers DEF xenditVars, XenditPay, XenditSettle, XenditExpire, XenditReport,
               Deadline, CreateInvoice, Announce

\* A request in flight serves a notification Xendit has sent.
LEMMA Served ==
  ASSUME IInv, NEW h \in Handlers, hook[h].pc # "idle"
  PROVE  /\ hook[h].ship \in Shipments
         /\ hook[h].status \in Notified \cap Statuses
         /\ [ship |-> hook[h].ship, status |-> hook[h].status] \in sent
         /\ payment[hook[h].ship] # "NoRow"
<1>1. /\ [ship |-> hook[h].ship, status |-> hook[h].status] \in sent
      /\ payment[hook[h].ship] # "NoRow"
  BY DEF IInv, RequestsOK
<1>2. [ship |-> hook[h].ship, status |-> hook[h].status] \in Notifications
  BY <1>1 DEF IInv, TypeOK
<1>. QED BY <1>1, <1>2, PaymentAssumption DEF Notifications

\* A request that moves on is a request.
LEMMA SetPc ==
  ASSUME NEW r \in Requests, NEW pc \in InTx
  PROVE  [r EXCEPT !.pc = pc] \in Requests
BY DEF Requests

\* Every step keeps the types.
LEMMA TypeStep == ASSUME IInv, [Next]_vars PROVE TypeOK'
<1> USE DEF IInv, TypeOK
<1>1. /\ invoice' \in [Shipments -> {"none", "PENDING", "PAID", "SETTLED", "EXPIRED"}]
      /\ due' \in [Shipments -> BOOLEAN]
      /\ sent' \subseteq Notifications
  BY Writers DEF xenditVars, XenditPay, XenditSettle, XenditExpire, XenditReport,
                 Deadline, CreateInvoice, Announce
<1>2. acked' \subseteq sent'
  <2>1. ASSUME NEW h \in Handlers, SkipPaid(h) \/ CommitWebhook(h)
        PROVE  acked' \subseteq sent
    BY <2>1 DEF SkipPaid, CommitWebhook, Respond, RequestsOK
  <2>. QED BY <2>1, Writers, SentGrows
<1>3. create' \in [Shipments -> CreateSteps]
  <2> USE DEF CreateSteps
  <2>1. ASSUME NEW s \in Shipments, CreateNext(s) PROVE <1>3!:
    <3>1. \E from, to \in CreateSteps : Step(s, from, to)
      BY <2>1 DEF CreateNext, SaveShipment, CreateInvoice, InvoiceAnswered, Compensate,
                  RecordPayment, QueueNotification, QueueExpiry
    <3>. QED BY <3>1 DEF Step
  <2>2. ASSUME NEW s \in Shipments, InvoiceThrows(s) \/ CreateThrows(s) PROVE <1>3!:
    BY <2>2 DEF Step, InvoiceThrows, CreateThrows
  <2>3. CASE Crash BY <2>3 DEF Crash
  <2>. QED BY <2>1, <2>2, <2>3, Writers
<1>4. /\ payment' \in [Shipments -> Statuses \cup {"NoRow"}]
      /\ paymentStatus' \in [Shipments -> Statuses \cup {"NoRow"}]
      /\ ready' \in [Shipments -> BOOLEAN]
      /\ history' \in [Shipments -> Seq(HistoryRows)]
  <2>1. ASSUME NEW h \in Handlers, CommitWebhook(h) PROVE <1>4!:
    <3>1. /\ hook[h].ship \in Shipments
          /\ hook[h].status \in Statuses
      BY <2>1, Served DEF CommitWebhook
    <3>2. Mirror(hook[h].ship, hook[h].status) \in Statuses \cup {"NoRow"}
      BY <3>1 DEF Mirror
    <3>3. Trail(hook[h].ship, hook[h].status) \in Seq(HistoryRows)
      BY <3>1 DEF Trail, PaidBranch, ExpiryBranch, HistoryRows
    <3>. QED BY <2>1, <3>1, <3>2, <3>3 DEF CommitWebhook, PaidBranch
  <2>2. ASSUME NEW s \in Shipments, SaveShipment(s) \/ Compensate(s) PROVE <1>4!:
    BY <2>2 DEF SaveShipment, Compensate, Statuses
  <2>3. ASSUME NEW s \in Shipments, RecordPayment(s) PROVE <1>4!:
    BY <2>3 DEF RecordPayment, HistoryRows, Statuses
  <2>4. ASSUME NEW s \in Shipments, JobExpire(s) PROVE <1>4!:
    BY <2>4 DEF JobExpire, HistoryRows, Statuses
  <2>. QED BY <2>1, <2>2, <2>3, <2>4, Writers DEF rowVars
<1>5. hook' \in [Handlers -> Requests]
  <2>0. Idle \in Requests
    BY DEF Idle, Requests, Statuses
  <2>1. ASSUME NEW h \in Handlers, HookNext(h) PROVE <1>5!:
    <3>1. \/ \E pc \in InTx : Goto(h, pc)
          \/ hook' = [hook EXCEPT ![h] = Idle]
      BY <2>1 DEF HookNext, UpdatePayment, SkipPaid, CancelExpiry, QueueOutcome, CommitWebhook,
                  InTx
    <3>2. ASSUME NEW pc \in InTx, Goto(h, pc) PROVE <1>5!:
      <4>1. [hook[h] EXCEPT !.pc = pc] \in Requests
        BY <3>2, SetPc
      <4>2. hook' = [hook EXCEPT ![h] = [hook[h] EXCEPT !.pc = pc]]
        BY <3>2 DEF Goto
      <4>. QED BY <4>1, <4>2
    <3>3. CASE hook' = [hook EXCEPT ![h] = Idle]
      BY <3>3, <2>0
    <3>. QED BY <3>1, <3>2, <3>3
  <2>2. ASSUME NEW h \in Handlers, NEW n \in Notifications, Deliver(h, n) PROVE <1>5!:
    BY <2>2, PaymentAssumption DEF Deliver, Notifications, Requests
  <2>3. ASSUME NEW h \in Handlers, WebhookThrows(h) PROVE <1>5!:
    BY <2>3, <2>0 DEF WebhookThrows
  <2>4. CASE Crash BY <2>4, <2>0 DEF Crash
  <2>. QED BY <2>1, <2>2, <2>3, <2>4, Writers
<1>6. /\ job' \in [Shipments -> JobSteps]
      /\ attempts' \in [Shipments -> 0..MaxAttempts]
      /\ stalled' \in [Shipments -> BOOLEAN]
  <2> USE PaymentAssumption DEF JobSteps
  <2>1. ASSUME NEW s \in Shipments, JobThrows(s) PROVE <1>6!:
    <3>1. attempts[s] + 1 \in 0..MaxAttempts
      BY <2>1 DEF JobThrows, JobOK, JobRunning
    <3>. QED BY <2>1, <3>1 DEF JobThrows, SetJob, RetryOrFail
  <2>2. ASSUME NEW s \in Shipments, QueueExpiry(s) \/ JobNext(s) PROVE <1>6!:
    BY <2>2 DEF QueueExpiry, JobNext, JobStart, JobRead, JobExpire, JobMail, SetJob
  <2>3. ASSUME NEW h \in Handlers, CancelExpiry(h) PROVE <1>6!:
    <3>1. hook[h].ship \in Shipments
      BY <2>3, Served DEF CancelExpiry
    <3>2. job' = job \/ job' = [job EXCEPT ![hook[h].ship] = "removed"]
      BY <2>3, <3>1 DEF CancelExpiry
    <3>. QED BY <2>3, <3>2 DEF CancelExpiry
  <2>4. CASE Crash BY <2>4 DEF Crash
  <2>. QED BY <2>1, <2>2, <2>3, <2>4, Writers DEF jobVars
<1>7. mails' \in [Shipments -> SUBSET MailTypes]
  <2>1. ASSUME NEW s \in Shipments, QueueNotification(s) \/ JobMail(s) PROVE <1>7!:
    <3>1. mails[s] \cup {"payment-notification"} \in SUBSET MailTypes
          /\ mails[s] \cup {"payment-expired"} \in SUBSET MailTypes
      BY <2>1 DEF MailTypes
    <3>. QED BY <2>1, <3>1 DEF QueueNotification, JobMail, Queue
  <2>2. ASSUME NEW h \in Handlers, QueueOutcome(h) PROVE <1>7!:
    <3>1. hook[h].ship \in Shipments /\ OutcomeMail(hook[h]) \in MailTypes
      BY <2>2, Served DEF QueueOutcome, OutcomeMail, MailTypes
    <3>2. mails[hook[h].ship] \cup {OutcomeMail(hook[h])} \in SUBSET MailTypes
      BY <3>1
    <3>. QED BY <2>2, <3>1, <3>2 DEF QueueOutcome, Queue
  <2>. QED BY <2>1, <2>2, Writers
<1>8. faults' \in 0..MaxFaults
  BY Writers, PaymentAssumption DEF Fault
<1>. QED BY <1>1, <1>2, <1>3, <1>4, <1>5, <1>6, <1>7, <1>8

---------------------------------------------------------------------------
(* Requests and the row lock.                                              *)

\* A request in flight goes on with its notification, ends, or has just come.
LEMMA HookMoves ==
  ASSUME IInv, [Next]_vars, NEW h \in Handlers
  PROVE  \/ hook'[h].pc = "idle"
         \/ \E n \in Notifications : Deliver(h, n)
         \/ UpdatePayment(h)
         \/ /\ hook[h].pc # "idle"
            /\ hook'[h].pc \in InTx <=> hook[h].pc \in InTx
            /\ hook'[h].ship = hook[h].ship
            /\ hook'[h].status = hook[h].status
<1> USE DEF IInv, TypeOK, Requests, InTx, Idle
<1>1. ASSUME NEW g \in Handlers,
             SkipPaid(g) \/ CommitWebhook(g) \/ WebhookThrows(g)
      PROVE  hook' = [hook EXCEPT ![g] = Idle]
  BY <1>1 DEF SkipPaid, CommitWebhook, WebhookThrows
<1>2. ASSUME NEW g \in Handlers, UpdatePayment(g), g # h
      PROVE  hook'[h] = hook[h]
  BY <1>2 DEF UpdatePayment, Goto
<1>3. ASSUME NEW g \in Handlers, CancelExpiry(g) \/ QueueOutcome(g)
      PROVE  \/ hook'[h] = hook[h]
             \/ /\ hook[h].pc \in InTx /\ hook'[h].pc \in InTx
                /\ hook'[h].ship = hook[h].ship
                /\ hook'[h].status = hook[h].status
  BY <1>3 DEF CancelExpiry, QueueOutcome, Goto
<1>4. ASSUME NEW g \in Handlers, NEW n \in Notifications, Deliver(g, n), g # h
      PROVE  hook'[h] = hook[h]
  BY <1>4 DEF Deliver
<1>5. CASE Crash
  BY <1>5 DEF Crash
<1>6. CASE hook'[h] = hook[h]
  BY <1>6
<1>. QED
  BY <1>1, <1>2, <1>3, <1>4, <1>5, <1>6, Writers DEF HookNext

\* A row of Payment, once there, stays.
LEMMA RowsKept ==
  ASSUME IInv, [Next]_vars, NEW s \in Shipments, payment[s] # "NoRow"
  PROVE  payment'[s] # "NoRow"
<1> USE DEF IInv, TypeOK
<1>1. ASSUME NEW h \in Handlers, CommitWebhook(h) PROVE payment'[s] # "NoRow"
  BY <1>1, Served DEF CommitWebhook, Statuses
<1>. QED
  BY <1>1, Writers DEF rowVars, SaveShipment, Compensate, RecordPayment, JobExpire

\* Every step keeps what is known of the requests in flight.
LEMMA RequestsStep == ASSUME IInv, [Next]_vars PROVE RequestsOK'
<1> SUFFICES ASSUME NEW h \in Handlers, hook'[h].pc # "idle"
             PROVE  /\ [ship |-> hook'[h].ship, status |-> hook'[h].status] \in sent'
                    /\ payment'[hook'[h].ship] # "NoRow"
  BY DEF RequestsOK
<1> USE DEF IInv, TypeOK
<1>1. CASE \E n \in Notifications : Deliver(h, n)
  <2>1. PICK n \in Notifications : Deliver(h, n)
    BY <1>1
  <2>2. /\ hook'[h].ship = n.ship /\ hook'[h].status = n.status
        /\ n.ship \in Shipments /\ n = [ship |-> n.ship, status |-> n.status]
    BY <2>1 DEF Deliver, Notifications
  <2>. QED BY <2>1, <2>2, SentGrows, RowsKept DEF Deliver
<1>2. CASE /\ hook[h].pc # "idle"
           /\ hook'[h].ship = hook[h].ship
           /\ hook'[h].status = hook[h].status
  BY <1>2, Served, SentGrows, RowsKept
<1>3. CASE UpdatePayment(h)
  BY <1>2, <1>3 DEF UpdatePayment, Goto, Requests
<1>. QED BY <1>1, <1>2, <1>3, HookMoves

\* A request in a transaction was in it before, or has just locked a free row.
LEMMA LockMoves ==
  ASSUME IInv, [Next]_vars, NEW h \in Handlers, hook'[h].pc \in InTx
  PROVE  /\ hook'[h].ship = hook[h].ship
         /\ \/ hook[h].pc \in InTx
            \/ UpdatePayment(h)
<1>1. CASE UpdatePayment(h)
  BY <1>1 DEF UpdatePayment, Goto, IInv, TypeOK, Requests
<1>2. ~(\E n \in Notifications : Deliver(h, n))
  BY DEF Deliver, InTx, IInv, TypeOK
<1>. QED BY <1>1, <1>2, HookMoves DEF InTx

\* Every step keeps one open transaction per payment row, on an unpaid row.
LEMMA LockStep == ASSUME IInv, [Next]_vars PROVE LockOK'
<1> SUFFICES ASSUME NEW h \in Handlers, hook'[h].pc \in InTx
             PROVE  /\ payment'[hook'[h].ship] \notin Paid
                    /\ \A g \in Handlers \ {h} :
                         hook'[g].pc \in InTx => hook'[g].ship # hook'[h].ship
  BY DEF LockOK
<1>1. payment[hook[h].ship] \notin Paid /\ hook[h].ship \in Shipments
  <2>1. CASE hook[h].pc \in InTx
    BY <2>1, Served DEF IInv, LockOK, InTx
  <2>2. CASE UpdatePayment(h)
    BY <2>2, Served DEF UpdatePayment, NotYetPaid
  <2>. QED BY <2>1, <2>2, LockMoves
<1>2. payment'[hook[h].ship] \notin Paid
  <2>1. ASSUME NEW g \in Handlers, CommitWebhook(g) PROVE <1>2!:
    <3>1. g # h /\ hook[h].pc \in InTx
      BY <2>1, LockMoves DEF CommitWebhook, Idle, UpdatePayment, Goto, InTx, IInv, TypeOK
    <3>2. hook[g].ship # hook[h].ship
      BY <2>1, <3>1 DEF CommitWebhook, InTx, IInv, LockOK
    <3>. QED BY <2>1, <3>2, <1>1 DEF CommitWebhook, IInv, TypeOK
  <2>2. ASSUME NEW s \in Shipments, RecordPayment(s) \/ JobExpire(s) PROVE <1>2!:
    BY <2>2, <1>1 DEF RecordPayment, JobExpire, Paid, IInv, TypeOK
  <2>. QED BY <1>1, <2>1, <2>2, Writers DEF rowVars, SaveShipment, Compensate
<1>3. ASSUME NEW g \in Handlers \ {h}, hook'[g].pc \in InTx
      PROVE  hook[g].ship # hook[h].ship
  <2>1. CASE UpdatePayment(h)
    <3>1. hook[g].pc \in InTx
      BY <2>1, <1>3 DEF UpdatePayment, Goto, IInv, TypeOK
    <3>. QED BY <2>1, <3>1 DEF UpdatePayment, RowLocked
  <2>2. CASE UpdatePayment(g) /\ hook[h].pc \in InTx
    BY <2>2 DEF UpdatePayment, RowLocked
  <2>3. CASE hook[g].pc \in InTx /\ hook[h].pc \in InTx
    BY <2>3 DEF IInv, LockOK
  <2>. QED BY <2>1, <2>2, <2>3, <1>3, LockMoves
<1>. QED BY <1>2, <1>3, LockMoves

---------------------------------------------------------------------------
(* The steps of create() and of the job.                                   *)

\* Every step keeps what create() has written so far.
LEMMA CreateStep == ASSUME IInv, [Next]_vars PROVE CreateOK'
<1> USE DEF IInv, TypeOK, CreateOK, Unrecorded
<1>1. ASSUME NEW s \in Shipments, CreateNext(s) PROVE CreateOK'
  BY <1>1 DEF CreateNext, Step, SaveShipment, CreateInvoice, InvoiceAnswered, Compensate,
              RecordPayment, QueueNotification, QueueExpiry, xenditVars, rowVars
<1>2. ASSUME NEW s \in Shipments, InvoiceThrows(s) \/ CreateThrows(s) PROVE CreateOK'
  BY <1>2 DEF Step, InvoiceThrows, CreateThrows, xenditVars, rowVars
<1>3. CASE Crash
  BY <1>3 DEF Crash, CreateEnded, CreateSteps, xenditVars, rowVars
<1>4. ASSUME NEW s \in Shipments,
             XenditPay(s) \/ XenditSettle(s) \/ XenditExpire(s) \/ Deadline(s)
             \/ \E status \in Notified : XenditReport(s, status)
      PROVE  CreateOK'
  BY <1>4 DEF XenditPay, XenditSettle, XenditExpire, Deadline, XenditReport, rowVars
<1>5. ASSUME NEW h \in Handlers, CommitWebhook(h) PROVE CreateOK'
  <2>1. hook[h].ship \in Shipments /\ payment[hook[h].ship] # "NoRow"
        /\ hook[h].status # "NoRow"
    BY <1>5, Served DEF CommitWebhook, Statuses
  <2>. QED BY <1>5, <2>1 DEF CommitWebhook, xenditVars
<1>6. ASSUME NEW s \in Shipments, JobExpire(s) PROVE CreateOK'
  BY <1>6 DEF JobExpire, JobOK, xenditVars
<1>7. CASE UNCHANGED <<xenditVars, create, rowVars>>
  BY <1>7 DEF xenditVars, rowVars
<1>. QED
  BY <1>1, <1>2, <1>3, <1>4, <1>5, <1>6, <1>7, Writers DEF CreateNext

\* Every step keeps the job in line with create() and the payment row.
LEMMA JobStep == ASSUME IInv, [Next]_vars PROVE JobOK'
<1> USE PaymentAssumption DEF IInv, TypeOK, JobOK, JobRunning
<1>1. ASSUME NEW s \in Shipments, QueueExpiry(s) PROVE JobOK'
  BY <1>1 DEF QueueExpiry, Step
<1>2. ASSUME NEW s \in Shipments, JobNext(s) PROVE JobOK'
  BY <1>2 DEF JobNext, JobStart, JobRead, JobExpire, JobMail, SetJob
<1>3. ASSUME NEW s \in Shipments, JobThrows(s) PROVE JobOK'
  BY <1>3 DEF JobThrows, SetJob, RetryOrFail
<1>4. ASSUME NEW h \in Handlers, CancelExpiry(h) PROVE JobOK'
  <2>1. hook[h].ship \in Shipments
    BY <1>4, Served DEF CancelExpiry
  <2>. QED BY <1>4, <2>1 DEF CancelExpiry
<1>5. CASE Crash
  BY <1>5 DEF Crash, CreateEnded
<1>6. ASSUME UNCHANGED jobVars,
             \/ UNCHANGED create
             \/ \E s \in Shipments : CreateNext(s) \/ InvoiceThrows(s) \/ CreateThrows(s)
      PROVE  JobOK'
  <2>1. \A s \in Shipments : create'[s] # "done" => create[s] # "done" \/ job[s] = "none"
    BY <1>1, <1>6 DEF CreateNext, Step, SaveShipment, CreateInvoice, InvoiceAnswered, Compensate,
              RecordPayment, QueueNotification, QueueExpiry, InvoiceThrows, CreateThrows
  <2>. QED BY <1>6, <2>1 DEF jobVars
<1>. QED BY <1>1, <1>2, <1>3, <1>4, <1>5, <1>6, Writers

---------------------------------------------------------------------------
(* What Xendit has said, and what the system makes of it.                  *)

\* A paid invoice stays paid.
LEMMA PaidStays ==
  ASSUME IInv, [Next]_vars, NEW s \in Shipments, invoice[s] \in Paid
  PROVE  invoice'[s] \in Paid
BY Writers DEF IInv, TypeOK, CreateOK, Paid, xenditVars, XenditPay, XenditSettle, XenditExpire,
     XenditReport, Deadline, CreateInvoice, Step

\* Every step keeps a notification of payment backed by the invoice.
LEMMA SentStep == ASSUME IInv, [Next]_vars PROVE SentOK'
<1> SUFFICES ASSUME NEW n \in sent', n.status \in Paid PROVE invoice'[n.ship] \in Paid
  BY DEF SentOK
<1>1. n.ship \in Shipments
  BY TypeStep DEF TypeOK, Notifications
<1>2. CASE n \in sent
  BY <1>1, <1>2, PaidStays DEF IInv, SentOK
<1>3. CASE n \notin sent
  <2>1. PICK s \in Shipments : XenditPay(s) \/ XenditSettle(s)
    BY <1>3, Writers DEF xenditVars, XenditExpire, XenditReport, Deadline, CreateInvoice,
                         Announce, Paid
  <2>. QED BY <1>1, <1>3, <2>1 DEF XenditPay, XenditSettle, Announce, Paid, IInv, TypeOK
<1>. QED BY <1>2, <1>3

\* Of an open transaction in the paid branch, Xendit has the money.
LEMMA PaidBranchIsPaid ==
  ASSUME IInv, NEW h \in Handlers, hook[h].pc # "idle", PaidBranch(hook[h].status)
  PROVE  invoice[hook[h].ship] \in Paid
<1>1. [ship |-> hook[h].ship, status |-> hook[h].status] \in sent
  BY Served
<1>. QED BY <1>1 DEF IInv, SentOK, PaidBranch

\* Every step releases only a paid parcel.
LEMMA ReadyStep == ASSUME IInv, [Next]_vars PROVE ReadyIsPaid'
<1> SUFFICES ASSUME NEW s \in Shipments, ready'[s] PROVE invoice'[s] \in Paid
  BY DEF ReadyIsPaid
<1>1. CASE ready[s]
  BY <1>1, PaidStays DEF IInv, ReadyIsPaid
<1>2. CASE ~ready[s]
  <2>1. PICK h \in Handlers : CommitWebhook(h)
    BY <1>2, Writers DEF rowVars, SaveShipment, Compensate, RecordPayment, JobExpire
  <2>2. hook[h].ship = s /\ PaidBranch(hook[h].status)
    BY <1>2, <2>1 DEF CommitWebhook, IInv, TypeOK
  <2>. QED BY <2>1, <2>2, PaidBranchIsPaid, PaidStays DEF CommitWebhook
<1>. QED BY <1>1, <1>2

\* Every step queues a success email only for a paid invoice.
LEMMA MailStep == ASSUME IInv, [Next]_vars PROVE MailIsTrue'
<1> DEFINE Success == {"payment-success", "payment-success without tracking number"}
<1> SUFFICES ASSUME NEW s \in Shipments, mails'[s] \cap Success # {}
             PROVE  invoice'[s] \in Paid
  BY DEF MailIsTrue
<1>1. CASE mails[s] \cap Success # {}
  BY <1>1, PaidStays DEF IInv, MailIsTrue
<1>2. CASE mails[s] \cap Success = {}
  <2>1. PICK h \in Handlers : QueueOutcome(h)
    <3>1. ASSUME NEW t \in Shipments, QueueNotification(t) \/ JobMail(t)
          PROVE  \/ mails'[s] = mails[s]
                 \/ mails'[s] = mails[s] \cup {"payment-notification"}
                 \/ mails'[s] = mails[s] \cup {"payment-expired"}
      <4>1. \/ Queue(t, "payment-notification")
            \/ Queue(t, "payment-expired")
            \/ UNCHANGED mails
        BY <3>1 DEF QueueNotification, JobMail
      <4>2. DOMAIN mails = Shipments
        BY DEF IInv, TypeOK
      <4>. QED BY <4>1, <4>2 DEF Queue
    <3>. QED BY <1>2, <3>1, Writers
  <2>2. hook[h].ship = s /\ PaidBranch(hook[h].status)
    BY <1>2, <2>1 DEF QueueOutcome, Queue, OutcomeMail, IInv, TypeOK
  <2>. QED BY <2>1, <2>2, PaidBranchIsPaid, PaidStays DEF QueueOutcome
<1>. QED BY <1>1, <1>2

\* Every step answers a payment 200 only once the parcel is released.
LEMMA AckedStep == ASSUME IInv, [Next]_vars PROVE AckedIsReady'
<1> SUFFICES ASSUME NEW n \in acked', n.status \in Paid PROVE ready'[n.ship]
  BY DEF AckedIsReady
<1> USE DEF IInv, TypeOK
<1>1. \A s \in Shipments : ready[s] => ready'[s]
  BY Writers DEF rowVars, SaveShipment, Compensate, RecordPayment, JobExpire, CommitWebhook
<1>2. CASE n \in acked
  <2>1. n.ship \in Shipments
    BY <1>2 DEF Notifications
  <2>. QED BY <1>1, <1>2, <2>1 DEF AckedIsReady
<1>3. CASE n \notin acked
  <2>1. PICK h \in Handlers : SkipPaid(h) \/ CommitWebhook(h)
    BY <1>3, Writers
  <2>2. n.ship = hook[h].ship /\ n.status = hook[h].status /\ hook[h].ship \in Shipments
    BY <1>3, <2>1, Served DEF SkipPaid, CommitWebhook, Respond
  <2>3. CASE SkipPaid(h)
    BY <1>1, <2>2, <2>3 DEF SkipPaid, NotYetPaid, RowsOK
  <2>4. CASE CommitWebhook(h)
    BY <2>2, <2>4 DEF CommitWebhook, PaidBranch
  <2>. QED BY <2>1, <2>3, <2>4
<1>. QED BY <1>2, <1>3

---------------------------------------------------------------------------
(* The rows: every writer leaves payment, shipment and history in accord.  *)

\* A commit of the webhook, with what the lock says of the rows it writes.
LEMMA Commits ==
  ASSUME IInv, NEW h \in Handlers, CommitWebhook(h)
  PROVE  /\ hook[h].ship \in Shipments
         /\ hook[h].status \in Statuses
         /\ payment[hook[h].ship] \notin Paid \cup {"NoRow"}
BY Served DEF CommitWebhook, IInv, LockOK, InTx

\* Every step keeps a payment row in step with the rows beside it.
LEMMA RowsStep == ASSUME IInv, [Next]_vars PROVE RowsOK'
<1> USE DEF IInv, TypeOK, RowsOK
<1>1. ASSUME NEW h \in Handlers, CommitWebhook(h) PROVE RowsOK'
  BY <1>1, Commits DEF CommitWebhook, PaidBranch, Statuses
<1>2. ASSUME NEW s \in Shipments, SaveShipment(s) \/ Compensate(s) PROVE RowsOK'
  BY <1>2 DEF SaveShipment, Compensate
<1>3. ASSUME NEW s \in Shipments, RecordPayment(s) PROVE RowsOK'
  BY <1>3 DEF RecordPayment, Paid
<1>4. ASSUME NEW s \in Shipments, JobExpire(s) PROVE RowsOK'
  BY <1>4 DEF JobExpire, Paid
<1>. QED BY <1>1, <1>2, <1>3, <1>4, Writers DEF rowVars

\* Every step keeps the two payment statuses together.
LEMMA MirrorsStep == ASSUME IInv, [Next]_vars PROVE MirrorsAgree'
<1> USE DEF IInv, TypeOK, MirrorsAgree
<1>1. ASSUME NEW h \in Handlers, CommitWebhook(h) PROVE MirrorsAgree'
  BY <1>1, Commits DEF CommitWebhook, Mirror, PaidBranch, ExpiryBranch, Statuses, Paid
<1>2. ASSUME NEW s \in Shipments, SaveShipment(s) \/ Compensate(s) PROVE MirrorsAgree'
  BY <1>2 DEF SaveShipment, Compensate, Step, CreateOK, Unrecorded
<1>3. ASSUME NEW s \in Shipments, RecordPayment(s) PROVE MirrorsAgree'
  BY <1>3 DEF RecordPayment, Step, CreateOK, Unrecorded
<1>4. ASSUME NEW s \in Shipments, JobExpire(s) PROVE MirrorsAgree'
  BY <1>4 DEF JobExpire
<1>. QED BY <1>1, <1>2, <1>3, <1>4, Writers DEF rowVars

\* Appending a row: the old rows stay where they are.
LEMMA AppendRow ==
  ASSUME NEW q \in Seq(HistoryRows), NEW r \in HistoryRows
  PROVE  /\ Append(q, r) \in Seq(HistoryRows)
         /\ Append(q, r) # <<>>
         /\ Last(Append(q, r)) = r
         /\ Len(Append(q, r)) = Len(q) + 1
         /\ \A i \in 1 .. Len(q) : Append(q, r)[i] = q[i]
BY DEF Last

\* How the rows of one shipment can change.
RowMove(s) ==
  \/ history'[s] = history[s] /\ payment'[s] = "NoRow"
  \/ /\ history'[s] = history[s] /\ payment'[s] # "NoRow" /\ payment[s] # "NoRow"
     /\ paymentStatus'[s] = paymentStatus[s]
  \/ /\ payment'[s] # "NoRow"
     /\ RowFor(paymentStatus'[s]) \in HistoryRows
     /\ history'[s] = Append(history[s], RowFor(paymentStatus'[s]))
     /\ \/ history[s] = <<>>
        \/ paymentStatus[s] \notin Paid
        \/ RowFor(paymentStatus'[s]) = "EXPIRED"

\* A step appends to the history of a shipment at most the row of its new status.
LEMMA RowMoves == ASSUME IInv, [Next]_vars, NEW s \in Shipments PROVE RowMove(s)
<1> USE DEF IInv, TypeOK
<1>1. ASSUME NEW h \in Handlers, CommitWebhook(h), hook[h].ship = s PROVE RowMove(s)
  <2>1. payment[s] \notin Paid \cup {"NoRow"} /\ paymentStatus[s] \notin Paid
    BY <1>1, Commits DEF MirrorsAgree, Paid
  <2>2. payment'[s] = hook[h].status /\ paymentStatus'[s] = Mirror(s, hook[h].status)
        /\ history'[s] = Trail(s, hook[h].status) /\ hook[h].status \in Statuses
    BY <1>1, Commits DEF CommitWebhook
  <2>3. CASE hook[h].status = "PENDING"
    <3>1. Mirror(s, "PENDING") = paymentStatus[s] /\ Trail(s, "PENDING") = history[s]
      BY DEF Mirror, Trail, PaidBranch, ExpiryBranch, Paid
    <3>. QED BY <2>1, <2>2, <2>3, <3>1 DEF RowMove
  <2>4. CASE hook[h].status # "PENDING"
    <3>1. /\ paymentStatus'[s] = hook[h].status
          /\ RowFor(hook[h].status) \in HistoryRows
          /\ Trail(s, hook[h].status) = Append(history[s], RowFor(hook[h].status))
      BY <2>2, <2>4 DEF Mirror, Trail, PaidBranch, ExpiryBranch, Paid, Statuses,
                        RowFor, HistoryRows
    <3>. QED BY <2>1, <2>2, <2>4, <3>1 DEF RowMove, Statuses
  <2>. QED BY <2>3, <2>4
<1>2. ASSUME NEW h \in Handlers, CommitWebhook(h), hook[h].ship # s
      PROVE  UNCHANGED <<payment[s], paymentStatus[s], history[s]>>
  BY <1>2, Commits DEF CommitWebhook
<1>3. ASSUME NEW t \in Shipments, SaveShipment(t) \/ Compensate(t)
      PROVE  /\ UNCHANGED <<payment[s], history[s]>>
             /\ UNCHANGED paymentStatus[s] \/ payment[s] = "NoRow"
  BY <1>3 DEF SaveShipment, Compensate, Step, CreateOK, Unrecorded
<1>4. ASSUME NEW t \in Shipments, RecordPayment(t) PROVE RowMove(s)
  BY <1>4 DEF RowMove, RecordPayment, Step, CreateOK, Unrecorded, AuditTrail, RowFor, Paid,
              HistoryRows, Statuses
<1>5. ASSUME NEW t \in Shipments, JobExpire(t) PROVE RowMove(s)
  BY <1>5 DEF RowMove, JobExpire, JobOK, CreateOK, RowFor, Paid, HistoryRows, Statuses
<1>6. ASSUME UNCHANGED <<payment[s], history[s]>>,
             UNCHANGED paymentStatus[s] \/ payment[s] = "NoRow"
      PROVE  RowMove(s)
  BY <1>6 DEF RowMove
<1>. QED BY <1>1, <1>2, <1>3, <1>4, <1>5, <1>6, Writers DEF rowVars

\* Every step keeps the newest history row in line with the status.
LEMMA AuditStep == ASSUME IInv, [Next]_vars PROVE AuditTrail'
<1> SUFFICES ASSUME NEW s \in Shipments
             PROVE  IF payment'[s] = "NoRow" THEN history'[s] = <<>>
                    ELSE history'[s] # <<>> /\ Last(history'[s]) = RowFor(paymentStatus'[s])
  BY DEF AuditTrail, RowFor, Last
<1>1. history[s] \in Seq(HistoryRows)
  BY DEF IInv, TypeOK
<1>2. CASE history'[s] = history[s] /\ payment'[s] = "NoRow"
  BY <1>2, RowsKept DEF IInv, AuditTrail
<1>3. CASE /\ history'[s] = history[s] /\ payment'[s] # "NoRow" /\ payment[s] # "NoRow"
           /\ paymentStatus'[s] = paymentStatus[s]
  BY <1>3 DEF IInv, AuditTrail
<1>4. CASE /\ payment'[s] # "NoRow"
           /\ RowFor(paymentStatus'[s]) \in HistoryRows
           /\ history'[s] = Append(history[s], RowFor(paymentStatus'[s]))
  BY <1>1, <1>4, AppendRow
<1>. QED BY <1>2, <1>3, <1>4, RowMoves DEF RowMove

\* A row can follow a READY_TO_PICKUP row only if it is EXPIRED.
LEMMA PaidOnceStep == ASSUME IInv, [Next]_vars PROVE PaidOnce'
<1> SUFFICES ASSUME NEW s \in Shipments, NEW i \in 1 .. Len(history'[s]) - 1,
                    history'[s][i] = "READY_TO_PICKUP"
             PROVE  history'[s][i + 1] = "EXPIRED"
  BY DEF PaidOnce
<1>1. history[s] \in Seq(HistoryRows)
  BY DEF IInv, TypeOK
<1>2. CASE history'[s] = history[s]
  BY <1>2 DEF IInv, PaidOnce
<1>3. CASE /\ RowFor(paymentStatus'[s]) \in HistoryRows
           /\ history'[s] = Append(history[s], RowFor(paymentStatus'[s]))
           /\ \/ history[s] = <<>>
              \/ paymentStatus[s] \notin Paid
              \/ RowFor(paymentStatus'[s]) = "EXPIRED"
  <2> DEFINE r == RowFor(paymentStatus'[s])
  <2>1. /\ Len(history'[s]) = Len(history[s]) + 1
        /\ \A j \in 1 .. Len(history[s]) : history'[s][j] = history[s][j]
        /\ history'[s][Len(history[s]) + 1] = r
    BY <1>1, <1>3, AppendRow DEF Last
  <2>2. Len(history[s]) \in Nat
    BY <1>1
  <2>3. CASE i < Len(history[s])
    BY <2>1, <2>2, <2>3 DEF IInv, PaidOnce
  <2>4. CASE i = Len(history[s])
    <3>1. history[s] # <<>> /\ Last(history[s]) = "READY_TO_PICKUP"
      BY <1>1, <2>1, <2>2, <2>4 DEF Last
    <3>2. paymentStatus[s] \in Paid
      BY <3>1 DEF IInv, AuditTrail, RowFor, Paid, TypeOK, Statuses
    <3>. QED BY <1>3, <2>1, <2>4, <3>1, <3>2
  <2>. QED BY <2>1, <2>2, <2>3, <2>4
<1>. QED BY <1>2, <1>3, RowMoves DEF RowMove

---------------------------------------------------------------------------
(* The theorems.                                                           *)

\* The inductive invariant holds initially.
LEMMA InitOK == Init => IInv
BY PaymentAssumption DEF Init, IInv, TypeOK, RequestsOK, LockOK, CreateOK, Unrecorded, JobOK,
   JobRunning, RowsOK, SentOK, ReadyIsPaid, AckedIsReady, MailIsTrue, MirrorsAgree, AuditTrail,
   PaidOnce, Idle, Requests, InTx, Statuses, CreateSteps, JobSteps, Paid

\* Every step keeps the inductive invariant.
LEMMA Inductive == IInv /\ [Next]_vars => IInv'
<1> SUFFICES ASSUME IInv, [Next]_vars PROVE IInv'
  OBVIOUS
<1>. QED
  BY TypeStep, RequestsStep, LockStep, CreateStep, JobStep, RowsStep, SentStep, ReadyStep,
     AckedStep, MailStep, MirrorsStep, AuditStep, PaidOnceStep DEF IInv

\* The inductive invariant holds in every reachable state.
THEOREM Invariance == Spec => []IInv
BY InitOK, Inductive, PTL DEF Spec

\* Type correctness of every row, job and request.
THEOREM TypeCorrect == Spec => []TypeOK
BY Invariance, PTL DEF IInv

\* No parcel is released to the couriers without money at Xendit.
THEOREM ReleaseIsPaid == Spec => []ReadyIsPaid
BY Invariance, PTL DEF IInv

\* An answered PAID or SETTLED notification has released the parcel.
THEOREM AnswerIsApplied == Spec => []AckedIsReady
BY Invariance, PTL DEF IInv

\* The success email is true, also when its transaction rolls back.
THEOREM MailIsBacked == Spec => []MailIsTrue
BY Invariance, PTL DEF IInv

\* Payment.status and Shipment.paymentStatus never part.
THEOREM RowsAgree == Spec => []MirrorsAgree
BY Invariance, PTL DEF IInv

\* The newest history row is the one of the shipment's paymentStatus.
THEOREM TrailIsTrue == Spec => []AuditTrail
BY Invariance, PTL DEF IInv

\* However often Xendit repeats itself, a payment is applied once.
THEOREM PaymentAppliedOnce == Spec => []PaidOnce
BY Invariance, PTL DEF IInv

---------------------------------------------------------------------------
(* Who takes a payment back.                                               *)

\* What TakenBackByJob rests on: the one payment beyond the job's runs is the one
\* that the row still has.
PaidNow(s) == IF payment[s] \in Paid THEN 1 ELSE 0
TakenBack == \A s \in Shipments : Applied(s) <= PaidNow(s) + JobRuns(s)

\* The READY_TO_PICKUP rows of a history.
PaidRows(q) == Cardinality({i \in 1 .. Len(q) : q[i] = "READY_TO_PICKUP"})

\* A history has a number of them, and one more row is at most one of them more.
LEMMA PaidRowsAppended ==
  ASSUME NEW q \in Seq(HistoryRows), NEW r \in HistoryRows
  PROVE  /\ PaidRows(q) \in Nat
         /\ PaidRows(Append(q, r)) = PaidRows(q) + IF r = "READY_TO_PICKUP" THEN 1 ELSE 0
<1> DEFINE n   == Len(q)
           old == {i \in 1 .. n : q[i] = "READY_TO_PICKUP"}
           new == {i \in 1 .. n + 1 : Append(q, r)[i] = "READY_TO_PICKUP"}
<1>1. /\ n \in Nat /\ Len(Append(q, r)) = n + 1 /\ Append(q, r)[n + 1] = r
      /\ \A i \in 1 .. n : Append(q, r)[i] = q[i]
  BY AppendRow DEF Last
<1>2. IsFiniteSet(old) /\ Cardinality(old) \in Nat /\ n + 1 \notin old
  <2>1. IsFiniteSet(1 .. n)
    BY <1>1, FS_Interval
  <2>. QED BY <1>1, <2>1, FS_Subset, FS_CardinalityType
<1>3. new = IF r = "READY_TO_PICKUP" THEN old \cup {n + 1} ELSE old
  <2>1. \A i : i \in 1 .. n + 1 <=> i \in 1 .. n \/ i = n + 1
    BY <1>1
  <2>. QED BY <1>1, <2>1
<1>4. Cardinality(new) = Cardinality(old) + IF r = "READY_TO_PICKUP" THEN 1 ELSE 0
  <2>1. Cardinality(old \cup {n + 1}) = Cardinality(old) + 1
    BY <1>2, FS_AddElement
  <2> HIDE DEF old, new
  <2>. QED BY <1>2, <1>3, <2>1
<1>. QED BY <1>1, <1>2, <1>4 DEF PaidRows

\* No step undoes a run of a job.
LEMMA JobRunsGrow ==
  ASSUME IInv, [Next]_vars, NEW s \in Shipments
  PROVE  /\ JobRuns(s) \in Nat /\ JobRuns(s)' \in Nat
         /\ JobRuns(s) <= JobRuns(s)'
<1> USE DEF IInv, TypeOK, JobRuns, JobRunning
<1>1. ASSUME NEW t \in Shipments, QueueExpiry(t) PROVE JobRuns(s) <= JobRuns(s)'
  <2>1. job[t] = "none" /\ stalled'[s] = stalled[s]
    BY <1>1 DEF QueueExpiry, Step, JobOK
  <2>2. job'[s] = job[s] \/ job[s] = "none"
    BY <1>1, <2>1 DEF QueueExpiry
  <2>. QED BY <2>1, <2>2
<1>2. ASSUME NEW t \in Shipments, JobNext(t) \/ JobThrows(t) PROVE JobRuns(s) <= JobRuns(s)'
  BY <1>2 DEF JobNext, JobStart, JobRead, JobExpire, JobMail, JobThrows, SetJob, RetryOrFail
<1>3. ASSUME NEW h \in Handlers, CancelExpiry(h) PROVE JobRuns(s) <= JobRuns(s)'
  BY <1>3 DEF CancelExpiry
<1>4. CASE Crash
  <2>1. stalled[s] \in BOOLEAN /\ stalled'[s] = (stalled[s] \/ job[s] \in JobRunning)
    BY <1>4 DEF Crash
  <2>2. CASE job[s] \notin JobRunning
    <3>1. job'[s] = job[s] /\ stalled'[s] = stalled[s]
      BY <1>4, <2>1, <2>2 DEF Crash
    <3>. QED BY <3>1
  <2>3. CASE job[s] \in JobRunning /\ stalled[s]
    <3>1. job'[s] = "failed" /\ stalled'[s]
      BY <1>4, <2>1, <2>3 DEF Crash
    <3>. QED BY <2>3, <3>1
  <2>4. CASE job[s] \in JobRunning /\ ~stalled[s]
    <3>1. stalled'[s]
      BY <2>1, <2>4
    <3>. QED BY <2>4, <3>1
  <2>. QED BY <2>1, <2>2, <2>3, <2>4
<1>. QED BY <1>1, <1>2, <1>3, <1>4, Writers DEF jobVars

\* Every step that applies a payment finds none, and only the job drops one.
LEMMA TakenBackStep == ASSUME IInv, TakenBack, [Next]_vars PROVE TakenBack'
<1> SUFFICES ASSUME NEW s \in Shipments
             PROVE  Applied(s)' <= PaidNow(s)' + JobRuns(s)'
  BY DEF TakenBack
<1>1. /\ Applied(s) = PaidRows(history[s]) /\ Applied(s)' = PaidRows(history'[s])
      /\ history[s] \in Seq(HistoryRows) /\ PaidRows(history[s]) \in Nat
      /\ Applied(s) <= PaidNow(s) + JobRuns(s)
  BY PaidRowsAppended DEF Applied, PaidRows, IInv, TypeOK, TakenBack, HistoryRows
<1>2. /\ JobRuns(s) \in Nat /\ JobRuns(s)' \in Nat /\ JobRuns(s) <= JobRuns(s)'
  BY JobRunsGrow
<1>3. CASE UNCHANGED <<payment[s], history[s]>>
  BY <1>1, <1>2, <1>3 DEF PaidNow
<1>4. ASSUME NEW h \in Handlers, CommitWebhook(h), hook[h].ship = s
      PROVE  Applied(s)' <= PaidNow(s)' + JobRuns(s)'
  <2>1. /\ payment[s] \notin Paid /\ hook[h].status \in Statuses
        /\ payment'[s] = hook[h].status /\ history'[s] = Trail(s, hook[h].status)
    BY <1>4, Commits DEF CommitWebhook, IInv, TypeOK
  <2>2. CASE hook[h].status \in Paid
    <3>1. PaidRows(history'[s]) = PaidRows(history[s]) + 1
      BY <1>1, <2>1, <2>2, PaidRowsAppended DEF Trail, PaidBranch, HistoryRows
    <3>. QED BY <1>1, <1>2, <2>1, <2>2, <3>1 DEF PaidNow
  <2>3. CASE hook[h].status \notin Paid
    <3>1. PaidRows(history'[s]) = PaidRows(history[s])
      BY <1>1, <2>1, <2>3, PaidRowsAppended DEF Trail, PaidBranch, ExpiryBranch, HistoryRows
    <3>. QED BY <1>1, <1>2, <2>1, <2>3, <3>1 DEF PaidNow
  <2>. QED BY <2>2, <2>3
<1>5. CASE RecordPayment(s)
  <2>1. PaidRows(history'[s]) = PaidRows(history[s]) /\ payment[s] = "NoRow"
    BY <1>1, <1>5, PaidRowsAppended
       DEF RecordPayment, Step, CreateOK, Unrecorded, HistoryRows, IInv, TypeOK
  <2>. QED BY <1>1, <1>2, <2>1 DEF PaidNow, Paid
<1>6. CASE JobExpire(s)
  <2>1. PaidRows(history'[s]) = PaidRows(history[s])
    BY <1>1, <1>6, PaidRowsAppended DEF JobExpire, HistoryRows, IInv, TypeOK
  <2>2. JobRuns(s)' = JobRuns(s) + 1
    BY <1>6 DEF JobExpire, SetJob, JobRuns, IInv, TypeOK
  <2>. QED BY <1>1, <1>2, <2>1, <2>2 DEF PaidNow
<1>7. ASSUME NEW h \in Handlers, CommitWebhook(h), hook[h].ship # s
      PROVE  UNCHANGED <<payment[s], history[s]>>
  BY <1>7, Commits DEF CommitWebhook, IInv, TypeOK
<1>8. ASSUME NEW t \in Shipments,
             SaveShipment(t) \/ Compensate(t) \/ (t # s /\ (RecordPayment(t) \/ JobExpire(t)))
      PROVE  UNCHANGED <<payment[s], history[s]>>
  BY <1>8 DEF SaveShipment, Compensate, RecordPayment, JobExpire, IInv, TypeOK
<1>. QED BY <1>3, <1>4, <1>5, <1>6, <1>7, <1>8, Writers DEF rowVars

\* A payment is taken back by the expiry job alone, once per run of it.
THEOREM JobAloneTakesBack == Spec => []TakenBackByJob
<1>1. Init => TakenBack
  <2> SUFFICES ASSUME Init, NEW s \in Shipments PROVE Applied(s) <= PaidNow(s) + JobRuns(s)
    BY DEF TakenBack
  <2>1. {i \in 1 .. Len(history[s]) : history[s][i] = "READY_TO_PICKUP"} = {}
    BY DEF Init
  <2>. QED BY <2>1, FS_EmptySet DEF Applied, PaidNow, JobRuns, Init, Paid
<1>2. IInv /\ TakenBack => TakenBackByJob
  <2> SUFFICES ASSUME IInv, NEW s \in Shipments, Applied(s) <= PaidNow(s) + JobRuns(s)
               PROVE  Applied(s) <= 1 + JobRuns(s)
    BY DEF TakenBack, TakenBackByJob
  <2>1. Applied(s) \in Nat
    BY PaidRowsAppended DEF Applied, PaidRows, IInv, TypeOK, HistoryRows
  <2>. QED BY <2>1 DEF PaidNow, JobRuns
<1>. QED BY <1>1, <1>2, Invariance, TakenBackStep, PTL DEF Spec

---------------------------------------------------------------------------
(* What the liveness of Payment rests on: nothing is given up.             *)

\* Xendit has announced how an invoice ended.
Announced == \A s \in Shipments :
  /\ "PAID" \in Notified /\ invoice[s] \in Paid => [ship |-> s, status |-> "PAID"] \in sent
  /\ "EXPIRED" \in Notified /\ invoice[s] = "EXPIRED" =>
       [ship |-> s, status |-> "EXPIRED"] \in sent

\* An outcome that was answered is in the shipment's row.
Answered == \A n \in acked :
  payment[n.ship] # "NoRow" /\ (n.status = "PENDING" \/ paymentStatus[n.ship] # "PENDING")

\* The queues are told of an outcome only.
OutcomeOnly == \A h \in Handlers :
  hook[h].pc \in {"updated", "cancelled"} => hook[h].status # "PENDING"

\* A job is done when the payment is decided, and removed because of an outcome.
JobsEnd == \A s \in Shipments :
  /\ job[s] \in {"expired", "completed"} => paymentStatus[s] # "PENDING"
  /\ job[s] = "removed" => \E n \in sent : n.ship = s /\ n.status # "PENDING"

HandInv == Announced /\ Answered /\ OutcomeOnly /\ JobsEnd

\* A shipment whose payment is decided does not wait for it again.
LEMMA DecidedStays ==
  ASSUME IInv, [Next]_vars, NEW s \in Shipments,
         payment[s] # "NoRow", paymentStatus[s] # "PENDING"
  PROVE  paymentStatus'[s] # "PENDING"
<1> USE DEF IInv, TypeOK
<1>1. ASSUME NEW h \in Handlers, CommitWebhook(h) PROVE paymentStatus'[s] # "PENDING"
  BY <1>1 DEF CommitWebhook, Mirror, PaidBranch, ExpiryBranch, Paid
<1>2. ASSUME NEW t \in Shipments, SaveShipment(t) PROVE paymentStatus'[s] # "PENDING"
  <2>1. payment[t] = "NoRow"
    BY <1>2 DEF SaveShipment, Step, CreateOK, Unrecorded
  <2>. QED BY <1>2, <2>1 DEF SaveShipment
<1>3. ASSUME NEW t \in Shipments, Compensate(t) \/ RecordPayment(t) \/ JobExpire(t)
      PROVE  paymentStatus'[s] # "PENDING"
  BY <1>3 DEF Compensate, RecordPayment, JobExpire
<1>. QED BY <1>1, <1>2, <1>3, Writers DEF rowVars

\* Every step that ends an invoice announces it.
LEMMA AnnouncedStep == ASSUME IInv, Announced, [Next]_vars PROVE Announced'
<1> USE DEF IInv, TypeOK, Announced
<1> SUFFICES ASSUME NEW s \in Shipments
             PROVE  /\ "PAID" \in Notified /\ invoice'[s] \in Paid =>
                         [ship |-> s, status |-> "PAID"] \in sent'
                    /\ "EXPIRED" \in Notified /\ invoice'[s] = "EXPIRED" =>
                         [ship |-> s, status |-> "EXPIRED"] \in sent'
  OBVIOUS
<1> DEFINE Same == /\ invoice'[s] \in Paid => invoice[s] \in Paid
                   /\ invoice'[s] = "EXPIRED" => invoice[s] = "EXPIRED"
<1>1. CASE Same
  BY <1>1, SentGrows
<1>2. CASE XenditPay(s)
  BY <1>2 DEF XenditPay, Announce, Notifications
<1>3. CASE XenditExpire(s)
  BY <1>3 DEF XenditExpire, Announce, Notifications, Paid
<1>4. CASE ~XenditPay(s) /\ ~XenditExpire(s)
  <2>1. ASSUME NEW t \in Shipments, XenditPay(t) \/ XenditExpire(t)
        PROVE  Same
    <3>1. t # s
      BY <1>4, <2>1
    <3>. QED BY <2>1, <3>1 DEF XenditPay, XenditExpire
  <2>2. ASSUME NEW t \in Shipments, XenditSettle(t) PROVE Same
    BY <2>2 DEF XenditSettle, Paid
  <2>3. ASSUME NEW t \in Shipments, CreateInvoice(t) PROVE Same
    BY <2>3 DEF CreateInvoice, Paid
  <2>4. ASSUME NEW t \in Shipments, Deadline(t) \/ \E status \in Notified : XenditReport(t, status)
        PROVE  Same
    BY <2>4 DEF Deadline, XenditReport
  <2>5. ASSUME UNCHANGED xenditVars PROVE Same
    BY <2>5 DEF xenditVars
  <2>6. Same
    BY <2>1, <2>2, <2>3, <2>4, <2>5, Writers
  <2>. QED BY <1>1, <2>6
<1>. QED BY <1>2, <1>3, <1>4

\* Every step answers 200 to an outcome only when the row has one.
LEMMA AnsweredStep == ASSUME IInv, Answered, [Next]_vars PROVE Answered'
<1> SUFFICES ASSUME NEW n \in acked'
             PROVE  /\ payment'[n.ship] # "NoRow"
                    /\ n.status = "PENDING" \/ paymentStatus'[n.ship] # "PENDING"
  BY DEF Answered
<1>1. CASE n \in acked
  <2>1. n.ship \in Shipments
    BY <1>1 DEF IInv, TypeOK, Notifications
  <2>. QED BY <1>1, <2>1, RowsKept, DecidedStays DEF Answered
<1>2. CASE n \notin acked
  <2>1. PICK h \in Handlers : SkipPaid(h) \/ CommitWebhook(h)
    BY <1>2, Writers
  <2>2. /\ n.ship = hook[h].ship /\ n.status = hook[h].status
        /\ hook[h].ship \in Shipments /\ payment[hook[h].ship] # "NoRow"
        /\ hook[h].status \in Statuses
    BY <1>2, <2>1, Served DEF SkipPaid, CommitWebhook, Respond
  <2>3. payment'[n.ship] # "NoRow"
    BY <2>2, RowsKept
  <2>4. CASE SkipPaid(h)
    <3>1. paymentStatus[n.ship] # "PENDING"
      BY <2>2, <2>4 DEF SkipPaid, NotYetPaid, Paid, IInv, MirrorsAgree
    <3>. QED BY <2>2, <2>3, <3>1, DecidedStays
  <2>5. CASE CommitWebhook(h)
    <3>1. n.status # "PENDING" => paymentStatus'[n.ship] = n.status
      BY <2>2, <2>5 DEF CommitWebhook, Mirror, PaidBranch, ExpiryBranch, Paid, Statuses,
                        IInv, TypeOK
    <3>. QED BY <2>3, <3>1
  <2>. QED BY <2>1, <2>4, <2>5
<1>. QED BY <1>1, <1>2

\* Every step keeps a PENDING notification away from the queues.
LEMMA OutcomeStep == ASSUME IInv, OutcomeOnly, [Next]_vars PROVE OutcomeOnly'
<1> USE DEF IInv, TypeOK, Requests, OutcomeOnly
<1>1. ASSUME NEW g \in Handlers, UpdatePayment(g) PROVE OutcomeOnly'
  BY <1>1 DEF UpdatePayment, Goto, PaidBranch, ExpiryBranch, Paid
<1>2. ASSUME NEW g \in Handlers, CancelExpiry(g) PROVE OutcomeOnly'
  BY <1>2 DEF CancelExpiry, Goto
<1>3. ASSUME NEW g \in Handlers, QueueOutcome(g) PROVE OutcomeOnly'
  BY <1>3 DEF QueueOutcome, Goto
<1>4. ASSUME NEW g \in Handlers, SkipPaid(g) \/ CommitWebhook(g) \/ WebhookThrows(g)
      PROVE  OutcomeOnly'
  <2>1. hook' = [hook EXCEPT ![g] = Idle]
    BY <1>4 DEF SkipPaid, CommitWebhook, WebhookThrows
  <2>. QED BY <2>1 DEF Idle
<1>5. ASSUME NEW g \in Handlers, NEW n \in Notifications, Deliver(g, n) PROVE OutcomeOnly'
  BY <1>5 DEF Deliver
<1>6. CASE Crash
  BY <1>6 DEF Crash, Idle
<1>. QED BY <1>1, <1>2, <1>3, <1>4, <1>5, <1>6, Writers DEF HookNext

\* Every step ends a job for a reason.
LEMMA JobsEndStep == ASSUME IInv, HandInv, [Next]_vars PROVE JobsEnd'
<1> USE DEF IInv, TypeOK
<1> SUFFICES ASSUME NEW s \in Shipments
             PROVE  /\ job'[s] \in {"expired", "completed"} => paymentStatus'[s] # "PENDING"
                    /\ job'[s] = "removed" =>
                         \E n \in sent' : n.ship = s /\ n.status # "PENDING"
  BY DEF JobsEnd
<1>1. job[s] # "none" => payment[s] # "NoRow"
  BY DEF JobOK, CreateOK
<1>2. CASE job'[s] = job[s]
  BY <1>1, <1>2, DecidedStays, SentGrows DEF HandInv, JobsEnd
<1>3. ASSUME NEW t \in Shipments, QueueExpiry(t) \/ JobStart(t), job'[s] # job[s]
      PROVE  job'[s] \notin {"expired", "completed", "removed"}
  BY <1>3 DEF QueueExpiry, JobStart, SetJob
<1>4. ASSUME NEW t \in Shipments, JobThrows(t), job'[s] # job[s]
      PROVE  job'[s] \notin {"expired", "completed", "removed"}
  BY <1>4 DEF JobThrows, SetJob, RetryOrFail
<1>5. ASSUME Crash, job'[s] # job[s]
      PROVE  job'[s] \notin {"expired", "completed", "removed"}
  BY <1>5 DEF Crash
<1>6. ASSUME NEW t \in Shipments, JobRead(t), job'[s] # job[s]
      PROVE  job'[s] # "removed" /\ (job'[s] # "loaded" => paymentStatus'[s] # "PENDING")
  <2>1. t = s /\ job[s] = "active" /\ job'[s] \in {"loaded", "completed"}
        /\ (job'[s] = "completed" => payment[s] # "PENDING")
    BY <1>6 DEF JobRead, SetJob, StillPending
  <2>2. job'[s] = "completed" => paymentStatus[s] # "PENDING"
    BY <1>1, <2>1 DEF MirrorsAgree
  <2>. QED BY <1>6, <2>1, <2>2 DEF JobRead, rowVars
<1>7. ASSUME NEW t \in Shipments, JobExpire(t), job'[s] # job[s]
      PROVE  job'[s] = "expired" /\ paymentStatus'[s] = "EXPIRED"
  BY <1>7 DEF JobExpire, SetJob
<1>8. ASSUME NEW t \in Shipments, JobMail(t), job'[s] # job[s]
      PROVE  job'[s] = "completed" /\ paymentStatus'[s] # "PENDING"
  <2>1. t = s /\ job[s] = "expired" /\ job'[s] = "completed"
    BY <1>8 DEF JobMail, SetJob
  <2>. QED BY <1>8, <2>1 DEF JobMail, rowVars, HandInv, JobsEnd
<1>9. ASSUME NEW h \in Handlers, CancelExpiry(h), job'[s] # job[s]
      PROVE  job'[s] = "removed" /\ \E n \in sent : n.ship = s /\ n.status # "PENDING"
  <2>1. hook[h].pc = "updated" /\ hook[h].ship = s /\ job'[s] = "removed"
    BY <1>9 DEF CancelExpiry
  <2>2. [ship |-> s, status |-> hook[h].status] \in sent
    BY <2>1, Served
  <2>3. hook[h].status # "PENDING"
    BY <2>1 DEF HandInv, OutcomeOnly
  <2>. QED BY <2>1, <2>2, <2>3
<1>. QED
  BY <1>2, <1>3, <1>4, <1>5, <1>6, <1>7, <1>8, <1>9, Writers, SentGrows DEF JobNext, jobVars

LEMMA HandInvariance == Spec => []HandInv
<1>1. Init => HandInv
  BY DEF Init, HandInv, Announced, Answered, OutcomeOnly, JobsEnd, Idle, Paid
<1>2. IInv /\ HandInv /\ [Next]_vars => HandInv'
  BY AnnouncedStep, AnsweredStep, OutcomeStep, JobsEndStep DEF HandInv
<1>. QED BY <1>1, <1>2, Invariance, PTL DEF Spec

\* As long as money has not moved the parcel, its notification is still to come
\* (shipments.service.ts:253-339).
THEOREM MoneyArrives == Spec => []MoneyIsOnItsWay
<1>1. IInv /\ HandInv => MoneyIsOnItsWay
  BY DEF IInv, AckedIsReady, HandInv, Announced, MoneyIsOnItsWay, Paid
<1>. QED BY <1>1, Invariance, HandInvariance, PTL

\* A shipment that waits for its payment has not been given up
\* (shipments.service.ts:311-366, payment-expired-queue.processor.ts:57-87).
THEOREM NothingGivenUp == Spec => []UndecidedIsInHand
<1>1. HandInv => UndecidedIsInHand
  <2> SUFFICES ASSUME HandInv, NEW s \in Shipments, paymentStatus[s] = "PENDING"
               PROVE  /\ \A n \in acked : n.ship = s => n.status = "PENDING"
                      /\ "EXPIRED" \in Notified /\ invoice[s] = "EXPIRED" =>
                           [ship |-> s, status |-> "EXPIRED"] \in sent \ acked
                      /\ job[s] \notin {"expired", "completed"}
                      /\ job[s] = "removed" =>
                           \E n \in sent \ acked : n.ship = s /\ n.status # "PENDING"
    BY DEF UndecidedIsInHand
  <2>1. \A n \in acked : n.ship = s => n.status = "PENDING"
    BY DEF HandInv, Answered
  <2>2. "EXPIRED" \in Notified /\ invoice[s] = "EXPIRED" =>
          [ship |-> s, status |-> "EXPIRED"] \in sent \ acked
    BY <2>1 DEF HandInv, Announced
  <2>3. /\ job[s] \notin {"expired", "completed"}
        /\ job[s] = "removed" => \E n \in sent : n.ship = s /\ n.status # "PENDING"
    BY DEF HandInv, JobsEnd
  <2>. QED BY <2>1, <2>2, <2>3
<1>. QED BY <1>1, HandInvariance, PTL

---------------------------------------------------------------------------
(* Payment implements PaymentLedger.                                       *)

\* The row a commit of the webhook appends, if any, is one the ledger allows.
LEMMA CommitRefines ==
  ASSUME IInv, NEW h \in Handlers, CommitWebhook(h)
  PROVE  [Ledger!Next]_<<history, ready>>
<1> DEFINE s == hook[h].ship
           status == hook[h].status
<1> USE DEF IInv, TypeOK
<1>1. s \in Shipments /\ status \in Statuses /\ payment[s] \notin Paid \cup {"NoRow"}
  BY Commits
<1>2. Ledger!Unpaid(s)
  <2>1. paymentStatus[s] \notin Paid
    BY <1>1 DEF MirrorsAgree, Paid
  <2>2. history[s] # <<>> /\ Last(history[s]) = paymentStatus[s]
    BY <1>1, <2>1 DEF AuditTrail, RowFor
  <2>3. paymentStatus[s] # "READY_TO_PICKUP"
    BY <1>1 DEF Statuses
  <2>. QED BY <2>2, <2>3 DEF Ledger!Unpaid, Ledger!Newest, Last
<1>3. /\ history' = [history EXCEPT ![s] = Trail(s, status)]
      /\ ready' = [ready EXCEPT ![s] = ready[s] \/ PaidBranch(status)]
  BY DEF CommitWebhook
<1>4. CASE PaidBranch(status)
  <2>1. Trail(s, status) = Append(history[s], "READY_TO_PICKUP")
    BY <1>4 DEF Trail
  <2>2. ready' = [ready EXCEPT ![s] = TRUE]
    BY <1>3, <1>4
  <2>. QED BY <1>1, <1>2, <1>3, <2>1, <2>2 DEF Ledger!Next, Ledger!Pay
<1>5. CASE ~PaidBranch(status)
  <2>1. ready' = ready
    BY <1>1, <1>3, <1>5
  <2>2. CASE status = "PENDING"
    BY <1>1, <1>3, <1>5, <2>1, <2>2 DEF Trail, ExpiryBranch
  <2>3. CASE status = "FAILED"
    <3>1. Trail(s, status) = Append(history[s], "FAILED")
      BY <1>5, <2>3 DEF Trail, ExpiryBranch
    <3>. QED BY <1>1, <1>2, <1>3, <2>1, <3>1 DEF Ledger!Next, Ledger!Fail
  <2>4. CASE status = "EXPIRED"
    <3>1. Trail(s, status) = Append(history[s], "EXPIRED")
      BY <1>5, <2>4 DEF Trail, ExpiryBranch
    <3>. QED BY <1>1, <1>2, <1>3, <2>1, <3>1 DEF Ledger!Next, Ledger!Expire, Ledger!Unpaid
  <2>. QED BY <1>1, <1>5, <2>2, <2>3, <2>4 DEF Statuses, PaidBranch, Paid
<1>. QED BY <1>4, <1>5

\* Every step is a step of the ledger, or none.
LEMMA StepRefines ==
  ASSUME IInv, [Next]_vars
  PROVE  [Ledger!Next]_<<history, ready>>
<1> USE DEF IInv, TypeOK
<1>1. ASSUME NEW s \in Shipments, RecordPayment(s) PROVE Ledger!Next
  <2>1. history[s] = <<>>
    BY <1>1 DEF RecordPayment, Step, CreateOK, Unrecorded, AuditTrail
  <2>2. Append(history[s], "PENDING") = <<"PENDING">>
    BY <2>1
  <2>. QED BY <1>1, <2>1, <2>2 DEF RecordPayment, Ledger!Next, Ledger!Open
<1>2. ASSUME NEW s \in Shipments, JobExpire(s) PROVE Ledger!Next
  <2>1. history[s] # <<>>
    BY <1>2 DEF JobExpire, JobOK, CreateOK, AuditTrail
  <2>. QED BY <1>2, <2>1 DEF JobExpire, Ledger!Next, Ledger!Expire
<1>3. ASSUME NEW s \in Shipments, SaveShipment(s) \/ Compensate(s)
      PROVE  UNCHANGED <<history, ready>>
  BY <1>3 DEF SaveShipment, Compensate
<1>. QED BY <1>1, <1>2, <1>3, CommitRefines, Writers DEF rowVars

\* Every behaviour of the payment code is a behaviour of the ledger.
THEOREM Refinement == Spec => ImplementsLedger
<1>1. Init => Ledger!Init
  BY DEF Init, Ledger!Init
<1>. QED
  BY <1>1, Invariance, StepRefines, PTL DEF Spec, ImplementsLedger, Ledger!Spec

---------------------------------------------------------------------------
(* The price.                                                              *)

\* A charge is what the function returns for the parcel.
Charged ==
  /\ parcel \in Offered
  /\ charge # NotPriced => charge = calculateShipmentCost(parcel)

\* The steps keep Charged.
LEMMA ChargedAlways == CostSpec => []Charged
<1>1. CostInit => Charged
  BY DEF CostInit, Charged
<1>2. Charged /\ [CostNext]_costVars => Charged'
  BY DEF Charged, CostNext, Price, costVars
<1> QED BY <1>1, <1>2, PTL DEF CostSpec

\* An offered parcel has a distance, a weight and a delivery type.
LEMMA OfferedParcel ==
  ASSUME NEW p \in Offered
  PROVE  /\ p.distance \in Nat /\ p.weight \in Nat \ {0}
         /\ p.deliveryType \in DeliveryTypes
BY CostAssumption DEF Offered

\* Begun units: the least number of units that cover n.
LEMMA BegunCovers ==
  ASSUME NEW n \in Nat \ {0}
  PROVE  /\ Begun(n, 1000) \in Nat /\ Covers(Begun(n, 1000), 1000, n)
         /\ Begun(n, 100000) \in Nat /\ Covers(Begun(n, 100000), 100000, n)
BY DEF Begun, Covers

\* More never begins fewer units.
LEMMA BegunMonotone ==
  ASSUME NEW n \in Nat \ {0}, NEW m \in Nat \ {0}, m <= n
  PROVE  Begun(m, 1000) <= Begun(n, 1000) /\ Begun(m, 100000) <= Begun(n, 100000)
BY DEF Begun

\* The rates of each delivery type.
LEMMA Rates ==
  /\ baseRates["same_day"] = 15000 /\ baseRates["next_day"] = 10000
  /\ baseRates["regular"] = 5000
  /\ weightRates["same_day"] = 1000 /\ weightRates["next_day"] = 800
  /\ weightRates["regular"] = 500
  /\ distanceTierRates["same_day"] = [tier1 |-> 8000, tier2 |-> 12000, tier3 |-> 15000]
  /\ distanceTierRates["next_day"] = [tier1 |-> 6000, tier2 |-> 9000, tier3 |-> 12000]
  /\ distanceTierRates["regular"] = [tier1 |-> 4000, tier2 |-> 6000, tier3 |-> 8000]
BY DEF baseRates, weightRates, distanceTierRates

\* What the tables have in common, and all that monotonicity needs of them.
LEMMA RateShape ==
  ASSUME NEW type \in DeliveryTypes
  PROVE  LET rate == distanceTierRates[type] IN
         /\ baseRates[type] \in Nat /\ weightRates[type] \in Nat
         /\ rate.tier1 \in Nat /\ rate.tier2 \in Nat /\ rate.tier3 \in Nat
         /\ rate.tier1 + rate.tier2 <= rate.tier3 + rate.tier3
BY Rates DEF DeliveryTypes

\* The price of the distance never falls with the distance.
LEMMA DistanceMonotone ==
  ASSUME NEW p \in Offered, NEW q \in Offered,
         p.deliveryType = q.deliveryType, p.distance <= q.distance
  PROVE  /\ distancePrice(p) \in Nat /\ distancePrice(q) \in Nat
         /\ distancePrice(p) <= distancePrice(q)
<1> DEFINE t1 == distanceTierRates[q.deliveryType].tier1
           t2 == distanceTierRates[q.deliveryType].tier2
           t3 == distanceTierRates[q.deliveryType].tier3
           b(x) == Begun(x - 100000, 100000)
           f(x) == IF x <= 50000 THEN t1 ELSE IF x <= 100000 THEN t1 + t2
                   ELSE t3 + b(x) * t3
<1>1. /\ p.distance \in Nat /\ q.distance \in Nat
      /\ t1 \in Nat /\ t2 \in Nat /\ t3 \in Nat /\ t1 + t2 <= t3 + t3
  BY OfferedParcel, RateShape
<1>2. distancePrice(p) = f(p.distance) /\ distancePrice(q) = f(q.distance)
  BY DEF distancePrice
<1>3. ASSUME NEW x \in Nat, x > 100000
      PROVE  b(x) \in Nat /\ b(x) >= 1
  BY <1>3 DEF Begun
<1>4. ASSUME NEW n \in Nat, NEW m \in Nat, m <= n
      PROVE  m * t3 \in Nat /\ n * t3 \in Nat /\ m * t3 <= n * t3
  BY <1>1, <1>4
<1>5. ASSUME NEW x \in Nat, x > 100000
      PROVE  f(x) \in Nat /\ f(x) >= t3 + t3
  <2>1. f(x) = t3 + b(x) * t3
    BY <1>5
  <2>2. b(x) \in Nat /\ 1 <= b(x)
    BY <1>3, <1>5
  <2>3. 1 * t3 <= b(x) * t3 /\ b(x) * t3 \in Nat
    BY <2>2, <1>4
  <2> HIDE DEF f, b
  <2> QED BY <1>1, <2>1, <2>3
<1>6. ASSUME NEW x \in Nat PROVE f(x) \in Nat
  BY <1>1, <1>5
<1>7. f(p.distance) <= f(q.distance)
  <2>1. CASE p.distance > 100000
    <3>1. b(p.distance) \in Nat /\ b(q.distance) \in Nat /\ b(p.distance) <= b(q.distance)
      BY <1>1, <1>3, <2>1, BegunMonotone
    <3>2. b(p.distance) * t3 <= b(q.distance) * t3
          /\ b(p.distance) * t3 \in Nat /\ b(q.distance) * t3 \in Nat
      BY <1>4, <3>1
    <3>3. f(p.distance) = t3 + b(p.distance) * t3 /\ f(q.distance) = t3 + b(q.distance) * t3
      BY <1>1, <2>1
    <3> HIDE DEF f, b
    <3> QED BY <1>1, <3>2, <3>3
  <2>2. CASE p.distance <= 100000 /\ q.distance > 100000
    <3>1. f(p.distance) <= t1 + t2
      BY <1>1, <2>2
    <3>2. f(q.distance) >= t3 + t3 /\ f(q.distance) \in Nat /\ f(p.distance) \in Nat
      BY <1>1, <1>5, <1>6, <2>2
    <3> HIDE DEF f
    <3> QED BY <1>1, <3>1, <3>2
  <2>3. CASE q.distance <= 100000
    BY <1>1, <2>3
  <2> QED BY <1>1, <2>1, <2>2, <2>3
<1> QED BY <1>1, <1>2, <1>6, <1>7

\* The price of the weight never falls with the weight.
LEMMA WeightMonotone ==
  ASSUME NEW p \in Offered, NEW q \in Offered,
         p.deliveryType = q.deliveryType, p.weight <= q.weight
  PROVE  /\ weightPrice(p) \in Nat /\ weightPrice(q) \in Nat
         /\ weightPrice(p) <= weightPrice(q)
<1>1. /\ Begun(p.weight, 1000) \in Nat /\ Begun(q.weight, 1000) \in Nat
      /\ Begun(p.weight, 1000) <= Begun(q.weight, 1000)
  BY OfferedParcel, BegunCovers, BegunMonotone
<1>2. weightRates[q.deliveryType] \in Nat
  BY OfferedParcel, RateShape
<1> QED BY <1>1, <1>2 DEF weightPrice

\* A parcel that is no farther and no heavier is no dearer
\* (shipments.service.ts:499-518).
THEOREM MonotonePrice == CostSpec => []NeverCheaper
<1>1. Charged => NeverCheaper
  <2>1. SUFFICES ASSUME Charged, charge # NotPriced, NEW p \in Offered,
                        p.deliveryType = parcel.deliveryType,
                        p.distance <= parcel.distance, p.weight <= parcel.weight
                 PROVE  totalPrice(p) <= charge.totalPrice
    BY DEF NeverCheaper
  <2>2. charge.totalPrice = totalPrice(parcel) /\ parcel \in Offered
    BY <2>1 DEF Charged, calculateShipmentCost
  <2>3. basePrice(p) = basePrice(parcel) /\ basePrice(p) \in Nat
    BY <2>1, OfferedParcel, RateShape DEF basePrice
  <2>4. /\ weightPrice(p) \in Nat /\ weightPrice(parcel) \in Nat
        /\ weightPrice(p) <= weightPrice(parcel)
    BY <2>1, <2>2, WeightMonotone
  <2>5. /\ distancePrice(p) \in Nat /\ distancePrice(parcel) \in Nat
        /\ distancePrice(p) <= distancePrice(parcel)
    BY <2>1, <2>2, DistanceMonotone
  <2> QED BY <2>2, <2>3, <2>4, <2>5 DEF totalPrice, AtLeast, minimumPrice
<1> QED BY <1>1, ChargedAlways, PTL

\* Beyond 100 km every begun block of 100 km is charged, the first included,
\* and every begun kilogram (shipments.service.ts:480-515).
THEOREM BegunUnitsCharged == CostSpec => []BegunUnits
<1>1. ASSUME Charged, charge # NotPriced
      PROVE  BegunUnits
  <2> DEFINE type == parcel.deliveryType
             kilo == weightRates[type]
             block == distanceTierRates[type].tier3
  <2>1. parcel \in Offered /\ charge.weightPrice = weightPrice(parcel)
        /\ charge.distancePrice = distancePrice(parcel)
    BY <1>1 DEF Charged, calculateShipmentCost
  <2>2. type \in DeliveryTypes /\ parcel.distance \in Nat /\ parcel.weight \in Nat \ {0}
    BY <2>1, OfferedParcel
  <2>3. kilo \in {1000, 800, 500} /\ block \in {15000, 12000, 8000}
    BY <2>2, Rates DEF DeliveryTypes
  <2>4. ASSUME NEW n \in Nat
        PROVE  /\ (n * kilo) \div kilo = n /\ (n * kilo) % kilo = 0
               /\ (n * block) \div block = n /\ (n * block) % block = 0
    <3>1. (n * 1000) \div 1000 = n /\ (n * 1000) % 1000 = 0
      OBVIOUS
    <3>2. (n * 800) \div 800 = n /\ (n * 800) % 800 = 0
      OBVIOUS
    <3>3. (n * 500) \div 500 = n /\ (n * 500) % 500 = 0
      OBVIOUS
    <3>4. (n * 15000) \div 15000 = n /\ (n * 15000) % 15000 = 0
      OBVIOUS
    <3>5. (n * 12000) \div 12000 = n /\ (n * 12000) % 12000 = 0
      OBVIOUS
    <3>6. (n * 8000) \div 8000 = n /\ (n * 8000) % 8000 = 0
      OBVIOUS
    <3> HIDE DEF kilo, block
    <3>7. (n * kilo) \div kilo = n /\ (n * kilo) % kilo = 0
      BY <2>3, <3>1, <3>2, <3>3
    <3>8. (n * block) \div block = n /\ (n * block) % block = 0
      BY <2>3, <3>4, <3>5, <3>6
    <3> QED BY <3>7, <3>8
  <2>5. /\ charge.weightPrice % kilo = 0
        /\ Covers(charge.weightPrice \div kilo, 1000, parcel.weight)
    <3>1. Begun(parcel.weight, 1000) \in Nat
          /\ Covers(Begun(parcel.weight, 1000), 1000, parcel.weight)
      BY <2>2, BegunCovers
    <3>2. charge.weightPrice = Begun(parcel.weight, 1000) * kilo
      BY <2>1 DEF weightPrice
    <3> HIDE DEF kilo, block
    <3> QED BY <2>4, <3>1, <3>2
  <2>6. ASSUME parcel.distance > 100000
        PROVE  /\ charge.distancePrice % block = 0
               /\ Covers(charge.distancePrice \div block, 100000, parcel.distance)
    <3> DEFINE n == Begun(parcel.distance - 100000, 100000)
    <3>1. n \in Nat /\ Covers(n, 100000, parcel.distance - 100000)
      BY <2>2, <2>6, BegunCovers
    <3>2. charge.distancePrice = block + n * block
      BY <2>1, <2>2, <2>6 DEF distancePrice
    <3>3. block \in Nat
      BY <2>3
    <3>4. Covers(n + 1, 100000, parcel.distance)
      BY <2>2, <3>1 DEF Covers
    <3> HIDE DEF n, block, kilo
    <3>5. charge.distancePrice = (n + 1) * block
      BY <3>1, <3>2, <3>3
    <3> QED BY <2>4, <3>1, <3>4, <3>5
  <2> QED BY <2>5, <2>6 DEF BegunUnits
<1>2. Charged => BegunUnits
  BY <1>1 DEF BegunUnits
<1> QED BY <1>2, ChargedAlways, PTL

\* The parts of the price of an offered parcel.
LEMMA PartsOf ==
  ASSUME NEW p \in Offered
  PROVE  /\ basePrice(p) \in Nat /\ basePrice(p) >= 5000
         /\ weightPrice(p) \in Nat /\ weightPrice(p) >= 500
         /\ distancePrice(p) \in Nat /\ distancePrice(p) >= 4000
<1>1. p.distance \in Nat /\ p.weight \in Nat \ {0} /\ p.deliveryType \in DeliveryTypes
  BY OfferedParcel
<1>2. Begun(p.weight, 1000) \in Nat /\ Begun(p.weight, 1000) >= 1
  BY <1>1 DEF Begun
<1>3. ASSUME p.distance > 100000
      PROVE  Begun(p.distance - 100000, 100000) \in Nat
  BY <1>1, <1>3 DEF Begun
<1>4. basePrice(p) \in Nat /\ basePrice(p) >= 5000
  BY <1>1, Rates DEF DeliveryTypes, basePrice
<1>5. weightPrice(p) \in Nat /\ weightPrice(p) >= 500
  BY <1>1, <1>2, Rates DEF DeliveryTypes, weightPrice
<1>6. distancePrice(p) \in Nat /\ distancePrice(p) >= 4000
  BY <1>1, <1>3, Rates DEF DeliveryTypes, distancePrice
<1> QED BY <1>4, <1>5, <1>6

\* Prices are whole rupiah, and never below the minimum price
\* (shipments.service.ts:519-530).
THEOREM PriceTypeCorrect == CostSpec => []CostTypeOK
<1>1. Charged => CostTypeOK
  <2>1. SUFFICES ASSUME Charged, charge # NotPriced PROVE CostTypeOK
    BY DEF Charged, CostTypeOK
  <2>2. parcel \in Offered /\ charge = calculateShipmentCost(parcel)
    BY <2>1 DEF Charged
  <2>3. totalPrice(parcel) \in {n \in Nat : n >= 10000}
    BY <2>2, PartsOf DEF totalPrice, AtLeast, minimumPrice
  <2>4. /\ basePrice(parcel) \in Nat /\ weightPrice(parcel) \in Nat
        /\ distancePrice(parcel) \in Nat
    BY <2>2, PartsOf
  <2> QED BY <2>2, <2>3, <2>4 DEF CostTypeOK, calculateShipmentCost
<1> QED BY <1>1, ChargedAlways, PTL

\* The total is the sum of its parts, but for the smallest regular parcels
\* (shipments.service.ts:517-528).
THEOREM TotalAddsUp == CostSpec => []AddsUp
<1>1. ASSUME Charged, charge # NotPriced
      PROVE  AddsUp
  <2> DEFINE sum == basePrice(parcel) + weightPrice(parcel) + distancePrice(parcel)
  <2>1. parcel \in Offered /\ charge = calculateShipmentCost(parcel)
    BY <1>1 DEF Charged
  <2>2. parcel.distance \in Nat /\ parcel.weight \in Nat \ {0}
        /\ parcel.deliveryType \in DeliveryTypes
    BY <2>1, OfferedParcel
  <2>3. charge.totalPrice = AtLeast(10000, sum)
        /\ sum = charge.basePrice + charge.weightPrice + charge.distancePrice
    BY <2>1 DEF calculateShipmentCost, totalPrice, minimumPrice
  <2>4. sum \in Nat
    BY <2>1, PartsOf
  <2>5. ASSUME sum < 10000
        PROVE  /\ parcel.deliveryType = "regular" /\ parcel.weight <= 1000
               /\ parcel.distance <= 50000 /\ sum = 9500
    <3>1. basePrice(parcel) < 6000
      BY <2>1, <2>5, PartsOf
    <3>2. parcel.deliveryType = "regular"
      BY <2>2, <3>1, Rates DEF DeliveryTypes, basePrice
    <3>3. basePrice(parcel) = 5000 /\ weightPrice(parcel) = Begun(parcel.weight, 1000) * 500
      BY <3>2, Rates DEF basePrice, weightPrice
    <3>4. Begun(parcel.weight, 1000) \in Nat /\ Begun(parcel.weight, 1000) >= 1
      BY <2>2 DEF Begun
    <3>5. distancePrice(parcel) < 4501
      BY <2>1, <2>5, <3>3, <3>4, PartsOf
    <3>6. parcel.distance <= 50000 /\ distancePrice(parcel) = 4000
      <4>1. CASE parcel.distance <= 50000
        BY <3>2, <4>1, Rates DEF distancePrice
      <4>2. CASE parcel.distance > 50000 /\ parcel.distance <= 100000
        BY <2>2, <3>2, <3>5, <4>2, Rates DEF distancePrice
      <4>3. CASE parcel.distance > 100000
        <5>1. Begun(parcel.distance - 100000, 100000) \in Nat
          BY <2>2, <4>3 DEF Begun
        <5>2. distancePrice(parcel) >= 8000
          BY <2>2, <3>2, <4>3, <5>1, Rates DEF distancePrice
        <5> QED BY <2>1, <3>5, <5>2, PartsOf
      <4> QED BY <2>2, <4>1, <4>2, <4>3
    <3>7. Begun(parcel.weight, 1000) = 1
      BY <2>5, <3>3, <3>4, <3>6
    <3>8. parcel.weight <= 1000
      BY <2>2, <3>7 DEF Begun
    <3> QED BY <3>2, <3>3, <3>6, <3>7, <3>8
  <2> HIDE DEF sum
  <2> QED BY <2>3, <2>4, <2>5 DEF AddsUp, AtLeast
<1>2. Charged => AddsUp
  BY <1>1 DEF AddsUp
<1> QED BY <1>2, ChargedAlways, PTL

\* A faster delivery of the same parcel costs more
\* (shipments.service.ts:466-494).
THEOREM FasterIsDearer == CostSpec => []FasterCostsMore
<1>1. ASSUME Charged, charge # NotPriced, parcel.deliveryType # "regular"
      PROVE  charge.totalPrice > totalPrice([parcel EXCEPT !.deliveryType = Faster[@]])
  <2> DEFINE p == parcel
             q == [parcel EXCEPT !.deliveryType = Faster[@]]
             n == Begun(p.weight, 1000)
             b == Begun(p.distance - 100000, 100000)
  <2>1. p \in Offered /\ charge.totalPrice = totalPrice(p)
    BY <1>1 DEF Charged, calculateShipmentCost
  <2>2. p.distance \in Nat /\ p.weight \in Nat \ {0} /\ p.deliveryType \in DeliveryTypes
    BY <2>1, OfferedParcel
  <2>3. /\ q \in Offered /\ q.distance = p.distance /\ q.weight = p.weight
        /\ <<p.deliveryType, q.deliveryType>> \in
             {<<"same_day", "next_day">>, <<"next_day", "regular">>}
    BY <1>1, <2>1, <2>2 DEF Offered, DeliveryTypes, Faster
  <2>4. n \in Nat /\ n >= 1 /\ (p.distance > 100000 => b \in Nat /\ b >= 1)
    BY <2>2 DEF Begun
  <2> HIDE DEF p, q
  <2>5. basePrice(p) >= basePrice(q) + 5000
    BY <2>3, Rates DEF basePrice
  <2>6. weightPrice(p) > weightPrice(q)
    <3>1. weightPrice(p) = n * weightRates[p.deliveryType]
          /\ weightPrice(q) = n * weightRates[q.deliveryType]
      BY <2>3 DEF weightPrice
    <3> HIDE DEF n
    <3> QED BY <2>3, <2>4, <3>1, Rates
  <2>7. distancePrice(p) > distancePrice(q)
    <3> HIDE DEF n
    <3>1. CASE p.distance <= 100000
      BY <2>2, <2>3, <3>1, Rates DEF distancePrice
    <3>2. CASE p.distance > 100000
      <4>1. b \in Nat /\ b >= 1
        BY <2>4, <3>2
      <4>2. /\ distancePrice(p) = distanceTierRates[p.deliveryType].tier3
                                    + b * distanceTierRates[p.deliveryType].tier3
            /\ distancePrice(q) = distanceTierRates[q.deliveryType].tier3
                                    + b * distanceTierRates[q.deliveryType].tier3
        BY <2>2, <2>3, <3>2 DEF distancePrice
      <4> HIDE DEF b
      <4> QED BY <2>3, <4>1, <4>2, Rates
    <3> QED BY <2>2, <3>1, <3>2
  <2>8. /\ basePrice(q) \in Nat /\ basePrice(q) >= 5000
        /\ weightPrice(q) \in Nat /\ distancePrice(q) \in Nat
        /\ basePrice(p) \in Nat /\ weightPrice(p) \in Nat /\ distancePrice(p) \in Nat
    BY <2>1, <2>3, PartsOf
  <2>9. totalPrice(p) > totalPrice(q)
    BY <2>5, <2>6, <2>7, <2>8 DEF totalPrice, AtLeast, minimumPrice
  <2> QED BY <2>1, <2>9 DEF q
<1>2. Charged => FasterCostsMore
  BY <1>1 DEF FasterCostsMore
<1> QED BY <1>2, ChargedAlways, PTL
=============================================================================
