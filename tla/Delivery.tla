------------------------------ MODULE Delivery ------------------------------
(***************************************************************************)
(* The journey of one paid shipment, from READY_TO_PICKUP to DELIVERED, as *)
(* couriers (ShipmentCourierService) and branch staff                      *)
(* (ShipmentBranchService) move it, while its payment goes on behind them: *)
(* a late notification is served, the expiry job wakes up or has already   *)
(* read PENDING and overwrites the payment, and PAID is then applied anew. *)
(* How these run into each other before the parcel is released is in the   *)
(* module Payment; here a webhook and the job's transaction are one step   *)
(* each, and Bull may attempt the job any number of times.  Shipments      *)
(* share nothing but the employees, so one is enough.                      *)
(*                                                                         *)
(* Every operation checks what it reads and writes in a transaction of its *)
(* own, later and by id: nothing repeats the check when it writes.  Each   *)
(* await is a step boundary; the transactions themselves are serialised by *)
(* InnoDB on the shipment's row, and two scans that overlap inside their   *)
(* transactions deadlock and one of them is rolled back.                   *)
(***************************************************************************)
EXTENDS Naturals, Sequences, FiniteSets

CONSTANTS
  Requests,    \* requests about this shipment being served at the same time
  Employees,
  Branches,
  NoBranch,    \* of an employee without an EmployeeBranch row
  MaxTrail,    \* bound: nothing new starts once the history has this many rows
  MaxPaid      \* bound: how often the parcel is released, the first time included

ASSUME DeliveryAssumption ==
  /\ NoBranch \notin Branches
  /\ MaxTrail \in Nat
  /\ MaxPaid \in Nat

VARIABLES
  deliveryStatus,  \* Shipment.deliveryStatus
  trail,           \* the statuses of its history rows, oldest first, without
                   \* the rows EXPIRED and FAILED of the payment
  payment,         \* Payment.status; PAID is also SETTLED, EXPIRED also FAILED:
                   \* the code tells them apart in the words it writes only
  job,             \* the expiry job: to be read, past its guard, or over
  logs,            \* its ShipmentBranchLog rows, oldest first
  pickupProof,     \* has ShipmentDetail.pickupProof been written
  receiptProof,    \* has ShipmentDetail.receiptProof been written
  office,          \* EmployeeBranch: where each employee works
  request,         \* what each request is doing
  overlapped       \* have two requests ever been served at once (read by no action)

vars == <<deliveryStatus, trail, payment, job, logs, pickupProof, receiptProof,
          office, request, overlapped>>

CourierOps == {"pickShipment", "pickUpShipment", "deliverShipmentToBranch",
               "pickShipmentFromBranch", "pickupShipmentFromBranch", "deliverToCustomer"}
ScanOps == {"IN", "IN ready", "OUT"}

DeliveryStatuses == {"READY_TO_PICKUP", "WAITING_PICKUP", "PICKED_UP", "IN_TRANSIT",
  "ARRIVED_AT_BRANCH", "DEPARTED_FROM_BRANCH", "READY_TO_PICKUP_AT_BRANCH",
  "READY_TO_DELIVER", "ON_THE_WAY_TO_ADDRESS", "DELIVERED"}

PaymentStatuses == {"PENDING", "PAID", "EXPIRED"}
JobSteps == {"waiting", "loaded", "over"}

LogRows == [type : {"IN", "OUT"}, branch : Branches, status : DeliveryStatuses]

RequestStates == [pc : {"idle", "located", "checked", "validated"},
                  op : CourierOps \cup ScanOps \cup {"none"},
                  branch : Branches \cup {NoBranch}]

Idle == [pc |-> "idle", op |-> "none", branch |-> NoBranch]

Init ==
  /\ deliveryStatus = "READY_TO_PICKUP"
  /\ trail = <<"READY_TO_PICKUP">>
  /\ payment = "PAID"
  /\ job \in JobSteps
  /\ logs = <<>>
  /\ pickupProof = FALSE
  /\ receiptProof = FALSE
  /\ office \in [Employees -> Branches \cup {NoBranch}]
  /\ request = [r \in Requests |-> Idle]
  /\ overlapped = FALSE

---------------------------------------------------------------------------
(* The tables of the two services.                                         *)

\* The statuses an operation accepts: assertValidStatusTransition's argument,
\* and validStatuses of the scans.
Allowed(op) ==
  CASE op = "pickShipment"             -> {"READY_TO_PICKUP"}
    [] op = "pickUpShipment"           -> {"WAITING_PICKUP"}
    [] op = "deliverShipmentToBranch"  -> {"PICKED_UP"}
    [] op = "pickShipmentFromBranch"   -> {"READY_TO_PICKUP_AT_BRANCH"}
    [] op = "pickupShipmentFromBranch" -> {"READY_TO_DELIVER"}
    [] op = "deliverToCustomer"        -> {"ON_THE_WAY_TO_ADDRESS"}
    [] op \in ScanOps -> {"IN_TRANSIT", "ARRIVED_AT_BRANCH", "DEPARTED_FROM_BRANCH"}

\* The status an operation writes; determineNewStatus for the scans.
Target(op) ==
  CASE op = "pickShipment"             -> "WAITING_PICKUP"
    [] op = "pickUpShipment"           -> "PICKED_UP"
    [] op = "deliverShipmentToBranch"  -> "IN_TRANSIT"
    [] op = "pickShipmentFromBranch"   -> "READY_TO_DELIVER"
    [] op = "pickupShipmentFromBranch" -> "ON_THE_WAY_TO_ADDRESS"
    [] op = "deliverToCustomer"        -> "DELIVERED"
    [] op = "IN"                       -> "ARRIVED_AT_BRANCH"
    [] op = "OUT"                      -> "DEPARTED_FROM_BRANCH"
    [] op = "IN ready"                 -> "READY_TO_PICKUP_AT_BRANCH"

ScanType(op) == IF op = "OUT" THEN "OUT" ELSE "IN"

---------------------------------------------------------------------------
(* Requests.  One that is refused, throws, or is lost in a crash changes   *)
(* nothing: it ends in Abort.                                              *)

Goto(r, pc) == request' = [request EXCEPT ![r].pc = pc]
Tables == <<deliveryStatus, trail, payment, job, logs, pickupProof, receiptProof, office>>
NoteOverlap(r) ==
  overlapped' = (overlapped \/ \E o \in Requests \ {r} : request[o] # Idle)

\* A courier's action reads the shipment and asserts its status.
CheckStatusUnasserted(r, op) ==
  /\ request[r] = Idle
  /\ Len(trail) < MaxTrail
  /\ request' = [request EXCEPT ![r] = [pc |-> "checked", op |-> op, branch |-> NoBranch]]
  /\ NoteOverlap(r)
  /\ UNCHANGED Tables
CheckStatus(r, op) ==
  /\ request[r] = Idle
  /\ Len(trail) < MaxTrail
  /\ deliveryStatus \in Allowed(op)
  /\ request' = [request EXCEPT ![r] = [pc |-> "checked", op |-> op, branch |-> NoBranch]]
  /\ NoteOverlap(r)
  /\ UNCHANGED Tables

\* getUserBranchOrThrow; two actions then write the photo, outside the tables.
FindBranch(r) ==
  /\ request[r].pc = "checked" /\ request[r].op \in CourierOps
  /\ \E e \in Employees : office[e] # NoBranch
  /\ Goto(r, "validated")
  /\ UNCHANGED <<Tables, overlapped>>

\* A scan finds the branch of the employee first.
StartScan(r, op, e) ==
  /\ request[r] = Idle
  /\ Len(trail) < MaxTrail
  /\ office[e] # NoBranch
  /\ request' = [request EXCEPT ![r] = [pc |-> "located", op |-> op, branch |-> office[e]]]
  /\ NoteOverlap(r)
  /\ UNCHANGED Tables

\* Then it reads the shipment and checks its status.
CheckScan(r) ==
  /\ request[r].pc = "located"
  /\ deliveryStatus \in Allowed(request[r].op)
  /\ Goto(r, "checked")
  /\ UNCHANGED <<Tables, overlapped>>

\* Then it reads the newest log, of any branch, and checks it.
InsideBranch == logs # <<>> /\ logs[Len(logs)].type = "IN"

LogAllowsAnyBranch(type, branch) == IF type = "IN" THEN ~InsideBranch ELSE InsideBranch
LogAllowsIn(type, branch) ==
  type = "OUT" => InsideBranch /\ logs[Len(logs)].branch = branch
LogAllows(type, branch) ==
  IF type = "IN" THEN ~InsideBranch
  ELSE InsideBranch /\ logs[Len(logs)].branch = branch

ValidateScan(r) ==
  /\ request[r].pc = "checked" /\ request[r].op \in ScanOps
  /\ LogAllows(ScanType(request[r].op), request[r].branch)
  /\ Goto(r, "validated")
  /\ UNCHANGED <<Tables, overlapped>>

\* The transaction, all or nothing.
LogsAfterArrivals(r) ==
  IF request[r].op \in {"IN", "IN ready"}
    THEN Append(logs, [type |-> "IN", branch |-> request[r].branch,
                       status |-> Target(request[r].op)])
    ELSE logs
LogsAfter(r) ==
  IF request[r].op \in ScanOps
    THEN Append(logs, [type |-> ScanType(request[r].op), branch |-> request[r].branch,
                       status |-> Target(request[r].op)])
    ELSE logs

PickupPhotoLate(op) == op = "deliverToCustomer"
PickupPhoto(op) == op = "pickUpShipment"
ReceiptPhoto(op) == op = "deliverToCustomer"

Commit(r) ==
  /\ request[r].pc = "validated"
  /\ LET op == request[r].op IN
       /\ deliveryStatus' = Target(op)
       /\ trail' = Append(trail, Target(op))
       /\ pickupProof' = (pickupProof \/ PickupPhoto(op))
       /\ receiptProof' = (receiptProof \/ ReceiptPhoto(op))
  /\ logs' = LogsAfter(r)
  /\ request' = [request EXCEPT ![r] = Idle]
  /\ UNCHANGED <<payment, job, office, overlapped>>

Abort(r) ==
  /\ request[r] # Idle
  /\ request' = [request EXCEPT ![r] = Idle]
  /\ UNCHANGED <<Tables, overlapped>>

\* EmployeeBranchesService: create() makes a new user with an assignment,
\* update() moves it, remove() deletes the assignment alone.  An employee is a
\* slot: one assigned again after its release stands for a new user.
Assign(e, b) ==
  /\ office[e] # b
  /\ office' = [office EXCEPT ![e] = b]
  /\ UNCHANGED <<deliveryStatus, trail, payment, job, logs, pickupProof, receiptProof,
                 request, overlapped>>

---------------------------------------------------------------------------
(* The payment, behind the couriers' backs.                                *)

Parcel == <<deliveryStatus, trail, logs, pickupProof, receiptProof, office, request>>

\* handlePaymentWebhook: the where clause of updateMany, on the locked row.
NotYetPaidUnchecked == TRUE
NotYetPaid == payment # "PAID"

\* cancelPaymentExpiredJob removes a job that waits, unless it throws.
CancelExpiry == UNCHANGED job \/ (job = "waiting" /\ job' = "over")

\* PAID or SETTLED, again: once the payment has been overwritten it counts anew,
\* and the parcel is READY_TO_PICKUP wherever it is by then.
WebhookPaid ==
  /\ Len(trail) < MaxTrail
  /\ Cardinality({i \in 1 .. Len(trail) : trail[i] = "READY_TO_PICKUP"}) < MaxPaid
  /\ NotYetPaid
  /\ payment' = "PAID"
  /\ CancelExpiry
  /\ deliveryStatus' = "READY_TO_PICKUP"
  /\ trail' = Append(trail, "READY_TO_PICKUP")
  /\ overlapped' = (overlapped \/ \E r \in Requests : request[r] # Idle)
  /\ UNCHANGED <<logs, pickupProof, receiptProof, office, request>>

\* EXPIRED, FAILED or PENDING, late: none touches deliveryStatus, and PENDING
\* leaves the job.
WebhookUnpaid ==
  /\ NotYetPaid
  /\ \/ payment' = "EXPIRED" /\ CancelExpiry
     \/ payment' = "PENDING" /\ UNCHANGED job
  /\ UNCHANGED <<Parcel, overlapped>>

\* handleExpiryPayment: the guard, on what it reads outside any transaction.
JobRead ==
  /\ job = "waiting"
  /\ job' = IF payment = "PENDING" THEN "loaded" ELSE "over"
  /\ UNCHANGED <<Parcel, payment, overlapped>>

\* Its transaction updates by id, whatever the row says by now.  A worker that
\* dies after it leaves the job to Bull, which starts it again.
JobExpire ==
  /\ job = "loaded"
  /\ payment' = "EXPIRED"
  /\ job' \in {"over", "waiting"}
  /\ UNCHANGED <<Parcel, overlapped>>

\* The read or the transaction throws: Bull retries, or gives up.
JobThrows ==
  /\ job \in {"waiting", "loaded"}
  /\ job' \in {"over", "waiting"}
  /\ UNCHANGED <<Parcel, payment, overlapped>>

Next ==
  \/ \E r \in Requests :
       \/ \E op \in CourierOps : CheckStatus(r, op)
       \/ FindBranch(r)
       \/ \E op \in ScanOps, e \in Employees : StartScan(r, op, e)
       \/ CheckScan(r)
       \/ ValidateScan(r)
       \/ Commit(r)
       \/ Abort(r)
  \/ \E e \in Employees, b \in Branches \cup {NoBranch} : Assign(e, b)
  \/ WebhookPaid \/ WebhookUnpaid \/ JobRead \/ JobExpire \/ JobThrows

Spec == Init /\ [][Next]_vars

---------------------------------------------------------------------------
\* The type invariant of the tables and requests.
TypeOK ==
  /\ deliveryStatus \in DeliveryStatuses
  /\ trail \in Seq(DeliveryStatuses)
  /\ payment \in PaymentStatuses
  /\ job \in JobSteps
  /\ logs \in Seq(LogRows)
  /\ pickupProof \in BOOLEAN
  /\ receiptProof \in BOOLEAN
  /\ office \in [Employees -> Branches \cup {NoBranch}]
  /\ request \in [Requests -> RequestStates]
  /\ overlapped \in BOOLEAN

\* The flow the two services describe: what must have come before a status.
Scanned == {"ARRIVED_AT_BRANCH", "DEPARTED_FROM_BRANCH", "READY_TO_PICKUP_AT_BRANCH"}
OnBranchLeg == {"IN_TRANSIT", "ARRIVED_AT_BRANCH", "DEPARTED_FROM_BRANCH"}
Before(status) ==
  CASE status = "READY_TO_PICKUP"       -> {"READY_TO_PICKUP"}
    [] status = "WAITING_PICKUP"        -> {"READY_TO_PICKUP"}
    [] status = "PICKED_UP"             -> {"WAITING_PICKUP"}
    [] status = "IN_TRANSIT"            -> {"PICKED_UP"}
    [] status \in Scanned               -> OnBranchLeg
    [] status = "READY_TO_DELIVER"      -> {"READY_TO_PICKUP_AT_BRANCH"}
    [] status = "ON_THE_WAY_TO_ADDRESS" -> {"READY_TO_DELIVER"}
    [] status = "DELIVERED"             -> {"ON_THE_WAY_TO_ADDRESS"}

\* No stage is ever jumped over, however requests interleave: each history row
\* has an earlier row of the stage it follows (courier.service.ts:43-66,
\* shipment-branch.service.ts:197-210).  Rows may repeat; causes may not lack.
CausalTrail == \A i \in 2 .. Len(trail) :
  \E j \in 1 .. i - 1 : trail[j] \in Before(trail[i])

\* Nothing happens to a parcel past the pickup without a pickup photo on file,
\* and none is DELIVERED without the receipt photo: the proof is written in the
\* transaction of the status (courier.service.ts:184-221, 353-386).
ProvenTrail == \A i \in 1 .. Len(trail) :
  /\ trail[i] \notin {"READY_TO_PICKUP", "WAITING_PICKUP"} => pickupProof
  /\ trail[i] = "DELIVERED" => receiptProof

\* How many of the first n rows have one of the statuses?
Count(rows, statuses, n) == Cardinality({i \in 1 .. n : rows[i] \in statuses})

\* The three tables tell one story: the status is the newest history row, and the
\* logs are the scan rows of the history, one for one and in the same order
\* (shipment-branch.service.ts:126-174).
TablesAgree ==
  /\ deliveryStatus = trail[Len(trail)]
  /\ Len(logs) = Count(trail, Scanned, Len(trail))
  /\ \A i \in 1 .. Len(trail) :
       trail[i] \in Scanned => logs[Count(trail, Scanned, i)].status = trail[i]

\* A parcel leaves only a branch it has come into, even when the employee is
\* moved to another branch while the scan is served
\* (shipment-branch.service.ts:238-257).
OutHadIn == \A i \in 1 .. Len(logs) :
  logs[i].type = "OUT" =>
    \E j \in 1 .. i - 1 : logs[j].type = "IN" /\ logs[j].branch = logs[i].branch

\* Served one at a time, operations only move the parcel forward along the flow
\* (courier.service.ts:43-53, shipment-branch.service.ts:197-210), and nothing
\* sets it back to the start but a payment that had been overwritten
\* (shipments.service.ts:253-309).
ForwardOnly ==
  [][~overlapped' /\ Len(trail') > Len(trail)
       => \/ deliveryStatus \in Before(deliveryStatus')
          \/ deliveryStatus' = "READY_TO_PICKUP" /\ payment # "PAID" /\ payment' = "PAID"]_vars

\* Has the parcel been made ready again after row i, by row j at the latest?
ReadyAgain(i, j) == \E k \in i + 1 .. j : trail[k] = "READY_TO_PICKUP"

\* An action does not happen twice: between two payments no courier status has
\* two history rows.  The comment on assertValidStatusTransition says it
\* prevents that, retries and double taps included.
NoDoubleTap == \A i, j \in 1 .. Len(trail) :
  i < j /\ trail[i] = trail[j] /\ trail[i] \notin Scanned => ReadyAgain(i, j)

\* It does prevent it as long as no two requests overlap.
OnceInTurn == ~overlapped => NoDoubleTap

\* IN and OUT take turns, and a parcel goes out of the branch it came into.
\* The comment in validateScanType says a parcel that is still inside a branch
\* is not scanned IN anywhere else.
ScansAlternate == \A i \in 1 .. Len(logs) :
  /\ logs[i].type = IF i % 2 = 1 THEN "IN" ELSE "OUT"
  /\ i % 2 = 0 => logs[i].branch = logs[i - 1].branch

\* They do as long as no two requests overlap, even when the employee is moved
\* while the scan is served (shipment-branch.service.ts:223-257).
ScansInTurn == ~overlapped => ScansAlternate
=============================================================================
