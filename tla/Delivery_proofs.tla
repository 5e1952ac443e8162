--------------------------- MODULE Delivery_proofs ---------------------------
(***************************************************************************)
(* Proofs about Delivery, for any number of requests, employees and        *)
(* branches and a trail of any length.                                     *)
(*                                                                         *)
(* The statuses of a parcel may go back (two requests that both passed     *)
(* their check write one after the other), so what a request saw is not    *)
(* true any more when it writes.  What stays true is that it happened: the *)
(* history keeps a row of the status it saw, and the logs keep the IN it   *)
(* saw.  That evidence is the strengthening that makes CausalTrail,        *)
(* ProvenTrail and OutHadIn inductive.                                     *)
(*                                                                         *)
(* That the tables tell one story is inductive as it stands; its proof     *)
(* counts rows: an appended row adds one to the count of its own status    *)
(* and leaves every earlier count alone.                                   *)
(***************************************************************************)
EXTENDS Delivery, SequenceTheorems, FiniteSetTheorems, TLAPS

\* A request in flight is for an operation, and a scan knows its branch.
Bound == \A r \in Requests :
  /\ request[r].pc # "idle" => request[r].op \in CourierOps \cup ScanOps
  /\ request[r].op \in ScanOps => request[r].branch \in Branches

\* What a request that passed its status check saw is in the history.
Evidence == \A r \in Requests :
  request[r].pc \in {"checked", "validated"} =>
    \E j \in 1 .. Len(trail) : trail[j] \in Allowed(request[r].op)

\* What a validated OUT saw is in the logs.
CameIn == \A r \in Requests :
  request[r].pc = "validated" /\ request[r].op = "OUT" =>
    \E j \in 1 .. Len(logs) :
      logs[j].type = "IN" /\ logs[j].branch = request[r].branch

\* The shipment's status is its newest history row.
StatusIsNewest == Len(trail) > 0 /\ deliveryStatus = trail[Len(trail)]

\* The history starts with the payment that released the parcel.
Released == trail[1] = "READY_TO_PICKUP"

IInv == TypeOK /\ Bound /\ Evidence /\ CameIn /\ StatusIsNewest /\ Released
        /\ CausalTrail /\ ProvenTrail /\ OutHadIn

---------------------------------------------------------------------------
\* An operation accepts only what must have come before what it writes.
LEMMA TablesMatch ==
  ASSUME NEW op \in CourierOps \cup ScanOps
  PROVE  /\ Target(op) \in DeliveryStatuses
         /\ Allowed(op) \subseteq DeliveryStatuses
         /\ Allowed(op) \subseteq Before(Target(op))
BY DEF CourierOps, ScanOps, Target, Allowed, DeliveryStatuses, Before, Scanned,
       OnBranchLeg

\* Only the pickup leads from the customer's door to the statuses past it.
LEMMA PickupFirst ==
  ASSUME NEW op \in CourierOps \cup ScanOps
  PROVE  \/ PickupPhoto(op)
         \/ op = "pickShipment" /\ Target(op) = "WAITING_PICKUP"
         \/ Allowed(op) \cap {"READY_TO_PICKUP", "WAITING_PICKUP"} = {}
BY DEF CourierOps, ScanOps, Target, Allowed, PickupPhoto

\* Only deliverToCustomer writes DELIVERED.
LEMMA ReceiptLast ==
  ASSUME NEW op \in CourierOps \cup ScanOps, Target(op) = "DELIVERED"
  PROVE  ReceiptPhoto(op)
BY DEF CourierOps, ScanOps, Target, ReceiptPhoto

\* The rows of a sequence after an Append.
LEMMA AppendRow ==
  ASSUME NEW S, NEW q \in Seq(S), NEW e \in S
  PROVE  /\ Append(q, e) \in Seq(S)
         /\ Len(Append(q, e)) = Len(q) + 1
         /\ \A i \in 1 .. Len(q) : Append(q, e)[i] = q[i]
         /\ Append(q, e)[Len(q) + 1] = e
OBVIOUS

---------------------------------------------------------------------------
\* Every behaviour starts in the invariant.
LEMMA InitOK == ASSUME Init PROVE IInv
<1> USE DEF Init
<1>1. TypeOK
  <2>1. Idle \in RequestStates
    BY DEF Idle, RequestStates
  <2>2. request \in [Requests -> RequestStates]
    BY <2>1
  <2>3. "READY_TO_PICKUP" \in DeliveryStatuses
    BY DEF DeliveryStatuses
  <2>4. /\ trail \in Seq(DeliveryStatuses) /\ logs \in Seq(LogRows)
    BY <2>3
  <2> QED BY <2>2, <2>3, <2>4 DEF TypeOK, PaymentStatuses
<1>2. Bound /\ Evidence /\ CameIn
  BY DEF Bound, Evidence, CameIn, Idle, ScanOps
<1>3. StatusIsNewest /\ Released /\ CausalTrail /\ ProvenTrail /\ OutHadIn
  BY DEF StatusIsNewest, Released, CausalTrail, ProvenTrail, OutHadIn
<1> QED BY <1>1, <1>2, <1>3 DEF IInv

\* A step that leaves the tables alone keeps what is said of them alone.
LEMMA TablesKept ==
  ASSUME IInv, UNCHANGED <<deliveryStatus, trail, logs, pickupProof, receiptProof>>
  PROVE  StatusIsNewest' /\ CausalTrail' /\ ProvenTrail' /\ OutHadIn'
BY DEF IInv, StatusIsNewest, CausalTrail, ProvenTrail, OutHadIn

\* A request that becomes q, with what is needed of q, keeps the invariant.
LEMMA RequestMoves ==
  ASSUME IInv, NEW r \in Requests, NEW q \in RequestStates,
         request' = [request EXCEPT ![r] = q],
         UNCHANGED Tables, overlapped' \in BOOLEAN,
         q.pc # "idle" => q.op \in CourierOps \cup ScanOps,
         q.op \in ScanOps => q.branch \in Branches,
         q.pc \in {"checked", "validated"} =>
           \E j \in 1 .. Len(trail) : trail[j] \in Allowed(q.op),
         q.pc = "validated" /\ q.op = "OUT" =>
           \E j \in 1 .. Len(logs) : logs[j].type = "IN" /\ logs[j].branch = q.branch
  PROVE  IInv'
<1>1. request' \in [Requests -> RequestStates] /\ request'[r] = q
      /\ \A o \in Requests \ {r} : request'[o] = request[o]
  BY DEF IInv, TypeOK
<1>2. TypeOK'
  BY <1>1 DEF IInv, TypeOK, Tables
<1>3. Bound'
  BY <1>1 DEF IInv, Bound
<1>4. Evidence'
  BY <1>1 DEF IInv, Evidence, Tables
<1>5. CameIn' /\ Released'
  BY <1>1 DEF IInv, CameIn, Released, Tables
<1> QED BY <1>2, <1>3, <1>4, <1>5, TablesKept DEF IInv, Tables

\* The newest row is evidence for a check made now.
LEMMA NewestIsEvidence ==
  ASSUME IInv, NEW op, deliveryStatus \in Allowed(op)
  PROVE  \E j \in 1 .. Len(trail) : trail[j] \in Allowed(op)
<1>1. Len(trail) \in 1 .. Len(trail)
  BY DEF IInv, TypeOK, StatusIsNewest
<1> QED BY <1>1 DEF IInv, StatusIsNewest

\* A refused or lost request leaves nothing behind.
LEMMA AbortStep == ASSUME IInv, NEW r \in Requests, Abort(r) PROVE IInv'
<1>1. Idle \in RequestStates /\ Idle.pc = "idle" /\ Idle.op \notin ScanOps
  BY DEF Idle, RequestStates, ScanOps
<1> QED BY <1>1, RequestMoves DEF Abort, IInv, TypeOK

\* A courier's check.
LEMMA CheckStatusStep ==
  ASSUME IInv, NEW r \in Requests, NEW op \in CourierOps, CheckStatus(r, op)
  PROVE  IInv'
<1> DEFINE q == [pc |-> "checked", op |-> op, branch |-> NoBranch]
<1>1. q \in RequestStates /\ q.pc = "checked" /\ q.op = op /\ op \notin ScanOps
  BY DEF RequestStates, CourierOps, ScanOps
<1>2. \E j \in 1 .. Len(trail) : trail[j] \in Allowed(op)
  BY NewestIsEvidence DEF CheckStatus
<1>3. request' = [request EXCEPT ![r] = q] /\ UNCHANGED Tables
      /\ overlapped' \in BOOLEAN
  BY DEF CheckStatus, NoteOverlap, IInv, TypeOK
<1> HIDE DEF q
<1> QED BY <1>1, <1>2, <1>3, RequestMoves

\* The branch a scan starts from is a branch.
LEMMA StartScanStep ==
  ASSUME IInv, NEW r \in Requests, NEW op \in ScanOps, NEW e \in Employees,
         StartScan(r, op, e)
  PROVE  IInv'
<1> DEFINE q == [pc |-> "located", op |-> op, branch |-> office[e]]
<1>1. office[e] \in Branches
  BY DEF IInv, TypeOK, StartScan
<1>2. q \in RequestStates /\ q.pc = "located" /\ q.op = op /\ q.branch \in Branches
  BY <1>1 DEF RequestStates, ScanOps
<1>3. request' = [request EXCEPT ![r] = q] /\ UNCHANGED Tables
      /\ overlapped' \in BOOLEAN
  BY DEF StartScan, NoteOverlap, IInv, TypeOK
<1> HIDE DEF q
<1> QED BY <1>2, <1>3, RequestMoves

\* Moving a request on keeps its operation and its branch.
LEMMA GotoRequest ==
  ASSUME TypeOK, NEW r \in Requests, NEW pc \in {"checked", "validated"}, Goto(r, pc)
  PROVE  \E q \in RequestStates :
           /\ request' = [request EXCEPT ![r] = q]
           /\ q.pc = pc /\ q.op = request[r].op /\ q.branch = request[r].branch
<1> DEFINE q == [request[r] EXCEPT !.pc = pc]
<1>1. request[r] \in RequestStates
  BY DEF TypeOK
<1>2. q \in RequestStates /\ q.pc = pc /\ q.op = request[r].op
      /\ q.branch = request[r].branch
  BY <1>1 DEF RequestStates
<1>3. request' = [request EXCEPT ![r] = q]
  BY DEF Goto, TypeOK
<1> QED BY <1>2, <1>3

\* The steps of a request between its start and its transaction.
LEMMA GotoStep ==
  ASSUME IInv, NEW r \in Requests, FindBranch(r) \/ CheckScan(r) \/ ValidateScan(r)
  PROVE  IInv'
<1>1. CASE FindBranch(r)
  <2>1. PICK q \in RequestStates :
          /\ request' = [request EXCEPT ![r] = q]
          /\ q.pc = "validated" /\ q.op = request[r].op /\ q.branch = request[r].branch
    BY <1>1, GotoRequest DEF FindBranch, IInv
  <2>2. q.op \in CourierOps /\ q.op \notin ScanOps
    BY <1>1, <2>1 DEF FindBranch, CourierOps, ScanOps
  <2>3. \E j \in 1 .. Len(trail) : trail[j] \in Allowed(q.op)
    BY <1>1, <2>1 DEF FindBranch, IInv, Evidence
  <2>4. q.op # "OUT" /\ UNCHANGED Tables /\ overlapped' \in BOOLEAN
    BY <1>1, <2>2 DEF FindBranch, ScanOps, IInv, TypeOK
  <2> QED BY <2>1, <2>2, <2>3, <2>4, RequestMoves
<1>2. CASE CheckScan(r)
  <2>1. PICK q \in RequestStates :
          /\ request' = [request EXCEPT ![r] = q]
          /\ q.pc = "checked" /\ q.op = request[r].op /\ q.branch = request[r].branch
    BY <1>2, GotoRequest DEF CheckScan, IInv
  <2>2. q.op \in CourierOps \cup ScanOps /\ (q.op \in ScanOps => q.branch \in Branches)
    BY <1>2, <2>1 DEF CheckScan, IInv, Bound
  <2>3. \E j \in 1 .. Len(trail) : trail[j] \in Allowed(q.op)
    BY <1>2, <2>1, NewestIsEvidence DEF CheckScan
  <2>4. UNCHANGED Tables /\ overlapped' \in BOOLEAN
    BY <1>2 DEF CheckScan, IInv, TypeOK
  <2> QED BY <2>1, <2>2, <2>3, <2>4, RequestMoves
<1>3. CASE ValidateScan(r)
  <2>1. PICK q \in RequestStates :
          /\ request' = [request EXCEPT ![r] = q]
          /\ q.pc = "validated" /\ q.op = request[r].op /\ q.branch = request[r].branch
    BY <1>3, GotoRequest DEF ValidateScan, IInv
  <2>2. q.op \in ScanOps /\ q.branch \in Branches
    BY <1>3, <2>1 DEF ValidateScan, IInv, Bound
  <2>3. \E j \in 1 .. Len(trail) : trail[j] \in Allowed(q.op)
    BY <1>3, <2>1 DEF ValidateScan, IInv, Evidence
  <2>4. ASSUME q.op = "OUT"
        PROVE  \E j \in 1 .. Len(logs) : logs[j].type = "IN" /\ logs[j].branch = q.branch
    <3>1. logs # <<>> /\ logs[Len(logs)].type = "IN" /\ logs[Len(logs)].branch = q.branch
      BY <1>3, <2>1, <2>4 DEF ValidateScan, LogAllows, InsideBranch, ScanType
    <3>2. Len(logs) \in 1 .. Len(logs)
      BY <3>1 DEF IInv, TypeOK
    <3> QED BY <3>1, <3>2
  <2>5. UNCHANGED Tables /\ overlapped' \in BOOLEAN
    BY <1>3 DEF ValidateScan, IInv, TypeOK
  <2> QED BY <2>1, <2>2, <2>3, <2>4, <2>5, RequestMoves
<1> QED BY <1>1, <1>2, <1>3

\* An employee is moved: no request and no table looks at office again.
LEMMA AssignStep ==
  ASSUME IInv, NEW e \in Employees, NEW b \in Branches \cup {NoBranch}, Assign(e, b)
  PROVE  IInv'
<1>1. TypeOK'
  BY DEF Assign, IInv, TypeOK
<1>2. Bound' /\ Evidence' /\ CameIn' /\ Released'
  BY DEF Assign, IInv, Bound, Evidence, CameIn, Released
<1> QED BY <1>1, <1>2, TablesKept DEF Assign, IInv

\* The transaction, with whatever the tables have become since the check.
LEMMA CommitStep == ASSUME IInv, NEW r \in Requests, Commit(r) PROVE IInv'
<1> DEFINE op  == request[r].op
           row == [type |-> ScanType(op), branch |-> request[r].branch,
                   status |-> Target(op)]
<1>1. op \in CourierOps \cup ScanOps /\ Target(op) \in DeliveryStatuses
  BY TablesMatch DEF Commit, IInv, Bound
<1>2. trail \in Seq(DeliveryStatuses) /\ trail' = Append(trail, Target(op))
      /\ deliveryStatus' = Target(op)
  BY DEF Commit, IInv, TypeOK
<1>3. /\ trail' \in Seq(DeliveryStatuses)
      /\ Len(trail') = Len(trail) + 1 /\ Len(trail) \in Nat
      /\ \A i \in 1 .. Len(trail) : trail'[i] = trail[i]
      /\ trail'[Len(trail) + 1] = Target(op)
  BY <1>1, <1>2, AppendRow
<1>4. /\ logs' \in Seq(LogRows)
      /\ Len(logs') \in {Len(logs), Len(logs) + 1} /\ Len(logs) \in Nat
      /\ \A i \in 1 .. Len(logs) : logs'[i] = logs[i]
      /\ Len(logs') = Len(logs) + 1 =>
           (logs'[Len(logs) + 1].type = "OUT" =>
             op = "OUT" /\ logs'[Len(logs) + 1].branch = request[r].branch)
  <2>0. logs \in Seq(LogRows) /\ Len(logs) \in Nat
    BY DEF IInv, TypeOK
  <2>1. CASE op \in ScanOps
    <3>1. row \in LogRows
      BY <1>1, <2>1 DEF IInv, Bound, LogRows, ScanType
    <3>2. logs' = Append(logs, row)
      BY <2>1 DEF Commit, LogsAfter
    <3>3. row.type = "OUT" => op = "OUT"
      BY DEF ScanType
    <3>4. row.branch = request[r].branch
      OBVIOUS
    <3> HIDE DEF row, op
    <3> QED BY <2>0, <3>1, <3>2, <3>3, <3>4, AppendRow
  <2>2. CASE op \notin ScanOps
    BY <2>0, <2>2 DEF Commit, LogsAfter
  <2> QED BY <2>1, <2>2
<1>5. /\ request' \in [Requests -> RequestStates] /\ request'[r] = Idle
      /\ \A o \in Requests \ {r} : request'[o] = request[o]
      /\ UNCHANGED <<office, overlapped>>
  BY DEF Commit, IInv, TypeOK, Idle, RequestStates
<1>6. PICK seen \in 1 .. Len(trail) : trail[seen] \in Allowed(op)
  BY DEF Commit, IInv, Evidence
<1>7. TypeOK'
  BY <1>1, <1>2, <1>3, <1>4, <1>5 DEF Commit, IInv, TypeOK, PickupPhoto, ReceiptPhoto
<1>8. Bound'
  <2>1. Idle.pc = "idle" /\ Idle.op \notin ScanOps
    BY DEF Idle, ScanOps
  <2>2. ASSUME NEW o \in Requests
        PROVE  /\ request'[o].pc # "idle" => request'[o].op \in CourierOps \cup ScanOps
               /\ request'[o].op \in ScanOps => request'[o].branch \in Branches
    BY <1>5, <2>1 DEF IInv, Bound
  <2> QED BY <2>2 DEF Bound
<1>9. Evidence'
  <2>1. SUFFICES ASSUME NEW o \in Requests, request'[o].pc \in {"checked", "validated"}
                 PROVE  \E j \in 1 .. Len(trail') : trail'[j] \in Allowed(request'[o].op)
    BY DEF Evidence
  <2>2. o # r /\ request'[o] = request[o]
    BY <1>5, <2>1 DEF Idle
  <2>3. PICK j \in 1 .. Len(trail) : trail[j] \in Allowed(request[o].op)
    BY <2>1, <2>2 DEF IInv, Evidence
  <2>4. j \in 1 .. Len(trail') /\ trail'[j] = trail[j]
    BY <1>3
  <2> QED BY <2>2, <2>3, <2>4
<1>10. CameIn'
  <2>1. SUFFICES ASSUME NEW o \in Requests,
                        request'[o].pc = "validated", request'[o].op = "OUT"
                 PROVE  \E j \in 1 .. Len(logs') :
                          logs'[j].type = "IN" /\ logs'[j].branch = request'[o].branch
    BY DEF CameIn
  <2>2. o # r /\ request'[o] = request[o]
    BY <1>5, <2>1 DEF Idle
  <2>3. PICK j \in 1 .. Len(logs) :
          logs[j].type = "IN" /\ logs[j].branch = request[o].branch
    BY <2>1, <2>2 DEF IInv, CameIn
  <2>4. j \in 1 .. Len(logs') /\ logs'[j] = logs[j]
    BY <1>4
  <2> QED BY <2>2, <2>3, <2>4
<1>11. StatusIsNewest' /\ Released'
  BY <1>2, <1>3 DEF StatusIsNewest, Released, Commit, IInv
<1>12. CausalTrail'
  <2>1. SUFFICES ASSUME NEW i \in 2 .. Len(trail')
                 PROVE  \E j \in 1 .. i - 1 : trail'[j] \in Before(trail'[i])
    BY DEF CausalTrail
  <2>2. CASE i \in 2 .. Len(trail)
    <3>1. PICK j \in 1 .. i - 1 : trail[j] \in Before(trail[i])
      BY <2>2 DEF IInv, CausalTrail
    <3>2. trail'[j] = trail[j] /\ trail'[i] = trail[i]
      BY <1>3, <2>2
    <3> QED BY <3>1, <3>2
  <2>3. CASE i = Len(trail) + 1
    <3>1. trail[seen] \in Before(Target(op))
      BY <1>1, <1>6, TablesMatch
    <3>2. trail'[seen] = trail[seen] /\ trail'[i] = Target(op) /\ seen \in 1 .. i - 1
      BY <1>3, <1>6, <2>3
    <3> QED BY <3>1, <3>2
  <2> QED BY <1>3, <2>1, <2>2, <2>3
<1>13. ProvenTrail'
  <2>1. SUFFICES ASSUME NEW i \in 1 .. Len(trail')
                 PROVE  /\ trail'[i] \notin {"READY_TO_PICKUP", "WAITING_PICKUP"} => pickupProof'
                        /\ trail'[i] = "DELIVERED" => receiptProof'
    BY DEF ProvenTrail
  <2>2. /\ pickupProof' = (pickupProof \/ PickupPhoto(op))
        /\ receiptProof' = (receiptProof \/ ReceiptPhoto(op))
    BY DEF Commit
  <2>3. CASE i \in 1 .. Len(trail)
    <3>1. /\ trail[i] \notin {"READY_TO_PICKUP", "WAITING_PICKUP"} => pickupProof
          /\ trail[i] = "DELIVERED" => receiptProof
      BY <2>3 DEF IInv, ProvenTrail
    <3>2. trail'[i] = trail[i]
      BY <1>3, <2>3
    <3> QED BY <2>2, <3>1, <3>2
  <2>4. CASE i = Len(trail) + 1
    <3>1. trail'[i] = Target(op)
      BY <1>3, <2>4
    <3>2. trail[seen] \notin {"READY_TO_PICKUP", "WAITING_PICKUP"} => pickupProof
      BY <1>6 DEF IInv, ProvenTrail
    <3>3. Target(op) \notin {"READY_TO_PICKUP", "WAITING_PICKUP"} => pickupProof'
      BY <1>1, <1>6, <2>2, <3>2, PickupFirst
    <3>4. Target(op) = "DELIVERED" => receiptProof'
      BY <1>1, <2>2, ReceiptLast
    <3> QED BY <3>1, <3>3, <3>4
  <2> QED BY <1>3, <2>1, <2>3, <2>4
<1>14. OutHadIn'
  <2>1. SUFFICES ASSUME NEW i \in 1 .. Len(logs'), logs'[i].type = "OUT"
                 PROVE  \E j \in 1 .. i - 1 :
                          logs'[j].type = "IN" /\ logs'[j].branch = logs'[i].branch
    BY DEF OutHadIn
  <2>2. CASE i \in 1 .. Len(logs)
    <3>1. logs'[i] = logs[i]
      BY <1>4, <2>2
    <3>2. PICK j \in 1 .. i - 1 : logs[j].type = "IN" /\ logs[j].branch = logs[i].branch
      BY <2>1, <2>2, <3>1 DEF IInv, OutHadIn
    <3>3. logs'[j] = logs[j]
      BY <1>4, <2>2
    <3> QED BY <3>1, <3>2, <3>3
  <2>3. CASE i = Len(logs) + 1 /\ Len(logs') = Len(logs) + 1
    <3>1. op = "OUT" /\ logs'[i].branch = request[r].branch
      BY <1>4, <2>1, <2>3
    <3>2. PICK j \in 1 .. Len(logs) :
            logs[j].type = "IN" /\ logs[j].branch = request[r].branch
      BY <3>1 DEF Commit, IInv, CameIn
    <3>3. j \in 1 .. i - 1 /\ logs'[j] = logs[j]
      BY <1>4, <2>3
    <3> QED BY <3>1, <3>2, <3>3
  <2> QED BY <1>4, <2>1, <2>2, <2>3
<1> QED BY <1>7, <1>8, <1>9, <1>10, <1>11, <1>12, <1>13, <1>14 DEF IInv

\* What goes on behind a parcel that it does not notice.
Behind == WebhookUnpaid \/ JobRead \/ JobExpire \/ JobThrows

LEMMA PaymentStep == ASSUME IInv, Behind PROVE IInv'
<1>1. payment' \in PaymentStatuses /\ job' \in JobSteps
  BY DEF Behind, WebhookUnpaid, JobRead, JobExpire, JobThrows, CancelExpiry,
         PaymentStatuses, JobSteps, IInv, TypeOK
<1>2. UNCHANGED <<deliveryStatus, trail, logs, pickupProof, receiptProof, office,
                  request, overlapped>>
  BY DEF Behind, WebhookUnpaid, JobRead, JobExpire, JobThrows, Parcel
<1>3. TypeOK' /\ Bound' /\ Evidence' /\ CameIn' /\ Released'
  BY <1>1, <1>2 DEF IInv, TypeOK, Bound, Evidence, CameIn, Released
<1> QED BY <1>2, <1>3, TablesKept DEF IInv

\* A payment applied anew: the history goes on with another READY_TO_PICKUP.
LEMMA WebhookPaidStep == ASSUME IInv, WebhookPaid PROVE IInv'
<1>1. trail \in Seq(DeliveryStatuses) /\ "READY_TO_PICKUP" \in DeliveryStatuses
  BY DEF IInv, TypeOK, DeliveryStatuses
<1>2. /\ trail' \in Seq(DeliveryStatuses)
      /\ Len(trail') = Len(trail) + 1 /\ Len(trail) \in Nat \ {0}
      /\ \A i \in 1 .. Len(trail) : trail'[i] = trail[i]
      /\ trail'[Len(trail) + 1] = "READY_TO_PICKUP"
  BY <1>1, AppendRow DEF WebhookPaid, IInv, StatusIsNewest
<1>3. payment' \in PaymentStatuses /\ job' \in JobSteps
  BY DEF WebhookPaid, CancelExpiry, PaymentStatuses, JobSteps, IInv, TypeOK
<1>4. UNCHANGED <<logs, pickupProof, receiptProof, office, request>>
      /\ overlapped' \in BOOLEAN /\ deliveryStatus' = "READY_TO_PICKUP"
  BY DEF WebhookPaid, IInv, TypeOK
<1>5. TypeOK'
  BY <1>1, <1>2, <1>3, <1>4 DEF IInv, TypeOK
<1>6. Bound' /\ CameIn' /\ OutHadIn'
  BY <1>4 DEF IInv, Bound, CameIn, OutHadIn
<1>7. Evidence'
  <2>1. SUFFICES ASSUME NEW o \in Requests, request[o].pc \in {"checked", "validated"}
                 PROVE  \E j \in 1 .. Len(trail') : trail'[j] \in Allowed(request[o].op)
    BY <1>4 DEF Evidence
  <2>2. PICK j \in 1 .. Len(trail) : trail[j] \in Allowed(request[o].op)
    BY <2>1 DEF IInv, Evidence
  <2>3. j \in 1 .. Len(trail') /\ trail'[j] = trail[j]
    BY <1>2
  <2> QED BY <2>2, <2>3
<1>8. StatusIsNewest' /\ Released'
  BY <1>2, <1>3, <1>4 DEF StatusIsNewest, Released, IInv
<1>9. CausalTrail'
  <2>1. SUFFICES ASSUME NEW i \in 2 .. Len(trail')
                 PROVE  \E j \in 1 .. i - 1 : trail'[j] \in Before(trail'[i])
    BY DEF CausalTrail
  <2>2. CASE i \in 2 .. Len(trail)
    <3>1. PICK j \in 1 .. i - 1 : trail[j] \in Before(trail[i])
      BY <2>2 DEF IInv, CausalTrail
    <3>2. trail'[j] = trail[j] /\ trail'[i] = trail[i]
      BY <1>2, <2>2
    <3> QED BY <3>1, <3>2
  <2>3. CASE i = Len(trail) + 1
    <3>1. "READY_TO_PICKUP" \in Before("READY_TO_PICKUP")
      BY DEF Before, Scanned
    <3>2. trail'[1] = "READY_TO_PICKUP" /\ trail'[i] = "READY_TO_PICKUP" /\ 1 \in 1 .. i - 1
      BY <1>2, <1>8, <2>3 DEF Released
    <3> QED BY <3>1, <3>2
  <2> QED BY <1>2, <2>1, <2>2, <2>3
<1>10. ProvenTrail'
  <2>1. SUFFICES ASSUME NEW i \in 1 .. Len(trail')
                 PROVE  /\ trail'[i] \notin {"READY_TO_PICKUP", "WAITING_PICKUP"} => pickupProof
                        /\ trail'[i] = "DELIVERED" => receiptProof
    BY <1>4 DEF ProvenTrail
  <2>2. CASE i \in 1 .. Len(trail)
    BY <1>2, <2>2 DEF IInv, ProvenTrail
  <2> QED BY <1>2, <2>2
<1> QED BY <1>5, <1>6, <1>7, <1>8, <1>9, <1>10 DEF IInv

\* Every step keeps the invariant.
LEMMA Inductive == ASSUME IInv, [Next]_vars PROVE IInv'
<1>1. CASE UNCHANGED vars
  <2>1. TypeOK' /\ Bound' /\ Evidence' /\ CameIn' /\ Released'
    BY <1>1 DEF vars, IInv, TypeOK, Bound, Evidence, CameIn, Released
  <2> QED BY <1>1, <2>1, TablesKept DEF vars, IInv
<1>2. ASSUME NEW r \in Requests, NEW op \in CourierOps, CheckStatus(r, op) PROVE IInv'
  BY <1>2, CheckStatusStep
<1>3. ASSUME NEW r \in Requests, FindBranch(r) \/ CheckScan(r) \/ ValidateScan(r)
      PROVE IInv'
  BY <1>3, GotoStep
<1>4. ASSUME NEW r \in Requests, NEW op \in ScanOps, NEW e \in Employees,
             StartScan(r, op, e)
      PROVE IInv'
  BY <1>4, StartScanStep
<1>5. ASSUME NEW r \in Requests, Commit(r) PROVE IInv'
  BY <1>5, CommitStep
<1>6. ASSUME NEW r \in Requests, Abort(r) PROVE IInv'
  BY <1>6, AbortStep
<1>7. ASSUME NEW e \in Employees, NEW b \in Branches \cup {NoBranch}, Assign(e, b)
      PROVE IInv'
  BY <1>7, AssignStep
<1>8. ASSUME Behind PROVE IInv'
  BY <1>8, PaymentStep
<1>9. ASSUME WebhookPaid PROVE IInv'
  BY <1>9, WebhookPaidStep
<1> QED BY <1>1, <1>2, <1>3, <1>4, <1>5, <1>6, <1>7, <1>8, <1>9 DEF Next, Behind

\* The invariant holds for ever.
THEOREM Invariance == Spec => []IInv
BY InitOK, Inductive, PTL DEF Spec

\* The tables and requests hold only values the code can give them.
THEOREM TypeCorrect == Spec => []TypeOK
<1>1. IInv => TypeOK BY DEF IInv
<1> QED BY <1>1, Invariance, PTL

\* No stage of the journey is jumped over, for any number of requests served
\* at once (courier.service.ts:43-66, shipment-branch.service.ts:197-210).
THEOREM NoStageSkipped == Spec => []CausalTrail
<1>1. IInv => CausalTrail BY DEF IInv
<1> QED BY <1>1, Invariance, PTL

\* The photos are on file before the statuses they prove
\* (courier.service.ts:184-221, 353-386).
THEOREM PhotosOnFile == Spec => []ProvenTrail
<1>1. IInv => ProvenTrail BY DEF IInv
<1> QED BY <1>1, Invariance, PTL

\* A parcel leaves only a branch it has come into
\* (shipment-branch.service.ts:238-257).
THEOREM LeavesWhereItCame == Spec => []OutHadIn
<1>1. IInv => OutHadIn BY DEF IInv
<1> QED BY <1>1, Invariance, PTL

---------------------------------------------------------------------------
(* As long as no two requests overlap.                                     *)

\* At most one request is in flight.
Alone == \A p, q \in Requests : request[p] # Idle /\ request[q] # Idle => p = q

\* What a request saw is then still so when it writes.
StillAllowed == \A r \in Requests :
  request[r].pc \in {"checked", "validated"} =>
    deliveryStatus \in Allowed(request[r].op)

\* How far along the journey a status is.
Stage(status) ==
  CASE status = "READY_TO_PICKUP"           -> 0
    [] status = "WAITING_PICKUP"            -> 1
    [] status = "PICKED_UP"                 -> 2
    [] status = "IN_TRANSIT"                -> 3
    [] status \in {"ARRIVED_AT_BRANCH", "DEPARTED_FROM_BRANCH"} -> 4
    [] status = "READY_TO_PICKUP_AT_BRANCH" -> 5
    [] status = "READY_TO_DELIVER"          -> 6
    [] status = "ON_THE_WAY_TO_ADDRESS"     -> 7
    [] status = "DELIVERED"                 -> 8

\* b may come somewhere after a: further along, or between two branches.
Onward(a, b) == Stage(a) < Stage(b) \/ (Stage(a) = Stage(b) /\ b \in Scanned)

\* The history goes along the journey, from the door again after every payment.
Journey == \A i, j \in 1 .. Len(trail) :
  i < j => Onward(trail[i], trail[j]) \/ ReadyAgain(i, j)

SerialInv == ~overlapped => Alone /\ StillAllowed /\ Journey

\* The stage of every status.
LEMMA StageValues ==
  /\ Stage("READY_TO_PICKUP") = 0
  /\ Stage("WAITING_PICKUP") = 1
  /\ Stage("PICKED_UP") = 2
  /\ Stage("IN_TRANSIT") = 3
  /\ Stage("ARRIVED_AT_BRANCH") = 4
  /\ Stage("DEPARTED_FROM_BRANCH") = 4
  /\ Stage("READY_TO_PICKUP_AT_BRANCH") = 5
  /\ Stage("READY_TO_DELIVER") = 6
  /\ Stage("ON_THE_WAY_TO_ADDRESS") = 7
  /\ Stage("DELIVERED") = 8
BY DEF Stage

\* Stages are numbers, and an operation moves onward from what it accepts.
LEMMA StageOrder ==
  /\ \A a \in DeliveryStatuses : Stage(a) \in 0 .. 8
  /\ \A op \in CourierOps \cup ScanOps : \A a \in Allowed(op) :
       Onward(a, Target(op)) /\ a \in Before(Target(op))
<1>1. \A a \in DeliveryStatuses : Stage(a) \in 0 .. 8
  BY StageValues DEF DeliveryStatuses
<1>2. ASSUME NEW op \in CourierOps \cup ScanOps, NEW a \in Allowed(op)
      PROVE  Onward(a, Target(op))
  <2>1. CASE op \in CourierOps
    <3>1. <<a, Target(op)>> \in
            {<<"READY_TO_PICKUP", "WAITING_PICKUP">>, <<"WAITING_PICKUP", "PICKED_UP">>,
             <<"PICKED_UP", "IN_TRANSIT">>,
             <<"READY_TO_PICKUP_AT_BRANCH", "READY_TO_DELIVER">>,
             <<"READY_TO_DELIVER", "ON_THE_WAY_TO_ADDRESS">>,
             <<"ON_THE_WAY_TO_ADDRESS", "DELIVERED">>}
      BY <1>2, <2>1 DEF CourierOps, ScanOps, Allowed, Target
    <3>2. Stage(a) < Stage(Target(op))
      BY <3>1, StageValues
    <3> QED BY <3>2 DEF Onward
  <2>2. CASE op \in ScanOps
    <3>1. a \in OnBranchLeg /\ Target(op) \in Scanned
      BY <1>2, <2>2 DEF ScanOps, Allowed, Target, OnBranchLeg, Scanned
    <3>2. Stage(a) \in 3 .. 4 /\ Stage(Target(op)) \in 4 .. 5
      BY <3>1, StageValues DEF OnBranchLeg, Scanned
    <3> QED BY <3>1, <3>2 DEF Onward
  <2> QED BY <2>1, <2>2
<1> QED BY <1>1, <1>2, TablesMatch

\* Onward composes.
LEMMA OnwardTransitive ==
  ASSUME NEW a \in DeliveryStatuses, NEW b \in DeliveryStatuses,
         NEW c \in DeliveryStatuses, Onward(a, b), Onward(b, c)
  PROVE  Onward(a, c)
BY StageOrder DEF Onward

\* What a step of the only request in flight has to keep of the requests.
Served(r) ==
  /\ \A o \in Requests \ {r} : request'[o] = request[o] /\ request[o] = Idle
  /\ request'[r].pc \in {"checked", "validated"} =>
       deliveryStatus' \in Allowed(request'[r].op)

\* A step of a request that overlaps with no other.
LEMMA RequestAlone ==
  ASSUME IInv, SerialInv, NEW r \in Requests, ~overlapped', Next,
         \/ \E op \in CourierOps : CheckStatus(r, op)
         \/ FindBranch(r)
         \/ \E op \in ScanOps, e \in Employees : StartScan(r, op, e)
         \/ CheckScan(r) \/ ValidateScan(r) \/ Commit(r) \/ Abort(r)
  PROVE  ~overlapped /\ Served(r)
<1>1. ~overlapped
  BY DEF CheckStatus, FindBranch, StartScan, CheckScan, ValidateScan, Commit, Abort,
         NoteOverlap
<1>2. Alone /\ StillAllowed
  BY <1>1 DEF SerialInv
<1>3. \A o \in Requests \ {r} : request'[o] = request[o]
  BY DEF CheckStatus, FindBranch, StartScan, CheckScan, ValidateScan, Commit, Abort,
         Goto, IInv, TypeOK
<1>4. \A o \in Requests \ {r} : request[o] = Idle
  <2>1. CASE \/ \E op \in CourierOps : CheckStatus(r, op)
             \/ \E op \in ScanOps, e \in Employees : StartScan(r, op, e)
    BY <2>1 DEF CheckStatus, StartScan, NoteOverlap
  <2>2. CASE FindBranch(r) \/ CheckScan(r) \/ ValidateScan(r) \/ Commit(r) \/ Abort(r)
    <3>1. request[r] # Idle
      BY <2>2 DEF FindBranch, CheckScan, ValidateScan, Commit, Abort, Idle
    <3> QED BY <1>2, <3>1 DEF Alone
  <2> QED BY <2>1, <2>2
<1>5. request'[r].pc \in {"checked", "validated"} =>
        deliveryStatus' \in Allowed(request'[r].op)
  <2>1. CASE \E op \in CourierOps : CheckStatus(r, op)
    BY <2>1 DEF CheckStatus, Tables, IInv, TypeOK
  <2>2. CASE \E op \in ScanOps, e \in Employees : StartScan(r, op, e)
    BY <2>2 DEF StartScan, IInv, TypeOK
  <2>3. CASE FindBranch(r) \/ CheckScan(r) \/ ValidateScan(r)
    <3>1. request'[r].op = request[r].op /\ deliveryStatus' = deliveryStatus
      BY <2>3 DEF FindBranch, CheckScan, ValidateScan, Goto, Tables, IInv, TypeOK,
                  RequestStates
    <3> QED BY <1>2, <2>3, <3>1 DEF FindBranch, CheckScan, ValidateScan, StillAllowed
  <2>4. CASE Commit(r) \/ Abort(r)
    BY <2>4 DEF Commit, Abort, Idle, IInv, TypeOK
  <2> QED BY <2>1, <2>2, <2>3, <2>4
<1> QED BY <1>1, <1>3, <1>4, <1>5 DEF Served

\* The invariant of the requests follows.
LEMMA ServedKeeps ==
  ASSUME NEW r \in Requests, Served(r) PROVE Alone' /\ StillAllowed'
<1>1. Idle.pc = "idle"
  BY DEF Idle
<1> QED BY <1>1 DEF Served, Alone, StillAllowed

\* The transaction of the only request in flight goes onward.
LEMMA CommitOnward ==
  ASSUME IInv, SerialInv, ~overlapped, NEW r \in Requests, Commit(r)
  PROVE  Journey' /\ deliveryStatus \in Before(deliveryStatus')
<1> DEFINE op == request[r].op
<1>1. op \in CourierOps \cup ScanOps /\ deliveryStatus \in Allowed(op) /\ Journey
  BY DEF Commit, IInv, Bound, SerialInv, StillAllowed
<1>2. /\ deliveryStatus' = Target(op) /\ trail' = Append(trail, Target(op))
      /\ Target(op) \in DeliveryStatuses /\ trail \in Seq(DeliveryStatuses)
      /\ deliveryStatus = trail[Len(trail)] /\ Len(trail) \in Nat /\ Len(trail) > 0
  BY <1>1, TablesMatch DEF Commit, IInv, TypeOK, StatusIsNewest
<1>3. /\ Len(trail') = Len(trail) + 1
      /\ \A i \in 1 .. Len(trail) : trail'[i] = trail[i] /\ trail[i] \in DeliveryStatuses
      /\ trail'[Len(trail) + 1] = Target(op)
  BY <1>2, AppendRow
<1>4. Journey'
  <2>1. SUFFICES ASSUME NEW i \in 1 .. Len(trail'), NEW j \in 1 .. Len(trail'), i < j
                 PROVE  Onward(trail'[i], trail'[j]) \/ ReadyAgain(i, j)'
    BY DEF Journey
  <2>2. CASE j \in 1 .. Len(trail)
    BY <1>1, <1>3, <2>1, <2>2 DEF Journey, ReadyAgain
  <2>3. CASE j = Len(trail) + 1
    <3>1. Onward(deliveryStatus, Target(op))
      BY <1>1, StageOrder
    <3>2. i \in 1 .. Len(trail) /\ trail'[i] = trail[i] /\ trail'[j] = Target(op)
      BY <1>2, <1>3, <2>1, <2>3
    <3>3. \/ trail[i] = deliveryStatus \/ Onward(trail[i], deliveryStatus)
          \/ ReadyAgain(i, Len(trail))
      BY <1>1, <1>2, <3>2 DEF Journey
    <3>4. trail[i] \in DeliveryStatuses /\ deliveryStatus \in DeliveryStatuses
      BY <1>2, <1>3, <3>2
    <3>5. CASE ReadyAgain(i, Len(trail))
      BY <1>2, <1>3, <2>3, <3>2, <3>5 DEF ReadyAgain
    <3> QED BY <1>2, <3>1, <3>2, <3>3, <3>4, <3>5, OnwardTransitive
  <2> QED BY <1>2, <1>3, <2>2, <2>3
<1>5. deliveryStatus \in Before(deliveryStatus')
  BY <1>1, <1>2, StageOrder
<1> QED BY <1>4, <1>5

\* A payment applied while no request is in flight starts the journey again.
LEMMA WebhookPaidAlone ==
  ASSUME IInv, SerialInv, WebhookPaid, ~overlapped'
  PROVE  /\ Alone' /\ StillAllowed' /\ Journey'
         /\ deliveryStatus' = "READY_TO_PICKUP" /\ payment # "PAID" /\ payment' = "PAID"
<1>1. ~overlapped /\ \A r \in Requests : request[r] = Idle /\ request'[r] = Idle
  BY DEF WebhookPaid
<1>2. Idle.pc = "idle"
  BY DEF Idle
<1>3. /\ trail \in Seq(DeliveryStatuses) /\ "READY_TO_PICKUP" \in DeliveryStatuses
      /\ trail' = Append(trail, "READY_TO_PICKUP")
  BY DEF WebhookPaid, IInv, TypeOK, DeliveryStatuses
<1>4. /\ Len(trail') = Len(trail) + 1 /\ Len(trail) \in Nat
      /\ \A i \in 1 .. Len(trail) : trail'[i] = trail[i]
      /\ trail'[Len(trail) + 1] = "READY_TO_PICKUP"
  BY <1>3, AppendRow
<1>5. Journey'
  <2>1. SUFFICES ASSUME NEW i \in 1 .. Len(trail'), NEW j \in 1 .. Len(trail'), i < j
                 PROVE  Onward(trail'[i], trail'[j]) \/ ReadyAgain(i, j)'
    BY DEF Journey
  <2>2. CASE j \in 1 .. Len(trail)
    BY <1>1, <1>4, <2>1, <2>2 DEF SerialInv, Journey, ReadyAgain
  <2>3. CASE j = Len(trail) + 1
    BY <1>4, <2>1, <2>3 DEF ReadyAgain
  <2> QED BY <1>4, <2>2, <2>3
<1>6. deliveryStatus' = "READY_TO_PICKUP" /\ payment # "PAID" /\ payment' = "PAID"
  BY DEF WebhookPaid, NotYetPaid
<1> QED BY <1>1, <1>2, <1>5, <1>6 DEF Alone, StillAllowed

\* How a step of its own may move the parcel.
Moves == Len(trail') > Len(trail) =>
  \/ deliveryStatus \in Before(deliveryStatus')
  \/ deliveryStatus' = "READY_TO_PICKUP" /\ payment # "PAID" /\ payment' = "PAID"

\* Every step keeps the serial invariant, and goes onward if it moves the parcel.
LEMMA SerialStep ==
  ASSUME IInv, SerialInv, [Next]_vars
  PROVE  SerialInv' /\ (~overlapped' => Moves)
<1> SUFFICES ASSUME ~overlapped'
             PROVE  Alone' /\ StillAllowed' /\ Journey' /\ Moves
  BY DEF SerialInv
<1>0. Len(trail) \in Nat
  BY DEF IInv, TypeOK
<1>1. ASSUME Next, NEW r \in Requests,
             \/ \E op \in CourierOps : CheckStatus(r, op)
             \/ FindBranch(r)
             \/ \E op \in ScanOps, e \in Employees : StartScan(r, op, e)
             \/ CheckScan(r) \/ ValidateScan(r) \/ Commit(r) \/ Abort(r)
      PROVE  Alone' /\ StillAllowed' /\ Journey' /\ Moves
  <2>1. ~overlapped /\ Served(r)
    BY <1>1, RequestAlone
  <2>2. Alone' /\ StillAllowed'
    BY <2>1, ServedKeeps
  <2>3. CASE Commit(r)
    BY <2>1, <2>2, <2>3, CommitOnward DEF Moves
  <2>4. CASE ~Commit(r)
    <3>1. UNCHANGED trail
      BY <1>1, <2>4 DEF CheckStatus, FindBranch, StartScan, CheckScan, ValidateScan, Abort,
                        Tables
    <3> QED BY <1>0, <2>1, <2>2, <3>1 DEF SerialInv, Journey, ReadyAgain, Moves
  <2> QED BY <2>3, <2>4
<1>2. ASSUME UNCHANGED <<deliveryStatus, trail, request, overlapped>>
      PROVE  Alone' /\ StillAllowed' /\ Journey' /\ Moves
  <2>1. ~overlapped /\ ~(Len(trail') > Len(trail))
    BY <1>0, <1>2
  <2>2. Journey'
    BY <1>2, <2>1 DEF SerialInv, Journey, ReadyAgain
  <2> QED BY <1>2, <2>1, <2>2 DEF SerialInv, Alone, StillAllowed, Moves
<1>3. ASSUME NEW e \in Employees, NEW b \in Branches \cup {NoBranch}, Assign(e, b)
      PROVE  UNCHANGED <<deliveryStatus, trail, request, overlapped>>
  BY <1>3 DEF Assign
<1>4. ASSUME Behind
      PROVE  UNCHANGED <<deliveryStatus, trail, request, overlapped>>
  BY <1>4 DEF Behind, WebhookUnpaid, JobRead, JobExpire, JobThrows, Parcel
<1>5. CASE WebhookPaid
  BY <1>5, WebhookPaidAlone DEF Moves
<1>6. CASE UNCHANGED vars
  BY <1>2, <1>6 DEF vars
<1> QED BY <1>1, <1>2, <1>3, <1>4, <1>5, <1>6 DEF Next, Behind

\* The serial invariant holds initially.
LEMMA SerialInit == Init => SerialInv
BY DEF Init, SerialInv, Alone, StillAllowed, Journey, Idle

\* As long as no two requests overlap, operations only move the parcel forward
\* along the flow (courier.service.ts:43-53, shipment-branch.service.ts:197-210),
\* and only a payment that had been overwritten sets it back
\* (shipments.service.ts:253-309).
THEOREM SerialForward == Spec => ForwardOnly
<1>1. IInv /\ SerialInv /\ [Next]_vars =>
        /\ SerialInv'
        /\ [~overlapped' /\ Len(trail') > Len(trail)
              => \/ deliveryStatus \in Before(deliveryStatus')
                 \/ deliveryStatus' = "READY_TO_PICKUP" /\ payment # "PAID" /\ payment' = "PAID"]_vars
  BY SerialStep DEF Moves
<1> QED BY <1>1, SerialInit, Invariance, PTL DEF Spec, ForwardOnly

\* As long as no two requests overlap, no courier action happens twice between
\* two payments (courier.service.ts:43-66).
THEOREM SerialOnce == Spec => []OnceInTurn
<1>1. IInv /\ SerialInv /\ [Next]_vars => SerialInv'
  BY SerialStep
<1>2. IInv /\ SerialInv => OnceInTurn
  <2>1. SUFFICES ASSUME IInv, SerialInv, ~overlapped,
                        NEW i \in 1 .. Len(trail), NEW j \in 1 .. Len(trail),
                        i < j, trail[i] = trail[j], trail[i] \notin Scanned
                 PROVE  ReadyAgain(i, j)
    BY DEF OnceInTurn, NoDoubleTap
  <2>2. trail[i] \in DeliveryStatuses
    <3>1. trail \in Seq(DeliveryStatuses)
      BY <2>1 DEF IInv, TypeOK
    <3> QED BY <2>1, <3>1
  <2>3. Stage(trail[i]) \in 0 .. 8
    BY <2>2, StageOrder
  <2>4. ~Onward(trail[i], trail[j])
    BY <2>1, <2>3 DEF Onward
  <2> QED BY <2>1, <2>4 DEF SerialInv, Journey
<1> QED BY <1>1, <1>2, SerialInit, Invariance, PTL DEF Spec

---------------------------------------------------------------------------
\* What a validated scan saw of the logs is still so when it writes.
StillLogged == \A r \in Requests :
  request[r].pc = "validated" /\ request[r].op \in ScanOps =>
    LogAllows(ScanType(request[r].op), request[r].branch)

SerialScans == ~overlapped => StillLogged /\ ScansAlternate

\* The transaction of the only request in flight keeps the turns of the scans.
LEMMA CommitInTurn ==
  ASSUME IInv, SerialScans, ~overlapped, NEW r \in Requests, Commit(r)
  PROVE  ScansAlternate'
<1> DEFINE op  == request[r].op
           row == [type |-> ScanType(op), branch |-> request[r].branch,
                   status |-> Target(op)]
<1>1. op \in CourierOps \cup ScanOps /\ logs \in Seq(LogRows) /\ Len(logs) \in Nat
      /\ ScansAlternate
  BY DEF Commit, IInv, TypeOK, Bound, SerialScans
<1>2. CASE op \notin ScanOps
  BY <1>1, <1>2 DEF Commit, LogsAfter, ScansAlternate
<1>3. CASE op \in ScanOps
  <2>1. row \in LogRows
    BY <1>1, <1>3, TablesMatch DEF IInv, Bound, LogRows, ScanType
  <2>2. logs' = Append(logs, row) /\ LogAllows(row.type, row.branch)
    BY <1>3 DEF Commit, LogsAfter, SerialScans, StillLogged
  <2> HIDE DEF row
  <2>3. /\ Len(logs') = Len(logs) + 1
        /\ \A i \in 1 .. Len(logs) : logs'[i] = logs[i]
        /\ logs'[Len(logs) + 1] = row
    BY <1>1, <2>1, <2>2, AppendRow
  <2>4. row.type \in {"IN", "OUT"}
    BY <2>1 DEF LogRows
  <2>5. CASE Len(logs) = 0
    <3>1. ~InsideBranch
      BY <1>1, <2>5 DEF InsideBranch
    <3>2. row.type = "IN"
      BY <2>2, <2>4, <3>1 DEF LogAllows
    <3> QED BY <2>3, <2>5, <3>2 DEF ScansAlternate
  <2>6. CASE Len(logs) > 0
    <3> DEFINE n == Len(logs)
    <3>1. logs # <<>> /\ n \in 1 .. n /\ (InsideBranch <=> logs[n].type = "IN")
      BY <1>1, <2>6 DEF InsideBranch
    <3>2. logs[n].type = IF n % 2 = 1 THEN "IN" ELSE "OUT"
      BY <1>1, <3>1 DEF ScansAlternate
    <3>3. CASE n % 2 = 1
      <4>1. row.type = "OUT" /\ row.branch = logs[n].branch
        BY <2>2, <2>4, <3>1, <3>2, <3>3 DEF LogAllows
      <4>2. (n + 1) % 2 = 0
        BY <1>1, <3>3
      <4> QED BY <1>1, <2>3, <4>1, <4>2 DEF ScansAlternate
    <3>4. CASE n % 2 # 1
      <4>1. row.type = "IN"
        BY <2>2, <2>4, <3>1, <3>2, <3>4 DEF LogAllows
      <4>2. (n + 1) % 2 = 1
        BY <1>1, <3>4
      <4> QED BY <1>1, <2>3, <4>1, <4>2 DEF ScansAlternate
    <3> QED BY <3>3, <3>4
  <2> QED BY <1>1, <2>5, <2>6
<1> QED BY <1>2, <1>3

\* Every step keeps what is said of the scans.
LEMMA ScansStep ==
  ASSUME IInv, SerialInv, SerialScans, [Next]_vars PROVE SerialScans'
<1> SUFFICES ASSUME ~overlapped' PROVE StillLogged' /\ ScansAlternate'
  BY DEF SerialScans
<1>1. ASSUME Next, NEW r \in Requests,
             \/ \E op \in CourierOps : CheckStatus(r, op)
             \/ FindBranch(r)
             \/ \E op \in ScanOps, e \in Employees : StartScan(r, op, e)
             \/ CheckScan(r) \/ ValidateScan(r) \/ Commit(r) \/ Abort(r)
      PROVE  StillLogged' /\ ScansAlternate'
  <2>1. ~overlapped /\ Served(r)
    BY <1>1, RequestAlone
  <2>2. \A o \in Requests \ {r} : request'[o].pc = "idle"
    BY <2>1 DEF Served, Idle
  <2>3. CASE Commit(r)
    <3>1. request'[r].pc = "idle"
      BY <2>3 DEF Commit, Idle, IInv, TypeOK
    <3> QED BY <2>1, <2>2, <2>3, <3>1, CommitInTurn DEF StillLogged
  <2>4. CASE ~Commit(r)
    <3>1. UNCHANGED logs
      BY <1>1, <2>4 DEF CheckStatus, FindBranch, StartScan, CheckScan, ValidateScan, Abort,
                        Tables
    <3>2. request'[r].pc = "validated" /\ request'[r].op \in ScanOps =>
            LogAllows(ScanType(request'[r].op), request'[r].branch)
      <4>1. CASE ValidateScan(r)
        <5>1. request'[r].op = request[r].op /\ request'[r].branch = request[r].branch
          BY <4>1 DEF ValidateScan, Goto, IInv, TypeOK, RequestStates
        <5> QED BY <4>1, <5>1 DEF ValidateScan
      <4>2. CASE FindBranch(r)
        BY <4>2 DEF FindBranch, Goto, IInv, TypeOK, RequestStates, CourierOps, ScanOps
      <4>3. CASE CheckScan(r)
        BY <4>3 DEF CheckScan, Goto, IInv, TypeOK, RequestStates
      <4>4. CASE \/ \E op \in CourierOps : CheckStatus(r, op)
                 \/ \E op \in ScanOps, e \in Employees : StartScan(r, op, e)
                 \/ Abort(r)
        BY <4>4 DEF CheckStatus, StartScan, Abort, Idle, IInv, TypeOK
      <4> QED BY <1>1, <2>4, <4>1, <4>2, <4>3, <4>4
    <3>3. StillLogged'
      BY <2>2, <3>1, <3>2 DEF StillLogged, LogAllows, InsideBranch
    <3>4. ScansAlternate'
      BY <2>1, <3>1 DEF SerialScans, ScansAlternate
    <3> QED BY <3>3, <3>4
  <2> QED BY <2>3, <2>4
<1>2. ASSUME UNCHANGED <<logs, request>>, ~overlapped
      PROVE  StillLogged' /\ ScansAlternate'
  BY <1>2 DEF SerialScans, StillLogged, ScansAlternate, LogAllows, InsideBranch
<1>3. ASSUME NEW e \in Employees, NEW b \in Branches \cup {NoBranch}, Assign(e, b)
      PROVE  UNCHANGED <<logs, request>> /\ ~overlapped
  BY <1>3 DEF Assign
<1>4. ASSUME Behind \/ WebhookPaid
      PROVE  UNCHANGED <<logs, request>> /\ ~overlapped
  <2>1. CASE Behind
    BY <2>1 DEF Behind, WebhookUnpaid, JobRead, JobExpire, JobThrows, Parcel
  <2>2. CASE WebhookPaid
    BY <2>2 DEF WebhookPaid
  <2> QED BY <1>4, <2>1, <2>2
<1>5. CASE UNCHANGED vars
  BY <1>2, <1>5 DEF vars
<1> QED BY <1>1, <1>2, <1>3, <1>4, <1>5 DEF Next, Behind

\* IN and OUT take turns as long as no two requests overlap, wherever employees
\* are moved and whatever happens to the payment
\* (shipment-branch.service.ts:223-257).
THEOREM SerialTurns == Spec => []ScansInTurn
<1>1. Init => SerialScans
  BY DEF Init, SerialScans, StillLogged, ScansAlternate, Idle
<1>2. IInv /\ SerialInv /\ SerialScans /\ [Next]_vars => SerialInv' /\ SerialScans'
  BY SerialStep, ScansStep
<1>3. SerialScans => ScansInTurn
  BY DEF SerialScans, ScansInTurn
<1> QED BY <1>1, <1>2, <1>3, SerialInit, Invariance, PTL DEF Spec

---------------------------------------------------------------------------
(* The rows of the tables, counted.                                        *)

\* Rows that an Append adds are not among the first n of before.
LEMMA CountKept ==
  ASSUME NEW S, NEW rows \in Seq(S), NEW e \in S, NEW T, NEW n \in 0 .. Len(rows)
  PROVE  Count(Append(rows, e), T, n) = Count(rows, T, n)
<1>1. \A i \in 1 .. n : Append(rows, e)[i] = rows[i]
  BY AppendRow
<1>2. {i \in 1 .. n : Append(rows, e)[i] \in T} = {i \in 1 .. n : rows[i] \in T}
  BY <1>1
<1> QED BY <1>2 DEF Count

\* A row appended counts if its status does.
LEMMA CountAppended ==
  ASSUME NEW S, NEW rows \in Seq(S), NEW e \in S, NEW T
  PROVE  Count(Append(rows, e), T, Len(rows) + 1)
           = Count(rows, T, Len(rows)) + IF e \in T THEN 1 ELSE 0
<1> DEFINE n   == Len(rows)
           old == {i \in 1 .. n : rows[i] \in T}
           new == {i \in 1 .. n + 1 : Append(rows, e)[i] \in T}
<1>1. /\ n \in Nat /\ \A i \in 1 .. n : Append(rows, e)[i] = rows[i]
      /\ Append(rows, e)[n + 1] = e
  BY AppendRow
<1>2. IsFiniteSet(old) /\ Cardinality(old) \in Nat /\ n + 1 \notin old
  <2>1. IsFiniteSet(1 .. n)
    BY <1>1, FS_Interval
  <2> QED BY <1>1, <2>1, FS_Subset, FS_CardinalityType
<1>3. new = IF e \in T THEN old \cup {n + 1} ELSE old
  <2>1. \A i : i \in 1 .. n + 1 <=> i \in 1 .. n \/ i = n + 1
    BY <1>1
  <2> QED BY <1>1, <2>1
<1>4. Cardinality(new) = Cardinality(old) + IF e \in T THEN 1 ELSE 0
  <2>1. Cardinality(old \cup {n + 1}) = Cardinality(old) + 1
    BY <1>2, FS_AddElement
  <2> HIDE DEF old, new
  <2> QED BY <1>2, <1>3, <2>1
<1> QED BY <1>4 DEF Count

\* A row that counts is one of those counted.
LEMMA CountBounds ==
  ASSUME NEW S, NEW rows \in Seq(S), NEW T, NEW n \in 1 .. Len(rows), rows[n] \in T
  PROVE  Count(rows, T, n) \in 1 .. Count(rows, T, Len(rows))
<1> DEFINE first == {i \in 1 .. n : rows[i] \in T}
           all   == {i \in 1 .. Len(rows) : rows[i] \in T}
<1>1. IsFiniteSet(all) /\ first \subseteq all /\ n \in first
  <2>1. IsFiniteSet(1 .. Len(rows))
    BY FS_Interval
  <2> QED BY <2>1, FS_Subset
<1>2. /\ Cardinality(first) \in Nat /\ Cardinality(all) \in Nat
      /\ Cardinality(first) <= Cardinality(all) /\ Cardinality(first) # 0
  BY <1>1, FS_Subset, FS_CardinalityType, FS_EmptySet
<1> QED BY <1>2 DEF Count

\* Only a scan writes the status of a scan.
LEMMA ScansAreScans ==
  ASSUME NEW op \in CourierOps \cup ScanOps
  PROVE  Target(op) \in Scanned <=> op \in ScanOps
BY DEF CourierOps, ScanOps, Target, Scanned

\* A transaction adds a history row and, if it is a scan's, its log.
LEMMA CommitAgrees == ASSUME IInv, TablesAgree, NEW r \in Requests, Commit(r) PROVE TablesAgree'
<1> DEFINE op  == request[r].op
           st  == Target(op)
           row == [type |-> ScanType(op), branch |-> request[r].branch, status |-> st]
<1>1. /\ op \in CourierOps \cup ScanOps /\ st \in DeliveryStatuses
      /\ st \in Scanned <=> op \in ScanOps
  BY TablesMatch, ScansAreScans DEF Commit, IInv, Bound
<1>2. /\ trail \in Seq(DeliveryStatuses) /\ trail' = Append(trail, st)
      /\ deliveryStatus' = st /\ logs \in Seq(LogRows)
  BY DEF Commit, IInv, TypeOK
<1>3. op \in ScanOps => row \in LogRows
  BY <1>1 DEF IInv, Bound, LogRows, ScanType
<1>4. /\ op \in ScanOps => logs' = Append(logs, row)
      /\ op \notin ScanOps => logs' = logs
  BY DEF Commit, LogsAfter
<1>5. row.status = st
  OBVIOUS
<1> HIDE DEF row, st, op
<1>6. /\ Len(trail) \in Nat /\ Len(trail') = Len(trail) + 1
      /\ \A i \in 1 .. Len(trail) : trail'[i] = trail[i]
      /\ trail'[Len(trail) + 1] = st
  BY <1>1, <1>2, AppendRow
<1>7. /\ Count(trail', Scanned, Len(trail) + 1)
           = Count(trail, Scanned, Len(trail)) + IF st \in Scanned THEN 1 ELSE 0
      /\ \A i \in 1 .. Len(trail) : Count(trail', Scanned, i) = Count(trail, Scanned, i)
  BY <1>1, <1>2, CountAppended, CountKept
<1>8. /\ Len(logs) \in Nat /\ Len(logs) = Count(trail, Scanned, Len(trail))
      /\ Len(logs') = Len(logs) + IF st \in Scanned THEN 1 ELSE 0
      /\ \A i \in 1 .. Len(logs) : logs'[i] = logs[i]
      /\ st \in Scanned => logs'[Len(logs) + 1].status = st
  <2>1. Len(logs) \in Nat /\ Len(logs) = Count(trail, Scanned, Len(trail))
    BY <1>2 DEF TablesAgree
  <2>2. CASE op \in ScanOps
    BY <1>1, <1>2, <1>3, <1>4, <1>5, <2>1, <2>2, AppendRow
  <2>3. CASE op \notin ScanOps
    BY <1>1, <1>4, <2>1, <2>3
  <2> QED BY <2>2, <2>3
<1>9. ASSUME NEW i \in 1 .. Len(trail'), trail'[i] \in Scanned
      PROVE  logs'[Count(trail', Scanned, i)].status = trail'[i]
  <2>1. CASE i = Len(trail) + 1
    BY <1>6, <1>7, <1>8, <1>9, <2>1
  <2>2. CASE i \in 1 .. Len(trail)
    <3>1. Count(trail, Scanned, i) \in 1 .. Len(logs)
      BY <1>2, <1>6, <1>8, <1>9, <2>2, CountBounds
    <3> QED BY <1>6, <1>7, <1>8, <1>9, <2>2, <3>1 DEF TablesAgree
  <2> QED BY <1>6, <1>9, <2>1, <2>2
<1> QED BY <1>2, <1>6, <1>7, <1>8, <1>9 DEF TablesAgree

\* A payment that is applied anew adds a row that is no scan's.
LEMMA WebhookPaidAgrees == ASSUME IInv, TablesAgree, WebhookPaid PROVE TablesAgree'
<1>1. /\ trail \in Seq(DeliveryStatuses) /\ logs \in Seq(LogRows) /\ UNCHANGED logs
      /\ "READY_TO_PICKUP" \in DeliveryStatuses /\ "READY_TO_PICKUP" \notin Scanned
      /\ trail' = Append(trail, "READY_TO_PICKUP") /\ deliveryStatus' = "READY_TO_PICKUP"
  BY DEF WebhookPaid, IInv, TypeOK, DeliveryStatuses, Scanned
<1>2. /\ Len(trail) \in Nat /\ Len(trail') = Len(trail) + 1
      /\ \A i \in 1 .. Len(trail) : trail'[i] = trail[i]
      /\ trail'[Len(trail) + 1] = "READY_TO_PICKUP"
  BY <1>1, AppendRow
<1>3. /\ Count(trail', Scanned, Len(trail) + 1) = Count(trail, Scanned, Len(trail)) + 0
      /\ \A i \in 1 .. Len(trail) : Count(trail', Scanned, i) = Count(trail, Scanned, i)
  BY <1>1, CountAppended, CountKept
<1>4. ASSUME NEW i \in 1 .. Len(trail'), trail'[i] \in Scanned
      PROVE  logs'[Count(trail', Scanned, i)].status = trail'[i]
  <2>1. i \in 1 .. Len(trail)
    BY <1>1, <1>2, <1>4
  <2> QED BY <1>1, <1>2, <1>3, <1>4, <2>1 DEF TablesAgree
<1>5. Len(logs') = Count(trail', Scanned, Len(trail'))
  BY <1>1, <1>2, <1>3 DEF TablesAgree
<1> QED BY <1>1, <1>2, <1>4, <1>5 DEF TablesAgree

\* The three tables tell one story, however requests interleave and whatever
\* happens to the payment (shipment-branch.service.ts:126-174,
\* shipments.service.ts:290-309).
THEOREM TablesTellOneStory == Spec => []TablesAgree
<1>1. Init => TablesAgree
  <2>1. ASSUME Init PROVE TablesAgree
    <3> DEFINE one == <<"READY_TO_PICKUP">>
    <3>1. /\ {i \in 1 .. 1 : one[i] \in Scanned} = {}
          /\ Len(one) = 1 /\ one[1] = "READY_TO_PICKUP"
      BY DEF Scanned
    <3>2. Count(one, Scanned, Len(one)) = 0
      BY <3>1, FS_EmptySet DEF Count
    <3>3. "READY_TO_PICKUP" \notin Scanned
      BY DEF Scanned
    <3> QED BY <2>1, <3>1, <3>2, <3>3 DEF Init, TablesAgree
  <2> QED BY <2>1
<1>2. IInv /\ TablesAgree /\ [Next]_vars => TablesAgree'
  <2>1. ASSUME IInv, TablesAgree, [Next]_vars PROVE TablesAgree'
    <3>1. CASE UNCHANGED <<deliveryStatus, trail, logs>>
      BY <2>1, <3>1 DEF TablesAgree
    <3>2. ASSUME NEW r \in Requests,
                 \/ \E op \in CourierOps : CheckStatus(r, op)
                 \/ FindBranch(r)
                 \/ \E op \in ScanOps, e \in Employees : StartScan(r, op, e)
                 \/ CheckScan(r) \/ ValidateScan(r) \/ Abort(r)
          PROVE  UNCHANGED <<deliveryStatus, trail, logs>>
      BY <3>2 DEF CheckStatus, FindBranch, StartScan, CheckScan, ValidateScan, Abort, Tables
    <3>3. ASSUME NEW e \in Employees, NEW b \in Branches \cup {NoBranch}, Assign(e, b)
          PROVE  UNCHANGED <<deliveryStatus, trail, logs>>
      BY <3>3 DEF Assign
    <3>4. Behind => UNCHANGED <<deliveryStatus, trail, logs>>
      BY DEF Behind, WebhookUnpaid, JobRead, JobExpire, JobThrows, Parcel
    <3> QED BY <2>1, <3>1, <3>2, <3>3, <3>4, CommitAgrees, WebhookPaidAgrees DEF Next, Behind, vars
  <2> QED BY <2>1
<1> QED BY <1>1, <1>2, Invariance, PTL DEF Spec
=============================================================================
