------------------------------ MODULE RowLocks ------------------------------
(***************************************************************************)
(* The transactions that write one shipment, statement by statement, with  *)
(* the row locks InnoDB takes for them: the scans of                       *)
(* ShipmentBranchService, the actions of ShipmentCourierService, the       *)
(* payment webhook and the expiry job.  Delivery takes each of these       *)
(* transactions as one step, and Payment all but the webhook's; this       *)
(* module says what it costs.                                              *)
(*                                                                         *)
(* An update locks its row (X).  An insert of a log or of a history row    *)
(* locks the shipment its foreign key names (S).  A lock is kept until the *)
(* transaction ends, and InnoDB ends a circle of waits by rolling one of   *)
(* its transactions back; no service tries such a transaction again.       *)
(***************************************************************************)
EXTENDS Naturals, Sequences, FiniteSets

CONSTANT Transactions    \* the transactions on this shipment that may overlap

ASSUME TransactionsAssumption == IsFiniteSet(Transactions)

\* The webhook's transaction has one kind for each of its branches.
Webhooks == {"webhookPaid", "webhookUnpaid", "webhookPending"}
Kinds == {"scanShipment", "pickShipment", "pickUpShipment", "expiryJob"} \cup Webhooks
Rows == {"payment", "shipment", "detail"}
Modes == {"S", "X"}

VARIABLES
  kind,        \* which operation each transaction belongs to
  pc,          \* the statement it is at, counted from 1
  phase,       \* of that statement: not issued yet, waiting for its lock, or
               \* the end of the transaction
  held,        \* the locks of each row
  before,      \* the transactions that arrived earlier at the row a transaction
               \* waits for, and wait still: the queues of the rows
  queueing,    \* does a request wait for those before it ("fifo"), or only
               \* for the locks that are held ("barging")?  Releases differ.
  status,      \* the transaction whose deliveryStatus or paymentStatus is in
               \* the row of the shipment, as committed
  paid,        \* does the row of the payment say PAID
  stamped      \* transactions in the order their history rows were stamped

vars == <<kind, pc, phase, held, before, queueing, status, paid, stamped>>

---------------------------------------------------------------------------
(* The statements of the transactions.                                     *)

Update(row) == [row |-> row, mode |-> "X", stamps |-> FALSE, via |-> "tx"]
InsertLog == [row |-> "shipment", mode |-> "S", stamps |-> FALSE, via |-> "tx"]
InsertHistoryOutside == [row |-> "shipment", mode |-> "S", stamps |-> TRUE, via |-> "this"]
InsertHistory == [row |-> "shipment", mode |-> "S", stamps |-> TRUE, via |-> "tx"]

\* pickShipment stands for the four courier actions without a photo,
\* pickUpShipment for the two with one.
CourierHistoryFirst(op) ==
  IF op = "pickUpShipment" THEN <<InsertHistory, Update("shipment"), Update("detail")>>
  ELSE <<InsertHistory, Update("shipment")>>
CourierProgram(op) ==
  IF op = "pickUpShipment" THEN <<Update("shipment"), InsertHistory, Update("detail")>>
  ELSE <<Update("shipment"), InsertHistory>>

\* PAID and SETTLED, and EXPIRED and FAILED, write the shipment and its history;
\* PENDING is in neither branch and leaves it at the payment.
WebhookShipmentFirst(op) ==
  IF op = "webhookPending" THEN <<Update("payment")>>
  ELSE <<Update("shipment"), Update("payment"), InsertHistory>>
WebhookProgram(op) ==
  IF op = "webhookPending" THEN <<Update("payment")>>
  ELSE <<Update("payment"), Update("shipment"), InsertHistory>>

ScanProgram == <<InsertLog, Update("shipment"), InsertHistory>>

JobProgram == <<Update("payment"), Update("shipment"), InsertHistory>>

Program(op) ==
  CASE op = "scanShipment" -> ScanProgram
    [] op \in Webhooks     -> WebhookProgram(op)
    [] op = "expiryJob"    -> JobProgram
    [] OTHER               -> CourierProgram(op)

Init ==
  /\ kind \in [Transactions -> Kinds]
  /\ Cardinality({t \in Transactions : kind[t] = "expiryJob"}) <= 1   \* one worker
  /\ pc = [t \in Transactions |-> 1]
  /\ phase = [t \in Transactions |-> "ready"]
  /\ held = [row \in Rows |-> {}]
  /\ before = [t \in Transactions |-> {}]
  /\ queueing \in {"fifo", "barging"}
  /\ status = "before"
  /\ paid = FALSE
  /\ stamped = <<>>

---------------------------------------------------------------------------
(* Locks.                                                                  *)

Statement(t) == Program(kind[t])[pc[t]]

\* Who asks for the lock of t's statement: the transaction t, or another
\* connection if the statement is not sent through tx.
Owner(t) == [tx |-> t, via |-> Statement(t).via]

Conflict(m, n) == m = "X" \/ n = "X"

\* A lock the owner holds already is enough.
Covered(t) == \E l \in held[Statement(t).row] :
  l.by = Owner(t) /\ (l.mode = "X" \/ Statement(t).mode = "S")

\* The lock t's statement asks for, and those asked for earlier that it waits for.
Wanted(t) == [by |-> Owner(t), mode |-> Statement(t).mode]
Ahead(t) == IF queueing = "fifo" THEN {Wanted(u) : u \in before[t]} ELSE {}

\* The other owners that keep t waiting.
Blockers(t) ==
  {l.by : l \in {l \in held[Statement(t).row] \cup Ahead(t) :
                   /\ l.by # Owner(t) /\ ~Covered(t)
                   /\ Conflict(l.mode, Statement(t).mode)}}

\* Transactions that wait for each other in a circle, as the database sees it:
\* it knows of no tie between a transaction and its client's other connection.
WaitsFor(t, u) == phase[t] = "waiting" /\ [tx |-> u, via |-> "tx"] \in Blockers(t)
                  /\ Statement(t).via = "tx"
Locked(C) == C # {} /\ \A t \in C : \E u \in C : WaitsFor(t, u)
Cycles == {C \in SUBSET Transactions : Locked(C) /\ \A D \in SUBSET C : Locked(D) => D = C}

---------------------------------------------------------------------------
(* Steps.                                                                  *)

Waiting(row) == {t \in Transactions : phase[t] = "waiting" /\ Statement(t).row = row}

\* The client sends the next statement: createdAt is stamped, then the request
\* joins the queue of its row.
Issue(t) ==
  /\ phase[t] = "ready"
  /\ phase' = [phase EXCEPT ![t] = "waiting"]
  /\ stamped' = IF Statement(t).stamps THEN Append(stamped, t) ELSE stamped
  /\ before' = [before EXCEPT ![t] = Waiting(Statement(t).row)]
  /\ UNCHANGED <<kind, pc, held, queueing, status, paid>>

\* A request that waits no more.
LeaveQueue(t) ==
  before' = [u \in Transactions |-> IF u = t THEN {} ELSE before[u] \ {t}]

\* The end of a transaction releases its locks.
Release(t) ==
  /\ held' = [row \in Rows |-> {l \in held[row] : l.by.tx # t}]
  /\ LeaveQueue(t)

\* Does the payment say PAID after t: couriers and scans leave it alone.
PaidAfter(t) ==
  kind[t] = "webhookPaid" \/ (paid /\ kind[t] \notin Webhooks \cup {"expiryJob"})

\* The last statement is done: commit.
Commit(t) ==
  /\ phase' = [phase EXCEPT ![t] = "committed"]
  /\ Release(t)
  /\ status' = IF kind[t] = "webhookPending" THEN status ELSE t
  /\ paid' = PaidAfter(t)
  /\ UNCHANGED <<kind, pc, queueing, stamped>>

\* The lock is free: the statement is executed.
Grant(t) ==
  /\ held' = [held EXCEPT ![Statement(t).row] = @ \cup {Wanted(t)}]
  /\ LeaveQueue(t)

\* The webhook's updateMany, which matches nothing once the payment is PAID.
MatchesAlways(t) == TRUE
Matches(t) == kind[t] \in Webhooks /\ pc[t] = 1 => ~paid

Execute(t) ==
  /\ phase[t] = "waiting"
  /\ Blockers(t) = {}
  /\ IF ~Matches(t)
       THEN /\ phase' = [phase EXCEPT ![t] = "skipped"]
            /\ Release(t)
            /\ UNCHANGED <<pc, status, paid>>
     ELSE IF pc[t] = Len(Program(kind[t]))
       THEN Commit(t)
     ELSE /\ Grant(t)
          /\ pc' = [pc EXCEPT ![t] = @ + 1]
          /\ phase' = [phase EXCEPT ![t] = "ready"]
          /\ UNCHANGED <<status, paid>>
  /\ UNCHANGED <<kind, queueing, stamped>>

\* A circle of waits: InnoDB rolls one of its transactions back, by weight,
\* which the services do not control.  The request fails with an error.
RollBack(t) ==
  /\ \E C \in Cycles : t \in C
  /\ phase' = [phase EXCEPT ![t] = "rolledBack"]
  /\ Release(t)
  /\ UNCHANGED <<kind, pc, queueing, status, paid, stamped>>

Next == \E t \in Transactions : Issue(t) \/ Execute(t) \/ RollBack(t)

\* A client goes on with its transaction, the database grants what is free and
\* breaks a circle of waits.
Fairness ==
  /\ \A t \in Transactions : WF_vars(Issue(t)) /\ WF_vars(Execute(t))
  /\ WF_vars(\E t \in Transactions : RollBack(t))

Spec == Init /\ [][Next]_vars /\ Fairness

---------------------------------------------------------------------------
\* The type invariant of the transactions, their locks and the queues.
TypeOK ==
  /\ kind \in [Transactions -> Kinds]
  /\ pc \in [Transactions -> 1 .. 3]
  /\ phase \in [Transactions ->
                {"ready", "waiting", "committed", "skipped", "rolledBack"}]
  /\ held \in [Rows -> SUBSET [by : [tx : Transactions, via : {"tx", "this"}], mode : Modes]]
  /\ before \in [Transactions -> SUBSET Transactions]
  /\ queueing \in {"fifo", "barging"}
  /\ status \in Transactions \cup {"before"}
  /\ paid \in BOOLEAN
  /\ stamped \in Seq(Transactions)

\* Only scans deadlock.  All the others lock the payment before the shipment
\* and the shipment before its detail, and take a row's strongest lock first;
\* a scan asks for X on a row of which it holds S.  Where a request waits only
\* for locks that are held, even a scan deadlocks only with another scan
\* (shipment-branch.service.ts:126-171, courier.service.ts:121-141, 184-221,
\* shipments.service.ts:252-366, payment-expired-queue.processor.ts:70-88).
DeadlockNeedsScan == \A C \in Cycles :
  Cardinality({t \in C : kind[t] = "scanShipment"}) >= IF queueing = "fifo" THEN 1 ELSE 2

\* The newest history row, by the createdAt that is stamped before the insert
\* is sent, is that of the transaction whose status the shipment has: whoever
\* gives it a status updates the shipment before he writes the history row
\* (courier.service.ts:121-141, shipments.service.ts:290-366).
Newest(i) == /\ phase[stamped[i]] = "committed"
             /\ \A j \in i + 1 .. Len(stamped) : phase[stamped[j]] # "committed"
HistoryInOrder == \A i \in 1 .. Len(stamped) : Newest(i) => status = stamped[i]

\* The newest history row of those committed, and how a transaction ended.
NewestRow ==
  IF \E i \in 1 .. Len(stamped) : Newest(i)
    THEN stamped[CHOOSE i \in 1 .. Len(stamped) : Newest(i)]
    ELSE "before"
Active(t) == phase[t] \in {"ready", "waiting"}
Outcome == [t \in Transactions |-> IF Active(t) THEN "running" ELSE phase[t]]

\* The locks make a transaction one step: it puts its status and its history row
\* together, and a webhook applies its status, whichever it is, to a payment that
\* is not PAID at that moment, although it looked two statements earlier
\* (shipments.service.ts:252-366).
Atomic == INSTANCE AtomicTransactions WITH outcome <- Outcome, newest <- NewestRow
ImplementsAtomic == Atomic!Spec

\* Nobody waits in silence: as long as a transaction runs, some client has a
\* statement to send, or some lock is free, or the database sees a circle it can
\* break.  A transaction that waited for its own client's other connection
\* would break this (shipment-branch.service.ts:126-174).
NobodyIsStuck ==
  (\E t \in Transactions : Active(t)) =>
    \E t \in Transactions : \/ phase[t] = "ready"
                            \/ phase[t] = "waiting" /\ Blockers(t) = {}
                            \/ \E C \in Cycles : t \in C

\* Breaking circles never ends them all: when the last has ended, one has
\* committed (shipment-branch.service.ts:126-174).
SomebodyCommits ==
  Transactions # {} /\ (\A t \in Transactions : ~Active(t)) =>
    \E t \in Transactions : phase[t] = "committed"

\* Whatever overlaps, every transaction ends, and of those rolled back for a
\* deadlock there is always another that commits: no scan waits for ever, and
\* the parcel moves (shipment-branch.service.ts:126-174).
OneGetsThrough ==
  <>(/\ \A t \in Transactions : phase[t] \in {"committed", "skipped", "rolledBack"}
     /\ \E t \in Transactions : phase[t] = "committed")
=============================================================================
