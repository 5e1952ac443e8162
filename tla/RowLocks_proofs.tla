-------------------------- MODULE RowLocks_proofs --------------------------
(***************************************************************************)
(* What RowLocks promises for every finite set of transactions: only scans *)
(* deadlock, the newest history row is that of the transaction whose       *)
(* status the shipment has, the transactions are those of                  *)
(* AtomicTransactions, nobody waits for ever unseen, and one commits.      *)
(*                                                                         *)
(* The inductive invariant ties the locks of a row to the statements that  *)
(* took them (HeldSound, HeldComplete), says that locks of two owners      *)
(* never conflict (Exclusive), that a queue is a chain (Queues), and that  *)
(* of the transactions with a history row only the newest can still be     *)
(* running (Stamps).  What the proofs use of the programs themselves is    *)
(* stated once, by ProgramShape, ScanShape, OrderedShape and WebhookShape. *)
(***************************************************************************)
EXTENDS RowLocks, FiniteSetTheorems, WellFoundedInduction, TLAPS

Statements == [row : Rows, mode : Modes, stamps : BOOLEAN, via : {"tx"}]

\* The statement of a kind that inserts its history row, past the end of the
\* webhook that inserts none.
StampAt(k) == IF k \in {"pickShipment", "pickUpShipment", "webhookPending"} THEN 2 ELSE 3

Rank(row) == IF row = "payment" THEN 1 ELSE IF row = "shipment" THEN 2 ELSE 3

Lock(t, i) == [by |-> [tx |-> t, via |-> "tx"], mode |-> Program(kind[t])[i].mode]

---------------------------------------------------------------------------
(* The inductive invariant.                                                *)

PcInProgram == \A t \in Transactions : pc[t] \in 1 .. Len(Program(kind[t]))

\* A lock is that of a statement its running transaction has executed ...
HeldSound == \A row \in Rows : \A l \in held[row] :
  \E t \in Transactions : \E i \in 1 .. pc[t] - 1 :
    Active(t) /\ Program(kind[t])[i].row = row /\ l = Lock(t, i)

\* ... and every such statement has its lock.
HeldComplete == \A t \in Transactions : Active(t) =>
  \A i \in 1 .. pc[t] - 1 : Lock(t, i) \in held[Program(kind[t])[i].row]

Exclusive == \A row \in Rows : \A l, m \in held[row] :
  l.by # m.by => ~Conflict(l.mode, m.mode)

\* A request waits behind requests for its own row, and behind whatever they
\* wait behind.
Queues == \A t \in Transactions : \A u \in before[t] :
  /\ phase[t] = "waiting" /\ phase[u] = "waiting" /\ u # t
  /\ Statement(u).row = Statement(t).row
  /\ before[u] \subseteq before[t]

HasStamped(t) == \/ StampAt(kind[t]) < pc[t]
                 \/ StampAt(kind[t]) = pc[t] /\ phase[t] # "ready"

\* The running transactions in stamped are those that have sent their insert,
\* and there is at most one: the last.
Stamps ==
  /\ \A t \in Transactions : Active(t) /\ HasStamped(t) =>
       \E i \in 1 .. Len(stamped) : stamped[i] = t
  /\ \A i \in 1 .. Len(stamped) : Active(stamped[i]) =>
       i = Len(stamped) /\ HasStamped(stamped[i])

IInv == /\ TypeOK /\ PcInProgram
        /\ HeldSound /\ HeldComplete /\ Exclusive
        /\ Queues /\ Stamps /\ HistoryInOrder

---------------------------------------------------------------------------
(* The programs.                                                           *)

\* Every program has up to three statements, all sent through tx.  One of them,
\* which follows an update of the shipment, inserts the history row, except in
\* the program of a PENDING webhook.
LEMMA ProgramShape ==
  ASSUME NEW k \in Kinds
  PROVE  /\ Program(k) \in Seq(Statements)
         /\ Len(Program(k)) \in {1, 2, 3}
         /\ StampAt(k) \in {2, 3}
         /\ StampAt(k) <= Len(Program(k)) <=> k # "webhookPending"
         /\ k # "webhookPending" => Program(k)[StampAt(k) - 1] = Update("shipment")
         /\ \A i \in 1 .. Len(Program(k)) : Program(k)[i].stamps <=> i = StampAt(k)
<1>1. /\ Update("payment") \in Statements /\ ~Update("payment").stamps
      /\ Update("shipment") \in Statements /\ ~Update("shipment").stamps
      /\ Update("detail") \in Statements /\ ~Update("detail").stamps
      /\ InsertLog \in Statements /\ ~InsertLog.stamps
      /\ InsertHistory \in Statements /\ InsertHistory.stamps
  BY DEF Update, InsertLog, InsertHistory, Statements, Rows, Modes
<1>2. CASE k = "scanShipment"
  <2>1. Program(k) = <<InsertLog, Update("shipment"), InsertHistory>> /\ StampAt(k) = 3
    BY <1>2 DEF Program, ScanProgram, StampAt, Webhooks
  <2>2. Program(k) \in Seq(Statements) /\ Len(Program(k)) = 3
    BY <1>1, <2>1
  <2>3. \A i \in 1 .. 3 : Program(k)[i].stamps <=> i = StampAt(k)
    BY <1>1, <2>1
  <2>4. k # "webhookPending"
    BY <1>2
  <2> QED  BY <2>1, <2>2, <2>3, <2>4
<1>3. CASE k \in {"webhookPaid", "webhookUnpaid", "expiryJob"}
  <2>1. Program(k) = <<Update("payment"), Update("shipment"), InsertHistory>> /\ StampAt(k) = 3
    BY <1>3 DEF Program, WebhookProgram, JobProgram, StampAt, Webhooks
  <2>2. Program(k) \in Seq(Statements) /\ Len(Program(k)) = 3
    BY <1>1, <2>1
  <2>3. \A i \in 1 .. 3 : Program(k)[i].stamps <=> i = StampAt(k)
    BY <1>1, <2>1
  <2>4. k # "webhookPending"
    BY <1>3
  <2> QED  BY <2>1, <2>2, <2>3, <2>4
<1>4. CASE k = "pickShipment"
  <2>1. Program(k) = <<Update("shipment"), InsertHistory>> /\ StampAt(k) = 2
    BY <1>4 DEF Program, CourierProgram, StampAt, Webhooks
  <2>2. Program(k) \in Seq(Statements) /\ Len(Program(k)) = 2
    BY <1>1, <2>1
  <2>3. \A i \in 1 .. 2 : Program(k)[i].stamps <=> i = StampAt(k)
    BY <1>1, <2>1
  <2>4. k # "webhookPending"
    BY <1>4
  <2> QED  BY <2>1, <2>2, <2>3, <2>4
<1>5. CASE k = "pickUpShipment"
  <2>1. Program(k) = <<Update("shipment"), InsertHistory, Update("detail")>> /\ StampAt(k) = 2
    BY <1>5 DEF Program, CourierProgram, StampAt, Webhooks
  <2>2. Program(k) \in Seq(Statements) /\ Len(Program(k)) = 3
    BY <1>1, <2>1
  <2>3. \A i \in 1 .. 3 : Program(k)[i].stamps <=> i = StampAt(k)
    BY <1>1, <2>1
  <2>4. k # "webhookPending"
    BY <1>5
  <2> QED  BY <2>1, <2>2, <2>3, <2>4
<1>6. CASE k = "webhookPending"
  <2>1. Program(k) = <<Update("payment")>> /\ StampAt(k) = 2
    BY <1>6 DEF Program, WebhookProgram, StampAt, Webhooks
  <2>2. Program(k) \in Seq(Statements) /\ Len(Program(k)) = 1
    BY <1>1, <2>1
  <2>3. \A i \in 1 .. 1 : Program(k)[i].stamps <=> i = StampAt(k)
    BY <1>1, <2>1
  <2>4. k = "webhookPending"
    BY <1>6
  <2> QED  BY <2>1, <2>2, <2>3, <2>4
<1> QED  BY <1>2, <1>3, <1>4, <1>5, <1>6 DEF Kinds, Webhooks

\* A scan locks the shipment only, for its log before its update.
LEMMA ScanShape ==
  /\ Len(Program("scanShipment")) = 3
  /\ Program("scanShipment")[1].mode = "S"
  /\ Program("scanShipment")[2].mode = "X"
  /\ \A i \in 1 .. 3 : Program("scanShipment")[i].row = "shipment"
BY DEF Program, ScanProgram, InsertLog, Update, InsertHistory, Webhooks

\* All the others lock the rows in one order, and a row for update first.
LEMMA OrderedShape ==
  ASSUME NEW k \in Kinds, k # "scanShipment", NEW j \in 1 .. Len(Program(k))
  PROVE  /\ \A i \in 1 .. j : Rank(Program(k)[i].row) <= Rank(Program(k)[j].row)
         /\ \E i \in 1 .. j : /\ Program(k)[i].row = Program(k)[j].row
                              /\ Program(k)[i].mode = "X"
         /\ \A i \in 1 .. j - 1 : Program(k)[i].row = Program(k)[j].row =>
              Program(k)[i].mode = "X"
<1>1. /\ \A row : Update(row).row = row /\ Update(row).mode = "X"
      /\ InsertHistory.row = "shipment" /\ InsertHistory.mode = "S"
  BY DEF Update, InsertHistory
<1>2. CASE k \in {"webhookPaid", "webhookUnpaid", "expiryJob"}
  <2>1. Program(k) = <<Update("payment"), Update("shipment"), InsertHistory>>
    BY <1>2 DEF Program, WebhookProgram, JobProgram, Webhooks
  <2>2. j \in {1, 2, 3}
    BY <2>1
  <2> QED  BY <1>1, <2>1, <2>2 DEF Rank
<1>3. CASE k = "pickShipment"
  <2>1. Program(k) = <<Update("shipment"), InsertHistory>>
    BY <1>3 DEF Program, CourierProgram, Webhooks
  <2>2. j \in {1, 2}
    BY <2>1
  <2> QED  BY <1>1, <2>1, <2>2 DEF Rank
<1>4. CASE k = "pickUpShipment"
  <2>1. Program(k) = <<Update("shipment"), InsertHistory, Update("detail")>>
    BY <1>4 DEF Program, CourierProgram, Webhooks
  <2>2. j \in {1, 2, 3}
    BY <2>1
  <2> QED  BY <1>1, <2>1, <2>2 DEF Rank
<1>5. CASE k = "webhookPending"
  <2>1. Program(k) = <<Update("payment")>>
    BY <1>5 DEF Program, WebhookProgram, Webhooks
  <2>2. j = 1
    BY <2>1
  <2> QED  BY <1>1, <2>1, <2>2 DEF Rank
<1> QED  BY <1>2, <1>3, <1>4, <1>5 DEF Kinds, Webhooks

---------------------------------------------------------------------------
(* Circles of waits.                                                       *)

\* The statement a transaction is at.
LEMMA AtStatement ==
  ASSUME TypeOK, PcInProgram, NEW t \in Transactions
  PROVE  /\ kind[t] \in Kinds
         /\ pc[t] \in 1 .. Len(Program(kind[t]))
         /\ Program(kind[t]) \in Seq(Statements)
         /\ Statement(t) = Program(kind[t])[pc[t]]
         /\ Statement(t) \in Statements
         /\ Owner(t) = [tx |-> t, via |-> "tx"]
<1>1. kind[t] \in Kinds
  BY DEF TypeOK
<1>2. pc[t] \in 1 .. Len(Program(kind[t]))
  BY DEF PcInProgram
<1>3. Program(kind[t]) \in Seq(Statements)
  BY <1>1, ProgramShape
<1>4. Program(kind[t])[pc[t]] \in Statements
  BY <1>2, <1>3
<1> QED  BY <1>1, <1>2, <1>3, <1>4 DEF Statement, Owner, Statements

\* A transaction waits for another that holds a lock of its row, or that asked
\* before it.
LEMMA WaitsForOther ==
  ASSUME TypeOK, PcInProgram, HeldSound, NEW t \in Transactions, NEW u \in Transactions,
         WaitsFor(t, u)
  PROVE  /\ u # t /\ phase[t] = "waiting" /\ ~Covered(t)
         /\ \/ \E i \in 1 .. pc[u] - 1 : Program(kind[u])[i].row = Statement(t).row
            \/ queueing = "fifo" /\ u \in before[t]
<1> DEFINE o == [tx |-> u, via |-> "tx"]
<1>1. phase[t] = "waiting" /\ o \in Blockers(t)
  BY DEF WaitsFor
<1>2. PICK l \in held[Statement(t).row] \cup Ahead(t) :
        l.by = o /\ l.by # Owner(t) /\ ~Covered(t)
  BY <1>1 DEF Blockers
<1>3. u # t
  BY <1>2, AtStatement
<1>4. CASE l \in held[Statement(t).row]
  <2>1. Statement(t).row \in Rows
    BY AtStatement DEF Statements
  <2>2. PICK v \in Transactions : \E i \in 1 .. pc[v] - 1 :
          Program(kind[v])[i].row = Statement(t).row /\ l = Lock(v, i)
    BY <1>4, <2>1 DEF HeldSound
  <2>3. v = u
    BY <1>2, <2>2 DEF Lock
  <2> QED  BY <1>1, <1>2, <1>3, <2>2, <2>3
<1>5. CASE l \in Ahead(t)
  <2>1. queueing = "fifo"
    BY <1>5 DEF Ahead
  <2>2. PICK v \in before[t] : l = Wanted(v)
    BY <1>5, <2>1 DEF Ahead
  <2>3. v \in Transactions
    BY <2>2 DEF TypeOK
  <2>4. Owner(v) = o
    BY <1>2, <2>2 DEF Wanted
  <2>5. v = u
    BY <2>3, <2>4, AtStatement
  <2> QED  BY <1>1, <1>2, <1>3, <2>1, <2>2, <2>5
<1> QED  BY <1>4, <1>5

\* The strongest lock of its row is all a transaction needs.
LEMMA UpdatedRowIsCovered ==
  ASSUME IInv, NEW t \in Transactions, Active(t), NEW i \in 1 .. pc[t] - 1,
         Program(kind[t])[i].row = Statement(t).row, Program(kind[t])[i].mode = "X"
  PROVE  Covered(t)
<1>1. Lock(t, i) \in held[Statement(t).row]
  BY DEF IInv, HeldComplete
<1>2. Lock(t, i).by = Owner(t) /\ Lock(t, i).mode = "X"
  BY AtStatement DEF Lock, IInv
<1> QED  BY <1>1, <1>2 DEF Covered

\* Two transactions never hold conflicting locks of a row.
LEMMA HoldersAgree ==
  ASSUME IInv, NEW t \in Transactions, NEW u \in Transactions, t # u, Active(t), Active(u),
         NEW i \in 1 .. pc[t] - 1, NEW j \in 1 .. pc[u] - 1,
         Program(kind[t])[i].row = Program(kind[u])[j].row
  PROVE  Program(kind[t])[i].mode # "X"
<1> DEFINE row == Program(kind[t])[i].row
<1>1. row \in Rows
  <2>1. i \in 1 .. Len(Program(kind[t]))
    BY AtStatement DEF IInv
  <2>2. Program(kind[t]) \in Seq(Statements)
    BY AtStatement DEF IInv
  <2>3. Program(kind[t])[i] \in Statements
    BY <2>1, <2>2
  <2> QED  BY <2>3 DEF Statements
<1>2. Lock(t, i) \in held[row] /\ Lock(u, j) \in held[row]
  BY DEF IInv, HeldComplete
<1>3. Lock(t, i).by # Lock(u, j).by
  BY DEF Lock
<1>4. ~Conflict(Lock(t, i).mode, Lock(u, j).mode)
  BY <1>1, <1>2, <1>3 DEF IInv, Exclusive
<1> QED  BY <1>4 DEF Conflict, Lock

\* No circle of waits is without a scan.  Of its transactions that wait for the
\* last row any of them waits for, take one with the shortest queue: it waits
\* for none that came before it, so for one that holds its row; but that one
\* waits for the same row, and needs no more than it holds.
LEMMA OrderedDoNotDeadlock ==
  ASSUME IInv, NEW C \in SUBSET Transactions, Locked(C),
         \A t \in C : kind[t] # "scanShipment"
  PROVE  FALSE
<1> DEFINE R(t) == Rank(Statement(t).row)
<1>1. \A t \in C : R(t) \in 1 .. 3
  BY DEF Rank
<1>2. PICK s \in C : \A t \in C : R(t) <= R(s)
  <2>1. C # {}
    BY DEF Locked
  <2>2. CASE \E t \in C : R(t) = 3
    BY <1>1, <2>2
  <2>3. CASE (\A t \in C : R(t) # 3) /\ \E t \in C : R(t) = 2
    BY <1>1, <2>3
  <2>4. CASE \A t \in C : R(t) = 1
    BY <2>1, <2>4
  <2> QED  BY <1>1, <2>2, <2>3, <2>4
<1> DEFINE D == {t \in C : R(t) = R(s)}
           Q == {before[t] : t \in D}
<1>3. PICK q \in Q : \A r \in Q : ~(r \subseteq q /\ r # q)
  <2>1. Q # {}
    OBVIOUS
  <2>2. Q \subseteq FiniteSubsetsOf(Transactions)
    <3>1. \A t \in D : before[t] \in SUBSET Transactions
      BY DEF IInv, TypeOK
    <3>2. FiniteSubsetsOf(Transactions) = SUBSET Transactions
      BY FS_FiniteSubsetsOfFinite, TransactionsAssumption
    <3> QED  BY <3>1, <3>2
  <2> DEFINE Less == StrictSubsetOrdering(Transactions)
  <2>3. IsWellFoundedOn(Less, FiniteSubsetsOf(Transactions))
    BY FS_StrictSubsetOrderingWellFounded
  <2> HIDE DEF Q, Less
  <2>4. PICK q \in Q : \A r \in Q : <<r, q>> \notin Less
    BY <2>1, <2>2, <2>3, WFMin
  <2>5. \A r \in Q : r \in SUBSET Transactions
    BY <2>2 DEF FiniteSubsetsOf
  <2>6. \A r \in Q : ~(r \subseteq q /\ r # q)
    BY <2>4, <2>5 DEF Less, StrictSubsetOrdering
  <2> QED  BY <2>6
<1>4. PICK t \in D : q = before[t]
  BY <1>3
<1>5. PICK u \in C : WaitsFor(t, u)
  BY DEF Locked
<1>6. t \in Transactions /\ u \in Transactions /\ R(u) <= R(t)
  BY <1>2
<1>7. u # t /\ (\/ \E i \in 1 .. pc[u] - 1 : Program(kind[u])[i].row = Statement(t).row
                \/ u \in before[t])
  BY <1>5, <1>6, WaitsForOther DEF IInv
<1>8. CASE u \in before[t]
  <2>1. /\ Statement(u).row = Statement(t).row
        /\ before[u] \subseteq before[t]
        /\ u \notin before[u]
    BY <1>6, <1>8 DEF IInv, Queues
  <2>2. before[u] \in Q
    BY <2>1
  <2> QED  BY <1>3, <1>4, <1>8, <2>1, <2>2
<1>9. ASSUME NEW i \in 1 .. pc[u] - 1, Program(kind[u])[i].row = Statement(t).row
      PROVE  FALSE
  <2>1. PICK v \in C : WaitsFor(u, v)
    BY DEF Locked
  <2>2. phase[u] = "waiting" /\ ~Covered(u)
    BY <1>6, <2>1, WaitsForOther DEF IInv
  <2>3. /\ kind[u] \in Kinds /\ kind[u] # "scanShipment"
        /\ pc[u] \in 1 .. Len(Program(kind[u]))
        /\ Statement(u) = Program(kind[u])[pc[u]]
        /\ i \in 1 .. pc[u]
    BY <1>6, AtStatement DEF IInv
  <2>4. Rank(Program(kind[u])[i].row) <= R(u)
    BY <2>3, OrderedShape
  <2>5. Statement(u).row \in Rows /\ Statement(t).row \in Rows
    BY <1>6, AtStatement DEF IInv, Statements
  <2>6. Statement(u).row = Statement(t).row
    BY <1>6, <1>9, <2>4, <2>5 DEF Rank, Rows
  <2>7. Program(kind[u])[i].mode = "X"
    BY <1>9, <2>3, <2>6, OrderedShape
  <2>8. Covered(u)
    BY <1>6, <1>9, <2>2, <2>6, <2>7, UpdatedRowIsCovered DEF Active
  <2> QED  BY <2>2, <2>8
<1> QED  BY <1>7, <1>8, <1>9

\* Where a request waits only for locks that are held, one scan is not enough
\* for a circle: whoever waits for it waits for the lock of its log, and the
\* scan then waits for nobody, for nobody else has locked the shipment.
LEMMA LoneScanDoesNotDeadlock ==
  ASSUME IInv, queueing = "barging", NEW C \in SUBSET Transactions, Locked(C),
         NEW s \in C, kind[s] = "scanShipment",
         \A t \in C \ {s} : kind[t] # "scanShipment"
  PROVE  FALSE
<1>1. \A t, u \in C : WaitsFor(t, u) =>
        /\ u # t /\ phase[t] = "waiting" /\ ~Covered(t)
        /\ \E i \in 1 .. pc[u] - 1 : Program(kind[u])[i].row = Statement(t).row
  BY WaitsForOther DEF IInv
<1>2. \A t \in C : \E u \in C : WaitsFor(t, u)
  BY DEF Locked
<1>3. \A t \in C : phase[t] = "waiting" /\ ~Covered(t)
  BY <1>1, <1>2
<1>4. PICK t \in C \ {s} : WaitsFor(t, s)
  <2>1. SUFFICES ASSUME \A t \in C \ {s} : ~WaitsFor(t, s)
                 PROVE  FALSE
    OBVIOUS
  <2>2. C \ {s} # {}
    BY <1>1, <1>2
  <2>3. \A t \in C \ {s} : \E u \in C \ {s} : WaitsFor(t, u)
    BY <1>2, <2>1
  <2>4. Locked(C \ {s}) /\ C \ {s} \in SUBSET Transactions
    BY <2>2, <2>3 DEF Locked
  <2> QED  BY <2>4, OrderedDoNotDeadlock
<1>5. /\ Len(Program(kind[s])) = 3 /\ pc[s] \in 1 .. 3
      /\ Statement(s) = Program(kind[s])[pc[s]]
      /\ Program(kind[s])[2].mode = "X"
      /\ \A i \in 1 .. 3 : Program(kind[s])[i].row = "shipment"
  BY AtStatement, ScanShape DEF IInv
<1>6. pc[s] = 2
  <2>1. pc[s] # 1
    BY <1>1, <1>4
  <2>2. ASSUME pc[s] = 3
        PROVE  FALSE
    BY <1>3, <1>5, <2>2, UpdatedRowIsCovered DEF Active
  <2> QED  BY <1>5, <2>1, <2>2
<1>7. PICK u \in C : WaitsFor(s, u)
  BY <1>2
<1>8. u # s /\ u \in Transactions /\ s \in Transactions /\ Active(u) /\ Active(s)
  BY <1>1, <1>3, <1>7 DEF Active
<1>9. PICK j \in 1 .. pc[u] - 1 : Program(kind[u])[j].row = "shipment"
  BY <1>1, <1>5, <1>7
<1>10. PICK i \in 1 .. pc[u] - 1 :
         Program(kind[u])[i].row = "shipment" /\ Program(kind[u])[i].mode = "X"
  <2>1. /\ kind[u] \in Kinds /\ kind[u] # "scanShipment"
        /\ pc[u] \in 1 .. Len(Program(kind[u])) /\ Program(kind[u]) \in Seq(Statements)
    BY <1>8, AtStatement DEF IInv
  <2>2. j \in 1 .. Len(Program(kind[u]))
    BY <1>9, <2>1
  <2>3. \E i \in 1 .. j : /\ Program(kind[u])[i].row = Program(kind[u])[j].row
                          /\ Program(kind[u])[i].mode = "X"
    <3>1. kind[u] \in Kinds /\ kind[u] # "scanShipment"
      BY <2>1
    <3> QED  BY <2>2, <3>1, OrderedShape
  <2>4. 1 .. j \subseteq 1 .. pc[u] - 1
    BY <2>1, <2>2
  <2> QED  BY <1>9, <2>3, <2>4
<1>11. 1 \in 1 .. pc[s] - 1 /\ Program(kind[s])[1].row = "shipment"
  BY <1>5, <1>6
<1> QED  BY <1>8, <1>10, <1>11, HoldersAgree

\* So whatever the locks and the queues are in a state of the invariant, every
\* circle of waits has its scans.
LEMMA CyclesNeedScans ==
  ASSUME IInv
  PROVE  DeadlockNeedsScan
<1> SUFFICES ASSUME NEW C \in Cycles
             PROVE  Cardinality({t \in C : kind[t] = "scanShipment"})
                      >= IF queueing = "fifo" THEN 1 ELSE 2
  BY DEF DeadlockNeedsScan
<1> DEFINE S == {t \in C : kind[t] = "scanShipment"}
<1>1. C \in SUBSET Transactions /\ Locked(C)
  BY DEF Cycles
<1>2. IsFiniteSet(S)
  BY <1>1, TransactionsAssumption, FS_Subset
<1>3. Cardinality(S) \in Nat
  BY <1>2, FS_CardinalityType
<1>4. S # {}
  BY <1>1, OrderedDoNotDeadlock
<1>5. Cardinality(S) # 0
  BY <1>2, <1>4, FS_EmptySet
<1>6. ASSUME queueing # "fifo", Cardinality(S) = 1
      PROVE  FALSE
  <2>1. PICK s : S = {s}
    BY <1>2, <1>6, FS_Singleton
  <2>2. s \in C /\ kind[s] = "scanShipment" /\ \A t \in C \ {s} : kind[t] # "scanShipment"
    BY <2>1
  <2>3. queueing = "barging"
    BY <1>6 DEF IInv, TypeOK
  <2> QED  BY <1>1, <2>2, <2>3, LoneScanDoesNotDeadlock
<1> HIDE DEF S
<1>7. Cardinality(S) >= IF queueing = "fifo" THEN 1 ELSE 2
  BY <1>3, <1>5, <1>6
<1> QED  BY <1>7 DEF S

---------------------------------------------------------------------------
(* The steps.                                                              *)

LEMMA InitIInv == Init => IInv
<1> SUFFICES ASSUME Init
             PROVE  IInv
  OBVIOUS
<1> USE DEF Init
<1>1. TypeOK /\ \A t \in Transactions : pc[t] = 1 /\ before[t] = {}
  <2>1. kind \in [Transactions -> Kinds] /\ queueing \in {"fifo", "barging"}
    OBVIOUS
  <2>2. /\ pc \in [Transactions -> 1 .. 3] /\ phase \in [Transactions -> {"ready"}]
        /\ before \in [Transactions -> {{}}]
    OBVIOUS
  <2>3. stamped \in Seq(Transactions)
    OBVIOUS
  <2>4. held \in [Rows -> {{}}]
    OBVIOUS
  <2> QED  BY <2>1, <2>2, <2>3, <2>4 DEF TypeOK
<1>2. PcInProgram
  <2>1. \A t \in Transactions : Len(Program(kind[t])) \in {1, 2, 3}
    BY <1>1, ProgramShape DEF TypeOK
  <2>2. \A n \in {1, 2, 3} : 1 \in 1 .. n
    OBVIOUS
  <2> QED  BY <1>1, <2>1, <2>2 DEF PcInProgram
<1>3. HeldSound /\ Exclusive
  BY DEF HeldSound, Exclusive
<1>4. HeldComplete
  BY <1>1 DEF HeldComplete
<1>5. Queues
  BY <1>1 DEF Queues
<1>6. Stamps
  <2>1. ASSUME NEW t \in Transactions
        PROVE  ~HasStamped(t)
    BY <1>1, ProgramShape DEF HasStamped, TypeOK
  <2> QED  BY <2>1 DEF Stamps
<1>7. HistoryInOrder
  BY DEF HistoryInOrder
<1> QED  BY <1>1, <1>2, <1>3, <1>4, <1>5, <1>6, <1>7 DEF IInv

\* What the lock invariants are about, without the types and the history.
LocksInOrder == /\ PcInProgram /\ HeldSound /\ HeldComplete /\ Exclusive
                /\ Queues /\ Stamps

\* A transaction that is not at its last statement has a next one.
LEMMA NextStatement ==
  ASSUME TypeOK, PcInProgram, NEW t \in Transactions, pc[t] # Len(Program(kind[t]))
  PROVE  pc[t] + 1 \in 1 .. Len(Program(kind[t])) /\ pc[t] + 1 \in 1 .. 3
<1>1. ASSUME NEW n \in {1, 2, 3}, NEW c \in 1 .. n, c # n
      PROVE  c + 1 \in 1 .. n /\ c + 1 \in 1 .. 3
  BY <1>1
<1>2. pc[t] \in 1 .. Len(Program(kind[t])) /\ kind[t] \in Kinds
  BY AtStatement
<1>3. Len(Program(kind[t])) \in {1, 2, 3}
  BY <1>2, ProgramShape
<1> QED  BY <1>1, <1>2, <1>3

LEMMA TypingStep ==
  ASSUME TypeOK, PcInProgram, [Next]_vars
  PROVE  TypeOK'
<1> USE DEF TypeOK
<1>1. ASSUME NEW t \in Transactions, Issue(t)
      PROVE  TypeOK'
  <2>1. stamped' \in Seq(Transactions)
    BY <1>1 DEF Issue
  <2>2. before' \in [Transactions -> SUBSET Transactions]
    BY <1>1 DEF Issue, Waiting
  <2> QED  BY <1>1, <2>1, <2>2 DEF Issue
<1>2. ASSUME NEW t \in Transactions, LeaveQueue(t)
      PROVE  before' \in [Transactions -> SUBSET Transactions]
  BY <1>2 DEF LeaveQueue
<1>3. ASSUME NEW t \in Transactions, Release(t)
      PROVE  /\ held' \in [Rows -> SUBSET [by : [tx : Transactions, via : {"tx", "this"}],
                                            mode : Modes]]
             /\ before' \in [Transactions -> SUBSET Transactions]
  BY <1>2, <1>3 DEF Release
<1>4. ASSUME NEW t \in Transactions, Execute(t)
      PROVE  TypeOK'
  <2>1. CASE ~Matches(t)
    BY <1>3, <1>4, <2>1 DEF Execute
  <2>2. CASE Matches(t) /\ pc[t] = Len(Program(kind[t]))
    BY <1>3, <1>4, <2>2 DEF Execute, Commit, PaidAfter
  <2>3. CASE Matches(t) /\ pc[t] # Len(Program(kind[t]))
    <3>1. Wanted(t) \in [by : [tx : Transactions, via : {"tx", "this"}], mode : Modes]
      BY AtStatement DEF Wanted, Statements
    <3>2. Statement(t).row \in Rows
      BY AtStatement DEF Statements
    <3>3. Grant(t) /\ pc' = [pc EXCEPT ![t] = @ + 1]
          /\ phase' = [phase EXCEPT ![t] = "ready"]
          /\ UNCHANGED <<kind, queueing, status, paid, stamped>>
      BY <1>4, <2>3 DEF Execute
    <3>4. held' \in [Rows -> SUBSET [by : [tx : Transactions, via : {"tx", "this"}],
                                      mode : Modes]]
      BY <3>1, <3>2, <3>3 DEF Grant
    <3>5. pc[t] + 1 \in 1 .. 3
      BY <2>3, NextStatement
    <3> QED  BY <1>2, <3>3, <3>4, <3>5 DEF Grant
  <2> QED  BY <2>1, <2>2, <2>3
<1>5. ASSUME NEW t \in Transactions, RollBack(t)
      PROVE  TypeOK'
  BY <1>3, <1>5 DEF RollBack
<1> QED  BY <1>1, <1>4, <1>5 DEF Next, vars

\* The queues stay chains when a transaction leaves its own.
LEMMA LeaveStep ==
  ASSUME IInv, NEW t \in Transactions, LeaveQueue(t),
         \A u \in Transactions : u # t => phase'[u] = phase[u] /\ Statement(u)' = Statement(u)
  PROVE  Queues'
<1>1. \A u \in Transactions : before'[u] = IF u = t THEN {} ELSE before[u] \ {t}
  BY DEF LeaveQueue
<1> SUFFICES ASSUME NEW v \in Transactions, NEW u \in before'[v]
             PROVE  /\ phase'[v] = "waiting" /\ phase'[u] = "waiting" /\ u # v
                    /\ Statement(u).row' = Statement(v).row'
                    /\ before'[u] \subseteq before'[v]
  BY DEF Queues
<1>2. /\ v # t /\ u # t /\ u \in before[v] /\ u \in Transactions
      /\ phase'[v] = phase[v] /\ phase'[u] = phase[u]
      /\ Statement(v)' = Statement(v) /\ Statement(u)' = Statement(u)
  BY <1>1 DEF IInv, TypeOK
<1>3. /\ phase[v] = "waiting" /\ phase[u] = "waiting" /\ u # v
      /\ Statement(u).row = Statement(v).row
      /\ before[u] \subseteq before[v]
  BY <1>2 DEF IInv, Queues
<1> QED  BY <1>1, <1>2, <1>3

\* A transaction that ends takes its locks with it and leaves the queues.
LEMMA ReleaseStep ==
  ASSUME IInv, TypeOK', NEW t \in Transactions,
         NEW p \in {"committed", "skipped", "rolledBack"},
         phase' = [phase EXCEPT ![t] = p], Release(t),
         UNCHANGED <<kind, pc, queueing, stamped>>
  PROVE  LocksInOrder'
<1>1. /\ \A u \in Transactions : u # t => phase'[u] = phase[u]
      /\ phase'[t] = p /\ p \notin {"ready", "waiting"}
  BY DEF IInv, TypeOK
<1>2. /\ \A row \in Rows : held'[row] = {l \in held[row] : l.by.tx # t}
      /\ \A u \in Transactions : before'[u] = IF u = t THEN {} ELSE before[u] \ {t}
  BY DEF Release, LeaveQueue
<1>3. PcInProgram'
  BY DEF IInv, PcInProgram
<1>4. HeldSound'
  <2> SUFFICES ASSUME NEW row \in Rows, NEW l \in held'[row]
               PROVE  \E u \in Transactions : \E i \in 1 .. pc[u] - 1 :
                        /\ Active(u)' /\ Program(kind[u])[i].row = row
                        /\ l = Lock(u, i)
    BY DEF HeldSound, Lock
  <2>1. l \in held[row] /\ l.by.tx # t
    BY <1>2
  <2>2. PICK u \in Transactions : \E i \in 1 .. pc[u] - 1 :
          Active(u) /\ Program(kind[u])[i].row = row /\ l = Lock(u, i)
    BY <2>1 DEF IInv, HeldSound
  <2>3. u # t
    BY <2>1, <2>2 DEF Lock
  <2> QED  BY <1>1, <2>2, <2>3 DEF Active
<1>5. HeldComplete'
  <2> SUFFICES ASSUME NEW u \in Transactions, Active(u)', NEW i \in 1 .. pc[u] - 1
               PROVE  Lock(u, i) \in held'[Program(kind[u])[i].row]
    BY DEF HeldComplete, Lock
  <2>1. u # t /\ Active(u)
    BY <1>1 DEF Active
  <2>2. Lock(u, i) \in held[Program(kind[u])[i].row]
    BY <2>1 DEF IInv, HeldComplete
  <2>3. Program(kind[u])[i] \in Statements
    <3>1. i \in 1 .. Len(Program(kind[u])) /\ Program(kind[u]) \in Seq(Statements)
      BY AtStatement DEF IInv
    <3> QED  BY <3>1
  <2> QED  BY <1>2, <2>1, <2>2, <2>3 DEF Lock, Statements
<1>6. Exclusive'
  BY <1>2 DEF IInv, Exclusive
<1>7. Queues'
  <2>1. \A u \in Transactions : Statement(u)' = Statement(u)
    BY DEF Statement
  <2> QED  BY <1>1, <2>1, LeaveStep DEF Release
<1>8. Stamps'
  BY <1>1 DEF IInv, Stamps, Active, HasStamped, TypeOK
<1> QED  BY <1>3, <1>4, <1>5, <1>6, <1>7, <1>8 DEF LocksInOrder

\* A statement that nobody blocks gets its lock.
LEMMA GrantStep ==
  ASSUME IInv, NEW t \in Transactions,
         phase[t] = "waiting", Blockers(t) = {}, pc[t] # Len(Program(kind[t])), Grant(t),
         pc' = [pc EXCEPT ![t] = @ + 1], phase' = [phase EXCEPT ![t] = "ready"],
         UNCHANGED <<kind, queueing, stamped>>
  PROVE  LocksInOrder'
<1> DEFINE row == Statement(t).row
<1>1. /\ pc[t] \in 1 .. Len(Program(kind[t])) /\ pc[t] \in Nat
      /\ Statement(t) = Program(kind[t])[pc[t]]
      /\ Owner(t) = [tx |-> t, via |-> "tx"]
      /\ row \in Rows /\ Statement(t).mode \in Modes
  BY AtStatement DEF IInv, Statements
<1>2. /\ \A u \in Transactions : u # t => phase'[u] = phase[u] /\ pc'[u] = pc[u]
      /\ phase'[t] = "ready" /\ pc'[t] = pc[t] + 1
  BY DEF IInv, TypeOK
<1>3. \A r \in Rows : held'[r] = IF r = row THEN held[r] \cup {Wanted(t)} ELSE held[r]
  BY <1>1 DEF Grant, IInv, TypeOK
<1>4. Wanted(t) = Lock(t, pc[t])
  BY <1>1 DEF Wanted, Lock
<1>5. PcInProgram'
  BY <1>2, NextStatement DEF IInv, PcInProgram
<1>6. HeldSound'
  <2> SUFFICES ASSUME NEW r \in Rows, NEW l \in held'[r]
               PROVE  \E u \in Transactions : \E i \in 1 .. pc'[u] - 1 :
                        /\ Active(u)' /\ Program(kind[u])[i].row = r
                        /\ l = Lock(u, i)
    BY DEF HeldSound, Lock
  <2>1. CASE l \in held[r]
    <3>1. PICK u \in Transactions : \E i \in 1 .. pc[u] - 1 :
            Active(u) /\ Program(kind[u])[i].row = r /\ l = Lock(u, i)
      BY <2>1 DEF IInv, HeldSound
    <3>2. Active(u)'
      BY <1>2, <3>1 DEF Active
    <3>3. pc[u] \in Nat
      BY AtStatement DEF IInv
    <3>4. 1 .. pc[u] - 1 \subseteq 1 .. pc'[u] - 1
      BY <1>2, <3>3
    <3> QED  BY <3>1, <3>2, <3>4
  <2>2. CASE l \notin held[r]
    <3>1. r = row /\ l = Lock(t, pc[t])
      BY <1>3, <1>4, <2>2
    <3>2. pc[t] \in 1 .. pc'[t] - 1
      BY <1>1, <1>2
    <3>3. Active(t)'
      BY <1>2 DEF Active
    <3> QED  BY <1>1, <3>1, <3>2, <3>3
  <2> QED  BY <2>1, <2>2
<1>7. HeldComplete'
  <2> SUFFICES ASSUME NEW u \in Transactions, Active(u)', NEW i \in 1 .. pc'[u] - 1
               PROVE  Lock(u, i) \in held'[Program(kind[u])[i].row]
    BY DEF HeldComplete, Lock
  <2>1. CASE u = t /\ i = pc[t]
    BY <1>1, <1>3, <1>4, <2>1
  <2>2. CASE ~(u = t /\ i = pc[t])
    <3>1. Active(u)
      BY <1>2 DEF Active
    <3>2. pc[u] \in Nat /\ pc[u] \in 1 .. Len(Program(kind[u]))
          /\ Program(kind[u]) \in Seq(Statements)
      BY AtStatement DEF IInv
    <3>3. i \in 1 .. pc[u] - 1
      BY <1>2, <2>2, <3>2
    <3>4. Lock(u, i) \in held[Program(kind[u])[i].row]
      BY <3>1, <3>3 DEF IInv, HeldComplete
    <3>5. i \in 1 .. Len(Program(kind[u]))
      BY <3>2, <3>3
    <3>6. Program(kind[u])[i] \in Statements
      BY <3>2, <3>5
    <3>7. Program(kind[u])[i].row \in Rows
      BY <3>6 DEF Statements
    <3> QED  BY <1>3, <3>4, <3>7
  <2> QED  BY <2>1, <2>2
<1>8. Exclusive'
  <2>1. ASSUME NEW m \in held[row], m.by # Owner(t)
        PROVE  ~Conflict(m.mode, Wanted(t).mode) /\ ~Conflict(Wanted(t).mode, m.mode)
    <3>1. CASE ~Covered(t)
      <4>1. ~Conflict(m.mode, Statement(t).mode)
        BY <2>1, <3>1 DEF Blockers
      <4> QED  BY <4>1 DEF Conflict, Wanted
    <3>2. CASE Covered(t)
      <4>1. PICK l \in held[row] : l.by = Owner(t) /\ (l.mode = "X" \/ Statement(t).mode = "S")
        BY <3>2 DEF Covered
      <4>2. ~Conflict(l.mode, m.mode)
        BY <1>1, <2>1, <4>1 DEF IInv, Exclusive
      <4> QED  BY <4>1, <4>2 DEF Conflict, Wanted
    <3> QED  BY <3>1, <3>2
  <2>2. Wanted(t).by = Owner(t)
    BY DEF Wanted
  <2> SUFFICES ASSUME NEW r \in Rows, NEW l \in held'[r], NEW m \in held'[r], l.by # m.by
               PROVE  ~Conflict(l.mode, m.mode)
    BY DEF Exclusive, Conflict
  <2>3. CASE l \in held[r] /\ m \in held[r]
    BY <2>3 DEF IInv, Exclusive
  <2>4. CASE l \notin held[r]
    <3>1. r = row /\ l = Wanted(t) /\ m \in held[r]
      BY <1>3, <2>2, <2>4
    <3> QED  BY <2>1, <2>2, <3>1
  <2>5. CASE m \notin held[r]
    <3>1. r = row /\ m = Wanted(t) /\ l \in held[r]
      BY <1>3, <2>2, <2>5
    <3> QED  BY <2>1, <2>2, <3>1
  <2> QED  BY <2>3, <2>4, <2>5
<1>9. Queues'
  <2>1. \A u \in Transactions : u # t => Statement(u)' = Statement(u)
    BY <1>2 DEF Statement
  <2> QED  BY <1>2, <2>1, LeaveStep DEF Grant
<1>10. Stamps'
  <2>1. ASSUME NEW u \in Transactions
        PROVE  (Active(u)' <=> Active(u)) /\ (HasStamped(u)' <=> HasStamped(u))
    <3>1. StampAt(kind[u]) \in {2, 3} /\ pc[u] \in Nat
      BY AtStatement DEF IInv, StampAt
    <3> QED  BY <1>2, <3>1 DEF Active, HasStamped
  <2> QED  BY <2>1 DEF IInv, Stamps, TypeOK
<1> QED  BY <1>5, <1>6, <1>7, <1>8, <1>9, <1>10 DEF LocksInOrder

\* A statement that is sent joins the queue of its row.  If it inserts the
\* history row, no other running transaction has sent its own: both would hold
\* the shipment for update.
LEMMA IssueStep ==
  ASSUME IInv, NEW t \in Transactions, Issue(t)
  PROVE  LocksInOrder'
<1>1. /\ \A u \in Transactions : u # t => phase'[u] = phase[u]
      /\ phase'[t] = "waiting" /\ phase[t] = "ready"
      /\ UNCHANGED <<kind, pc, held>>
  BY DEF IInv, TypeOK, Issue
<1>2. \A u \in Transactions : Active(u)' <=> Active(u)
  BY <1>1 DEF Active
<1>3. PcInProgram'
  BY <1>1 DEF IInv, PcInProgram
<1>4. HeldSound'
  BY <1>1, <1>2 DEF IInv, HeldSound, Lock
<1>5. HeldComplete'
  BY <1>1, <1>2 DEF IInv, HeldComplete, Lock
<1>6. Exclusive'
  BY <1>1 DEF IInv, Exclusive
<1>7. Queues'
  <2>1. \A u \in Transactions : Statement(u)' = Statement(u)
    BY <1>1 DEF Statement
  <2>2. \A u \in Transactions :
          before'[u] = IF u = t THEN Waiting(Statement(t).row) ELSE before[u]
    BY DEF Issue, IInv, TypeOK
  <2>3. \A u \in Transactions : before[u] \subseteq Transactions
    BY DEF IInv, TypeOK
  <2> SUFFICES ASSUME NEW v \in Transactions, NEW u \in before'[v]
               PROVE  /\ phase'[v] = "waiting" /\ phase'[u] = "waiting" /\ u # v
                      /\ Statement(u).row' = Statement(v).row'
                      /\ before'[u] \subseteq before'[v]
    BY DEF Queues
  <2>4. CASE v = t
    <3>1. /\ u \in Transactions /\ phase[u] = "waiting" /\ u # t
          /\ Statement(u).row = Statement(t).row
      BY <1>1, <2>2, <2>4 DEF Waiting
    <3>2. before[u] \subseteq Waiting(Statement(t).row)
      BY <2>3, <3>1 DEF Waiting, IInv, Queues
    <3> QED  BY <1>1, <2>1, <2>2, <2>4, <3>1, <3>2
  <2>5. CASE v # t
    <3>1. /\ u \in before[v] /\ u \in Transactions
          /\ phase[v] = "waiting" /\ phase[u] = "waiting" /\ u # v
          /\ Statement(u).row = Statement(v).row /\ before[u] \subseteq before[v]
      BY <2>2, <2>3, <2>5 DEF IInv, Queues
    <3> QED  BY <1>1, <2>1, <2>2, <2>5, <3>1
  <2> QED  BY <2>4, <2>5
<1>8. Stamps'
  <2>1. /\ kind[t] \in Kinds /\ pc[t] \in 1 .. Len(Program(kind[t]))
        /\ Statement(t).stamps <=> pc[t] = StampAt(kind[t])
    BY AtStatement, ProgramShape DEF IInv
  <2>2. \A u \in Transactions : u # t => (HasStamped(u)' <=> HasStamped(u))
    BY <1>1 DEF HasStamped
  <2>3. stamped \in Seq(Transactions)
    BY DEF IInv, TypeOK
  <2>4. CASE ~Statement(t).stamps
    <3>1. HasStamped(t)' <=> HasStamped(t)
      BY <1>1, <2>1, <2>4 DEF HasStamped
    <3>2. stamped' = stamped
      BY <2>4 DEF Issue
    <3>3. \A i \in 1 .. Len(stamped) : stamped[i] \in Transactions
      BY <2>3
    <3> QED  BY <1>2, <2>2, <3>1, <3>2, <3>3 DEF IInv, Stamps
  <2>5. CASE Statement(t).stamps
    <3>1. stamped' = Append(stamped, t) /\ Len(stamped') = Len(stamped) + 1
          /\ stamped'[Len(stamped) + 1] = t /\ Len(stamped) \in Nat
          /\ \A i \in 1 .. Len(stamped) : stamped'[i] = stamped[i] /\ stamped[i] \in Transactions
      BY <2>3, <2>5 DEF Issue
    <3>2. HasStamped(t)'
      BY <1>1, <2>1, <2>5 DEF HasStamped
    <3>3. ASSUME NEW i \in 1 .. Len(stamped), Active(stamped[i])
          PROVE  FALSE
      <4> DEFINE u == stamped[i]
      <4>1. u \in Transactions /\ HasStamped(u)
        BY <3>1, <3>3 DEF IInv, Stamps
      <4>2. u # t
        BY <1>1, <2>1, <2>5, <4>1 DEF HasStamped
      <4>3. /\ StampAt(kind[t]) - 1 \in 1 .. pc[t] - 1
            /\ Program(kind[t])[StampAt(kind[t]) - 1] = Update("shipment")
        BY <2>1, <2>5, ProgramShape
      <4>4. kind[u] \in Kinds /\ pc[u] \in 1 .. Len(Program(kind[u]))
        BY <4>1, AtStatement DEF IInv
      <4>5. /\ StampAt(kind[u]) - 1 \in 1 .. pc[u] - 1
            /\ Program(kind[u])[StampAt(kind[u]) - 1] = Update("shipment")
        BY <4>1, <4>4, ProgramShape DEF HasStamped
      <4>6. Update("shipment").mode = "X"
        BY DEF Update
      <4> QED  BY <1>1, <3>3, <4>1, <4>2, <4>3, <4>5, <4>6, HoldersAgree DEF Active
    <3>4. ASSUME NEW u \in Transactions, Active(u)', HasStamped(u)'
          PROVE  \E i \in 1 .. Len(stamped') : stamped'[i] = u
      <4>1. CASE u = t
        BY <3>1, <4>1
      <4>2. CASE u # t
        <5>1. PICK i \in 1 .. Len(stamped) : stamped[i] = u
          BY <1>2, <2>2, <3>4, <4>2 DEF IInv, Stamps
        <5> QED  BY <3>1, <5>1
      <4> QED  BY <4>1, <4>2
    <3>5. ASSUME NEW i \in 1 .. Len(stamped'), NEW u, u = stamped'[i], Active(u)'
          PROVE  i = Len(stamped') /\ HasStamped(u)'
      <4>1. CASE i \in 1 .. Len(stamped)
        BY <1>2, <3>1, <3>3, <3>5, <4>1
      <4>2. CASE i = Len(stamped) + 1
        BY <3>1, <3>2, <3>5, <4>2
      <4> QED  BY <3>1, <4>1, <4>2
    <3> QED  BY <3>4, <3>5 DEF Stamps, Active, HasStamped
  <2> QED  BY <2>4, <2>5
<1> QED  BY <1>3, <1>4, <1>5, <1>6, <1>7, <1>8 DEF LocksInOrder

\* Only a commit makes a history row count.
LEMMA HistoryKept ==
  ASSUME IInv, stamped' = stamped, status' = status,
         \A u \in Transactions : phase'[u] = "committed" <=> phase[u] = "committed"
  PROVE  HistoryInOrder'
<1>1. \A i \in 1 .. Len(stamped) : stamped[i] \in Transactions
  BY DEF IInv, TypeOK
<1>2. Len(stamped) \in Nat
  BY DEF IInv, TypeOK
<1>3. ASSUME NEW i \in 1 .. Len(stamped), Newest(i)'
      PROVE  Newest(i)
  <2>1. \A j \in i + 1 .. Len(stamped) : j \in 1 .. Len(stamped)
    BY <1>2
  <2> QED  BY <1>1, <1>3, <2>1 DEF Newest
<1> QED  BY <1>3 DEF IInv, HistoryInOrder

\* The transaction that commits has the last history row, if it writes one.
LEMMA LastIsMine ==
  ASSUME IInv, NEW t \in Transactions, phase[t] = "waiting", pc[t] = Len(Program(kind[t])),
         kind[t] # "webhookPending"
  PROVE  \E n \in 1 .. Len(stamped) : n = Len(stamped) /\ stamped[n] = t
<1>1. HasStamped(t) /\ Active(t)
  <2>1. kind[t] \in Kinds
    BY DEF IInv, TypeOK
  <2>2. StampAt(kind[t]) \in {2, 3} /\ StampAt(kind[t]) <= pc[t]
    BY <2>1, ProgramShape
  <2>3. pc[t] \in Nat
    BY DEF IInv, TypeOK
  <2> QED  BY <2>2, <2>3 DEF HasStamped, Active
<1>2. PICK n \in 1 .. Len(stamped) : stamped[n] = t
  BY <1>1 DEF IInv, Stamps
<1>3. n = Len(stamped)
  BY <1>1, <1>2 DEF IInv, Stamps
<1> QED  BY <1>2, <1>3

\* The transaction that writes no history row is none of those that have one.
LEMMA NoneIsMine ==
  ASSUME IInv, NEW t \in Transactions, phase[t] = "waiting", kind[t] = "webhookPending"
  PROVE  \A i \in 1 .. Len(stamped) : stamped[i] # t
<1>1. ~HasStamped(t) /\ Active(t)
  <2>1. kind[t] \in Kinds /\ pc[t] \in 1 .. Len(Program(kind[t]))
    BY AtStatement DEF IInv
  <2>2. Len(Program(kind[t])) \in {1, 2, 3} /\ StampAt(kind[t]) \in {2, 3}
        /\ ~(StampAt(kind[t]) <= Len(Program(kind[t])))
    BY <2>1, ProgramShape
  <2>3. pc[t] < StampAt(kind[t])
    BY <2>1, <2>2
  <2> QED  BY <2>1, <2>2, <2>3 DEF HasStamped, Active
<1> QED  BY <1>1 DEF IInv, Stamps

\* What its commit leaves of the newest history row: all of it.
LEMMA PendingCommits ==
  ASSUME IInv, NEW t \in Transactions, phase[t] = "waiting", kind[t] = "webhookPending",
         Commit(t), stamped' = stamped
  PROVE  /\ status' = status
         /\ \A i \in 1 .. Len(stamped) :
              phase'[stamped[i]] = "committed" <=> phase[stamped[i]] = "committed"
         /\ \A i \in 1 .. Len(stamped) : Newest(i)' <=> Newest(i)
<1>1. status' = status /\ phase' = [phase EXCEPT ![t] = "committed"]
  BY DEF Commit
<1>2. /\ \A i \in 1 .. Len(stamped) : stamped[i] \in Transactions \ {t}
      /\ Len(stamped) \in Nat
  BY NoneIsMine DEF IInv, TypeOK
<1>3. \A i \in 1 .. Len(stamped) :
        phase'[stamped[i]] = "committed" <=> phase[stamped[i]] = "committed"
  BY <1>1, <1>2 DEF IInv, TypeOK
<1>4. \A i \in 1 .. Len(stamped) : \A j \in i + 1 .. Len(stamped) : j \in 1 .. Len(stamped)
  BY <1>2
<1> QED  BY <1>1, <1>3, <1>4 DEF Newest

LEMMA HistoryCommitted ==
  ASSUME IInv, NEW t \in Transactions, phase[t] = "waiting",
         pc[t] = Len(Program(kind[t])), Commit(t), stamped' = stamped
  PROVE  HistoryInOrder'
<1> SUFFICES ASSUME kind[t] # "webhookPending"
             PROVE  HistoryInOrder'
  BY PendingCommits DEF IInv, HistoryInOrder
<1>1. PICK n \in 1 .. Len(stamped) : n = Len(stamped) /\ stamped[n] = t
  BY LastIsMine
<1>2. Len(stamped) \in Nat
  BY DEF IInv, TypeOK
<1>3. phase'[t] = "committed" /\ status' = t
  BY DEF Commit, IInv, TypeOK
<1>4. ASSUME NEW i \in 1 .. Len(stamped), Newest(i)'
      PROVE  stamped[i] = t
  <2>1. \A j \in i + 1 .. Len(stamped) : phase'[stamped[j]] # "committed"
    BY <1>4 DEF Newest
  <2>2. ASSUME i # Len(stamped)
        PROVE  FALSE
    <3>1. n \in i + 1 .. Len(stamped)
      BY <1>1, <1>2, <2>2
    <3> QED  BY <1>1, <1>3, <2>1, <3>1
  <2> QED  BY <1>1, <2>2
<1> QED  BY <1>3, <1>4 DEF HistoryInOrder

LEMMA NextIInv == IInv /\ [Next]_vars => IInv'
<1> SUFFICES ASSUME IInv, [Next]_vars
             PROVE  IInv'
  OBVIOUS
<1>1. TypeOK'
  BY TypingStep DEF IInv
<1> SUFFICES LocksInOrder' /\ HistoryInOrder'
  BY <1>1 DEF IInv, LocksInOrder
<1> DEFINE Sets(t, p) == phase' = [phase EXCEPT ![t] = p]
<1>2. ASSUME NEW t \in Transactions, NEW p \in {"ready", "waiting", "skipped", "rolledBack"},
             Sets(t, p), phase[t] # "committed"
      PROVE  \A u \in Transactions : phase'[u] = "committed" <=> phase[u] = "committed"
  BY <1>2 DEF IInv, TypeOK
<1>3. ASSUME NEW t \in Transactions, Issue(t)
      PROVE  LocksInOrder' /\ HistoryInOrder'
  <2>1. LocksInOrder'
    BY <1>3, IssueStep
  <2>2. \A u \in Transactions : phase'[u] = "committed" <=> phase[u] = "committed"
    BY <1>2, <1>3 DEF Issue
  <2>3. CASE ~Statement(t).stamps
    BY <1>3, <2>1, <2>2, <2>3, HistoryKept DEF Issue
  <2>4. CASE Statement(t).stamps
    <3>1. stamped \in Seq(Transactions) /\ stamped' = Append(stamped, t)
      BY <1>3, <2>4 DEF Issue, IInv, TypeOK
    <3>2. /\ Len(stamped) \in Nat /\ Len(stamped') = Len(stamped) + 1
          /\ stamped'[Len(stamped) + 1] = t
          /\ \A i \in 1 .. Len(stamped) : stamped'[i] = stamped[i] /\ stamped[i] \in Transactions
      BY <3>1
    <3>3. phase'[t] = "waiting" /\ status' = status
      BY <1>3 DEF Issue, IInv, TypeOK
    <3>4. ASSUME NEW i \in 1 .. Len(stamped'), Newest(i)'
          PROVE  i \in 1 .. Len(stamped) /\ Newest(i)
      <4>1. i # Len(stamped) + 1
        BY <3>2, <3>3, <3>4 DEF Newest
      <4>2. i \in 1 .. Len(stamped)
        BY <3>2, <4>1
      <4>3. phase[stamped[i]] = "committed"
        BY <2>2, <3>2, <3>4, <4>2 DEF Newest
      <4>4. ASSUME NEW j \in i + 1 .. Len(stamped)
            PROVE  phase[stamped[j]] # "committed"
        <5>1. j \in i + 1 .. Len(stamped') /\ j \in 1 .. Len(stamped)
          BY <3>2
        <5>2. phase'[stamped'[j]] # "committed"
          BY <3>4, <5>1 DEF Newest
        <5> QED  BY <2>2, <3>2, <5>1, <5>2
      <4> QED  BY <4>2, <4>3, <4>4 DEF Newest
    <3>5. HistoryInOrder'
      BY <3>2, <3>3, <3>4 DEF IInv, HistoryInOrder
    <3> QED  BY <2>1, <3>5
  <2> QED  BY <2>3, <2>4
<1>4. ASSUME NEW t \in Transactions, Execute(t)
      PROVE  LocksInOrder' /\ HistoryInOrder'
  <2>1. /\ phase[t] = "waiting" /\ Blockers(t) = {}
        /\ UNCHANGED <<kind, queueing, stamped>>
    BY <1>4 DEF Execute
  <2>2. CASE ~Matches(t)
    <3>1. Sets(t, "skipped") /\ Release(t) /\ UNCHANGED <<pc, status>>
      BY <1>4, <2>2 DEF Execute
    <3> QED  BY <1>1, <1>2, <2>1, <3>1, ReleaseStep, HistoryKept
  <2>3. CASE Matches(t) /\ pc[t] = Len(Program(kind[t]))
    <3>1. Commit(t)
      BY <1>4, <2>3 DEF Execute
    <3>2. LocksInOrder'
      BY <1>1, <2>1, <3>1, ReleaseStep DEF Commit
    <3>3. HistoryInOrder'
      BY <2>1, <2>3, <3>1, HistoryCommitted
    <3> QED  BY <3>2, <3>3
  <2>4. CASE Matches(t) /\ pc[t] # Len(Program(kind[t]))
    <3>1. /\ Grant(t) /\ Sets(t, "ready") /\ UNCHANGED status
          /\ pc' = [pc EXCEPT ![t] = @ + 1]
      BY <1>4, <2>4 DEF Execute
    <3>2. LocksInOrder'
      BY <2>1, <2>4, <3>1, GrantStep
    <3> QED  BY <1>2, <2>1, <3>1, <3>2, HistoryKept
  <2> QED  BY <2>2, <2>3, <2>4
<1>5. ASSUME NEW t \in Transactions, RollBack(t)
      PROVE  LocksInOrder' /\ HistoryInOrder'
  <2>1. /\ Sets(t, "rolledBack") /\ Release(t)
        /\ UNCHANGED <<kind, pc, queueing, status, stamped>>
    BY <1>5 DEF RollBack
  <2>2. phase[t] # "committed"
    BY <1>5 DEF RollBack, Cycles, Locked, WaitsFor
  <2> QED  BY <1>1, <1>2, <2>1, <2>2, ReleaseStep, HistoryKept
<1>6. CASE UNCHANGED vars
  <2> USE <1>6 DEF vars
  <2>1. HistoryInOrder'
    BY HistoryKept
  <2>2. PcInProgram' /\ Stamps' /\ Exclusive'
    BY DEF IInv, PcInProgram, Stamps, Exclusive, Active, HasStamped
  <2>3. HeldSound' /\ HeldComplete'
    BY DEF IInv, HeldSound, HeldComplete, Active, Lock
  <2>4. Queues'
    BY DEF IInv, Queues, Statement
  <2> QED  BY <2>1, <2>2, <2>3, <2>4 DEF LocksInOrder
<1> QED  BY <1>3, <1>4, <1>5, <1>6 DEF Next

---------------------------------------------------------------------------
\* The locks are those of the statements executed, the owners never conflict,
\* the queues are chains, and one history row at most is still uncommitted and
\* running: the last (courier.service.ts:121-141, shipments.service.ts:252-366).
THEOREM Invariance == Spec => []IInv
<1> QED  BY InitIInv, NextIInv, PTL DEF Spec

\* Whatever transactions of whatever kinds overlap, and however the database
\* queues their requests, no circle of waits is without a scan; and one scan is
\* enough only where requests wait for those before them
\* (shipment-branch.service.ts:126-171, courier.service.ts:121-141, 184-221,
\* shipments.service.ts:252-366, payment-expired-queue.processor.ts:70-88).
THEOREM OnlyScansDeadlock == Spec => []DeadlockNeedsScan
<1>1. IInv => DeadlockNeedsScan
  BY CyclesNeedScans
<1> QED  BY <1>1, Invariance, PTL

\* The newest committed history row, by createdAt, is always that of the
\* transaction whose status the shipment has (courier.service.ts:121-141,
\* shipments.service.ts:290-366).
THEOREM HistoryIsInOrder == Spec => []HistoryInOrder
<1>1. IInv => HistoryInOrder
  BY DEF IInv
<1> QED  BY <1>1, Invariance, PTL

---------------------------------------------------------------------------
(* The locks make the transactions atomic.                                 *)

\* The status is nobody's, or that of the newest history row.
Settled ==
  \/ status = "before" /\ \A i \in 1 .. Len(stamped) : phase[stamped[i]] # "committed"
  \/ \E i \in 1 .. Len(stamped) : Newest(i) /\ status = stamped[i]

\* What a webhook has seen of the payment is so until it ends: it has locked it.
StillUnpaid == \A t \in Transactions :
  Active(t) /\ kind[t] \in Webhooks /\ pc[t] > 1 => ~paid

\* The newest history row stays the newest until another transaction commits.
LEMMA NewestStays ==
  ASSUME IInv, NEW t \in Transactions, NEW i \in 1 .. Len(stamped), Newest(i),
         \A u \in Transactions : phase'[u] = "committed" <=> phase[u] = "committed",
         stamped' = stamped \/ (stamped' = Append(stamped, t) /\ phase'[t] # "committed")
  PROVE  i \in 1 .. Len(stamped') /\ Newest(i)' /\ stamped'[i] = stamped[i]
<1>1. /\ Len(stamped) \in Nat
      /\ \A j \in 1 .. Len(stamped) : stamped[j] \in Transactions
  BY DEF IInv, TypeOK
<1>2. \A j \in i + 1 .. Len(stamped) : j \in 1 .. Len(stamped)
  BY <1>1
<1>3. CASE stamped' = stamped
  BY <1>1, <1>2, <1>3 DEF Newest
<1>4. CASE stamped' = Append(stamped, t) /\ phase'[t] # "committed"
  <2>1. /\ Len(stamped') = Len(stamped) + 1 /\ stamped'[Len(stamped) + 1] = t
        /\ \A j \in 1 .. Len(stamped) : stamped'[j] = stamped[j]
    BY <1>4 DEF IInv, TypeOK
  <2>2. phase'[stamped'[i]] = "committed" /\ stamped'[i] = stamped[i]
    BY <1>1, <2>1 DEF Newest
  <2>3. ASSUME NEW j \in i + 1 .. Len(stamped')
        PROVE  phase'[stamped'[j]] # "committed"
    <3>1. CASE j = Len(stamped) + 1
      BY <1>4, <2>1, <3>1
    <3>2. CASE j # Len(stamped) + 1
      <4>1. j \in i + 1 .. Len(stamped)
        BY <1>1, <2>1, <3>2
      <4>2. phase[stamped[j]] # "committed"
        BY <4>1 DEF Newest
      <4> QED  BY <1>1, <1>2, <2>1, <4>1, <4>2
    <3> QED  BY <3>1, <3>2
  <2> QED  BY <1>1, <2>1, <2>2, <2>3 DEF Newest
<1> QED  BY <1>3, <1>4

LEMMA SettledStep ==
  ASSUME IInv, Settled, [Next]_vars
  PROVE  Settled'
<1>1. ASSUME NEW t \in Transactions, status' = status,
             \A u \in Transactions : phase'[u] = "committed" <=> phase[u] = "committed",
             stamped' = stamped \/ (stamped' = Append(stamped, t) /\ phase'[t] # "committed")
      PROVE  Settled'
  <2>1. CASE status = "before" /\ \A i \in 1 .. Len(stamped) : phase[stamped[i]] # "committed"
    <3>1. /\ \A i \in 1 .. Len(stamped) : stamped[i] \in Transactions
          /\ Len(stamped) \in Nat /\ stamped \in Seq(Transactions)
      BY DEF IInv, TypeOK
    <3>2. CASE stamped' = stamped
      BY <1>1, <2>1, <3>1, <3>2 DEF Settled
    <3>3. CASE stamped' = Append(stamped, t) /\ phase'[t] # "committed"
      <4>1. \A i \in 1 .. Len(stamped') :
              \/ i \in 1 .. Len(stamped) /\ stamped'[i] = stamped[i]
              \/ stamped'[i] = t
        BY <3>1, <3>3
      <4> QED  BY <1>1, <2>1, <3>1, <3>3, <4>1 DEF Settled
    <3> QED  BY <1>1, <3>2, <3>3
  <2>2. ASSUME NEW i \in 1 .. Len(stamped), Newest(i), status = stamped[i]
        PROVE  Settled'
    <3>1. i \in 1 .. Len(stamped') /\ Newest(i)' /\ stamped'[i] = stamped[i]
      BY <1>1, <2>2, NewestStays
    <3> QED  BY <1>1, <2>2, <3>1 DEF Settled
  <2> QED  BY <2>1, <2>2 DEF Settled
<1>2. ASSUME NEW t \in Transactions, NEW p \in {"ready", "waiting", "skipped", "rolledBack"},
             phase' = [phase EXCEPT ![t] = p], phase[t] # "committed"
      PROVE  /\ \A u \in Transactions : phase'[u] = "committed" <=> phase[u] = "committed"
             /\ phase'[t] # "committed"
  BY <1>2 DEF IInv, TypeOK
<1>3. ASSUME NEW t \in Transactions, Issue(t)
      PROVE  Settled'
  <2>1. /\ \A u \in Transactions : phase'[u] = "committed" <=> phase[u] = "committed"
        /\ phase'[t] # "committed"
    BY <1>2, <1>3 DEF Issue
  <2> QED  BY <1>1, <1>3, <2>1 DEF Issue
<1>4. ASSUME NEW t \in Transactions, Execute(t)
      PROVE  Settled'
  <2>1. phase[t] = "waiting" /\ stamped' = stamped
    BY <1>4 DEF Execute
  <2>2. CASE ~(Matches(t) /\ pc[t] = Len(Program(kind[t])))
    <3>1. /\ status' = status
          /\ \/ phase' = [phase EXCEPT ![t] = "skipped"]
             \/ phase' = [phase EXCEPT ![t] = "ready"]
      BY <1>4, <2>2 DEF Execute
    <3>2. \A u \in Transactions : phase'[u] = "committed" <=> phase[u] = "committed"
      BY <1>2, <2>1, <3>1
    <3> QED  BY <1>1, <2>1, <3>1, <3>2
  <2>3. CASE Matches(t) /\ pc[t] = Len(Program(kind[t]))
    <3>1. Commit(t)
      BY <1>4, <2>3 DEF Execute
    <3> SUFFICES ASSUME kind[t] # "webhookPending"
                 PROVE  Settled'
      BY <2>1, <3>1, PendingCommits DEF Settled
    <3>2. PICK n \in 1 .. Len(stamped) : n = Len(stamped) /\ stamped[n] = t
      BY <2>1, <2>3, LastIsMine
    <3>3. phase'[t] = "committed" /\ status' = t
      BY <3>1 DEF Commit, IInv, TypeOK
    <3>4. Len(stamped) \in Nat
      BY DEF IInv, TypeOK
    <3>5. Newest(n)'
      BY <2>1, <3>2, <3>3, <3>4 DEF Newest
    <3> QED  BY <2>1, <3>2, <3>3, <3>5 DEF Settled
  <2> QED  BY <2>2, <2>3
<1>5. ASSUME NEW t \in Transactions, RollBack(t)
      PROVE  Settled'
  <2>1. phase[t] # "committed"
    BY <1>5 DEF RollBack, Cycles, Locked, WaitsFor
  <2>2. \A u \in Transactions : phase'[u] = "committed" <=> phase[u] = "committed"
    BY <1>2, <1>5, <2>1 DEF RollBack
  <2> QED  BY <1>1, <1>5, <2>2 DEF RollBack
<1>6. CASE UNCHANGED vars
  BY <1>6 DEF vars, Settled, Newest
<1> QED  BY <1>3, <1>4, <1>5, <1>6 DEF Next

\* A webhook locks the payment with its first statement, which is its only one or
\* the first of three.
LEMMA WebhookShape ==
  ASSUME NEW k \in Webhooks
  PROVE  /\ Program(k)[1] = Update("payment")
         /\ Len(Program(k)) = IF k = "webhookPending" THEN 1 ELSE 3
BY DEF Program, WebhookProgram, Webhooks

\* No two webhooks are past their first statement at once, so what one of them
\* has found there no other can change.
LEMMA StillUnpaidStep ==
  ASSUME IInv, StillUnpaid, [Next]_vars
  PROVE  StillUnpaid'
<1>1. ASSUME NEW t \in Transactions, NEW p,
             phase' = [phase EXCEPT ![t] = p], UNCHANGED <<kind, paid>>,
             pc' = pc \/ pc' = [pc EXCEPT ![t] = @ + 1],
             pc'[t] > 1 /\ kind[t] \in Webhooks /\ p \in {"ready", "waiting"} => ~paid
      PROVE  StillUnpaid'
  BY <1>1 DEF StillUnpaid, Active, IInv, TypeOK
<1>2. ASSUME NEW t \in Transactions, Issue(t)
      PROVE  StillUnpaid'
  BY <1>1, <1>2 DEF Issue, StillUnpaid, Active
<1>3. ASSUME NEW t \in Transactions, Execute(t)
      PROVE  StillUnpaid'
  <2>1. phase[t] = "waiting" /\ kind' = kind /\ pc[t] \in Nat
    BY <1>3 DEF Execute, IInv, TypeOK
  <2>2. CASE ~Matches(t)
    BY <1>1, <1>3, <2>2 DEF Execute
  <2>3. CASE Matches(t) /\ pc[t] # Len(Program(kind[t]))
    <3>1. kind[t] \in Webhooks => ~paid
      BY <2>1, <2>3, AtStatement DEF Matches, StillUnpaid, Active, IInv
    <3> QED  BY <1>1, <1>3, <2>3, <3>1 DEF Execute
  <2>4. CASE Matches(t) /\ pc[t] = Len(Program(kind[t]))
    <3>1. /\ phase' = [phase EXCEPT ![t] = "committed"] /\ pc' = pc
          /\ paid' = PaidAfter(t)
      BY <1>3, <2>4 DEF Execute, Commit
    <3>2. SUFFICES ASSUME NEW u \in Transactions, Active(u)', kind[u] \in Webhooks, pc[u] > 1
                   PROVE  kind[t] # "webhookPaid" /\ ~paid
      BY <2>1, <3>1 DEF StillUnpaid, PaidAfter
    <3>3. u # t /\ Active(u) /\ Active(t)
      BY <2>1, <3>1, <3>2 DEF Active, IInv, TypeOK
    <3>4. ~paid
      BY <3>2, <3>3 DEF StillUnpaid
    <3>5. ASSUME kind[t] = "webhookPaid"
          PROVE  FALSE
      <4>1. 1 \in 1 .. pc[t] - 1 /\ kind[t] \in Webhooks
        <5>1. pc[t] = Len(Program("webhookPaid")) /\ "webhookPaid" \in Webhooks
          BY <2>4, <3>5 DEF Webhooks
        <5>2. pc[t] = 3
          BY <5>1, WebhookShape
        <5> QED  BY <3>5, <5>1, <5>2
      <4>2. 1 \in 1 .. pc[u] - 1
        BY <3>2 DEF IInv, TypeOK
      <4>3. Program(kind[t])[1].mode = "X"
        BY <4>1, WebhookShape DEF Update
      <4>4. Program(kind[t])[1].row = Program(kind[u])[1].row
        BY <3>2, <4>1, WebhookShape
      <4> QED  BY <3>3, <4>1, <4>2, <4>3, <4>4, HoldersAgree
    <3> QED  BY <3>4, <3>5
  <2> QED  BY <2>2, <2>3, <2>4
<1>4. ASSUME NEW t \in Transactions, RollBack(t)
      PROVE  StillUnpaid'
  BY <1>1, <1>4 DEF RollBack
<1>5. CASE UNCHANGED vars
  BY <1>5 DEF vars, StillUnpaid, Active
<1> QED  BY <1>2, <1>3, <1>4, <1>5 DEF Next

LEMMA NewestIsStatus == IInv /\ Settled => NewestRow = status
<1> SUFFICES ASSUME IInv, Settled
             PROVE  NewestRow = status
  OBVIOUS
<1>1. CASE \E i \in 1 .. Len(stamped) : Newest(i)
  <2> DEFINE n == CHOOSE i \in 1 .. Len(stamped) : Newest(i)
  <2>1. n \in 1 .. Len(stamped) /\ Newest(n)
    BY <1>1
  <2>2. status = stamped[n]
    BY <2>1 DEF IInv, HistoryInOrder
  <2> QED  BY <1>1, <2>2 DEF NewestRow
<1>2. CASE ~\E i \in 1 .. Len(stamped) : Newest(i)
  BY <1>2 DEF NewestRow, Settled
<1> QED  BY <1>1, <1>2

\* A step of a transaction that does not end is none of AtomicTransactions.
LEMMA OutcomeKept ==
  ASSUME IInv, NEW t \in Transactions, NEW p \in {"ready", "waiting"}, Active(t),
         phase' = [phase EXCEPT ![t] = p]
  PROVE  Outcome' = Outcome
<1>1. \A u \in Transactions :
        (IF Active(u)' THEN "running" ELSE phase'[u]) = (IF Active(u) THEN "running" ELSE phase[u])
  BY DEF Active, IInv, TypeOK
<1> QED  BY <1>1 DEF Outcome

LEMMA OutcomeEnds ==
  ASSUME IInv, NEW t \in Transactions, NEW p \in {"committed", "skipped", "rolledBack"},
         Active(t), phase' = [phase EXCEPT ![t] = p]
  PROVE  Outcome[t] = "running" /\ Outcome' = [Outcome EXCEPT ![t] = p]
<1>1. \A u \in Transactions :
        (IF Active(u)' THEN "running" ELSE phase'[u])
          = IF u = t THEN p ELSE IF Active(u) THEN "running" ELSE phase[u]
  BY DEF Active, IInv, TypeOK
<1>2. Outcome' = [u \in Transactions |-> IF Active(u)' THEN "running" ELSE phase'[u]]
  BY DEF Outcome, Active
<1> QED  BY <1>1, <1>2 DEF Outcome

\* Every step is one of AtomicTransactions, or none.
LEMMA AtomicStep ==
  ASSUME IInv, StillUnpaid, [Next]_vars, NewestRow = status, NewestRow' = status'
  PROVE  Atomic!Next \/ UNCHANGED <<kind, Outcome, status, NewestRow, paid>>
<1>1. ASSUME NEW t \in Transactions, Issue(t)
      PROVE  UNCHANGED <<kind, Outcome, status, NewestRow, paid>>
  <2>1. Outcome' = Outcome
    BY <1>1, OutcomeKept DEF Issue, Active
  <2> QED  BY <1>1, <2>1 DEF Issue
<1>2. ASSUME NEW t \in Transactions, Execute(t)
      PROVE  Atomic!Next \/ UNCHANGED <<kind, Outcome, status, NewestRow, paid>>
  <2>1. phase[t] = "waiting" /\ kind' = kind /\ Active(t) /\ pc[t] \in 1 .. 3
    BY <1>2 DEF Execute, Active, IInv, TypeOK
  <2>2. CASE ~Matches(t)
    <3>1. phase' = [phase EXCEPT ![t] = "skipped"] /\ status' = status /\ paid' = paid
      BY <1>2, <2>2 DEF Execute
    <3>2. kind[t] \in Webhooks /\ paid
      BY <2>2 DEF Matches
    <3>3. Outcome[t] = "running" /\ Outcome' = [Outcome EXCEPT ![t] = "skipped"]
      BY <2>1, <3>1, OutcomeEnds
    <3>4. Atomic!Skip(t)
      BY <2>1, <3>1, <3>2, <3>3 DEF Atomic!Skip, Atomic!End, Atomic!Webhooks, Webhooks
    <3> QED  BY <3>4 DEF Atomic!Next
  <2>3. CASE Matches(t) /\ pc[t] = Len(Program(kind[t]))
    <3>1. /\ phase' = [phase EXCEPT ![t] = "committed"]
          /\ status' = IF kind[t] = "webhookPending" THEN status ELSE t
          /\ paid' = PaidAfter(t)
      BY <1>2, <2>3 DEF Execute, Commit
    <3>2. kind[t] \in Webhooks => ~paid
      <4>1. CASE pc[t] = 1
        BY <2>3, <4>1 DEF Matches
      <4>2. CASE pc[t] # 1
        BY <2>1, <4>2 DEF StillUnpaid
      <4> QED  BY <4>1, <4>2
    <3>3. Outcome[t] = "running" /\ Outcome' = [Outcome EXCEPT ![t] = "committed"]
      BY <2>1, <3>1, OutcomeEnds
    <3>4. Atomic!Apply(t)
      BY <2>1, <3>1, <3>2, <3>3 DEF Atomic!Apply, Atomic!End, Atomic!Webhooks, Webhooks, PaidAfter
    <3> QED  BY <3>4 DEF Atomic!Next
  <2>4. CASE Matches(t) /\ pc[t] # Len(Program(kind[t]))
    <3>1. phase' = [phase EXCEPT ![t] = "ready"] /\ status' = status /\ paid' = paid
      BY <1>2, <2>4 DEF Execute
    <3>2. Outcome' = Outcome
      BY <2>1, <3>1, OutcomeKept
    <3> QED  BY <2>1, <3>1, <3>2
  <2> QED  BY <2>2, <2>3, <2>4
<1>3. ASSUME NEW t \in Transactions, RollBack(t)
      PROVE  Atomic!Next
  <2>1. phase[t] = "waiting"
    BY <1>3 DEF RollBack, Cycles, Locked, WaitsFor
  <2>2. Outcome[t] = "running" /\ Outcome' = [Outcome EXCEPT ![t] = "rolledBack"]
    BY <1>3, <2>1, OutcomeEnds DEF RollBack, Active
  <2>3. Atomic!Fail(t)
    BY <1>3, <2>2 DEF Atomic!Fail, Atomic!End, RollBack
  <2> QED  BY <2>3 DEF Atomic!Next
<1>4. CASE UNCHANGED vars
  BY <1>4 DEF vars, Outcome, Active
<1> QED  BY <1>1, <1>2, <1>3, <1>4 DEF Next

\* The transactions of the services are atomic, as Delivery takes them: status,
\* payment and history row change together, and a webhook commits only if the
\* payment is not PAID at that moment, because its updateMany keeps the row
\* locked to the end (shipments.service.ts:252-366).
THEOREM Atomicity == Spec => ImplementsAtomic
<1>1. Init => Atomic!Init
  <2> SUFFICES ASSUME Init
               PROVE  Atomic!Init
    OBVIOUS
  <2>1. Outcome = [t \in Transactions |-> "running"]
    BY DEF Init, Outcome, Active
  <2>2. NewestRow = "before"
    BY DEF Init, NewestRow
  <2> QED  BY <2>1, <2>2 DEF Init, Atomic!Init, Kinds, Atomic!Kinds, Webhooks, Atomic!Webhooks
<1>2. Init => Settled /\ StillUnpaid
  BY DEF Init, Settled, StillUnpaid
<1>3. (IInv /\ Settled => NewestRow = status)'
  BY NewestIsStatus, PTL
<1>4. IInv /\ IInv' /\ Settled /\ StillUnpaid /\ [Next]_vars =>
        /\ Settled' /\ StillUnpaid'
        /\ [Atomic!Next]_<<kind, Outcome, status, NewestRow, paid>>
  <2> SUFFICES ASSUME IInv, IInv', Settled, StillUnpaid, [Next]_vars
               PROVE  /\ Settled' /\ StillUnpaid'
                      /\ [Atomic!Next]_<<kind, Outcome, status, NewestRow, paid>>
    OBVIOUS
  <2>1. Settled' /\ StillUnpaid'
    BY SettledStep, StillUnpaidStep
  <2>2. NewestRow = status /\ NewestRow' = status'
    BY <1>3, <2>1, NewestIsStatus
  <2>3. Atomic!Next \/ UNCHANGED <<kind, Outcome, status, NewestRow, paid>>
    BY <2>2, AtomicStep
  <2> QED  BY <2>1, <2>3
<1> QED  BY <1>1, <1>2, <1>4, Invariance, PTL DEF Spec, ImplementsAtomic, Atomic!Spec

---------------------------------------------------------------------------
(* What liveness rests on.                                                 *)

\* Who keeps a transaction waiting waits or runs itself: it holds a lock, which
\* it would have given back at its end, or it is in the queue.
LEMMA BlockedByActive ==
  ASSUME IInv, NEW t \in Transactions, Blockers(t) # {}
  PROVE  \E u \in Transactions : Active(u) /\ [tx |-> u, via |-> "tx"] \in Blockers(t)
<1>1. PICK l \in held[Statement(t).row] \cup Ahead(t) : l.by \in Blockers(t)
  BY DEF Blockers
<1>2. CASE l \in held[Statement(t).row]
  <2>1. Statement(t).row \in Rows
    BY AtStatement DEF IInv, Statements
  <2>2. PICK u \in Transactions : \E i \in 1 .. pc[u] - 1 : Active(u) /\ l = Lock(u, i)
    BY <1>2, <2>1 DEF IInv, HeldSound
  <2>3. l.by = [tx |-> u, via |-> "tx"]
    BY <2>2 DEF Lock
  <2> QED  BY <1>1, <2>2, <2>3
<1>3. CASE l \in Ahead(t)
  <2>1. PICK u \in before[t] : l = Wanted(u)
    BY <1>3 DEF Ahead
  <2>2. u \in Transactions
    BY <2>1 DEF IInv, TypeOK
  <2>3. Active(u)
    BY <2>1 DEF IInv, Queues, Active
  <2>4. l.by = [tx |-> u, via |-> "tx"]
    BY <2>1, <2>2, AtStatement DEF IInv, Wanted
  <2> QED  BY <1>1, <2>2, <2>3, <2>4
<1> QED  BY <1>2, <1>3

\* Transactions that wait for each other hold a smallest circle.
LEMMA CircleInside ==
  ASSUME NEW W \in SUBSET Transactions, Locked(W)
  PROVE  \E C \in Cycles : C # {}
<1> DEFINE L == {C \in SUBSET Transactions : Locked(C)}
           Less == StrictSubsetOrdering(Transactions)
<1>1. L # {}
  OBVIOUS
<1>2. L \subseteq FiniteSubsetsOf(Transactions)
  BY FS_FiniteSubsetsOfFinite, TransactionsAssumption
<1>3. IsWellFoundedOn(Less, FiniteSubsetsOf(Transactions))
  BY FS_StrictSubsetOrderingWellFounded
<1>4. PICK C \in L : \A D \in L : <<D, C>> \notin Less
  <2> HIDE DEF L, Less
  <2> QED  BY <1>1, <1>2, <1>3, WFMin
<1>5. \A D \in SUBSET C : Locked(D) => D = C
  <2> SUFFICES ASSUME NEW D \in SUBSET C, Locked(D), D # C
               PROVE  FALSE
    OBVIOUS
  <2>1. D \in L /\ D \subseteq C
    OBVIOUS
  <2> QED  BY <1>4, <2>1 DEF StrictSubsetOrdering
<1>6. C # {}
  BY DEF Locked
<1> QED  BY <1>5, <1>6 DEF Cycles

\* The database sees every circle: as long as a transaction runs, a statement
\* can be sent, a lock is free, or there is a circle to break
\* (shipment-branch.service.ts:126-174).
THEOREM NobodyWaitsForEver == Spec => []NobodyIsStuck
<1>1. IInv => NobodyIsStuck
  <2> SUFFICES ASSUME IInv, NEW a \in Transactions, Active(a),
                      \A t \in Transactions : phase[t] # "ready",
                      \A t \in Transactions : phase[t] = "waiting" => Blockers(t) # {}
               PROVE  \E t \in Transactions : \E C \in Cycles : t \in C
    BY DEF NobodyIsStuck
  <2> DEFINE W == {t \in Transactions : phase[t] = "waiting"}
  <2>1. a \in W
    BY DEF Active
  <2>2. ASSUME NEW t \in W
        PROVE  \E u \in W : WaitsFor(t, u)
    <3>1. PICK u \in Transactions : Active(u) /\ [tx |-> u, via |-> "tx"] \in Blockers(t)
      BY BlockedByActive
    <3>2. Statement(t).via = "tx"
      BY AtStatement DEF IInv, Statements
    <3>3. u \in W
      BY <3>1 DEF Active
    <3> QED  BY <3>1, <3>2, <3>3 DEF WaitsFor
  <2>3. Locked(W)
    BY <2>1, <2>2 DEF Locked
  <2>4. PICK C \in Cycles : C # {}
    BY <2>3, CircleInside
  <2> QED  BY <2>4 DEF Cycles
<1> QED  BY <1>1, Invariance, PTL

\* While nothing has committed, somebody runs; and the payment is paid only by a
\* webhook that has committed.
Moving == /\ \A t \in Transactions : ~Active(t) =>
               \E u \in Transactions : Active(u) \/ phase[u] = "committed"
          /\ paid => \E t \in Transactions : phase[t] = "committed"

LEMMA MovingStep ==
  ASSUME IInv, Moving, [Next]_vars
  PROVE  Moving'
<1>1. CASE UNCHANGED vars
  BY <1>1 DEF vars, Moving, Active
<1>2. ASSUME NEW t \in Transactions, Issue(t)
      PROVE  Moving'
  <2>1. phase'[t] = "waiting" /\ paid' = paid
    BY <1>2 DEF Issue, IInv, TypeOK
  <2>2. \A u \in Transactions : phase[u] = "committed" => phase'[u] = "committed"
    BY <1>2 DEF Issue, IInv, TypeOK
  <2> QED  BY <2>1, <2>2 DEF Moving, Active
<1>3. ASSUME NEW t \in Transactions, Execute(t)
      PROVE  Moving'
  <2>1. \A u \in Transactions : phase[u] = "committed" => phase'[u] = "committed"
    BY <1>3 DEF Execute, Commit, IInv, TypeOK
  <2>2. CASE ~Matches(t)
    <3>1. paid
      BY <2>2 DEF Matches
    <3> QED  BY <2>1, <3>1 DEF Moving
  <2>3. CASE Matches(t) /\ pc[t] = Len(Program(kind[t]))
    <3>1. phase'[t] = "committed"
      BY <1>3, <2>3 DEF Execute, Commit, IInv, TypeOK
    <3> QED  BY <3>1 DEF Moving
  <2>4. CASE Matches(t) /\ pc[t] # Len(Program(kind[t]))
    <3>1. phase'[t] = "ready" /\ paid' = paid
      BY <1>3, <2>4 DEF Execute, IInv, TypeOK
    <3> QED  BY <2>1, <3>1 DEF Moving, Active
  <2> QED  BY <2>2, <2>3, <2>4
<1>4. ASSUME NEW t \in Transactions, RollBack(t)
      PROVE  Moving'
  <2>1. PICK C \in Cycles : t \in C
    BY <1>4 DEF RollBack
  <2>2. PICK u \in C : WaitsFor(t, u)
    BY <2>1 DEF Cycles, Locked
  <2>3. u \in Transactions /\ u # t
    BY <2>1, <2>2, WaitsForOther DEF Cycles, IInv
  <2>4. phase[u] = "waiting"
    BY <2>1, <2>2 DEF Cycles, Locked, WaitsFor
  <2>5. phase'[u] = "waiting" /\ paid' = paid
    BY <1>4, <2>3, <2>4 DEF RollBack, IInv, TypeOK
  <2>6. \A v \in Transactions : phase[v] = "committed" => phase'[v] = "committed"
    <3>1. phase[t] = "waiting"
      BY <2>2 DEF WaitsFor
    <3> QED  BY <1>4, <3>1 DEF RollBack, IInv, TypeOK
  <2> QED  BY <2>3, <2>5, <2>6 DEF Moving, Active
<1> QED  BY <1>1, <1>2, <1>3, <1>4 DEF Next

\* However many circles are broken, somebody commits: who is rolled back leaves
\* another of its circle behind, and a webhook is skipped only after one that
\* has committed (shipment-branch.service.ts:126-174, shipments.service.ts:262-268).
THEOREM OneAlwaysCommits == Spec => []SomebodyCommits
<1>1. Init => Moving
  BY DEF Init, Moving, Active
<1>2. IInv /\ Moving /\ [Next]_vars => Moving'
  BY MovingStep
<1>3. Moving => SomebodyCommits
  BY DEF Moving, SomebodyCommits
<1> QED  BY <1>1, <1>2, <1>3, Invariance, PTL DEF Spec
=============================================================================
