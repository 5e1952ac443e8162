# Kirimaja: models and proofs

Kirimaja is a NestJS/Prisma/MySQL service through which customers send parcels:
a shipment is priced, paid through a Xendit invoice, picked up by a courier,
scanned in and out of branches and delivered. Its state is in MySQL, in two Bull
queues (Redis), in an upload directory and, for money, at Xendit. One Node
process serves all requests, so **every `await` is a place where another request
may run**. Almost every operation of the code reads, checks, and writes later;
what these models ask is what survives that.

Paths below are relative to `src/src/modules/` unless they start with `src/`.

## Inventory

| Part | State | Operations | Interacts with | Where it is hard |
|---|---|---|---|---|
| Payment: `shipments/shipments.service.ts`, `shipments/webhook`, `src/src/common/queue` | `Payment`, `Shipment.paymentStatus`, `ShipmentHistory`, `trackingNumber`/QR; the job `payment-expired-job`; queued emails | `create`, `handlePaymentWebhook`, `handleExpiryPayment` | Xendit (invoice, notifications repeated until a 200), Bull (delay, attempts, stalls), email | four writers without a common lock; lost, repeated and reordered notifications; partial failure; crash |
| Price: `calculateShipmentCost` | none | one function | `create` | tiers, rounding, a minimum price |
| Couriers: `shipments/courier` | `Shipment.deliveryStatus`, history, proofs | six status actions | Payment (READY_TO_PICKUP), scans, employees | check and unconditional write are apart |
| Scans: `shipments/branch` | `ShipmentBranchLog`, status, history | `scanShipment` IN, IN-ready, OUT | couriers, employees | newest log is read before the transaction |
| Employees: `employee-branches` | `EmployeeBranch`, `User.role`, `User.avatar` | `create`, `update`, `remove` | guard, branches, scans, the avatar of `profile` | three or four queries before a transaction |
| Branches: `branches` | `Branch` | `create`, `update`, `remove` | foreign keys of employees and logs | removed while somebody is being hired |
| Roles and guard: `roles`, `permissions`, `auth/guards`, `auth/strategies` | `RolePermission` | `update`; checks on every request | every protected route | what was read for a request is stale |
| Sessions: `auth`, `profile` (password) | `RefreshToken`, `User.password`, cookies | register, login, refresh, logout, change of password | browsers | rotation is two statements in no transaction; reuse alarm |
| Avatar: `profile` | `User.avatar`, files | `update` | upload directory; `employee-branches`, which writes the same column | file and row change apart; clean-up on failure; a second writer that touches no file |
| Address book: `user-addresses` | `UserAddress`, files | `create`, `update`, `remove` | OpenCage, upload directory, shipments (foreign key) | read-modify-write of a whole row |
| History, tracking | none | queries | | read only |
| Email sending, QR, PDF, Xendit and OpenCage clients | none | I/O | called from the above | they fail; the callers handle it |
| Seeders: `src/prisma/seeders` | roles, permissions, users, branches, employees | six scripts, together or one alone | the rows the services then change | no transaction: die anywhere, run again |
| HTTP plumbing (CSRF, Zod, interceptors, config) | none | | | each request alone |

What makes each correct is stated, property by property, below. PROJECT.json
lists the hazards line by line, each with the properties aimed at it.

## Modules

Each component `X` has a module `X` (state, one action per database step,
properties), `MCX` (the constants TLC needs) and `X_proofs` (theorems; those of
Payment and ShipmentCost, both of ShipmentsService, are in `Shipments_proofs`).
`PaymentLedger` is an abstract specification that `Payment` refines. `Payment`
ends where the parcel is released and has every await of the webhook and the job;
`Delivery` begins there and has a later webhook, and each step of the job, as one
step. `RowLocks` opens the transactions that Delivery takes as one step, and
implements `AtomicTransactions`, which says what that step is; `Avatar` covers
both services that write an avatar; `Seeders` stands alone.

Conventions. A request is a record in the variable `request` (`hook` in Payment)
whose `pc` says which await it is at; `Idle` is an unused slot. An action is the
code between two awaits, a Prisma transaction is one action at its commit, unless
something outside the database happens inside it. A statement or transaction that
throws is taken not to have been committed. `overlapped` is a history variable
read by no action: have two requests ever been in flight at once. A definition
that appears in two or three variants (`Respond`, `RespondAlways200`) is used in
its plain form only; the others are mistakes the properties must notice.

### Payment and PaymentLedger

`create()` is `SaveShipment` (first transaction), `CreateInvoice` /
`InvoiceAnswered` / `InvoiceThrows` (Xendit opens the invoice, and the answer may
be lost after that), `Compensate`, `RecordPayment` (second transaction),
`QueueNotification`, `QueueExpiry`. The webhook is `Deliver` (the read outside
the transaction, or the 404), `UpdatePayment` (the conditional `updateMany`, which
takes the row lock; or `SkipPaid`), `CancelExpiry` and `QueueOutcome` (queue
operations *inside* the open transaction, which a rollback does not undo),
`CommitWebhook` and `WebhookThrows`. The job is `JobStart`, `JobRead`,
`JobExpire`, `JobMail`, `JobThrows`; a crash sends a running job back to the
queue once. Xendit is external: pay, settle, expire, report, repeat.

`PaymentLedger` knows only a trail of history rows and one flag: payments are
applied one at a time, to unpaid trails, in the step that releases the parcel;
the expiry job may write over anything. `ImplementsLedger` maps `history` to
`trail` and `ready` to `released`: requests, transactions, queue and faults are
stuttering steps.

### ShipmentCost

The price as operators over whole metres and grams (geolib returns metres, the
service divides by 1000, so the tiers are exact), and one action that applies it
to a parcel of `create()`.

### Delivery

One shipment from READY_TO_PICKUP on. A courier action is `CheckStatus`,
`FindBranch`, `Commit`; a scan is `StartScan` (the employee's branch), `CheckScan`
(the status), `ValidateScan` (the newest log), `Commit`. A request refused at its
first read changes nothing and is no step; one refused later is `Abort`. `Assign` moves an
employee between those steps. The content of photos and their files are left out;
whether the proof column has been written is not.

**The payment behind the couriers.** `WebhookPaid` is a late or repeated PAID: its
`updateMany` changes nothing while the payment is PAID, and applies anew, back to
READY_TO_PICKUP, once it has been overwritten. `WebhookUnpaid` is a late EXPIRED,
FAILED or PENDING, which changes the payment alone, under the same condition.
`JobRead` is the guard of the expiry job and `JobExpire` its unconditional write, with
anything in between; the job may be at either step when the parcel is released,
and `JobThrows` lets Bull attempt it any number of times. A webhook may cancel a
job that waits, not one that runs. A webhook is one step here: its transaction
keeps the payment's row locked from its condition to its commit (`StillUnpaid` of
RowLocks), and its awaits are those of Payment. EXPIRED stands for FAILED too, and
history rows of either are not in `trail`, which holds delivery statuses.

### RowLocks

The same transactions statement by statement: `Program` lists what each updates
and inserts, in order. `Issue` sends a statement (which stamps `createdAt`),
`Execute` runs it once no conflicting lock is in its way, and `RollBack` ends a
circle of waits. `before` is the queue of each row: the transactions that asked
for it earlier and wait still. `stamped` is the history table in the order of
its `createdAt`. The lock rules are InnoDB's as far as one shipment needs them: an
update takes an exclusive lock on its row, an insert a shared one on the shipment
its foreign key names, all are kept to the end. Whether a request also waits for
those that wait before it has changed between InnoDB releases, so both are
initial states ("fifo", "barging"). Left out: the timeout of Prisma's interactive
transactions, and rows of other tables (users, branches), which are only shared.
A statement sent on another connection than the transaction's cannot be seen by
the deadlock detection; the code has none, and the mutant that does hangs.

The webhook is three kinds: PAID or SETTLED, EXPIRED or FAILED (the same statements,
with other values), and PENDING, which ends after the conditional `updateMany`
and so touches neither shipment nor history.

`AtomicTransactions` has one step per transaction: `Apply` puts its status and its
history row together, and for a webhook requires that the payment is not PAID at
that moment; a PENDING one only unsets the payment; `Skip` is a webhook that finds
it PAID; `Fail` does nothing. That
RowLocks implements it is what lets Delivery take a commit as one action, and
Payment the job's (the webhook's it opens itself, with the lock of the payment).

### Seeders

`seed.ts` runs `rolesSeed`, `permissionsSeed` with `grantsSeed`, `usersSeed`,
`branchesSeed` and `employeeBranchesSeed` with `seedPost`; each script can also be
started alone. One step looks up and writes one entry, since a seeder runs alone;
`Crash` may come between any two. In between the application moves or removes
employees, changes the permissions of a role, or removes a branch. `FindFirst` is
Prisma's: no condition for a key that is undefined, and then the first row.
The five data files are constants; `FileAssumption` says what theirs have in common:
none is empty, no role, branch or email comes twice, users and employees are different
people, and users have roles that `roles.json` knows. A grant may name a
permission `permissions.json` does not have, as two of the real ones do, and a post
any role and branch. `Missing` is the list `rolesSeed` creates with one
`createMany`, in the order of the file. `grantsSeed` takes the roles in the order of
`roles.json`, where the script takes that of the keys of `role-permissions.json`;
every grant is looked up and added by itself, so the tables are the same.

### Staff

Who may change employees, branches and roles, and what he then does:
`Authenticate` (`JwtStrategy` reads the role), `Admit` (`PermissionGuard` reads
the permissions), `Find` (the employee), `Check` (the requester's own branch, and
the limits of an admin-branch), `Validate` (the branch named in the body), and
one transaction: `CreateEmployee`, `UpdateEmployee`, `RemoveEmployee`,
`CreateBranch`, `RemoveBranch`, `UpdateRole`. The body of a request is chosen in
`Check`, where it is first looked at. `Refuse` is any refusal, failed statement
or crash: transactions make them all the same. The foreign keys of the schema
appear where they decide (`KeepsForeignKey`, `RemoveBranch`). The staff it starts
with was hired through `create()`; the rows of the employee seeder differ
(finding 2).

### Sessions

The refresh tokens of one customer. Rotation is `CheckToken`, `Insert`,
`Replace`, `Answer`: the insert of the new token and the revocation of the old one
are separate statements, and the cookie changes last. `DetectReuse` revokes
everything. A change of password is one transaction. `session` and `secret` are
history: which login a token descends from and the password it was given for.
Employees, whose password an admin may also set without touching tokens, are not
this customer.

### Avatar and AddressBook

A request reads the row, writes its file, writes the row, deletes the file the
row it *read* had named, and on failure the file it wrote. `AddressBook` adds the
text and its coordinates, which a PATCH without a text writes back as it read
them, and removal, which a shipment's foreign key may forbid.

`User.avatar` has a second writer. `EmployeeBranchesService.create` and `update` store
the avatar of their form, any string or null, and neither looks at the
directory nor deletes a file. `WriteEmployee` is that write, at any moment and into
any row (`create` writes into a new one), with null, a string that names no file
(`Elsewhere`), or the name of any file a row has ever named (`shown`): a client
knows no other. A request of `ProfileService.update` then reads what the form wrote
as its old avatar, and deletes it. `pasted` and `displaced` record the files forms
have put into rows and taken out of rows. In Avatar `overlapped` means two requests
of *one* user.

## What the runs show

Every property that holds has one or more mutants of the code under which TLC
finds it violated.

| Run | Instance | Properties |
|---|---|---|
| Payment_safety | 1 shipment, 2 webhook requests, all five statuses, 1 fault; 0.5M states | ReadyIsPaid, AckedIsReady, MirrorsAgree, AuditTrail, PaidOnce, TakenBackByJob, MailIsTrue, ImplementsLedger |
| Payment_live | FairSpec, 1 request, all statuses but PENDING, 2 faults; 61k states | ExpiryHappens, JobSettles, PaidIsHonoured |
| Delivery_concurrent | 2 requests, an employee moved at any moment, 2 branches, history up to 8 rows, released twice; 3.2M states | CausalTrail, ProvenTrail, TablesAgree, OutHadIn, OnceInTurn, ScansInTurn, ForwardOnly |
| RowLocks_overlap | any 3 transactions, both ways of queueing; 0.12M states | DeadlockNeedsScan, ImplementsAtomic, OneGetsThrough |
| Seeders_rerun | 3 runs, 3 roles, 2 branches, 2 employees, 2 changes in between, any number of crashes; 35k states | CrashIsHealed, OnlyAdds |
| Staff_concurrent | super-admin, admin-branch, courier, one more user; 3 branches; 3 requests, 2 at a time; 0.17M states | RoleMatchesType, NoGhostBranch, OwnBranchOnly, RaisesNobody, PermittedWrites |
| Sessions_concurrent | 2 browsers, 2 requests, 3 tokens, 1 change of password, 1 fault; 0.9M states | OneTokenPerSession, NoFalseAlarm, SessionsFollowPassword |
| Avatar_concurrent | 2 users, 2 requests, employee forms, 3 files, 2 faults; 1.7M states | AvatarOnDisk, NoLitter |
| Address_concurrent | 2 requests, 2 texts, 3 files, 2 faults; 0.15M states | CoordinatesMatch, PhotoOnDisk, NoLitter, PatchKeepsTheRest |
| ShipmentCost | every tier boundary of distance and weight, one below and one above; 1.1k states | NeverCheaper, BegunUnits, AddsUp |
| Payment_final | violated: PaidIsFinal | finding 1 |
| Seed_roles | violated: SeededAsWritten | finding 2 |

Some properties are proved for every instance and not among them: the type
invariants, `FasterCostsMore`, `HistoryInOrder` (which the atomicity of RowLocks
includes), and what the liveness properties rest on (`MoneyIsOnItsWay`,
`UndecidedIsInHand`, `NobodyIsStuck`, `SomebodyCommits`).

In words:

- **Payment.** In whatever order and however often Xendit sends what, with one
  failure anywhere: a parcel is released only for money Xendit holds; a payment
  answered 200 is applied; payment and shipment agree, except that a late PENDING
  resets the payment alone; the newest history row is the status; a payment is
  applied once unless the expiry job wrote over it, and once more at most for each
  run of that job: no other step takes a payment back; a success email is true even
  if its transaction rolled back. Under fairness an expired payment leaves PENDING,
  the job alone settles an overdue one through any single failure, and paid money
  gets the parcel moving if the payment row came to be.
- **Delivery.** However requests overlap, no stage is jumped over, no parcel
  passes pickup or delivery without its proof, status, history and logs agree,
  and nothing leaves a branch it never came into. If no requests overlap,
  nothing happens twice between two payments, scans alternate and the status only
  goes forward, even while employees are moved. One thing sets a parcel back: a
  payment the job has overwritten (finding 1) that is notified again makes it
  READY_TO_PICKUP wherever it is; a scan IN is then refused if its newest log
  still says IN.
- **Row locks.** Webhook, job and couriers take the rows in one order and cannot
  deadlock among themselves. A scan can, because its insert of the log takes a
  shared lock on the shipment it then updates: with another scan always, and with
  any transaction that queues for the row in between if requests wait in order.
  Whatever overlaps ends, one transaction of it commits, and the newest history
  row is that of the status. The newest *branch log* need not be the last scan:
  it is stamped before the lock.
- **Seeders.** A run that died anywhere is healed by a complete one, and no run
  takes back what the application has decided. It does add: permissions an update
  of a role had revoked, a removed branch, and, for an employee who was moved
  or removed, another post at the seeded branch.
- **Staff.** However requests overlap, the role of an account goes with the type
  of its post and no post is at a removed branch. If none overlap, an admin-branch
  changes his own branch only, makes nobody but couriers, and every write is
  permitted by the rows of that moment. With overlap these three do not hold: a
  courier promoted between `Authenticate` and `Admit` has the permissions of an
  admin-branch and not yet his limits, and a move in between makes the own-branch
  check stale. An admin-branch may also edit and remove another admin of his
  branch: `update` looks at the type in the body, not at the one in the row.
- **Sessions.** If no requests overlap: one valid token per session, no alarm for
  a browser that sends what it was given, and no session outlives a change of
  password whatever fails.
- **Avatar, address book.** However requests overlap, no step deletes the file of an
  avatar that was uploaded and is shown, unless an employee form has put that
  file's name into a row: then two rows may name it, and the owner of one deletes
  it. Nor does an upload leave a file behind without failure and overlap, but an
  employee form does, whenever it replaces or clears an avatar. The coordinates
  of an address are those of its text. The photo of an address can be served,
  and a PATCH changes only what it gives, if no requests overlap; without failure
  and overlap no file is left over.
- **Price.** No farther or heavier parcel is cheaper, faster costs more, every
  begun unit is charged, and the stored parts add up to the total except under the
  minimum price.

### Findings

1. *PaidIsFinal.* `payment-expired-queue.processor.ts:57-62` says the job skips
   a payment the webhook has changed. It looks before its transaction and writes
   by id: a payment committed in between becomes EXPIRED. A repeated notification
   repairs it only if Xendit still has one to send.
2. *SeededAsWritten.* `employee-branches-seed.ts:17` reads `role_key` and
   `branch_name`; the data file calls them `roleKey` and `branchName`. Prisma takes
   an undefined key for no condition, so instead of the skip announced at line 22
   every seeded courier and branch admin becomes a super-admin at the first
   branch.

Other disagreements between the code and its texts were met while modelling. They
show in one reading and have no run:

- The first success email has no tracking number (`shipments.service.ts:331` reads
  the row of line 229), though `payment-success.hbs:87` points at one.
- A crash after the first transaction of `create()`, or a failing second one,
  leaves a shipment PENDING for ever without a payment; the comment at
  `shipments.service.ts:157-162` says the compensation prevents that.
- Two overlapping taps of a courier both pass the check and both write; the
  comment at `courier.service.ts:43-47` says a double tap is refused. `OnceInTurn`
  is what remains. Two overlapping scans IN likewise
  (`shipment-branch.service.ts:226-230`).
- The comment at `profile.service.ts:117-118` calls it safe to delete the old avatar
  once the row is updated. An employee form may have written that old avatar
  (`employee-branches.service.ts:147, 296`): whatever file it named is deleted at
  that user's next upload, though another row may still show it.
- The comment at `courier.service.ts:49-53` says READY_TO_PICKUP guarantees that
  the parcel is paid. After the overwrite of finding 1 the payment is EXPIRED and
  the status still lets a courier go.
- The comment at `history.service.ts:10-15` calls customers the main users of the
  history; the seeded `role-permissions.json` grants `history.read` to the
  super-admin only.
- `src/prisma/seeders/data/role-permissions.json:6-7, 29` grants `shipments.update`
  and `shipments.delete`, which `permissions.json` does not define.
  `permissions-seed.ts:58-60` drops such a grant in silence, though it warns of an
  unknown role at line 53, so these grants are in no table.

### Bounds

One shipment, user or address is enough wherever nothing is shared between two of
them. The one employee of Delivery is a slot that can be moved at any moment, so
it is every employee in turn. Avatar has two users, since an employee form can let
them share a file. Two requests are the least that overlap; three files are
those two requests' and one that was there before. One fault reaches every partial failure, two a failed repair;
`MaxAttempts` is 2 instead of 3: one retry, and giving up. `MaxTrail` = 8 lets
the parcel be scanned, be paid for again and set out once more, `MaxPaid` = 2 is
released and paid anew (the overwrites in between are unbounded), `MaxServed` = 3 hires into a
new branch while it is being removed, `MaxPasswords` = 1 separates before from
after. Three tokens are a login and two rotations or two logins and a rotation.
Payment_live leaves PENDING notifications out: one that comes after EXPIRED puts
the payment back to PENDING for ever with no job left (the exception in
`MirrorsAgree`). Symmetry is used in runs of invariants and action properties
only. Deadlock is not checked where the system may simply have nothing to do.

### Fairness

`FairSpec` assumes what the platform does: code between awaits goes on (weak
fairness of `CreateNext` once started, `HookNext`, `JobNext`, the latter because
Bull starts a job whose delay is over), the clock reaches a deadline, and Xendit
repeats a notification until it is answered 200. It does **not** assume that
anybody pays, that Xendit reports an expiry, or that anything fails.

`RowLocks` assumes that a client sends its next statement, that the database runs
one whose locks are free, and that it rolls back somebody in a circle of waits
(not whom).

## What is proved

TLAPS proves the following for all values of the constants: any number of
shipments, requests, transactions, users, tokens, files, and any bounds. The only
assumptions are the named `ASSUME`s: that the values standing for "none" are not
members of the sets, that bounds are naturals, in RowLocks that the overlapping
transactions are finitely many, in Staff that the staff it starts with is
consistent, and in Seeders what was said above of the data files. The inductive invariants were checked with TLC on the instances
above before they were proved.

- **Shipments_proofs**, payment: type correctness, `ReadyIsPaid`, `AckedIsReady`,
  `MirrorsAgree`, `AuditTrail`, `PaidOnce`, `MailIsTrue`, and the refinement of
  `PaymentLedger`. None is inductive alone. `IInv` adds what a request is about
  was sent and is the invoice's business (`RequestsOK`), that at most one open
  transaction holds a payment row (`LockOK`), which rows exist at which step of
  `create()` (`CreateOK`), what a running job may assume (`JobOK`), and how rows
  and notifications relate (`RowsOK`, `SentOK`). The refinement needs it because a
  commit happens awaits after its check: the lock is why the trail is still
  unpaid then. `HandInv` is about what is still to come, and gives the safety that
  the liveness properties rest on. `MoneyIsOnItsWay`: while money has not moved
  the parcel, its notification is unanswered, so Xendit repeats it.
  `UndecidedIsInHand`: while a shipment waits for its payment no outcome has been
  answered, its job is not done, and if a webhook removed the job, even one whose
  transaction then rolled back, the outcome will be notified again.
  `TakenBackByJob` comes from `TakenBack`: the payments applied are at most the runs of
  the job, and one more if the payment is paid now.
- **Delivery_proofs**: type correctness, `CausalTrail`, `ProvenTrail`, `OutHadIn`
  for any interleaving, because what a request has seen stays on record
  (`Evidence`, `CameIn`, `StatusIsNewest`) even when it is no longer current;
  `OnceInTurn`, `ScansInTurn`, `ForwardOnly` from `SerialInv`: without overlap a
  request is alone and what it has seen *is* current. A payment applied anew ends a
  lap and begins the next. `TablesAgree` is
  stated with `Count`, the number of rows of a status among the first n, since
  the logs and the history are compared row for row; `CountAppended` says what
  one more row does to a count, `CommitAgrees` and `WebhookPaidAgrees` that every
  transaction appends to the tables in step.
- **RowLocks_proofs**: `DeadlockNeedsScan`, `HistoryInOrder` and `ImplementsAtomic`
  for any finite number of transactions. `IInv` says that the locks of a row are those of
  statements executed (`HeldSound`, `HeldComplete`), that two owners never hold
  conflicting ones (`Exclusive`), that a queue is a chain (`Queues`), and that of
  the transactions with a history row only the last may still run (`Stamps`: two
  would both hold the shipment for update). No
  circle is without a scan: of its members that wait for the last row in the
  order payment, shipment, detail take one with a minimal queue (the subsets of a
  finite set are well-founded); who blocks it holds that row, waits for the same
  row, and has its strongest lock already. With one scan that waits only for held
  locks, whoever waits for the scan shows that it holds its log's lock, and then
  nobody it could wait for holds the shipment. `Atomicity` refines
  `AtomicTransactions`: `StillUnpaid` says that what a webhook's first statement
  found is so until it ends, since it keeps the payment locked, and `Settled` that
  the status is that of the newest committed history row (a PENDING webhook adds
  none and moves neither). Two theorems carry what is
  safety in `OneGetsThrough`: `NobodyIsStuck`, since whoever blocks a transaction
  runs or waits itself (`BlockedByActive`), and transactions that all wait contain
  a smallest circle, which the database sees (`CircleInside`); and
  `SomebodyCommits`, since breaking a circle leaves another of its transactions
  (`Moving`). What is used of the programs is in `ProgramShape`, `ScanShape`, `OrderedShape` and `WebhookShape`
  alone.
- **Staff_proofs**: `TypeOK`, `RoleMatchesType`, `NoGhostBranch` from `IInv`, whose
  `Shape` says what a request holds at each step; the action properties
  `OwnBranchOnly`, `RaisesNobody`, `PermittedWrites` from `Serial`: without overlap
  role, permissions, target and own post are still what was read (`Fresh`).
- **Sessions_proofs**: type correctness and `SessionsFollowPassword`: what a request
  carries has been issued (`Given`), there is no password before its user
  (`UserFirst`), and without overlap it carries the present one (`Serial`).
  `OneTokenPerSession` from `ChainInv`: between the insert and the revocation a
  session does have two valid tokens, and both are in the hand of the request
  that rotates (`OneChain`). `NoFalseAlarm` from `CalmInv`: a cookie that is
  revoked belongs to a browser whose answer is on its way (`CookiesFresh`), and a
  new token is in no cookie before it is answered (`Fresh`).
- **Avatar_proofs**: `AvatarOnDisk` for any number of users and of overlapping, failing
  and dying updates, whatever employee forms write. A file is named by one request
  (`Named`), a file about to be written into a row is on disk and nobody else's
  (`Owned`), a file no form has pasted is named by one row at most (`Apart`), and
  what a request that has written the row is going to delete is in no row unless
  it was pasted (`Replaced`). `NoLitter` from `LitterInv`: while the requests of each
  user come one at a time (`Serial`), every file on disk is an avatar, was
  displaced by a form, or is in the hand of a request that will delete it (`Kept`,
  `Tidy`).
- **AddressBook_proofs**: `CoordinatesMatch`, as every snapshot and every request
  carries a matching pair (`Carried`). `PhotoOnDisk`, `NoLitter` and
  `PatchKeepsTheRest` from `LoneInv`: what a lone request has read is the row
  (`Current`), and what it may delete is not the row's (`InHand`).
- **Seeders_proofs**: type correctness, `CrashIsHealed` and `OnlyAdds` for files of
  every size, any number of runs, crashes and changes in between. A complete run
  ends with every file in its table because of `HealInv`: the files before the
  current one are in the tables (`Progress`), the entries of the current one before
  the present one too, as a loop has left them (`Within`). That needs what any run
  leaves behind, dead or not: roles and permissions were written all or none,
  since `createMany` is one statement (`AllOrNone`), every other row is one of a
  file until the application changes something (`OfFiles`), and what `rolesSeed` finds missing is the whole file or nothing
  (`MissingAll`, `MissingNone`: a file has one increasing enumeration,
  `OnlyOneOrder`, by the pigeonhole at the least index where two would differ). `OnlyAdds` follows
  script by script from the types (`ScriptsAdd`).
- **Shipments_proofs**, price: type correctness, `NeverCheaper`, `FasterCostsMore`,
  `BegunUnits`, `AddsUp` for all distances and weights, from lemmas about rounding up
  and the tiers.

**Only model-checked**: the liveness properties `ExpiryHappens`, `JobSettles`,
`PaidIsHonoured` and `OneGetsThrough`, since fairness and ENABLED are beyond the
prover; what is safety in them is proved (above). Every other property that holds
in a run is a theorem.

## Not modelled

History and tracking queries only read. Sending emails is I/O: which email is
queued when is in Payment. HTTP validation, CSRF and configuration concern each
request alone. The schema and its migrations are declarations; their constraints
appear where they decide. QR codes, PDFs and
geocoding appear as the failures they cause. Branch names and addresses, user
names and emails are data no modelled decision reads; that
an email is free is decided by a unique index. Files of courier photos may be
orphaned, as the code says, and are left out.

## Plan

Done, in this order: Payment, PaymentLedger, ShipmentCost, Delivery, Avatar,
AddressBook, Sessions, Staff, with their proofs; the payment behind the couriers
in Delivery, and the employee form in Avatar; RowLocks and AtomicTransactions; Seeders; the proofs of both,
and the safety that the liveness properties rest on. Open:

1. Delivery composed with Staff: `Assign` is Staff's `UpdateEmployee`, removals
   included.
2. Sending of emails with Bull's attempts, should a text of the repository promise
   something about it.
