---------------------------- MODULE Staff_proofs ----------------------------
(***************************************************************************)
(* Proofs that the role of an account goes with the type of its post and   *)
(* that no post is at a branch that is gone, however requests overlap, and *)
(* that as long as none do, admin-branches keep to their branch and to     *)
(* couriers and no request writes without the permission at that moment.   *)
(* The latter need that a request in flight alone has read what is still   *)
(* so: the role, the permissions, the post it is about and its own.        *)
(***************************************************************************)
EXTENDS Staff, TLAPS

\* What the fields of a request hold at each of its steps.
Sound(q) ==
  /\ q.pc = "idle" => q = Idle
  /\ q.pc # "idle" => q.user \in Users
  /\ q.pc \in {"idle", "named", "admitted"} => q.target = NoUser
  /\ q.pc = "found" => q.op \in {"employee.update", "employee.delete"}
  /\ q.pc \in {"checked", "valid"} => q.op \in EmployeeOps
  /\ q.pc \in {"found", "checked", "valid"} =>
       IF q.op = "employee.create" THEN q.target = NoUser ELSE q.target \in Users
  /\ q.pc \in {"checked", "valid"} /\ q.op = "employee.create" =>
       q.type \in Types /\ q.branch \in Branches

Shape == \A r \in Requests : Sound(request[r])

\* The limits of an admin-branch, as a check made now would find them.
Limits(q) ==
  /\ post[q.user] # NoPost
  /\ q.target # NoUser => q.home = post[q.user].branch
  /\ q.type \in {"none", "courier"}
  /\ q.branch \in {NoBranch, post[q.user].branch}

\* What a request has read is still so.
Fresh(q) ==
  /\ q.pc # "idle" => account[q.user] = q.role
  /\ q.pc \notin {"idle", "named"} => q.op \in grants[q.role]
  /\ q.target # NoUser => post[q.target] # NoPost /\ post[q.target].branch = q.home
  /\ q.pc \in {"checked", "valid"} /\ q.role = "admin-branch" => Limits(q)

Serial == ~overlapped =>
  /\ \A r, o \in Requests : Active(r) /\ Active(o) => r = o
  /\ \A r \in Requests : Fresh(request[r])

IInv == TypeOK /\ Shape /\ Serial /\ RoleMatchesType /\ NoGhostBranch

\* The types of the rows alone.
RowsOK ==
  /\ account \in [Users -> Roles]
  /\ post \in [Users -> Posts \cup {NoPost}]
  /\ branches \subseteq used /\ used \subseteq Branches
  /\ grants \in [RoleKeys -> SUBSET Ops]

\* The unused request.
LEMMA IdleRequest ==
  /\ Idle \in RequestStates /\ Idle.pc = "idle" /\ Idle.target = NoUser
  /\ Sound(Idle) /\ Fresh(Idle)
<1>1. /\ Idle \in RequestStates /\ Idle.pc = "idle" /\ Idle.target = NoUser
  BY DEF Idle, RequestStates, Ops, EmployeeOps, RoleKeys, Types
<1>2. Sound(Idle)
  BY <1>1 DEF Sound
<1>3. Fresh(Idle)
  BY <1>1 DEF Fresh
<1> QED BY <1>1, <1>2, <1>3

\* No post is told from a post by its branch.
LEMMA NoPostOK ==
  /\ NoPost.branch = NoBranch
  /\ \A p \in Posts : p # NoPost /\ p.branch \in Branches /\ p.type \in Types
  /\ \A b \in Branches, t \in Types : [branch |-> b, type |-> t] \in Posts
  /\ \A p \in Posts : Places(p) = {p.branch}
  /\ Places(NoPost) = {}
BY StaffAssumption DEF NoPost, Posts, Places

\* The role that goes with a type.
LEMMA RoleForOK ==
  ASSUME NEW old \in Roles, NEW type \in Types \cup {"none"}
  PROVE  /\ RoleFor(old, type) \in Roles
         /\ type = "none" => RoleFor(old, type) = old
         /\ type # "none" => RoleFor(old, type) = ROLE_KEY_BY_EMPLOYEE_TYPE[type]
         /\ type = "courier" => RoleFor(old, type) = "courier"
BY DEF RoleFor, ROLE_KEY_BY_EMPLOYEE_TYPE, Types, Roles, RoleKeys

\* Every behaviour starts in the invariant.
LEMMA InitOK == ASSUME Init PROVE IInv
<1>1. request \in [Requests -> RequestStates] /\ \A r \in Requests : request[r] = Idle
  BY IdleRequest DEF Init
<1>2. SeedGrants \in [RoleKeys -> SUBSET Ops]
  BY DEF SeedGrants, Ops, RoleKeys
<1>3. /\ account \in [Users -> Roles]
      /\ post \in [Users -> Posts \cup {NoPost}]
      /\ branches \subseteq Branches
      /\ served \in 0 .. MaxServed
  BY StaffAssumption DEF Init
<1>4. TypeOK
  BY <1>1, <1>2, <1>3 DEF Init, TypeOK
<1>5. Shape
  BY <1>1, IdleRequest DEF Shape
<1>6. Serial
  BY <1>1, IdleRequest DEF Serial, Active
<1>7. RoleMatchesType /\ NoGhostBranch
  BY StaffAssumption DEF Init, RoleMatchesType, NoGhostBranch
<1> QED BY <1>4, <1>5, <1>6, <1>7 DEF IInv

\* A request becomes q and nothing else changes but the count and the history.
LEMMA RequestMoves ==
  ASSUME IInv, NEW r \in Requests, NEW q \in RequestStates,
         request' = [request EXCEPT ![r] = q], UNCHANGED rowVars,
         served' \in 0 .. MaxServed, overlapped' \in BOOLEAN,
         Sound(q),
         ~overlapped' => /\ ~overlapped /\ Fresh(q)
                         /\ \A o \in Requests \ {r} : ~Active(o)
  PROVE  IInv'
<1>1. /\ request' \in [Requests -> RequestStates] /\ request'[r] = q
      /\ \A o \in Requests \ {r} : request'[o] = request[o]
  BY DEF IInv, TypeOK
<1>2. TypeOK'
  BY <1>1 DEF IInv, TypeOK, rowVars
<1>3. Shape'
  BY <1>1 DEF IInv, Shape, Sound
<1>4. Serial'
  <2>1. ASSUME ~overlapped', NEW o \in Requests PROVE Fresh(request[o])
    BY <2>1 DEF IInv, Serial
  <2>2. \A p \in RequestStates : Fresh(p) => Fresh(p)'
    BY DEF Fresh, Limits, rowVars
  <2> QED BY <1>1, <2>1, <2>2 DEF IInv, TypeOK, Serial, Active, Fresh, Limits, rowVars
<1>5. RoleMatchesType' /\ NoGhostBranch'
  BY DEF IInv, RoleMatchesType, NoGhostBranch, rowVars
<1> QED BY <1>2, <1>3, <1>4, <1>5 DEF IInv

\* A request in flight reads something and goes on.
LEMMA RequestReads ==
  ASSUME IInv, NEW r \in Requests, request[r].pc # "idle", NEW q \in RequestStates,
         Reads(r, q), Sound(q), ~overlapped => Fresh(q)
  PROVE  IInv'
<1>1. Active(r)
  BY IdleRequest DEF Active
<1>2. ~overlapped => \A o \in Requests \ {r} : ~Active(o)
  BY <1>1 DEF IInv, Serial
<1> QED BY <1>2, RequestMoves DEF Reads, IInv, TypeOK

\* A request ends with rows that are as they should be; alone, it leaves none.
LEMMA RequestEnds ==
  ASSUME IInv, NEW r \in Requests, Active(r), Finish(r),
         RowsOK', RoleMatchesType', NoGhostBranch'
  PROVE  IInv'
<1>1. /\ request' \in [Requests -> RequestStates] /\ request'[r] = Idle
      /\ \A o \in Requests \ {r} : request'[o] = request[o]
  BY IdleRequest DEF IInv, TypeOK, Finish
<1>2. TypeOK'
  BY <1>1 DEF IInv, TypeOK, RowsOK, Finish
<1>3. Shape'
  BY <1>1, IdleRequest DEF IInv, Shape, Sound
<1>4. Serial'
  <2>1. ASSUME ~overlapped', NEW o \in Requests PROVE request'[o] = Idle
    BY <1>1, <2>1 DEF IInv, Serial, Active, Finish
  <2>2. Fresh(Idle)'
    BY IdleRequest DEF Fresh, Idle
  <2> QED BY <2>1, <2>2 DEF Serial, Active, Fresh, Limits
<1> QED BY <1>2, <1>3, <1>4 DEF IInv

---------------------------------------------------------------------------
(* The steps before the write                                              *)

\* Fields of a request in flight.
LEMMA RequestOK ==
  ASSUME IInv, NEW r \in Requests
  PROVE  /\ request[r] \in RequestStates /\ Sound(request[r])
         /\ Active(r) <=> request[r].pc # "idle"
         /\ ~overlapped => Fresh(request[r])
BY IdleRequest DEF IInv, TypeOK, Shape, Serial, Sound, Active

LEMMA AuthenticateOK ==
  ASSUME IInv, NEW r \in Requests, NEW u \in Users, NEW op \in Ops, Authenticate(r, u, op)
  PROVE  IInv'
<1> DEFINE q == [Idle EXCEPT !.pc = "named", !.op = op, !.user = u, !.role = account[u]]
<1>1. account[u] \in RoleKeys
  BY DEF Authenticate, IInv, TypeOK, Roles
<1>2. /\ q \in RequestStates /\ q.pc = "named" /\ q.op = op /\ q.user = u
      /\ q.role = account[u] /\ q.target = NoUser
  BY <1>1 DEF Idle, RequestStates, Types
<1>3. Sound(q) /\ Fresh(q)
  BY <1>2 DEF Sound, Fresh
<1>4. served' \in 0 .. MaxServed
  BY StaffAssumption DEF Authenticate, IInv, TypeOK
<1>5. overlapped' = (overlapped \/ \E o \in Requests : Active(o))
  BY DEF Authenticate
<1>6. overlapped' \in BOOLEAN /\ (~overlapped' => ~overlapped /\ \A o \in Requests : ~Active(o))
  BY <1>5
<1>7. request' = [request EXCEPT ![r] = q] /\ UNCHANGED rowVars
  BY DEF Authenticate
<1> HIDE DEF q
<1> QED BY <1>2, <1>3, <1>4, <1>6, <1>7, RequestMoves

LEMMA AdmitOK == ASSUME IInv, NEW r \in Requests, Admit(r) PROVE IInv'
<1> DEFINE q == [request[r] EXCEPT !.pc = "admitted"]
<1>1. /\ q \in RequestStates /\ q.pc = "admitted" /\ q.op = request[r].op
      /\ q.user = request[r].user /\ q.role = request[r].role /\ q.target = request[r].target
  BY RequestOK DEF RequestStates
<1>2. Sound(q)
  BY <1>1, RequestOK DEF Sound, Admit
<1>3. ~overlapped => Fresh(q)
  BY <1>1, RequestOK DEF Fresh, Admit, Permitted
<1> HIDE DEF q
<1>4. Reads(r, q) /\ request[r].pc # "idle"
  BY DEF Admit, q
<1> QED BY <1>1, <1>2, <1>3, <1>4, RequestReads

LEMMA FindOK ==
  ASSUME IInv, NEW r \in Requests, NEW t \in Users, Find(r, t) PROVE IInv'
<1> DEFINE q == [request[r] EXCEPT !.pc = "found", !.target = t, !.home = post[t].branch]
<1>1. post[t].branch \in Branches /\ post[t] # NoPost
  BY NoPostOK DEF Find, IInv, TypeOK
<1>2. /\ q \in RequestStates /\ q.pc = "found" /\ q.op = request[r].op
      /\ q.user = request[r].user /\ q.role = request[r].role
      /\ q.target = t /\ q.home = post[t].branch
  BY <1>1, RequestOK DEF RequestStates
<1>3. request[r].pc = "admitted" /\ q.op \in {"employee.update", "employee.delete"}
  BY <1>2 DEF Find, Serving
<1>4. Sound(q)
  BY <1>2, <1>3, RequestOK DEF Sound
<1>5. ~overlapped => Fresh(q)
  BY <1>1, <1>2, <1>3, RequestOK DEF Fresh
<1> HIDE DEF q
<1>6. Reads(r, q) /\ request[r].pc # "idle"
  BY <1>3 DEF Find, q
<1> QED BY <1>2, <1>4, <1>5, <1>6, RequestReads

LEMMA CheckOK == ASSUME IInv, NEW r \in Requests, Check(r) PROVE IInv'
<1>1. PICK body \in Bodies(request[r].op) :
        /\ request[r].role = "admin-branch" => OwnBranchAllows(r, body[1], body[2])
        /\ Reads(r, [request[r] EXCEPT !.type = body[1], !.branch = body[2],
                       !.pc = IF body[2] = NoBranch THEN "valid" ELSE "checked"])
  BY DEF Check
<1> DEFINE q == [request[r] EXCEPT !.type = body[1], !.branch = body[2],
                   !.pc = IF body[2] = NoBranch THEN "valid" ELSE "checked"]
<1>2. \/ request[r].pc = "admitted" /\ request[r].op = "employee.create"
      \/ request[r].pc = "found" /\ request[r].op \in {"employee.update", "employee.delete"}
  BY DEF Check, Serving
<1>3. /\ body[1] \in Types \cup {"none"} /\ body[2] \in Branches \cup {NoBranch}
      /\ request[r].op = "employee.create" => body[1] \in Types /\ body[2] \in Branches
  BY <1>2 DEF Bodies
<1>4. /\ q \in RequestStates /\ q.pc \in {"checked", "valid"} /\ q.op = request[r].op
      /\ q.user = request[r].user /\ q.role = request[r].role
      /\ q.target = request[r].target /\ q.home = request[r].home
      /\ q.type = body[1] /\ q.branch = body[2]
  BY <1>3, RequestOK DEF RequestStates
<1> HIDE DEF q
<1>5. Sound(q)
  BY <1>2, <1>3, <1>4, RequestOK DEF Sound, EmployeeOps
<1>6. ~overlapped => Fresh(q)
  BY <1>1, <1>2, <1>4, RequestOK DEF Fresh, Limits, OwnBranchAllows
<1>7. Reads(r, q) /\ request[r].pc # "idle"
  BY <1>1, <1>2 DEF q
<1> QED BY <1>4, <1>5, <1>6, <1>7, RequestReads

LEMMA ValidateOK == ASSUME IInv, NEW r \in Requests, Validate(r) PROVE IInv'
<1> DEFINE q == [request[r] EXCEPT !.pc = "valid"]
<1>1. /\ q \in RequestStates /\ q.pc = "valid" /\ q.op = request[r].op
      /\ q.user = request[r].user /\ q.role = request[r].role
      /\ q.target = request[r].target /\ q.home = request[r].home
      /\ q.type = request[r].type /\ q.branch = request[r].branch
  BY RequestOK DEF RequestStates
<1> HIDE DEF q
<1>2. Sound(q)
  BY <1>1, RequestOK DEF Sound, Validate
<1>3. ~overlapped => Fresh(q)
  BY <1>1, RequestOK DEF Fresh, Limits, Validate
<1>4. Reads(r, q) /\ request[r].pc # "idle"
  BY DEF Validate, q
<1> QED BY <1>1, <1>2, <1>3, <1>4, RequestReads

---------------------------------------------------------------------------
(* The writes                                                              *)

\* What the rows are before a write.
LEMMA RowsBefore ==
  ASSUME IInv
  PROVE  RowsOK /\ RoleMatchesType /\ NoGhostBranch
BY DEF IInv, TypeOK, RowsOK

\* Who has no account has no post.
LEMMA NoneHasNoPost ==
  ASSUME IInv, NEW u \in Users, account[u] = "none"
  PROVE  post[u] = NoPost
BY NoPostOK DEF IInv, TypeOK, RoleMatchesType, ROLE_KEY_BY_EMPLOYEE_TYPE, Types

LEMMA CreateEmployeeOK ==
  ASSUME IInv, NEW r \in Requests, CreateEmployee(r) PROVE IInv'
<1>1. PICK u \in Users :
        /\ account[u] = "none"
        /\ account' = [account EXCEPT ![u] = RoleFor("none", request[r].type)]
        /\ post' = [post EXCEPT ![u] = [branch |-> request[r].branch, type |-> request[r].type]]
  BY DEF CreateEmployee
<1>2. /\ request[r].type \in Types /\ request[r].branch \in Branches
      /\ request[r].branch \in branches /\ Active(r)
  BY RequestOK, StaffAssumption DEF CreateEmployee, Serving, Sound, KeepsForeignKey
<1>3. /\ RoleFor("none", request[r].type) \in Roles
      /\ RoleFor("none", request[r].type) = ROLE_KEY_BY_EMPLOYEE_TYPE[request[r].type]
  BY <1>2, RoleForOK DEF Roles, Types
<1>4. [branch |-> request[r].branch, type |-> request[r].type] \in Posts
  BY <1>2 DEF Posts
<1>5. RowsOK'
  BY <1>1, <1>3, <1>4, RowsBefore DEF RowsOK, CreateEmployee
<1>6. RoleMatchesType'
  BY <1>1, <1>3, RowsBefore DEF RowsOK, RoleMatchesType
<1>7. NoGhostBranch'
  BY <1>1, <1>2, RowsBefore DEF RowsOK, NoGhostBranch, CreateEmployee
<1> QED BY <1>2, <1>5, <1>6, <1>7, RequestEnds DEF CreateEmployee

LEMMA UpdateEmployeeOK ==
  ASSUME IInv, NEW r \in Requests, UpdateEmployee(r) PROVE IInv'
<1> DEFINE t == request[r].target
           q == request[r]
           type == IF q.type = "none" THEN post[t].type ELSE q.type
           branch == IF q.branch = NoBranch THEN post[t].branch ELSE q.branch
<1>1. /\ t \in Users /\ Active(r) /\ q.type \in Types \cup {"none"}
      /\ q.branch \in Branches \cup {NoBranch}
  BY RequestOK DEF UpdateEmployee, Serving, Sound, RequestStates
<1>2. /\ post[t] # NoPost /\ post[t] \in Posts
      /\ account[t] = ROLE_KEY_BY_EMPLOYEE_TYPE[post[t].type]
      /\ post[t].branch \in branches /\ account[t] \in Roles
  BY <1>1, RowsBefore DEF UpdateEmployee, RowsOK, RoleMatchesType, NoGhostBranch
<1>3. post[t].type \in Types /\ post[t].branch \in Branches
  BY <1>2, NoPostOK
<1>4. /\ account' = [account EXCEPT ![t] = RoleFor(account[t], q.type)]
      /\ post' = [post EXCEPT ![t] = [branch |-> branch, type |-> type]]
  BY DEF UpdateEmployee
<1>5. /\ type \in Types /\ branch \in Branches /\ branch \in branches
      /\ RoleFor(account[t], q.type) \in Roles
      /\ RoleFor(account[t], q.type) = ROLE_KEY_BY_EMPLOYEE_TYPE[type]
  BY <1>1, <1>2, <1>3, RoleForOK DEF UpdateEmployee, KeepsForeignKey
<1>6. UNCHANGED <<branches, used, grants>> /\ Finish(r)
  BY DEF UpdateEmployee
<1>7. [branch |-> branch, type |-> type] \in Posts
  BY <1>5, NoPostOK
<1> HIDE DEF type, branch, t, q
<1>8. RowsOK'
  BY <1>1, <1>4, <1>5, <1>6, <1>7, RowsBefore DEF RowsOK
<1>9. RoleMatchesType'
  BY <1>1, <1>4, <1>5, RowsBefore DEF RowsOK, RoleMatchesType
<1>10. NoGhostBranch'
  BY <1>1, <1>4, <1>5, <1>6, RowsBefore DEF RowsOK, NoGhostBranch
<1> QED BY <1>1, <1>8, <1>9, <1>10, <1>6, RequestEnds

LEMMA RemoveEmployeeOK ==
  ASSUME IInv, NEW r \in Requests, RemoveEmployee(r) PROVE IInv'
<1>1. Active(r)
  BY RequestOK DEF RemoveEmployee, Serving
<1>2. RowsOK'
  BY RowsBefore DEF RowsOK, RemoveEmployee
<1>3. RoleMatchesType' /\ NoGhostBranch'
  BY RowsBefore DEF RowsOK, RoleMatchesType, NoGhostBranch, RemoveEmployee
<1> QED BY <1>1, <1>2, <1>3, RequestEnds DEF RemoveEmployee

LEMMA OtherWritesOK ==
  ASSUME IInv, NEW r \in Requests,
         CreateBranch(r) \/ RemoveBranch(r) \/ UpdateRole(r) \/ Refuse(r)
  PROVE  IInv'
<1>1. Active(r) /\ Finish(r) /\ UNCHANGED <<account, post>>
  BY RequestOK DEF CreateBranch, RemoveBranch, UpdateRole, Refuse, Serving, rowVars
<1>2. RoleMatchesType'
  BY <1>1, RowsBefore DEF RoleMatchesType
<1>3. CASE CreateBranch(r)
  BY <1>1, <1>2, <1>3, RowsBefore, RequestEnds DEF CreateBranch, RowsOK, NoGhostBranch
<1>4. CASE RemoveBranch(r)
  BY <1>1, <1>2, <1>4, RowsBefore, RequestEnds DEF RemoveBranch, RowsOK, NoGhostBranch
<1>5. CASE UpdateRole(r)
  <2>1. PICK ask \in Asks : grants' = [grants EXCEPT ![ask.role] = ask.keys]
    BY <1>5 DEF UpdateRole
  <2>2. ask.keys \in SUBSET Ops
    BY StaffAssumption
  <2>3. RowsOK'
    BY <1>5, <2>1, <2>2, RowsBefore DEF UpdateRole, RowsOK
  <2> QED BY <1>1, <1>2, <1>5, <2>3, RowsBefore, RequestEnds DEF UpdateRole, NoGhostBranch
<1>6. CASE Refuse(r)
  BY <1>1, <1>2, <1>6, RowsBefore, RequestEnds DEF Refuse, rowVars, RowsOK, NoGhostBranch
<1> QED BY <1>3, <1>4, <1>5, <1>6

\* Every step keeps the invariant.
LEMMA StepOK == ASSUME IInv, [Next]_vars PROVE IInv'
<1>1. CASE UNCHANGED vars
  <2>1. UNCHANGED rowVars
    BY <1>1 DEF vars, rowVars
  <2> QED BY <1>1, <2>1 DEF vars, IInv, TypeOK, Shape, Serial, Active, Fresh, Limits,
                    RoleMatchesType, NoGhostBranch
<1>2. ASSUME NEW r \in Requests, NEW u \in Users, NEW op \in Ops, Authenticate(r, u, op)
      PROVE  IInv'
  BY <1>2, AuthenticateOK
<1>3. ASSUME NEW r \in Requests, NEW t \in Users, Find(r, t) PROVE IInv'
  BY <1>3, FindOK
<1>4. ASSUME NEW r \in Requests,
             Admit(r) \/ Check(r) \/ Validate(r) \/ Write(r) \/ Refuse(r)
      PROVE  IInv'
  BY <1>4, AdmitOK, CheckOK, ValidateOK, CreateEmployeeOK, UpdateEmployeeOK,
     RemoveEmployeeOK, OtherWritesOK DEF Write
<1> QED BY <1>1, <1>2, <1>3, <1>4 DEF Next

LEMMA Invariance == Spec => []IInv
<1>1. Init => IInv
  BY InitOK
<1>2. IInv /\ [Next]_vars => IInv'
  BY StepOK
<1> QED BY <1>1, <1>2, PTL DEF Spec

\* The type invariant holds whatever the users, branches and updates of roles.
THEOREM TypeCorrect == Spec => []TypeOK
<1>1. IInv => TypeOK
  BY DEF IInv
<1> QED BY <1>1, Invariance, PTL

\* The role of an account always goes with the type of its post, however many
\* requests overlap.
THEOREM RoleGoesWithType == Spec => []RoleMatchesType
<1>1. IInv => RoleMatchesType
  BY DEF IInv
<1> QED BY <1>1, Invariance, PTL

\* No post is ever at a branch that is gone, however many requests overlap.
THEOREM NoPostAtGhost == Spec => []NoGhostBranch
<1>1. IInv => NoGhostBranch
  BY DEF IInv
<1> QED BY <1>1, Invariance, PTL

---------------------------------------------------------------------------
(* What a request that is alone may write                                  *)

\* Only writes change rows.
LEMMA OnlyWrites ==
  ASSUME [Next]_vars, rowVars' # rowVars
  PROVE  \E r \in Requests : Write(r)
BY DEF Next, vars, rowVars, Authenticate, Admit, Find, Check, Validate, Refuse, Reads

\* The request a step ends is the one that writes, if there is no other.
LEMMA WriterAlone ==
  ASSUME IInv, NEW r \in Requests, Write(r), ~overlapped, NEW p \in Requests, Ends(p)
  PROVE  p = r
<1>1. Active(r)
  BY RequestOK DEF Write, CreateEmployee, UpdateEmployee, RemoveEmployee, CreateBranch,
     RemoveBranch, UpdateRole, Serving
<1> QED BY <1>1 DEF IInv, Serial, Ends

\* It has the permission.
LEMMA WriterPermitted ==
  ASSUME IInv, NEW r \in Requests, Write(r), ~overlapped
  PROVE  request[r].op \in grants[account[request[r].user]]
<1>1. request[r].pc \in {"admitted", "valid"}
  BY DEF Write, CreateEmployee, UpdateEmployee, RemoveEmployee, CreateBranch,
     RemoveBranch, UpdateRole, Serving
<1> QED BY <1>1, RequestOK DEF Fresh

\* What an admin-branch writes to employees is within his limits, and its target is
\* at his own branch.
LEMMA WriterLimited ==
  ASSUME IInv, NEW r \in Requests, ~overlapped, request[r].pc = "valid",
         account[request[r].user] = "admin-branch"
  PROVE  /\ Limits(request[r])
         /\ post[request[r].user] \in Posts
         /\ post[request[r].user].branch # NoBranch
         /\ Places(post[request[r].user]) = {post[request[r].user].branch}
         /\ request[r].op # "employee.create" =>
              /\ request[r].target \in Users
              /\ post[request[r].target] \in Posts
              /\ post[request[r].target].branch = post[request[r].user].branch
<1>1. request[r].user \in Users /\ Limits(request[r])
  BY RequestOK DEF Fresh, Sound
<1>2. post[request[r].user] \in Posts
  BY <1>1 DEF Limits, IInv, TypeOK
<1>3. ASSUME request[r].op # "employee.create"
      PROVE  /\ request[r].target \in Users /\ request[r].target # NoUser
             /\ post[request[r].target] # NoPost
             /\ post[request[r].target].branch = request[r].home
  BY <1>3, RequestOK, StaffAssumption DEF Fresh, Sound
<1> QED BY <1>1, <1>2, <1>3, NoPostOK, StaffAssumption DEF Limits, IInv, TypeOK

LEMMA OwnBranchStep ==
  ASSUME IInv, [Next]_vars, NEW p \in Requests, NEW u \in Users,
         ~overlapped, ByBranchAdmin(p), post'[u] # post[u]
  PROVE  Places(post[u]) \cup Places(post'[u]) \subseteq Places(post[request[p].user])
<1>1. PICK r \in Requests : Write(r)
  BY OnlyWrites DEF rowVars
<1>2. p = r /\ account[request[r].user] = "admin-branch"
  BY <1>1, WriterAlone DEF ByBranchAdmin
<1>3. CASE CreateEmployee(r)
  <2>1. request[r].pc = "valid" /\ request[r].branch \in Branches /\ request[r].type \in Types
    BY <1>3, RequestOK DEF CreateEmployee, Serving, Sound
  <2>2. request[r].branch = post[request[r].user].branch
    BY <1>2, <2>1, WriterLimited, StaffAssumption DEF Limits
  <2>3. /\ post[u] = NoPost
        /\ post'[u] = [branch |-> request[r].branch, type |-> request[r].type]
    BY <1>3, NoneHasNoPost DEF CreateEmployee, IInv, TypeOK
  <2>4. Places(post'[u]) = {request[r].branch}
    BY <2>1, <2>3, NoPostOK
  <2> QED BY <1>2, <2>1, <2>2, <2>3, <2>4, WriterLimited, NoPostOK
<1>4. CASE UpdateEmployee(r)
  <2> DEFINE t == request[r].target
             own == post[request[r].user].branch
             branch == IF request[r].branch = NoBranch THEN post[t].branch ELSE request[r].branch
             type == IF request[r].type = "none" THEN post[t].type ELSE request[r].type
  <2>1. request[r].pc = "valid" /\ request[r].op # "employee.create"
    BY <1>4 DEF UpdateEmployee, Serving
  <2>2. /\ t \in Users /\ post[t] \in Posts /\ post[t].branch = own
        /\ request[r].branch \in {NoBranch, own}
    BY <1>2, <2>1, WriterLimited DEF Limits
  <2>3. branch = own /\ own \in Branches /\ type \in Types
    BY <2>2, NoPostOK, RequestOK DEF RequestStates
  <2>4. post' = [post EXCEPT ![t] = [branch |-> branch, type |-> type]]
    BY <1>4 DEF UpdateEmployee
  <2> HIDE DEF branch, type
  <2>5. u = t /\ post'[u] = [branch |-> branch, type |-> type]
    BY <2>2, <2>4 DEF IInv, TypeOK
  <2>6. Places(post'[u]) = {own} /\ Places(post[u]) = {own}
    BY <2>2, <2>3, <2>5, NoPostOK
  <2> QED BY <1>2, <2>1, <2>6, WriterLimited
<1>5. CASE RemoveEmployee(r)
  <2>1. request[r].pc = "valid" /\ request[r].op # "employee.create"
    BY <1>5 DEF RemoveEmployee, Serving
  <2>2. u = request[r].target /\ post'[u] = NoPost
    BY <1>5 DEF RemoveEmployee, IInv, TypeOK
  <2>3. Places(post'[u]) = {} /\ Places(post[u]) = {post[u].branch}
    BY <1>2, <2>1, <2>2, NoPostOK, WriterLimited
  <2> QED BY <1>2, <2>1, <2>2, <2>3, WriterLimited
<1>6. CASE CreateBranch(r) \/ RemoveBranch(r) \/ UpdateRole(r)
  BY <1>6 DEF CreateBranch, RemoveBranch, UpdateRole
<1> QED BY <1>1, <1>3, <1>4, <1>5, <1>6 DEF Write

LEMMA RaisesNobodyStep ==
  ASSUME IInv, [Next]_vars, NEW p \in Requests, NEW u \in Users,
         ~overlapped, ByBranchAdmin(p), account'[u] # account[u]
  PROVE  account'[u] = "courier"
<1>1. PICK r \in Requests : Write(r)
  BY OnlyWrites DEF rowVars
<1>2. p = r /\ account[request[r].user] = "admin-branch"
  BY <1>1, WriterAlone DEF ByBranchAdmin
<1>3. CASE CreateEmployee(r) \/ UpdateEmployee(r)
  <2>1. request[r].pc = "valid"
    BY <1>3 DEF CreateEmployee, UpdateEmployee, Serving
  <2>2. request[r].type \in {"none", "courier"}
    BY <1>2, <2>1, WriterLimited DEF Limits
  <2>3. \/ account'[u] = RoleFor(account[u], request[r].type)
        \/ account'[u] = RoleFor("none", request[r].type) /\ request[r].type # "none"
    <3>1. CASE CreateEmployee(r)
      <4>1. request[r].type \in Types
        BY <3>1, RequestOK DEF CreateEmployee, Serving, Sound
      <4>2. PICK w \in Users :
              account' = [account EXCEPT ![w] = RoleFor("none", request[r].type)]
        BY <3>1 DEF CreateEmployee
      <4> QED BY <4>1, <4>2 DEF Types, IInv, TypeOK
    <3>2. CASE UpdateEmployee(r)
      BY <3>2 DEF UpdateEmployee, IInv, TypeOK
    <3> QED BY <1>3, <3>1, <3>2
  <2>4. account[u] \in Roles /\ "none" \in Roles /\ request[r].type \in Types \cup {"none"}
    BY <2>2 DEF IInv, TypeOK, Roles, Types
  <2> QED BY <2>2, <2>3, <2>4, RoleForOK
<1>4. CASE RemoveEmployee(r) \/ CreateBranch(r) \/ RemoveBranch(r) \/ UpdateRole(r)
  BY <1>4 DEF RemoveEmployee, CreateBranch, RemoveBranch, UpdateRole
<1> QED BY <1>1, <1>3, <1>4 DEF Write

\* As long as no two requests overlap, an admin-branch moves, hires and removes at his
\* own branch only.
THEOREM BranchAdminsStayHome == Spec => OwnBranchOnly
<1>1. IInv /\ [Next]_vars =>
        [\A r \in Requests, u \in Users :
           ~overlapped /\ ByBranchAdmin(r) /\ post'[u] # post[u] =>
             Places(post[u]) \cup Places(post'[u]) \subseteq Places(post[request[r].user])]_vars
  BY OwnBranchStep
<1> QED BY <1>1, Invariance, PTL DEF Spec, OwnBranchOnly

\* As long as no two requests overlap, an admin-branch makes couriers only.
THEOREM BranchAdminsMakeCouriers == Spec => RaisesNobody
<1>1. IInv /\ [Next]_vars =>
        [\A r \in Requests, u \in Users :
           ~overlapped /\ ByBranchAdmin(r) /\ account'[u] # account[u] =>
             account'[u] = "courier"]_vars
  BY RaisesNobodyStep
<1> QED BY <1>1, Invariance, PTL DEF Spec, RaisesNobody

\* As long as no two requests overlap, what a request writes its user may write then.
THEOREM WritesArePermitted == Spec => PermittedWrites
<1>1. IInv /\ [Next]_vars =>
        [\A r \in Requests :
           ~overlapped /\ Ends(r) /\ rowVars' # rowVars =>
             request[r].op \in grants[account[request[r].user]]]_vars
  BY OnlyWrites, WriterAlone, WriterPermitted
<1> QED BY <1>1, Invariance, PTL DEF Spec, PermittedWrites
=============================================================================
