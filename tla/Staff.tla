------------------------------- MODULE Staff -------------------------------
(***************************************************************************)
(* The employees of the branches and what their roles let them do          *)
(* (EmployeeBranchesService, BranchesService, RolesService, and on the way *)
(* to them JwtStrategy and PermissionGuard).  A request reads the role of  *)
(* its user, then the permissions of that role, then the employee it is    *)
(* about, then where its user is posted himself, then the branch it names, *)
(* each in a query of its own, and writes at the end in one transaction.   *)
(*                                                                         *)
(* Names, emails, passwords and addresses are left out.  A user is created *)
(* with his only EmployeeBranch row, so a row is known by its user; the    *)
(* key of an operation is the permission its route requires.               *)
(***************************************************************************)
EXTENDS Naturals, FiniteSets

CONSTANTS
  Requests,     \* requests being served at the same time
  Users, NoUser,
  Branches, NoBranch,
  SeedRole,     \* the users there are, with their roles
  SeedPost,     \* and their EmployeeBranch rows, as create() makes them
  SeedBranches,
  Asks,         \* the updates of a role: [role, keys]
  MaxServed     \* bound: requests in a behaviour

EmployeeOps == {"employee.create", "employee.update", "employee.delete"}
Ops == EmployeeOps \cup {"branches.create", "branches.delete", "permissions.manage"}
RoleKeys == {"super-admin", "admin-branch", "courier", "customer"}
Types == {"courier", "admin"}

ROLE_KEY_BY_EMPLOYEE_TYPE == [type \in Types |-> IF type = "admin" THEN "admin-branch" ELSE "courier"]

\* Accounts are role keys, "none" before the User row; a post is an
\* EmployeeBranch row, NoPost before it and after its removal.
Roles == RoleKeys \cup {"none"}
NoPost == [branch |-> NoBranch, type |-> "none"]
Posts == [branch : Branches, type : Types]
SeedGrants == [key \in RoleKeys |->
  CASE key = "super-admin" -> Ops [] key = "admin-branch" -> EmployeeOps [] OTHER -> {}]

ASSUME StaffAssumption ==
  /\ NoUser \notin Users /\ NoBranch \notin Branches
  /\ SeedRole \in [Users -> Roles]
  /\ SeedPost \in [Users -> Posts \cup {NoPost}]
  /\ SeedBranches \subseteq Branches
  /\ \A u \in Users : SeedPost[u] # NoPost =>
       /\ SeedPost[u].branch \in SeedBranches
       /\ SeedRole[u] = ROLE_KEY_BY_EMPLOYEE_TYPE[SeedPost[u].type]
  /\ Asks \subseteq [role : RoleKeys, keys : (SUBSET Ops) \ {{}}]
  /\ MaxServed \in Nat

VARIABLES
  account,      \* User.role of each user
  post,         \* his EmployeeBranch row
  branches,     \* the Branch rows
  used,         \* the ids Branch rows have ever had
  grants,       \* the RolePermission rows of each role
  request,      \* what each request is doing
  served,       \* requests so far
  overlapped    \* history, read by no action: two requests have been in flight at once

rowVars == <<account, post, branches, used, grants>>
vars == <<account, post, branches, used, grants, request, served, overlapped>>

\* role is what JwtStrategy read of user, home the branch target was found at,
\* type and branch the body, "none" and NoBranch where it leaves them out.
RequestStates == [pc : {"idle", "named", "admitted", "found", "checked", "valid"},
                  op : Ops, user : Users \cup {NoUser}, role : RoleKeys,
                  target : Users \cup {NoUser}, home : Branches \cup {NoBranch},
                  type : Types \cup {"none"}, branch : Branches \cup {NoBranch}]
Idle == [pc |-> "idle", op |-> "employee.create", user |-> NoUser, role |-> "customer",
         target |-> NoUser, home |-> NoBranch, type |-> "none", branch |-> NoBranch]

Init ==
  /\ account = SeedRole
  /\ post = SeedPost
  /\ branches = SeedBranches /\ used = SeedBranches
  /\ grants = SeedGrants
  /\ request = [r \in Requests |-> Idle]
  /\ served = 0
  /\ overlapped = FALSE

Active(r) == request[r] # Idle
Serving(r, ops, pc) == request[r].pc = pc /\ request[r].op \in ops

Reads(r, new) ==
  /\ request' = [request EXCEPT ![r] = new]
  /\ UNCHANGED <<rowVars, served, overlapped>>
Finish(r) ==
  /\ request' = [request EXCEPT ![r] = Idle]
  /\ UNCHANGED <<served, overlapped>>

---------------------------------------------------------------------------
(* Before the handler                                                      *)

\* JwtStrategy.validate takes the role from the User row, not from the token.
Authenticate(r, u, op) ==
  /\ ~Active(r) /\ served < MaxServed
  /\ account[u] # "none"
  /\ request' = [request EXCEPT ![r] = [Idle EXCEPT !.pc = "named", !.op = op,
                    !.user = u, !.role = account[u]]]
  /\ served' = served + 1
  /\ overlapped' = (overlapped \/ \E q \in Requests : Active(q))
  /\ UNCHANGED rowVars

\* PermissionGuard, from the rows once more: getUserPermissions.
PermittedByCache(op, u) == op \in SeedGrants[account[u]]
Permitted(op, u) == op \in grants[account[u]]

Admit(r) ==
  /\ request[r].pc = "named"
  /\ Permitted(request[r].op, request[r].user)
  /\ Reads(r, [request[r] EXCEPT !.pc = "admitted"])

---------------------------------------------------------------------------
(* create, update and remove of EmployeeBranchesService                    *)

\* findOne
Find(r, t) ==
  /\ Serving(r, {"employee.update", "employee.delete"}, "admitted")
  /\ post[t] # NoPost
  /\ Reads(r, [request[r] EXCEPT !.pc = "found", !.target = t, !.home = post[t].branch])

\* getRequesterOwnBranchId for an admin-branch, and what it limits him to: his own
\* branch, and couriers as far as the body names a type.
OwnBranchAllowsAnyTarget(r, type, branch) ==
  LET own == post[request[r].user] IN
  own # NoPost /\ type \in {"none", "courier"} /\ branch \in {NoBranch, own.branch}
OwnBranchAllowsAnyType(r, type, branch) ==
  LET own == post[request[r].user] IN
  /\ own # NoPost
  /\ request[r].target # NoUser => request[r].home = own.branch
  /\ branch \in {NoBranch, own.branch}
OwnBranchAllows(r, type, branch) ==
  LET own == post[request[r].user] IN
  /\ own # NoPost
  /\ request[r].target # NoUser => request[r].home = own.branch
  /\ type \in {"none", "courier"}
  /\ branch \in {NoBranch, own.branch}

\* The body: complete to create, any part of it to update, none to remove.
Bodies(op) ==
  CASE op = "employee.create" -> Types \X Branches
    [] op = "employee.update" -> (Types \cup {"none"}) \X (Branches \cup {NoBranch})
    [] OTHER -> {<<"none", NoBranch>>}

Check(r) ==
  /\ \/ Serving(r, {"employee.create"}, "admitted")
     \/ Serving(r, {"employee.update", "employee.delete"}, "found")
  /\ \E body \in Bodies(request[r].op) :
       /\ request[r].role = "admin-branch" => OwnBranchAllows(r, body[1], body[2])
       /\ Reads(r, [request[r] EXCEPT !.type = body[1], !.branch = body[2],
                      !.pc = IF body[2] = NoBranch THEN "valid" ELSE "checked"])

\* validateBranchExists
Validate(r) ==
  /\ request[r].pc = "checked"
  /\ request[r].branch \in branches
  /\ Reads(r, [request[r] EXCEPT !.pc = "valid"])

\* resolveRoleIdForType: the role that goes with the type, the old one without.
RoleUnlessKnown(old, type) == IF type = "none" \/ old # "none" THEN old
                              ELSE ROLE_KEY_BY_EMPLOYEE_TYPE[type]
RoleFor(old, type) == IF type = "none" THEN old ELSE ROLE_KEY_BY_EMPLOYEE_TYPE[type]

\* The foreign key of branch_id at the time of the write.
KeepsForeignKeyUnchecked(branch) == TRUE
KeepsForeignKey(branch) == branch = NoBranch \/ branch \in branches

\* The transaction of create: a User with an email of his own, and his post.
CreateEmployee(r) ==
  /\ Serving(r, {"employee.create"}, "valid")
  /\ KeepsForeignKey(request[r].branch)
  /\ \E u \in Users :
       /\ account[u] = "none"
       /\ account' = [account EXCEPT ![u] = RoleFor("none", request[r].type)]
       /\ post' = [post EXCEPT ![u] = [branch |-> request[r].branch, type |-> request[r].type]]
  /\ Finish(r)
  /\ UNCHANGED <<branches, used, grants>>

\* The transaction of update: what the body leaves out stays as it is by then.
UpdateEmployee(r) ==
  LET t == request[r].target IN
  /\ Serving(r, {"employee.update"}, "valid")
  /\ post[t] # NoPost
  /\ KeepsForeignKey(request[r].branch)
  /\ account' = [account EXCEPT ![t] = RoleFor(account[t], request[r].type)]
  /\ post' = [post EXCEPT ![t] =
       [branch |-> IF request[r].branch = NoBranch THEN post[t].branch ELSE request[r].branch,
        type |-> IF request[r].type = "none" THEN post[t].type ELSE request[r].type]]
  /\ Finish(r)
  /\ UNCHANGED <<branches, used, grants>>

\* remove deletes the post; the User stays, with his role.
RemoveEmployee(r) ==
  /\ Serving(r, {"employee.delete"}, "valid")
  /\ post[request[r].target] # NoPost
  /\ post' = [post EXCEPT ![request[r].target] = NoPost]
  /\ Finish(r)
  /\ UNCHANGED <<account, branches, used, grants>>

---------------------------------------------------------------------------
(* BranchesService and RolesService                                        *)

CreateBranch(r) ==
  /\ Serving(r, {"branches.create"}, "admitted")
  /\ \E b \in Branches \ used : branches' = branches \cup {b} /\ used' = used \cup {b}
  /\ Finish(r)
  /\ UNCHANGED <<account, post, grants>>

\* onDelete: Restrict, for posts; scans may forbid it too (Refuse).
RemoveBranch(r) ==
  /\ Serving(r, {"branches.delete"}, "admitted")
  /\ \E b \in branches :
       /\ \A u \in Users : post[u].branch # b
       /\ branches' = branches \ {b}
  /\ Finish(r)
  /\ UNCHANGED <<account, post, used, grants>>

\* deleteMany and createMany in one transaction, for permissions that exist.
UpdateRole(r) ==
  /\ Serving(r, {"permissions.manage"}, "admitted")
  /\ \E ask \in Asks : grants' = [grants EXCEPT ![ask.role] = ask.keys]
  /\ Finish(r)
  /\ UNCHANGED <<account, post, branches, used>>

\* A check fails, a statement throws and its transaction rolls back, or the process
\* dies: no row has changed.
Refuse(r) == Active(r) /\ Finish(r) /\ UNCHANGED rowVars

Write(r) ==
  \/ CreateEmployee(r) \/ UpdateEmployee(r) \/ RemoveEmployee(r)
  \/ CreateBranch(r) \/ RemoveBranch(r) \/ UpdateRole(r)

Next ==
  \E r \in Requests :
    \/ \E u \in Users, op \in Ops : Authenticate(r, u, op)
    \/ Admit(r)
    \/ \E t \in Users : Find(r, t)
    \/ Check(r) \/ Validate(r) \/ Write(r) \/ Refuse(r)

Spec == Init /\ [][Next]_vars

---------------------------------------------------------------------------
\* The type invariant of the rows and requests.
TypeOK ==
  /\ account \in [Users -> Roles]
  /\ post \in [Users -> Posts \cup {NoPost}]
  /\ branches \subseteq used /\ used \subseteq Branches
  /\ grants \in [RoleKeys -> SUBSET Ops]
  /\ request \in [Requests -> RequestStates]
  /\ served \in 0 .. MaxServed
  /\ overlapped \in BOOLEAN

\* However updates of an employee overlap, the role of his account is the one that
\* goes with the type of his post: role_id and type are two columns of two tables
\* (employee-branches.service.ts:14-21, 51-69, 289-313).
RoleMatchesType ==
  \A u \in Users : post[u] # NoPost => account[u] = ROLE_KEY_BY_EMPLOYEE_TYPE[post[u].type]

\* However the removal of a branch overlaps with the hiring or moving of an
\* employee, who found it there when he checked, no post is at a branch that is gone
\* (employee-branches.service.ts:40-49, branches.service.ts:87-110).
NoGhostBranch == \A u \in Users : post[u] # NoPost => post[u].branch \in branches

\* The request a step ends, and whether its user is an admin-branch by then.
Ends(r) == Active(r) /\ request'[r] = Idle
ByBranchAdmin(r) == Ends(r) /\ account[request[r].user] = "admin-branch"
Places(p) == {p.branch} \ {NoBranch}

\* As long as no two requests overlap, whatever an admin-branch does to a post, it
\* was at his own branch and is still there if it is anywhere
\* (employee-branches.service.ts:71-95, 230-254, 321-332).
OwnBranchOnly ==
  [][\A r \in Requests, u \in Users :
       ~overlapped /\ ByBranchAdmin(r) /\ post'[u] # post[u] =>
         Places(post[u]) \cup Places(post'[u]) \subseteq Places(post[request[r].user])]_vars

\* As long as no two requests overlap, an admin-branch makes no one anything but a
\* courier.  With overlap he may: the role that is checked was read before the
\* permissions, so a courier promoted between the two has the permissions of the one
\* and not the limits (employee-branches.service.ts:109-121, 239-246).
RaisesNobody ==
  [][\A r \in Requests, u \in Users :
       ~overlapped /\ ByBranchAdmin(r) /\ account'[u] # account[u] =>
         account'[u] = "courier"]_vars

\* As long as no two requests overlap, a request changes rows only if its user has,
\* at that moment, a role with the permission: what he was before a promotion, a
\* removal or an update of his role does not count (permission.guard.ts:35-81,
\* permissions.service.ts:13-52).
PermittedWrites ==
  [][\A r \in Requests :
       ~overlapped /\ Ends(r) /\ rowVars' # rowVars =>
         request[r].op \in grants[account[request[r].user]]]_vars
=============================================================================
