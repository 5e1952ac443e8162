------------------------------ MODULE Seeders ------------------------------
(***************************************************************************)
(* The seeders (prisma/seeders): five scripts that fill the database from  *)
(* data files, one after the other (seed.ts) or one alone.  None of them   *)
(* works in a transaction, so one may die between any two writes and be    *)
(* run again, and they may be run again after the application has changed  *)
(* what they once created.                                                 *)
(*                                                                         *)
(* Rows of a table are kept in the order of their ids where a seeder may   *)
(* depend on it.  A seeder runs alone, so what it looks up and what it     *)
(* writes for it are one step.                                             *)
(***************************************************************************)
EXTENDS Naturals, Sequences, SequencesExt

CONSTANTS
  RoleData,      \* roles.json: role keys
  PermissionData,  \* permissions.json: permission keys
  GrantData,     \* role-permissions.json: the permission keys of each role key
  UserData,      \* users.json: [email, roleKey]
  BranchData,    \* branches.json: names
  EmployeeData,  \* employee-branches.json: [email, roleKey, branchName]
  MaxRuns,       \* bound: how often a seeder is started
  MaxChanges     \* bound: changes made by the application in between

NoRole == "no role"
Undefined == "undefined"

Entries(file) == {file[i] : i \in 1 .. Len(file)}
Emails == {u.email : u \in Entries(UserData) \cup Entries(EmployeeData)}

\* The data files: no role, branch or email twice, no role key unknown.
ASSUME FileAssumption ==
  /\ RoleData \in Seq(STRING) \ {<<>>} /\ IsInjective(RoleData)
  /\ PermissionData \subseteq STRING
  /\ GrantData \in [Entries(RoleData) -> SUBSET STRING]
  /\ UserData \in Seq([email : STRING, roleKey : Entries(RoleData)]) \ {<<>>}
  /\ \A i, j \in DOMAIN UserData : UserData[i].email = UserData[j].email => i = j
  /\ BranchData \in Seq(STRING) \ {<<>>} /\ IsInjective(BranchData)
  /\ EmployeeData \in Seq([email : STRING, roleKey : STRING, branchName : STRING]) \ {<<>>}
  /\ \A i, j \in DOMAIN EmployeeData : EmployeeData[i].email = EmployeeData[j].email => i = j
  /\ \A u \in Entries(UserData), e \in Entries(EmployeeData) : u.email # e.email
  /\ {NoRole, Undefined} \cap (Entries(RoleData) \cup Entries(BranchData)) = {}
ASSUME BoundAssumption == MaxRuns \in Nat /\ MaxChanges \in Nat

VARIABLES
  roles,        \* Role rows: their keys
  permissions,  \* Permission rows
  grants,       \* RolePermission rows: <<role key, permission>>
  account,      \* the role key of the User row of an email, or NoRole
  branches,     \* Branch rows: their names
  posts,        \* EmployeeBranch rows: [email, branch]
  seed,         \* the seeder that runs, "none", or "post" within "employees"
  at,           \* the entry of its file it is at
  alone,        \* was it started alone
  finished,     \* has all of seed.ts run to its end, with nothing after it
  runs, changes

tables == <<roles, permissions, grants, account, branches, posts>>
vars == <<roles, permissions, grants, account, branches, posts, seed, at, alone,
          finished, runs, changes>>

Init ==
  /\ roles = <<>> /\ permissions = {} /\ grants = {}
  /\ account = [email \in Emails |-> NoRole]
  /\ branches = <<>> /\ posts = <<>>
  /\ seed = "none" /\ at = 1 /\ alone = FALSE /\ finished = FALSE
  /\ runs = 0 /\ changes = 0

---------------------------------------------------------------------------
(* findFirst of Prisma: the first row that matches.  A key that is         *)
(* undefined is no condition at all.                                       *)

FindFirst(rows, key) ==
  IF key \in Entries(rows) THEN key
  ELSE IF key = Undefined /\ rows # <<>> THEN rows[1]
  ELSE Undefined

---------------------------------------------------------------------------
(* How the scripts follow each other.                                      *)

Start(first, single) ==
  /\ seed = "none" /\ runs < MaxRuns
  /\ seed' = first /\ at' = 1 /\ alone' = single
  /\ finished' = FALSE
  /\ runs' = runs + 1
  /\ UNCHANGED <<tables, changes>>

\* npm run seed, or one script by itself; the permissions' script is also the
\* one that grants them.
SeedAll == Start("roles", FALSE)
SeedOne == \E s \in {"roles", "permissions", "users", "branches", "employees"} : Start(s, TRUE)

After(s) == CASE s = "roles"       -> "permissions"
              [] s = "permissions" -> "grants"
              [] s = "grants"      -> "users"
              [] s = "users"       -> "branches"
              [] s = "branches"    -> "employees"
              [] s = "employees"   -> "none"

\* The script s is through.
Leave(s) ==
  /\ seed' = IF alone /\ s # "permissions" THEN "none" ELSE After(s)
  /\ at' = 1
  /\ finished' = (~alone /\ s = "employees")
  /\ UNCHANGED <<alone, runs, changes>>

\* The entry at of s is done; size is the number of entries of its file.
NextEntry(s, size) ==
  IF at = size THEN Leave(s)
  ELSE seed' = s /\ at' = at + 1 /\ UNCHANGED <<alone, finished, runs, changes>>

\* The process dies, or a statement fails: main() exits.
Crash ==
  /\ seed # "none"
  /\ seed' = "none" /\ at' = 1
  /\ UNCHANGED <<tables, alone, finished, runs, changes>>

---------------------------------------------------------------------------
(* The scripts.                                                            *)

\* The members of a finite set of numbers in increasing order.
InOrder(I) ==
  CHOOSE s \in [1 .. Cardinality(I) -> I] :
    \A j, k \in 1 .. Cardinality(I) : j < k => s[j] < s[k]

\* The entries of a file that a table lacks, in the order of the file.
Missing(file, rows) ==
  LET s == InOrder({i \in 1 .. Len(file) : file[i] \notin Entries(rows)})
  IN [j \in DOMAIN s |-> file[s[j]]]

rolesSeed ==
  /\ seed = "roles"
  /\ roles' = roles \o Missing(RoleData, roles)
  /\ Leave("roles")
  /\ UNCHANGED <<permissions, grants, account, branches, posts>>

\* Where permissionsSeed goes on once the permissions are there.
ThenUnlessComplete ==
  IF PermissionData \subseteq permissions /\ ~alone
    THEN seed' = "users" /\ at' = 1 /\ UNCHANGED <<alone, finished, runs, changes>>
    ELSE Leave("permissions")
ThenGrant == Leave("permissions")

permissionsSeed ==
  /\ seed = "permissions"
  /\ permissions' = permissions \cup PermissionData
  /\ ThenGrant
  /\ UNCHANGED <<roles, grants, account, branches, posts>>

\* One role of role-permissions.json at a time; a role or a permission that is
\* not there is skipped.  The roles are taken in the order of roles.json, not of
\* role-permissions.json: each adds pairs of its own, so the order only decides
\* which of them a script that dies has left out.
grantsSeed ==
  /\ seed = "grants"
  /\ LET key == RoleData[at] IN
       grants' = IF key \in Entries(roles)
                   THEN grants \cup {<<key, p>> : p \in GrantData[key] \cap permissions}
                   ELSE grants
  /\ NextEntry("grants", Len(RoleData))
  /\ UNCHANGED <<roles, permissions, account, branches, posts>>

\* user.upsert: an email that is known keeps its row as it is.
UpsertRole(email, role) == [account EXCEPT ![email] = role]
Upsert(email, role) == [account EXCEPT ![email] = IF @ = NoRole THEN role ELSE @]

usersSeed ==
  /\ seed = "users"
  /\ LET user == UserData[at]
         role == FindFirst(roles, user.roleKey)
     IN account' = IF role = Undefined THEN account ELSE Upsert(user.email, role)
  /\ NextEntry("users", Len(UserData))
  /\ UNCHANGED <<roles, permissions, grants, branches, posts>>

branchesSeed ==
  /\ seed = "branches"
  /\ LET name == BranchData[at] IN
       branches' = IF FindFirst(branches, name) = Undefined THEN Append(branches, name)
                   ELSE branches
  /\ NextEntry("branches", Len(BranchData))
  /\ UNCHANGED <<roles, permissions, grants, account, posts>>

\* The two fields employeeBranchesSeed reads of an entry.  The file calls them
\* roleKey and branchName, so both are undefined.
role_key(entry) == Undefined
branch_name(entry) == Undefined

employeeBranchesSeed ==
  /\ seed = "employees"
  /\ LET entry == EmployeeData[at]
         role == FindFirst(roles, role_key(entry))
         branch == FindFirst(branches, branch_name(entry))
     IN IF role = Undefined \/ branch = Undefined
          THEN NextEntry("employees", Len(EmployeeData)) /\ UNCHANGED account
          ELSE /\ account' = Upsert(entry.email, role)
               /\ seed' = "post" /\ UNCHANGED <<at, alone, finished, runs, changes>>
  /\ UNCHANGED <<roles, permissions, grants, branches, posts>>

\* The post of the entry, unless the user has one at that branch.
seedPost ==
  /\ seed = "post"
  /\ LET entry == EmployeeData[at]
         row == [email |-> entry.email, branch |-> FindFirst(branches, branch_name(entry))]
     IN posts' = IF row \in Entries(posts) THEN posts ELSE Append(posts, row)
  /\ NextEntry("employees", Len(EmployeeData))
  /\ UNCHANGED <<roles, permissions, grants, account, branches>>

---------------------------------------------------------------------------
(* What the application does to these tables in between.                   *)

Change ==
  /\ seed = "none" /\ changes < MaxChanges
  /\ changes' = changes + 1
  /\ UNCHANGED <<seed, at, alone, finished, runs, roles, permissions>>

\* EmployeeBranchesService.update: another branch, or another type and its role.
MoveEmployee ==
  /\ Change
  /\ \E i \in 1 .. Len(posts), b \in Entries(branches), key \in {"admin-branch", "courier"} :
       /\ key \in Entries(roles)
       /\ posts' = [posts EXCEPT ![i].branch = b]
       /\ account' = [account EXCEPT ![posts[i].email] = key]
  /\ UNCHANGED <<grants, branches>>

\* EmployeeBranchesService.remove: the user stays.
RemoveEmployee ==
  /\ Change
  /\ \E i \in 1 .. Len(posts) : posts' = RemoveAt(posts, i)
  /\ UNCHANGED <<grants, account, branches>>

\* RolesService.update.
RegrantRole ==
  /\ Change
  /\ \E key \in Entries(roles), S \in (SUBSET permissions) \ {{}} :
       grants' = {g \in grants : g[1] # key} \cup {<<key, p>> : p \in S}
  /\ UNCHANGED <<account, branches, posts>>

\* BranchesService.remove, which the foreign key of a post forbids.
RemoveBranch ==
  /\ Change
  /\ \E i \in 1 .. Len(branches) :
       /\ \A p \in Entries(posts) : p.branch # branches[i]
       /\ branches' = RemoveAt(branches, i)
  /\ UNCHANGED <<grants, account, posts>>

Next ==
  \/ SeedAll \/ SeedOne \/ Crash
  \/ rolesSeed \/ permissionsSeed \/ grantsSeed \/ usersSeed \/ branchesSeed
  \/ employeeBranchesSeed \/ seedPost
  \/ MoveEmployee \/ RemoveEmployee \/ RegrantRole \/ RemoveBranch

Spec == Init /\ [][Next]_vars

---------------------------------------------------------------------------
\* What role-permissions.json grants of the permissions there are.
FileGrants == {g \in Entries(RoleData) \X PermissionData : g[2] \in GrantData[g[1]]}

\* However often seeding died half way or scripts ran alone, once seed.ts has
\* run to its end everything of the files is there, every employee with one
\* post (permissions-seed.ts:12-92, employee-branches-seed.ts:15-72).
Complete ==
  /\ roles = RoleData
  /\ permissions = PermissionData
  /\ grants = FileGrants
  /\ \A u \in Entries(UserData) : account[u.email] = u.roleKey
  /\ branches = BranchData
  /\ \A e \in Entries(EmployeeData) :
       /\ account[e.email] # NoRole
       /\ Cardinality({i \in DOMAIN posts : posts[i].email = e.email}) = 1
CrashIsHealed == finished /\ changes = 0 => Complete

\* Seeding again takes nothing away and changes nothing the application has
\* decided meanwhile: it only adds (users-seed.ts:27-38: update: {}).
OnlyAdds ==
  [][seed # "none" =>
       /\ IsPrefix(roles, roles') /\ permissions \subseteq permissions'
       /\ grants \subseteq grants'
       /\ \A email \in Emails : account[email] # NoRole => account'[email] = account[email]
       /\ IsPrefix(branches, branches') /\ IsPrefix(posts, posts')]_vars

\* A user that only the seeders have touched has the role its file names
\* (employee-branches.json:8, users.json:8).
SeededAsWritten ==
  changes = 0 => \A u \in Entries(UserData) \cup Entries(EmployeeData) :
    account[u.email] \in {NoRole, u.roleKey}
=============================================================================
