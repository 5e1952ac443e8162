--------------------------- MODULE Seeders_proofs ---------------------------
(***************************************************************************)
(* A complete run of the seeders heals whatever died before it             *)
(* (CrashIsHealed), and no run takes anything away (OnlyAdds), for data    *)
(* files of every size.                                                    *)
(*                                                                         *)
(* What is inductive is how far a run has come: the files before the       *)
(* current one are in the tables, and so are the entries before the        *)
(* current one.  It rests on what every run leaves behind, crashed or not: *)
(* only rows of the files, in the order of the files.                      *)
(***************************************************************************)
EXTENDS Seeders, FiniteSetTheorems, SequenceTheorems, WellFoundedInduction, TLAPS

Stages == {"roles", "permissions", "grants", "users", "branches", "employees", "post"}

\* The length of the file a seeder works through; the first two write it whole.
SizeOf(s) == CASE s = "grants"   -> Len(RoleData)
               [] s = "users"    -> Len(UserData)
               [] s = "branches" -> Len(BranchData)
               [] s \in {"employees", "post"} -> Len(EmployeeData)
               [] OTHER -> 1

RowTypes ==
  /\ permissions \subseteq PermissionData
  /\ grants \subseteq Entries(RoleData) \X PermissionData
  /\ account \in [Emails -> Entries(RoleData) \cup {NoRole}]
  /\ branches \in Seq(Entries(BranchData))
  /\ posts \in Seq([email : Emails, branch : Entries(BranchData)])

ControlTypes ==
  /\ seed \in Stages \cup {"none"}
  /\ at \in 1 .. SizeOf(seed)
  /\ alone \in BOOLEAN /\ finished \in BOOLEAN
  /\ runs \in 0 .. MaxRuns /\ changes \in 0 .. MaxChanges

TypeOK == RowTypes /\ ControlTypes /\ roles \in Seq(Entries(RoleData))

\* createMany writes its file whole or not at all.
AllOrNone == roles \in {<<>>, RoleData} /\ permissions \in {{}, PermissionData}

\* A post is written after its branch was found.
PostHasBranch == seed = "post" => branches # <<>>

---------------------------------------------------------------------------
(* What the seeders leave, dying or not, where the application changed     *)
(* nothing.                                                                *)

GrantsOfFile == grants \subseteq FileGrants
UsersOfFile ==
  \A i \in 1 .. Len(UserData) : account[UserData[i].email] \in {NoRole, UserData[i].roleKey}
BranchesOfFile ==
  /\ Len(branches) <= Len(BranchData)
  /\ \A i \in 1 .. Len(branches) : branches[i] = BranchData[i]
PostsOfFile ==
  /\ \A k \in 1 .. Len(posts) :
       posts[k].branch = BranchData[1]
  /\ \A k, l \in 1 .. Len(posts) : posts[k].email = posts[l].email => k = l
OfFiles == GrantsOfFile /\ UsersOfFile /\ BranchesOfFile /\ PostsOfFile

\* The first n entries of a file are done.
GrantsDone(n) == \A i \in 1 .. n : \A p \in GrantData[RoleData[i]] \cap PermissionData :
                   <<RoleData[i], p>> \in grants
UsersDone(n) == \A i \in 1 .. n : account[UserData[i].email] # NoRole
BranchesDone(n) == n <= Len(branches)
HasAccount(i) == account[EmployeeData[i].email] # NoRole
HasPost(i) == \E k \in 1 .. Len(posts) : posts[k].email = EmployeeData[i].email
EmployeesDone(n) == \A i \in 1 .. n : HasAccount(i) /\ HasPost(i)

\* How far a run of seed.ts has come.
Progress ==
  /\ seed # "roles" => roles = RoleData
  /\ seed \notin {"roles", "permissions"} => permissions = PermissionData
  /\ seed = "grants" => GrantsDone(at - 1)
  /\ seed \in {"users", "branches", "employees", "post"} => GrantsDone(Len(RoleData))
  /\ seed = "users" => UsersDone(at - 1)
  /\ seed \in {"branches", "employees", "post"} => UsersDone(Len(UserData))
  /\ seed \in {"employees", "post"} => BranchesDone(Len(BranchData))
  /\ seed \in {"employees", "post"} => EmployeesDone(at - 1)

Within ==
  /\ seed = "branches" => BranchesDone(at - 1)
  /\ seed = "post" => HasAccount(at)
  /\ ~alone /\ seed # "none" => Progress

\* A run to the end leaves everything there, and nothing undoes it.
HealInv ==
  /\ changes = 0 => OfFiles /\ Within
  /\ finished => seed = "none"
  /\ CrashIsHealed

TypeInv == TypeOK /\ AllOrNone /\ PostHasBranch
IInv == TypeInv /\ HealInv

---------------------------------------------------------------------------
(* The data files and the operators of the scripts.                        *)

\* A sequence is one of its own entries.
LEMMA OwnEntries ==
  ASSUME NEW S, NEW s \in Seq(S)
  PROVE  s \in Seq(Entries(s)) /\ \A i \in 1 .. Len(s) : s[i] \in Entries(s)
<1>1. \A i \in 1 .. Len(s) : s[i] \in Entries(s)
  BY DEF Entries
<1>2. Len(s) \in Nat /\ s \in [1 .. Len(s) -> S]
  BY LenProperties
<1>3. s \in [1 .. Len(s) -> Entries(s)]
  BY <1>1, <1>2
<1>4. QED  BY <1>1, <1>2, <1>3

\* The files have entries, and what their entries name is known.
LEMMA Files ==
  /\ Len(RoleData) \in Nat \ {0} /\ Len(UserData) \in Nat \ {0}
  /\ Len(BranchData) \in Nat \ {0} /\ Len(EmployeeData) \in Nat \ {0}
  /\ RoleData \in Seq(Entries(RoleData)) /\ BranchData \in Seq(Entries(BranchData))
  /\ RoleData # <<>> /\ BranchData # <<>>
  /\ \A i \in 1 .. Len(RoleData) : RoleData[i] \in Entries(RoleData)
  /\ \A i \in 1 .. Len(BranchData) : BranchData[i] \in Entries(BranchData)
  /\ \A i \in 1 .. Len(UserData) :
       UserData[i].email \in Emails /\ UserData[i].roleKey \in Entries(RoleData)
  /\ \A i \in 1 .. Len(EmployeeData) : EmployeeData[i].email \in Emails
<1>1. /\ Len(RoleData) \in Nat \ {0} /\ Len(UserData) \in Nat \ {0}
      /\ Len(BranchData) \in Nat \ {0} /\ Len(EmployeeData) \in Nat \ {0}
      /\ RoleData # <<>> /\ BranchData # <<>>
  BY FileAssumption
<1>2. /\ \A i \in 1 .. Len(RoleData) : RoleData[i] \in Entries(RoleData)
      /\ \A i \in 1 .. Len(BranchData) : BranchData[i] \in Entries(BranchData)
  BY DEF Entries
<1>3. RoleData \in Seq(Entries(RoleData)) /\ BranchData \in Seq(Entries(BranchData))
  BY OwnEntries, FileAssumption
<1>4. \A i \in 1 .. Len(UserData) :
        UserData[i].email \in Emails /\ UserData[i].roleKey \in Entries(RoleData)
  <2>1. TAKE i \in 1 .. Len(UserData)
  <2>2. UserData[i] \in [email : STRING, roleKey : Entries(RoleData)]
    BY FileAssumption, ElementOfSeq
  <2>3. UserData[i] \in Entries(UserData)
    BY DEF Entries
  <2>4. QED  BY <2>2, <2>3 DEF Emails
<1>5. \A i \in 1 .. Len(EmployeeData) : EmployeeData[i].email \in Emails
  <2>1. TAKE i \in 1 .. Len(EmployeeData)
  <2>2. EmployeeData[i] \in Entries(EmployeeData)
    BY DEF Entries
  <2>3. QED  BY <2>2 DEF Emails
<1>6. QED  BY <1>1, <1>2, <1>3, <1>4, <1>5

\* The only increasing sequence of length n within 1 .. n is 1, ..., n.
LEMMA OnlyOneOrder ==
  ASSUME NEW n \in Nat, NEW s \in [1 .. n -> 1 .. n],
         \A j, k \in 1 .. n : j < k => s[j] < s[k]
  PROVE  \A j \in 1 .. n : s[j] = j
<1> DEFINE Off == {j \in 1 .. n : s[j] # j}
<1>1. SUFFICES ASSUME Off # {} PROVE FALSE
  OBVIOUS
<1>2. PICK j \in Off : \A k \in Off : ~ (<<k, j>> \in OpToRel(<, Nat))
  <2>1. Off \subseteq Nat
    OBVIOUS
  <2>2. QED  BY <1>1, <2>1, NatLessThanWellFounded, WFMin
<1>3. \A k \in 1 .. n : k < j => s[k] = k
  <2>1. SUFFICES ASSUME NEW k \in 1 .. n, k < j, s[k] # k PROVE FALSE
    OBVIOUS
  <2>2. k \in Off /\ k \in Nat /\ j \in Nat
    BY <2>1
  <2>3. <<k, j>> \in OpToRel(<, Nat)
    BY <2>1, <2>2 DEF OpToRel
  <2>4. QED  BY <1>2, <2>2, <2>3
<1>4. \A k \in 1 .. n : s[k] # j
  <2>1. TAKE k \in 1 .. n
  <2>2. CASE k < j  BY <1>3, <2>2
  <2>3. s[j] > j
    <3>1. CASE j = 1  BY <3>1
    <3>2. CASE j > 1
      <4>1. s[j - 1] = j - 1 /\ s[j - 1] < s[j]  BY <1>3, <3>2
      <4>2. QED  BY <4>1
    <3>3. QED  BY <3>1, <3>2
  <2>4. CASE k = j  BY <2>3, <2>4
  <2>5. CASE k > j
    <3>1. s[j] < s[k]  BY <2>5
    <3>2. QED  BY <2>3, <3>1
  <2>6. QED  BY <2>2, <2>4, <2>5
<1>5. s \in [1 .. n -> (1 .. n) \ {j}]
  BY <1>4
<1>6. /\ IsFiniteSet(1 .. n) /\ IsFiniteSet((1 .. n) \ {j})
      /\ Cardinality((1 .. n) \ {j}) < Cardinality(1 .. n)
  <2>1. IsFiniteSet(1 .. n) /\ Cardinality(1 .. n) = n
    BY FS_Interval
  <2>2. j \in 1 .. n
    OBVIOUS
  <2>3. IsFiniteSet((1 .. n) \ {j}) /\ Cardinality((1 .. n) \ {j}) = n - 1
    BY <2>1, <2>2, FS_RemoveElement
  <2>4. QED  BY <2>1, <2>3
<1>7. PICK x, y \in 1 .. n : x # y /\ s[x] = s[y]
  BY <1>5, <1>6, FS_PigeonHole
<1>8. x < y \/ y < x
  BY <1>7
<1>9. QED  BY <1>7, <1>8

\* In order, 1 .. n is the identity.
LEMMA InOrderOfAll ==
  ASSUME NEW n \in Nat
  PROVE  InOrder(1 .. n) \in [1 .. n -> 1 .. n] /\ \A j \in 1 .. n : InOrder(1 .. n)[j] = j
<1> DEFINE I == 1 .. n
           Increasing(s) == \A j, k \in 1 .. n : j < k => s[j] < s[k]
<1>1. Cardinality(1 .. n) = n
  BY FS_Interval
<1>2. [j \in I |-> j] \in [I -> I] /\ Increasing([j \in I |-> j])
  OBVIOUS
<1>3. InOrder(I) = CHOOSE s \in [I -> I] : Increasing(s)
  BY <1>1 DEF InOrder
<1>4. InOrder(I) \in [I -> I] /\ Increasing(InOrder(I))
  BY <1>2, <1>3
<1>5. QED  BY <1>4, OnlyOneOrder

\* An empty table lacks the whole file.
LEMMA MissingAll == Missing(RoleData, <<>>) = RoleData
<1> DEFINE n == Len(RoleData)
           s == InOrder(1 .. n)
<1>1. n \in Nat /\ RoleData \in Seq(Entries(RoleData))
  BY Files
<1>2. {i \in 1 .. n : RoleData[i] \notin Entries(<<>>)} = 1 .. n
  BY DEF Entries
<1>3. Missing(RoleData, <<>>) = [j \in DOMAIN s |-> RoleData[s[j]]]
  BY <1>2 DEF Missing
<1>4. s \in [1 .. n -> 1 .. n] /\ \A j \in 1 .. n : s[j] = j
  BY <1>1, InOrderOfAll
<1>5. Missing(RoleData, <<>>) = [j \in 1 .. n |-> RoleData[j]]
  BY <1>3, <1>4
<1>6. QED  BY <1>1, <1>5

\* A table that holds the file lacks nothing of it.
LEMMA MissingNone == Missing(RoleData, RoleData) = <<>>
<1>1. {i \in 1 .. Len(RoleData) : RoleData[i] \notin Entries(RoleData)} = {}
  BY DEF Entries
<1>2. InOrder({}) \in [{} -> {}]
  <2>1. Cardinality({}) = 0 /\ 1 .. 0 = {}
    BY FS_EmptySet
  <2>2. \E s \in [1 .. 0 -> {}] : \A j, k \in 1 .. 0 : j < k => s[j] < s[k]
    <3>1. [j \in {} |-> j] \in [1 .. 0 -> {}]  BY <2>1
    <3>2. QED  BY <2>1, <3>1
  <2>3. QED  BY <2>1, <2>2 DEF InOrder
<1>3. Missing(RoleData, RoleData) = [j \in {} |-> RoleData[InOrder({})[j]]]
  BY <1>1, <1>2 DEF Missing
<1>4. QED  BY <1>3

\* What findFirst returns for a key of a file, and for one left undefined.
LEMMA FindsKey ==
  ASSUME NEW rows, NEW key, key # Undefined
  PROVE  FindFirst(rows, key) = IF key \in Entries(rows) THEN key ELSE Undefined
BY DEF FindFirst
LEMMA FindsFirst ==
  ASSUME NEW S, NEW rows \in Seq(S), Undefined \notin S
  PROVE  /\ FindFirst(rows, Undefined) = IF rows # <<>> THEN rows[1] ELSE Undefined
         /\ rows # <<>> => rows[1] \in S
<1>1. Undefined \notin Entries(rows)
  BY DEF Entries
<1>2. QED  BY <1>1 DEF FindFirst

---------------------------------------------------------------------------
(* Types.                                                                  *)

\* Every script has at least one entry to do.
LEMMA Sizes ==
  /\ \A s \in Stages \cup {"none"} : SizeOf(s) \in Nat \ {0}
  /\ SizeOf("grants") = Len(RoleData) /\ SizeOf("users") = Len(UserData)
  /\ SizeOf("branches") = Len(BranchData) /\ SizeOf("none") = 1
  /\ SizeOf("employees") = Len(EmployeeData) /\ SizeOf("post") = Len(EmployeeData)
BY Files DEF SizeOf, Stages

\* A script that is left or goes on to its next entry keeps its place in a file.
LEMMA LeaveTypes ==
  ASSUME ControlTypes, NEW s \in Stages \ {"post"}, Leave(s)
  PROVE  ControlTypes'
<1>1. seed' \in Stages \cup {"none"} /\ at' = 1 /\ finished' \in BOOLEAN
  BY DEF Leave, After, Stages, ControlTypes
<1>2. SizeOf(seed') \in Nat \ {0}
  BY <1>1, Sizes
<1>3. SizeOf(seed)' = SizeOf(seed')
  BY DEF SizeOf
<1>4. QED  BY <1>1, <1>2, <1>3 DEF Leave, ControlTypes
LEMMA NextEntryTypes ==
  ASSUME ControlTypes, NEW s \in Stages \ {"post"}, SizeOf(seed) = SizeOf(s),
         NEW size, size = SizeOf(s), NextEntry(s, size)
  PROVE  ControlTypes'
<1>1. CASE at = size
  <2>1. Leave(s)  BY <1>1 DEF NextEntry
  <2>2. QED  BY <2>1, LeaveTypes
<1>2. CASE at # size
  <2>1. seed' = s /\ at' = at + 1 /\ UNCHANGED <<alone, finished, runs, changes>>
    BY <1>2 DEF NextEntry
  <2>2. SizeOf(seed)' = size
    BY <2>1 DEF SizeOf
  <2>3. size \in Nat /\ at \in 1 .. size
    BY Sizes DEF ControlTypes
  <2>4. at + 1 \in 1 .. size
    BY <1>2, <2>3
  <2>5. QED  BY <2>1, <2>2, <2>4 DEF ControlTypes
<1>3. QED  BY <1>1, <1>2

\* An upsert touches the row of its email, and only where there is none.
LEMMA UpsertKeeps ==
  ASSUME RowTypes, NEW email \in Emails, NEW role \in Entries(RoleData)
  PROVE  /\ Upsert(email, role) \in [Emails -> Entries(RoleData) \cup {NoRole}]
         /\ Upsert(email, role)[email] # NoRole
         /\ \A e \in Emails :
              account[e] # NoRole \/ e # email => Upsert(email, role)[e] = account[e]
         /\ account[email] = NoRole => Upsert(email, role)[email] = role
<1>1. NoRole \notin Entries(RoleData)
  BY FileAssumption
<1>2. QED  BY <1>1 DEF RowTypes, Upsert

\* The steps that change no row.
LEMMA StartTypes == ASSUME TypeInv, NEW first \in Stages \ {"grants", "post"},
                           NEW single \in BOOLEAN, Start(first, single)
                    PROVE  TypeInv'
<1>1. seed' = first /\ at' = 1 /\ SizeOf(first) \in Nat \ {0} /\ SizeOf(seed)' = SizeOf(first)
  BY Sizes DEF Start, SizeOf
<1>2. ControlTypes'
  <2>1. runs' \in 0 .. MaxRuns /\ UNCHANGED changes
    BY BoundAssumption DEF Start, ControlTypes, TypeInv, TypeOK
  <2>2. alone' \in BOOLEAN /\ finished' \in BOOLEAN
    BY Zenon DEF Start
  <2>3. at' \in 1 .. SizeOf(seed)' /\ seed' \in Stages \cup {"none"}
    BY <1>1
  <2>4. QED  BY <2>1, <2>2, <2>3 DEF ControlTypes, TypeInv, TypeOK
<1>3. QED  BY <1>1, <1>2 DEF Start, TypeInv, TypeOK, RowTypes, AllOrNone, PostHasBranch, tables
LEMMA CrashTypes == ASSUME TypeInv, Crash PROVE TypeInv'
<1>1. SizeOf(seed)' = 1
  BY DEF Crash, SizeOf
<1>2. ControlTypes'
  BY <1>1 DEF Crash, ControlTypes, TypeInv, TypeOK
<1>3. QED  BY <1>2 DEF Crash, TypeInv, TypeOK, RowTypes, AllOrNone, PostHasBranch, tables

LEMMA rolesSeedTypes == ASSUME TypeInv, rolesSeed PROVE TypeInv' /\ roles' = RoleData
<1>1. roles' = RoleData
  <2>1. roles' = roles \o Missing(RoleData, roles)
    BY DEF rolesSeed
  <2>2. RoleData \in Seq(Entries(RoleData))
    BY Files
  <2>3. QED  BY <2>1, <2>2, MissingAll, MissingNone, ConcatEmptySeq DEF TypeInv, AllOrNone
<1>2. ControlTypes'
  BY LeaveTypes DEF rolesSeed, TypeInv, TypeOK, Stages
<1>3. PostHasBranch'
  BY DEF rolesSeed, Leave, After, PostHasBranch
<1>4. QED  BY <1>1, <1>2, <1>3, Files DEF rolesSeed, TypeInv, TypeOK, RowTypes, AllOrNone

LEMMA permissionsSeedTypes ==
  ASSUME TypeInv, permissionsSeed PROVE TypeInv' /\ permissions' = PermissionData
<1>1. permissions' = PermissionData
  BY DEF permissionsSeed, TypeInv, AllOrNone
<1>2. ControlTypes'
  BY LeaveTypes DEF permissionsSeed, ThenGrant, TypeInv, TypeOK, Stages
<1>3. PostHasBranch'
  BY DEF permissionsSeed, ThenGrant, Leave, After, PostHasBranch
<1>4. QED  BY <1>1, <1>2, <1>3 DEF permissionsSeed, TypeInv, TypeOK, RowTypes, AllOrNone

LEMMA grantsSeedTypes == ASSUME TypeInv, grantsSeed PROVE TypeInv'
<1>1. ControlTypes'
  BY NextEntryTypes, Sizes DEF grantsSeed, TypeInv, TypeOK, Stages
<1>2. grants' \subseteq Entries(RoleData) \X PermissionData
  <2>1. at \in 1 .. Len(RoleData)
    BY Sizes DEF grantsSeed, TypeInv, TypeOK, ControlTypes
  <2>2. RoleData[at] \in Entries(RoleData)
    BY <2>1, Files
  <2>3. QED  BY <2>2 DEF grantsSeed, TypeInv, TypeOK, RowTypes
<1>3. PostHasBranch'
  BY DEF grantsSeed, NextEntry, Leave, After, PostHasBranch
<1>4. QED  BY <1>1, <1>2, <1>3 DEF grantsSeed, TypeInv, TypeOK, RowTypes, AllOrNone

LEMMA usersSeedTypes == ASSUME TypeInv, usersSeed PROVE TypeInv'
<1>1. ControlTypes'
  BY NextEntryTypes, Sizes DEF usersSeed, TypeInv, TypeOK, Stages
<1>2. account' \in [Emails -> Entries(RoleData) \cup {NoRole}]
  <2>1. at \in 1 .. Len(UserData)
    BY Sizes DEF usersSeed, TypeInv, TypeOK, ControlTypes
  <2>2. UserData[at].email \in Emails /\ UserData[at].roleKey \in Entries(RoleData)
    BY <2>1, Files
  <2>3. UserData[at].roleKey # Undefined
    BY <2>2, FileAssumption
  <2>4. FindFirst(roles, UserData[at].roleKey) \in {Undefined, UserData[at].roleKey}
    BY <2>3, FindsKey
  <2>5. QED  BY <2>2, <2>4, UpsertKeeps DEF usersSeed, TypeInv, TypeOK, RowTypes
<1>3. PostHasBranch'
  BY DEF usersSeed, NextEntry, Leave, After, PostHasBranch
<1>4. QED  BY <1>1, <1>2, <1>3 DEF usersSeed, TypeInv, TypeOK, RowTypes, AllOrNone

LEMMA branchesSeedTypes == ASSUME TypeInv, branchesSeed PROVE TypeInv'
<1>1. ControlTypes'
  BY NextEntryTypes, Sizes DEF branchesSeed, TypeInv, TypeOK, Stages
<1>2. branches' \in Seq(Entries(BranchData))
  <2>1. at \in 1 .. Len(BranchData)
    BY Sizes DEF branchesSeed, TypeInv, TypeOK, ControlTypes
  <2>2. BranchData[at] \in Entries(BranchData)
    BY <2>1, Files
  <2>3. QED  BY <2>2, AppendProperties DEF branchesSeed, TypeInv, TypeOK, RowTypes
<1>3. PostHasBranch'
  BY DEF branchesSeed, NextEntry, Leave, After, PostHasBranch
<1>4. QED  BY <1>1, <1>2, <1>3 DEF branchesSeed, TypeInv, TypeOK, RowTypes, AllOrNone

\* The first row that a field left undefined finds.
LEMMA FoundRows ==
  ASSUME TypeInv, NEW entry
  PROVE  /\ FindFirst(roles, role_key(entry)) = IF roles # <<>> THEN roles[1] ELSE Undefined
         /\ roles # <<>> => roles[1] \in Entries(RoleData) /\ roles[1] # Undefined
         /\ FindFirst(branches, branch_name(entry)) =
              IF branches # <<>> THEN branches[1] ELSE Undefined
         /\ branches # <<>> => branches[1] \in Entries(BranchData) /\ branches[1] # Undefined
<1>1. roles \in Seq(Entries(RoleData)) /\ branches \in Seq(Entries(BranchData))
  BY DEF TypeInv, TypeOK, RowTypes
<1>2. Undefined \notin Entries(RoleData) /\ Undefined \notin Entries(BranchData)
  BY FileAssumption
<1>3. QED  BY <1>1, <1>2, FindsFirst DEF role_key, branch_name

LEMMA employeeBranchesSeedTypes == ASSUME TypeInv, employeeBranchesSeed PROVE TypeInv'
<1> DEFINE entry == EmployeeData[at]
           role == FindFirst(roles, role_key(entry))
           branch == FindFirst(branches, branch_name(entry))
<1>1. UNCHANGED <<roles, permissions, grants, branches, posts>>
  BY DEF employeeBranchesSeed
<1>2. CASE role = Undefined \/ branch = Undefined
  <2>1. NextEntry("employees", Len(EmployeeData)) /\ UNCHANGED account
    BY <1>2 DEF employeeBranchesSeed
  <2>2. ControlTypes'
    BY <2>1, NextEntryTypes, Sizes DEF employeeBranchesSeed, TypeInv, TypeOK, Stages
  <2>3. PostHasBranch'
    BY <2>1 DEF NextEntry, Leave, After, PostHasBranch
  <2>4. QED  BY <1>1, <2>1, <2>2, <2>3 DEF TypeInv, TypeOK, RowTypes, AllOrNone
<1>3. CASE ~ (role = Undefined \/ branch = Undefined)
  <2>1. /\ account' = Upsert(entry.email, role)
        /\ seed' = "post" /\ UNCHANGED <<at, alone, finished, runs, changes>>
    BY <1>3 DEF employeeBranchesSeed
  <2>2. role \in Entries(RoleData) /\ branches # <<>>
    BY <1>3, FoundRows
  <2>3. at \in 1 .. Len(EmployeeData)
    BY Sizes DEF employeeBranchesSeed, TypeInv, TypeOK, ControlTypes
  <2>4. account' \in [Emails -> Entries(RoleData) \cup {NoRole}]
    BY <2>1, <2>2, <2>3, Files, UpsertKeeps DEF TypeInv, TypeOK
  <2>5. SizeOf(seed)' = Len(EmployeeData)
    BY <2>1 DEF SizeOf
  <2>6. ControlTypes'
    BY <2>1, <2>3, <2>5 DEF TypeInv, TypeOK, ControlTypes, Stages
  <2>7. QED  BY <1>1, <2>1, <2>2, <2>4, <2>6 DEF TypeInv, TypeOK, RowTypes, AllOrNone, PostHasBranch
<1>4. QED  BY <1>2, <1>3

LEMMA seedPostTypes == ASSUME TypeInv, seedPost PROVE TypeInv'
<1> DEFINE row == [email |-> EmployeeData[at].email,
                   branch |-> FindFirst(branches, branch_name(EmployeeData[at]))]
<1>1. UNCHANGED <<roles, permissions, grants, account, branches>>
  BY DEF seedPost
<1>2. row \in [email : Emails, branch : Entries(BranchData)]
  <2>1. branches # <<>>
    BY DEF seedPost, TypeInv, PostHasBranch
  <2>2. at \in 1 .. Len(EmployeeData)
    BY Sizes DEF seedPost, TypeInv, TypeOK, ControlTypes
  <2>3. QED  BY <2>1, <2>2, FoundRows, Files
<1>3. posts' = IF row \in Entries(posts) THEN posts ELSE Append(posts, row)
  BY DEF seedPost
<1>4. posts' \in Seq([email : Emails, branch : Entries(BranchData)])
  <2> HIDE DEF row
  <2>1. QED  BY <1>2, <1>3, AppendProperties DEF TypeInv, TypeOK, RowTypes
<1>5. ControlTypes'
  BY NextEntryTypes, Sizes DEF seedPost, TypeInv, TypeOK, Stages
<1>6. PostHasBranch'
  BY DEF seedPost, NextEntry, Leave, After, PostHasBranch
<1>7. QED  BY <1>1, <1>4, <1>5, <1>6 DEF TypeInv, TypeOK, RowTypes, AllOrNone

\* A table without one of its rows is still one of such rows, and shorter.
LEMMA RemoveAtTypes ==
  ASSUME NEW S, NEW s \in Seq(S), NEW i \in 1 .. Len(s)
  PROVE  RemoveAt(s, i) \in Seq(S)
<1>1. Len(s) \in Nat /\ \A k \in 1 .. Len(s) : s[k] \in S
  BY ElementOfSeq
<1>2. SubSeq(s, 1, i - 1) \in Seq(S)
  BY <1>1, SubSeqProperties
<1>3. SubSeq(s, i + 1, Len(s)) \in Seq(S)
  BY <1>1, SubSeqProperties
<1>4. QED  BY <1>2, <1>3, ConcatProperties DEF RemoveAt

\* What the application does keeps the types; it happens between two runs.
LEMMA ChangeTypes ==
  ASSUME TypeInv, Change, RowTypes'
  PROVE  TypeInv' /\ changes' > 0 /\ seed' = "none" /\ UNCHANGED <<finished, roles>>
<1>1. SizeOf(seed)' = SizeOf(seed)
  BY DEF Change, SizeOf
<1>2. changes' \in 0 .. MaxChanges /\ changes' > 0
  BY BoundAssumption DEF Change, TypeInv, TypeOK, ControlTypes
<1>3. ControlTypes'
  BY <1>1, <1>2 DEF Change, TypeInv, TypeOK, ControlTypes
<1>4. QED  BY <1>2, <1>3 DEF Change, TypeInv, TypeOK, AllOrNone, PostHasBranch
LEMMA MoveEmployeeTypes == ASSUME TypeInv, MoveEmployee PROVE RowTypes'
<1>1. PICK i \in 1 .. Len(posts), b \in Entries(branches), key \in {"admin-branch", "courier"} :
        /\ key \in Entries(roles)
        /\ posts' = [posts EXCEPT ![i].branch = b]
        /\ account' = [account EXCEPT ![posts[i].email] = key]
  BY DEF MoveEmployee
<1> DEFINE Rows == [email : Emails, branch : Entries(BranchData)]
<1>2. posts \in Seq(Rows) /\ roles \in Seq(Entries(RoleData))
      /\ branches \in Seq(Entries(BranchData))
  BY DEF TypeInv, TypeOK, RowTypes
<1>3. b \in Entries(BranchData) /\ key \in Entries(RoleData)
  BY <1>1, <1>2, ElementOfSeq DEF Entries
<1>4. posts[i] \in Rows
  BY <1>2, ElementOfSeq
<1>5. [posts[i] EXCEPT !.branch = b] \in Rows
  BY <1>3, <1>4
<1>6. posts' = [posts EXCEPT ![i] = [posts[i] EXCEPT !.branch = b]]
  BY <1>1
<1>7. posts' \in Seq(Rows)
  <2> HIDE DEF Rows
  <2>1. QED  BY <1>2, <1>5, <1>6, ExceptSeq
<1>8. account' \in [Emails -> Entries(RoleData) \cup {NoRole}]
  BY <1>1, <1>3 DEF TypeInv, TypeOK, RowTypes
<1>9. QED  BY <1>7, <1>8 DEF MoveEmployee, Change, TypeInv, TypeOK, RowTypes
LEMMA RemoveEmployeeTypes == ASSUME TypeInv, RemoveEmployee PROVE RowTypes'
<1>1. posts' \in Seq([email : Emails, branch : Entries(BranchData)])
  BY RemoveAtTypes DEF RemoveEmployee, TypeInv, TypeOK, RowTypes
<1>2. QED  BY <1>1 DEF RemoveEmployee, Change, TypeInv, TypeOK, RowTypes
LEMMA RegrantRoleTypes == ASSUME TypeInv, RegrantRole PROVE RowTypes'
<1>1. PICK key \in Entries(roles), S \in (SUBSET permissions) \ {{}} :
        grants' = {g \in grants : g[1] # key} \cup {<<key, p>> : p \in S}
  BY DEF RegrantRole
<1>2. key \in Entries(RoleData)
  BY ElementOfSeq DEF TypeInv, TypeOK, Entries
<1>3. grants' \subseteq Entries(RoleData) \X PermissionData
  BY <1>1, <1>2 DEF TypeInv, TypeOK, RowTypes
<1>4. QED  BY <1>3 DEF RegrantRole, Change, TypeInv, TypeOK, RowTypes
LEMMA RemoveBranchTypes == ASSUME TypeInv, RemoveBranch PROVE RowTypes'
<1>1. branches' \in Seq(Entries(BranchData))
  BY RemoveAtTypes DEF RemoveBranch, TypeInv, TypeOK, RowTypes
<1>2. QED  BY <1>1 DEF RemoveBranch, Change, TypeInv, TypeOK, RowTypes

\* Every row is one of the files' or of the application's, and every counter
\* within its bound (all of prisma/seeders).
LEMMA TypesInit == Init => TypeInv
<1> SUFFICES ASSUME Init PROVE TypeInv
  OBVIOUS
<1>1. RowTypes /\ roles \in Seq(Entries(RoleData))
  BY EmptySeq DEF Init, RowTypes
<1>2. ControlTypes
  <2>1. SizeOf(seed) = 1
    BY DEF Init, SizeOf
  <2>2. at \in 1 .. SizeOf(seed) /\ seed \in Stages \cup {"none"}
    BY <2>1 DEF Init
  <2>3. alone \in BOOLEAN /\ finished \in BOOLEAN
    BY DEF Init
  <2>4. runs \in 0 .. MaxRuns /\ changes \in 0 .. MaxChanges
    BY BoundAssumption DEF Init
  <2>5. QED  BY <2>2, <2>3, <2>4 DEF ControlTypes
<1>3. AllOrNone /\ PostHasBranch
  BY DEF Init, AllOrNone, PostHasBranch
<1>4. QED  BY <1>1, <1>2, <1>3 DEF TypeInv, TypeOK
LEMMA TypesNext == TypeInv /\ [Next]_vars => TypeInv'
<1> SUFFICES ASSUME TypeInv, [Next]_vars PROVE TypeInv'
  OBVIOUS
<1>1. CASE SeedAll  BY <1>1, StartTypes DEF SeedAll, Stages
<1>2. CASE SeedOne  BY <1>2, StartTypes DEF SeedOne, Stages
<1>3. CASE Crash  BY <1>3, CrashTypes
<1>4. CASE rolesSeed  BY <1>4, rolesSeedTypes
<1>5. CASE permissionsSeed  BY <1>5, permissionsSeedTypes
<1>6. CASE grantsSeed  BY <1>6, grantsSeedTypes
<1>7. CASE usersSeed  BY <1>7, usersSeedTypes
<1>8. CASE branchesSeed  BY <1>8, branchesSeedTypes
<1>9. CASE employeeBranchesSeed  BY <1>9, employeeBranchesSeedTypes
<1>10. CASE seedPost  BY <1>10, seedPostTypes
<1>11. CASE MoveEmployee  BY <1>11, MoveEmployeeTypes, ChangeTypes DEF MoveEmployee
<1>12. CASE RemoveEmployee  BY <1>12, RemoveEmployeeTypes, ChangeTypes DEF RemoveEmployee
<1>13. CASE RegrantRole  BY <1>13, RegrantRoleTypes, ChangeTypes DEF RegrantRole
<1>14. CASE RemoveBranch  BY <1>14, RemoveBranchTypes, ChangeTypes DEF RemoveBranch
<1>15. CASE UNCHANGED vars
  <2>1. SizeOf(seed)' = SizeOf(seed)
    BY <1>15 DEF vars, SizeOf
  <2>2. QED
    BY <1>15, <2>1 DEF vars, TypeInv, TypeOK, RowTypes, ControlTypes, AllOrNone, PostHasBranch
<1>16. QED
  BY <1>1, <1>2, <1>3, <1>4, <1>5, <1>6, <1>7, <1>8, <1>9, <1>10, <1>11, <1>12, <1>13, <1>14,
    <1>15 DEF Next

\* Every row of a table is one that the files or the application name, every
\* seeder is at an entry its file has, and the roles and the permissions are
\* there whole or not at all (roles-seed.ts:5-34, permissions-seed.ts:12-35).
THEOREM TypeCorrect == Spec => []TypeInv
<1>1. QED  BY TypesInit, TypesNext, PTL DEF Spec

---------------------------------------------------------------------------
(* No run takes anything away.                                             *)

\* A table is a prefix of itself, and of what an append or createMany makes it.
LEMMA Extends ==
  ASSUME NEW S, NEW s \in Seq(S)
  PROVE  /\ IsPrefix(s, s)
         /\ \A e \in S : IsPrefix(s, Append(s, e))
         /\ s = <<>> => \A t \in Seq(S) : IsPrefix(s, t)
<1>1. Len(s) \in Nat /\ \A i \in 1 .. Len(s) : s[i] \in S
  BY ElementOfSeq
<1>2. IsPrefix(s, s)
  BY <1>1 DEF IsPrefix
<1>3. ASSUME NEW e \in S PROVE IsPrefix(s, Append(s, e))
  <2> DEFINE t == Append(s, e)
             n == Len(s)
  <2>1. Len(t) = n + 1 /\ t \in Seq(S) /\ \A i \in 1 .. n : t[i] = s[i]
    BY AppendProperties
  <2>2. /\ SubSeq(s, 1, n) \in Seq(S) /\ SubSeq(t, 1, n) \in Seq(S)
        /\ Len(SubSeq(s, 1, n)) = n /\ Len(SubSeq(t, 1, n)) = n
        /\ \A i \in 1 .. n : SubSeq(s, 1, n)[i] = s[i] /\ SubSeq(t, 1, n)[i] = t[i]
    <3> HIDE DEF t
    <3>1. \A i \in 1 .. n : t[i] \in S
      BY <1>1, <2>1
    <3>2. QED  BY <1>1, <2>1, <3>1, SubSeqProperties
  <2>3. SubSeq(s, 1, n) = SubSeq(t, 1, n)
    <3> HIDE DEF t
    <3>1. QED  BY <2>1, <2>2, SeqEqual
  <2>4. QED  BY <1>1, <2>1, <2>3 DEF IsPrefix
<1>4. ASSUME s = <<>>, NEW t \in Seq(S) PROVE IsPrefix(s, t)
  <2>1. Len(t) \in Nat /\ Len(s) = 0
    BY <1>4, LenProperties
  <2>2. /\ SubSeq(s, 1, 0) \in Seq(S) /\ SubSeq(t, 1, 0) \in Seq(S)
        /\ Len(SubSeq(s, 1, 0)) = 0 /\ Len(SubSeq(t, 1, 0)) = 0
    BY SubSeqProperties
  <2>3. SubSeq(s, 1, 0) = SubSeq(t, 1, 0)
    BY <2>2, SeqEqual
  <2>4. QED  BY <2>1, <2>3 DEF IsPrefix
<1>5. QED  BY <1>2, <1>3, <1>4

\* The sequences of a step that appends to none of the tables.
LEMMA SameRows ==
  ASSUME TypeInv
  PROVE  /\ UNCHANGED roles => IsPrefix(roles, roles')
         /\ UNCHANGED branches => IsPrefix(branches, branches')
         /\ UNCHANGED posts => IsPrefix(posts, posts')
BY Extends DEF TypeInv, TypeOK, RowTypes

\* An account that is there stays as it is.
LEMMA UpsertOnlyAdds ==
  ASSUME TypeInv, NEW email \in Emails, NEW role \in Entries(RoleData),
         account' = Upsert(email, role)
  PROVE  \A e \in Emails : account[e] # NoRole => account'[e] = account[e]
BY UpsertKeeps DEF TypeInv, TypeOK

Added ==
  /\ IsPrefix(roles, roles') /\ permissions \subseteq permissions'
  /\ grants \subseteq grants'
  /\ \A email \in Emails : account[email] # NoRole => account'[email] = account[email]
  /\ IsPrefix(branches, branches') /\ IsPrefix(posts, posts')

LEMMA ScriptsAdd == ASSUME TypeInv, seed # "none", Next PROVE Added
<1>1. CASE Crash  BY <1>1, SameRows DEF Crash, tables, Added
<1>2. CASE rolesSeed
  <2>1. roles' = RoleData /\ RoleData \in Seq(Entries(RoleData)) /\ roles \in {<<>>, RoleData}
    BY <1>2, rolesSeedTypes, Files DEF TypeInv, AllOrNone
  <2>2. IsPrefix(roles, roles')
    BY <2>1, Extends DEF TypeInv, TypeOK
  <2>3. QED  BY <1>2, <2>2, SameRows DEF rolesSeed, Added
<1>3. CASE permissionsSeed
  BY <1>3, SameRows DEF permissionsSeed, Added
<1>4. CASE grantsSeed
  BY <1>4, SameRows DEF grantsSeed, Added
<1>5. CASE usersSeed
  <2>1. at \in 1 .. Len(UserData)
    BY <1>5, Sizes DEF usersSeed, TypeInv, TypeOK, ControlTypes
  <2>2. UserData[at].email \in Emails /\ UserData[at].roleKey \in Entries(RoleData)
    BY <2>1, Files
  <2>3. FindFirst(roles, UserData[at].roleKey) \in {Undefined, UserData[at].roleKey}
    BY <2>2, FindsKey, FileAssumption
  <2>4. \A e \in Emails : account[e] # NoRole => account'[e] = account[e]
    BY <1>5, <2>2, <2>3, UpsertOnlyAdds DEF usersSeed
  <2>5. QED  BY <1>5, <2>4, SameRows DEF usersSeed, Added
<1>6. CASE branchesSeed
  <2>1. at \in 1 .. Len(BranchData)
    BY <1>6, Sizes DEF branchesSeed, TypeInv, TypeOK, ControlTypes
  <2>2. BranchData[at] \in Entries(BranchData)
    BY <2>1, Files
  <2>3. IsPrefix(branches, branches')
    BY <1>6, <2>2, Extends DEF branchesSeed, TypeInv, TypeOK, RowTypes
  <2>4. QED  BY <1>6, <2>3, SameRows DEF branchesSeed, Added
<1>7. CASE employeeBranchesSeed
  <2>1. at \in 1 .. Len(EmployeeData)
    BY <1>7, Sizes DEF employeeBranchesSeed, TypeInv, TypeOK, ControlTypes
  <2>2. EmployeeData[at].email \in Emails
    BY <2>1, Files
  <2>3. FindFirst(roles, role_key(EmployeeData[at])) \in Entries(RoleData) \cup {Undefined}
    BY FoundRows
  <2>4. \A e \in Emails : account[e] # NoRole => account'[e] = account[e]
    BY <1>7, <2>2, <2>3, UpsertOnlyAdds DEF employeeBranchesSeed
  <2>5. QED  BY <1>7, <2>4, SameRows DEF employeeBranchesSeed, Added
<1>8. CASE seedPost
  <2> DEFINE row == [email |-> EmployeeData[at].email,
                     branch |-> FindFirst(branches, branch_name(EmployeeData[at]))]
  <2>1. row \in [email : Emails, branch : Entries(BranchData)]
    <3>1. branches # <<>> /\ at \in 1 .. Len(EmployeeData)
      BY <1>8, Sizes DEF seedPost, TypeInv, TypeOK, ControlTypes, PostHasBranch
    <3>2. QED  BY <3>1, FoundRows, Files
  <2>2. posts' = posts \/ posts' = Append(posts, row)
    BY <1>8 DEF seedPost
  <2>3. IsPrefix(posts, posts')
    <3> HIDE DEF row
    <3>1. posts \in Seq([email : Emails, branch : Entries(BranchData)])
      BY DEF TypeInv, TypeOK, RowTypes
    <3>2. IsPrefix(posts, posts) /\ IsPrefix(posts, Append(posts, row))
      BY <2>1, <3>1, Extends
    <3>3. QED  BY <2>2, <3>2
  <2>4. QED  BY <1>8, <2>3, SameRows DEF seedPost, Added
<1>9. QED
  BY <1>1, <1>2, <1>3, <1>4, <1>5, <1>6, <1>7, <1>8
    DEF Next, SeedAll, SeedOne, Start, MoveEmployee, RemoveEmployee, RegrantRole, RemoveBranch,
      Change

\* Whatever a script finds in the tables, it takes nothing away and changes no
\* user and no post that is there (users-seed.ts:29-40, update: {};
\* employee-branches-seed.ts:53-72).
THEOREM RunsOnlyAdd == Spec => OnlyAdds
<1>1. TypeInv /\ [Next]_vars => [seed # "none" => Added]_vars
  <2>1. SUFFICES ASSUME TypeInv, Next, seed # "none" PROVE Added
    OBVIOUS
  <2>2. QED  BY <2>1, ScriptsAdd
<1>2. (seed # "none" => Added) <=>
        (seed # "none" =>
           /\ IsPrefix(roles, roles') /\ permissions \subseteq permissions'
           /\ grants \subseteq grants'
           /\ \A email \in Emails : account[email] # NoRole => account'[email] = account[email]
           /\ IsPrefix(branches, branches') /\ IsPrefix(posts, posts'))
  BY DEF Added
<1>3. QED  BY <1>1, <1>2, TypeCorrect, PTL DEF Spec, OnlyAdds

---------------------------------------------------------------------------
(* A complete run heals what died before it.                               *)

\* Everything is there once the last entry of employee-branches.json is done.
AllIn ==
  /\ TypeInv /\ OfFiles /\ roles = RoleData /\ permissions = PermissionData
  /\ GrantsDone(Len(RoleData)) /\ UsersDone(Len(UserData)) /\ BranchesDone(Len(BranchData))
  /\ EmployeesDone(Len(EmployeeData))
LEMMA AllDone == AllIn => Complete
<1> SUFFICES ASSUME AllIn PROVE Complete
  OBVIOUS
<1> USE DEF AllIn
<1>1. grants = FileGrants
  <2>1. SUFFICES ASSUME NEW g \in FileGrants PROVE g \in grants
    BY DEF OfFiles, GrantsOfFile
  <2>2. PICK i \in 1 .. Len(RoleData) : g[1] = RoleData[i]
    BY DEF FileGrants, Entries
  <2>3. g = <<g[1], g[2]>> /\ g[2] \in GrantData[g[1]] \cap PermissionData
    BY DEF FileGrants
  <2>4. <<RoleData[i], g[2]>> \in grants
    BY <2>2, <2>3 DEF GrantsDone
  <2>5. QED  BY <2>2, <2>3, <2>4
<1>2. \A u \in Entries(UserData) : account[u.email] = u.roleKey
  BY DEF UsersDone, OfFiles, UsersOfFile, Entries
<1>3. branches = BranchData
  <2>1. /\ branches \in Seq(Entries(BranchData)) /\ BranchData \in Seq(Entries(BranchData))
        /\ Len(branches) \in Nat /\ Len(BranchData) \in Nat
    BY Files, LenProperties DEF TypeInv, TypeOK, RowTypes
  <2>2. Len(branches) = Len(BranchData) /\ \A i \in 1 .. Len(branches) : branches[i] = BranchData[i]
    BY <2>1 DEF OfFiles, BranchesOfFile, BranchesDone
  <2>3. QED  BY <2>1, <2>2, SeqEqual
<1>4. ASSUME NEW e \in Entries(EmployeeData)
      PROVE  /\ account[e.email] # NoRole
             /\ Cardinality({k \in DOMAIN posts : posts[k].email = e.email}) = 1
  <2>1. PICK i \in 1 .. Len(EmployeeData) : e = EmployeeData[i]
    BY DEF Entries
  <2>2. account[e.email] # NoRole
    BY <2>1 DEF EmployeesDone, HasAccount
  <2>3. PICK k \in 1 .. Len(posts) : posts[k].email = e.email
    BY <2>1 DEF EmployeesDone, HasPost
  <2>4. DOMAIN posts = 1 .. Len(posts)
    BY LenProperties DEF TypeInv, TypeOK, RowTypes
  <2>5. {l \in DOMAIN posts : posts[l].email = e.email} = {k}
    BY <2>3, <2>4 DEF OfFiles, PostsOfFile
  <2>6. QED  BY <2>2, <2>5, FS_Singleton
<1>5. QED  BY <1>1, <1>2, <1>3, <1>4 DEF Complete

\* What is said of the rows is about the rows alone.
LEMMA SameRowsSameFiles ==
  ASSUME UNCHANGED <<grants, account, branches, posts>>, OfFiles PROVE OfFiles'
BY DEF OfFiles, GrantsOfFile, UsersOfFile, BranchesOfFile, PostsOfFile

LEMMA StartHeals == ASSUME TypeInv, HealInv, NEW first, NEW single, first # "post",
                           single = FALSE => first = "roles", Start(first, single)
                    PROVE  HealInv'
<1>1. changes' = 0 => OfFiles'
  BY SameRowsSameFiles DEF Start, tables, HealInv
<1>2. finished' = FALSE /\ seed' = first /\ at' = 1 /\ alone' = single
  BY DEF Start
<1>3. Within'
  <2>1. ~ (~ alone' /\ seed' # "roles")
    BY <1>2
  <2>2. 0 <= Len(branches') /\ Len(branches) \in Nat /\ branches' = branches
    BY LenProperties DEF Start, tables, TypeInv, TypeOK, RowTypes
  <2>3. QED  BY <1>2, <2>1, <2>2 DEF Within, Progress, BranchesDone
<1>4. QED  BY <1>1, <1>2, <1>3 DEF HealInv, CrashIsHealed
LEMMA CrashHeals == ASSUME TypeInv, HealInv, Crash PROVE HealInv'
<1>1. changes' = 0 => OfFiles'
  BY SameRowsSameFiles DEF Crash, tables, HealInv
<1>2. Within'
  BY DEF Crash, Within
<1>3. ~ finished'
  BY DEF Crash, HealInv
<1>4. QED  BY <1>1, <1>2, <1>3 DEF Crash, HealInv, CrashIsHealed

\* The changes by the application: nothing is promised of the rows then.
LEMMA ChangeHeals == ASSUME TypeInv, HealInv, Change, TypeInv' PROVE HealInv'
<1>1. changes' # 0
  BY DEF Change, TypeInv, TypeOK, ControlTypes
<1>2. QED  BY <1>1 DEF Change, HealInv, CrashIsHealed

\* The scripts, each with the row it writes and where it goes on.
LEMMA rolesSeedHeals == ASSUME TypeInv, HealInv, rolesSeed PROVE HealInv'
<1>1. changes' = 0 => changes = 0 /\ OfFiles'
  BY SameRowsSameFiles DEF rolesSeed, Leave, HealInv
<1>2. roles' = RoleData
  BY rolesSeedTypes
<1>3. /\ at' = 1 /\ alone' = alone /\ ~ finished'
      /\ seed' = IF alone THEN "none" ELSE "permissions"
  BY DEF rolesSeed, Leave, After
<1>4. Within'
  BY <1>2, <1>3 DEF Within, Progress
<1>5. QED  BY <1>1, <1>3, <1>4 DEF HealInv, CrashIsHealed

LEMMA permissionsSeedHeals == ASSUME TypeInv, HealInv, permissionsSeed PROVE HealInv'
<1>1. changes' = changes /\ (changes' = 0 => OfFiles')
  BY SameRowsSameFiles DEF permissionsSeed, ThenGrant, Leave, HealInv
<1>2. permissions' = PermissionData /\ roles' = roles
  BY permissionsSeedTypes DEF permissionsSeed
<1>3. at' = 1 /\ alone' = alone /\ ~ finished' /\ seed' = "grants"
  BY DEF permissionsSeed, ThenGrant, Leave, After
<1>4. ASSUME changes' = 0 PROVE Within'
  <2>1. ~ alone => roles = RoleData
    BY <1>1, <1>4 DEF permissionsSeed, HealInv, Within, Progress
  <2>2. GrantsDone(at - 1)'
    BY <1>3 DEF GrantsDone
  <2>3. QED  BY <1>2, <1>3, <2>1, <2>2 DEF Within, Progress
<1>5. QED  BY <1>1, <1>3, <1>4 DEF HealInv, CrashIsHealed

LEMMA grantsSeedHeals == ASSUME TypeInv, HealInv, grantsSeed PROVE HealInv'
<1> DEFINE key == RoleData[at]
           n == Len(RoleData)
<1>1. at \in 1 .. n /\ n \in Nat /\ key \in Entries(RoleData)
  BY Files, Sizes DEF grantsSeed, TypeInv, TypeOK, ControlTypes
<1>2. UNCHANGED <<roles, permissions, account, branches, posts, changes, alone>> /\ ~ finished'
  BY DEF grantsSeed, NextEntry, Leave, HealInv
<1>3. grants' = IF key \in Entries(roles)
                  THEN grants \cup {<<key, p>> : p \in GrantData[key] \cap permissions}
                  ELSE grants
  BY DEF grantsSeed
<1>4. /\ at = n => at' = 1 /\ seed' = IF alone THEN "none" ELSE "users"
      /\ at # n => at' = at + 1 /\ seed' = "grants"
  BY DEF grantsSeed, NextEntry, Leave, After
<1>5. ASSUME changes' = 0 PROVE OfFiles' /\ Within'
  <2>1. OfFiles /\ Within
    BY <1>2, <1>5 DEF HealInv
  <2>2. GrantsOfFile'
    <3>1. permissions \subseteq PermissionData
      BY DEF TypeInv, TypeOK, RowTypes
    <3>2. QED  BY <1>1, <1>3, <2>1, <3>1 DEF OfFiles, GrantsOfFile, FileGrants
  <2>3. OfFiles'
    BY <1>2, <2>1, <2>2 DEF OfFiles, UsersOfFile, BranchesOfFile, PostsOfFile
  <2>4. CASE alone
    BY <1>2, <1>4, <2>3, <2>4 DEF Within
  <2>5. CASE ~ alone
    <3>1. roles = RoleData /\ permissions = PermissionData /\ GrantsDone(at - 1)
      BY <2>1, <2>5 DEF grantsSeed, Within, Progress
    <3>2. \A i \in 1 .. at : \A p \in GrantData[RoleData[i]] \cap PermissionData :
            <<RoleData[i], p>> \in grants'
      <4>1. TAKE i \in 1 .. at
      <4>2. CASE i = at
        BY <1>1, <1>3, <3>1, <4>2
      <4>3. CASE i # at
        <5>1. i \in 1 .. at - 1  BY <1>1, <4>3
        <5>2. QED  BY <1>3, <3>1, <5>1 DEF GrantsDone
      <4>4. QED  BY <4>2, <4>3
    <3>3. CASE at = n
      <4>1. GrantsDone(Len(RoleData))'
        BY <3>2, <3>3 DEF GrantsDone
      <4>2. UsersDone(at - 1)'
        BY <1>4, <3>3 DEF UsersDone
      <4>3. QED  BY <1>2, <1>4, <2>3, <2>5, <3>1, <3>3, <4>1, <4>2 DEF Within, Progress
    <3>4. CASE at # n
      <4>1. at' - 1 = at  BY <1>1, <1>4, <3>4
      <4>2. GrantsDone(at - 1)'
        BY <3>2, <4>1 DEF GrantsDone
      <4>3. QED  BY <1>2, <1>4, <2>3, <3>1, <3>4, <4>2 DEF Within, Progress
    <3>5. QED  BY <3>3, <3>4
  <2>6. QED  BY <2>3, <2>4, <2>5
<1>6. QED  BY <1>2, <1>5 DEF HealInv, CrashIsHealed

LEMMA usersSeedHeals == ASSUME TypeInv, HealInv, usersSeed PROVE HealInv'
<1> DEFINE user == UserData[at]
           n == Len(UserData)
<1>1. at \in 1 .. n /\ n \in Nat /\ user.email \in Emails /\ user.roleKey \in Entries(RoleData)
  BY Files, Sizes DEF usersSeed, TypeInv, TypeOK, ControlTypes
<1>2. UNCHANGED <<roles, permissions, grants, branches, posts, changes, alone>> /\ ~ finished'
  BY DEF usersSeed, NextEntry, Leave, HealInv
<1>3. user.roleKey # Undefined
  BY <1>1, FileAssumption
<1>4. account' = IF user.roleKey \in Entries(roles)
                   THEN Upsert(user.email, user.roleKey) ELSE account
  BY <1>3, FindsKey DEF usersSeed
<1>5. /\ at = n => at' = 1 /\ seed' = IF alone THEN "none" ELSE "branches"
      /\ at # n => at' = at + 1 /\ seed' = "users"
  BY DEF usersSeed, NextEntry, Leave, After
<1>6. /\ Upsert(user.email, user.roleKey)[user.email] # NoRole
      /\ \A e \in Emails : account[e] # NoRole \/ e # user.email =>
           Upsert(user.email, user.roleKey)[e] = account[e]
      /\ account[user.email] = NoRole =>
           Upsert(user.email, user.roleKey)[user.email] = user.roleKey
  BY <1>1, UpsertKeeps DEF TypeInv, TypeOK
<1>7. ASSUME changes' = 0 PROVE OfFiles' /\ Within'
  <2>1. OfFiles /\ Within
    BY <1>2, <1>7 DEF HealInv
  <2>2. UsersOfFile'
    <3>1. SUFFICES ASSUME NEW i \in 1 .. Len(UserData)
                   PROVE  account'[UserData[i].email] \in {NoRole, UserData[i].roleKey}
      BY DEF UsersOfFile
    <3>2. /\ account[UserData[i].email] \in {NoRole, UserData[i].roleKey}
          /\ UserData[i].email \in Emails
      BY <2>1, Files DEF OfFiles, UsersOfFile
    <3>3. CASE i = at
      BY <1>4, <1>6, <3>2, <3>3
    <3>4. CASE i # at
      <4>1. UserData[i].email # user.email
        BY <1>1, <3>4, FileAssumption
      <4>2. QED  BY <1>4, <1>6, <3>2, <4>1
    <3>5. QED  BY <3>3, <3>4
  <2>3. OfFiles'
    BY <1>2, <2>1, <2>2 DEF OfFiles, GrantsOfFile, BranchesOfFile, PostsOfFile
  <2>4. Len(branches) \in Nat
    BY LenProperties DEF TypeInv, TypeOK, RowTypes
  <2>5. BranchesDone(0)'
    BY <1>2, <2>4 DEF BranchesDone
  <2>6. CASE alone
    BY <1>2, <1>5, <2>3, <2>6 DEF Within
  <2>7. CASE ~ alone
    <3>1. /\ roles = RoleData /\ permissions = PermissionData
          /\ GrantsDone(Len(RoleData)) /\ UsersDone(at - 1)
      BY <2>1, <2>7 DEF usersSeed, Within, Progress
    <3>2. GrantsDone(Len(RoleData))'
      BY <1>2, <3>1 DEF GrantsDone
    <3>3. account' = Upsert(user.email, user.roleKey)
      BY <1>1, <1>4, <3>1
    <3>4. \A i \in 1 .. at : account'[UserData[i].email] # NoRole
      <4>1. TAKE i \in 1 .. at
      <4>2. CASE i = at  BY <1>6, <3>3, <4>2
      <4>3. CASE i # at
        <5>1. i \in 1 .. at - 1 /\ i \in 1 .. n  BY <1>1, <4>3
        <5>2. account[UserData[i].email] # NoRole /\ UserData[i].email \in Emails
          BY <3>1, <5>1, Files DEF UsersDone
        <5>3. QED  BY <1>6, <3>3, <5>2
      <4>4. QED  BY <4>2, <4>3
    <3>5. CASE at = n
      <4>1. UsersDone(Len(UserData))'
        BY <3>4, <3>5 DEF UsersDone
      <4>2. at' - 1 = 0 /\ seed' = "branches"
        BY <1>5, <2>7, <3>5
      <4>3. QED  BY <1>2, <2>3, <2>5, <3>1, <3>2, <4>1, <4>2 DEF Within, Progress
    <3>6. CASE at # n
      <4>1. at' - 1 = at /\ seed' = "users"  BY <1>1, <1>5, <3>6
      <4>2. UsersDone(at - 1)'
        BY <3>4, <4>1 DEF UsersDone
      <4>3. QED  BY <1>2, <2>3, <3>1, <3>2, <4>1, <4>2 DEF Within, Progress
    <3>7. QED  BY <3>5, <3>6
  <2>8. QED  BY <2>6, <2>7
<1>8. QED  BY <1>2, <1>7 DEF HealInv, CrashIsHealed

LEMMA branchesSeedHeals == ASSUME TypeInv, HealInv, branchesSeed PROVE HealInv'
<1> DEFINE name == BranchData[at]
           n == Len(BranchData)
           m == Len(branches)
<1>1. at \in 1 .. n /\ n \in Nat /\ name \in Entries(BranchData)
  BY Files, Sizes DEF branchesSeed, TypeInv, TypeOK, ControlTypes
<1>2. UNCHANGED <<roles, permissions, grants, account, posts, changes, alone>> /\ ~ finished'
  BY DEF branchesSeed, NextEntry, Leave, HealInv
<1>3. branches' = IF name \in Entries(branches) THEN branches ELSE Append(branches, name)
  <2>1. name # Undefined
    BY <1>1, FileAssumption
  <2>2. QED  BY <2>1, FindsKey DEF branchesSeed
<1>4. /\ at = n => at' = 1 /\ seed' = IF alone THEN "none" ELSE "employees"
      /\ at # n => at' = at + 1 /\ seed' = "branches"
  BY DEF branchesSeed, NextEntry, Leave, After
<1>5. /\ m \in Nat
      /\ Len(Append(branches, name)) = m + 1 /\ Append(branches, name)[m + 1] = name
      /\ \A i \in 1 .. m : Append(branches, name)[i] = branches[i]
  BY <1>1, LenProperties, AppendProperties DEF TypeInv, TypeOK, RowTypes
<1>6. ASSUME changes' = 0 PROVE OfFiles' /\ Within'
  <2>1. OfFiles /\ Within /\ at - 1 <= m /\ m <= n
    BY <1>2, <1>6 DEF HealInv, Within, branchesSeed, BranchesDone, OfFiles, BranchesOfFile
  <2>2. BranchesOfFile' /\ at <= Len(branches')
    <3>1. CASE name \in Entries(branches)
      <4>1. PICK i \in 1 .. m : name = branches[i]
        BY <3>1 DEF Entries
      <4>2. name = BranchData[i]
        BY <2>1, <4>1 DEF OfFiles, BranchesOfFile
      <4>3. i = at
        <5>1. DOMAIN BranchData = 1 .. n
          BY Files, LenProperties
        <5>2. i \in 1 .. n
          BY <1>1, <1>5, <2>1
        <5>3. IsInjective(BranchData)
          BY FileAssumption
        <5>4. QED  BY <1>1, <4>2, <5>1, <5>2, <5>3 DEF IsInjective
      <4>4. branches' = branches /\ at <= m
        BY <1>1, <1>3, <1>5, <3>1, <4>3
      <4>5. QED  BY <2>1, <4>4 DEF OfFiles, BranchesOfFile
    <3>2. CASE name \notin Entries(branches)
      <4>1. m = at - 1
        <5>1. SUFFICES ASSUME at <= m PROVE FALSE
          BY <1>1, <1>5, <2>1
        <5>2. at \in 1 .. m /\ branches[at] = name
          BY <1>1, <1>5, <2>1, <5>1 DEF OfFiles, BranchesOfFile
        <5>3. QED  BY <3>2, <5>2 DEF Entries
      <4>2. Len(branches') = at /\ branches'[at] = BranchData[at]
            /\ \A i \in 1 .. at - 1 : branches'[i] = BranchData[i]
        BY <1>1, <1>3, <1>5, <2>1, <3>2, <4>1 DEF OfFiles, BranchesOfFile
      <4>3. \A i \in 1 .. Len(branches') : branches'[i] = BranchData[i]
        BY <1>1, <4>2
      <4>4. Len(branches') <= Len(BranchData) /\ at <= Len(branches')
        BY <1>1, <4>2
      <4>5. QED  BY <4>3, <4>4 DEF BranchesOfFile
    <3>3. QED  BY <3>1, <3>2
  <2>3. OfFiles'
    BY <1>2, <2>1, <2>2 DEF OfFiles, GrantsOfFile, UsersOfFile, PostsOfFile
  <2>4. at = n => BranchesDone(Len(BranchData))'
    BY <2>2 DEF BranchesDone
  <2>5. at # n => BranchesDone(at - 1)'
    <3>1. SUFFICES ASSUME at # n PROVE at' - 1 <= Len(branches')
      BY DEF BranchesDone
    <3>2. at' - 1 = at  BY <1>1, <1>4, <3>1
    <3>3. QED  BY <2>2, <3>2
  <2>6. CASE alone
    BY <1>2, <1>4, <2>3, <2>5, <2>6 DEF Within
  <2>7. CASE ~ alone
    <3>1. /\ roles = RoleData /\ permissions = PermissionData
          /\ GrantsDone(Len(RoleData)) /\ UsersDone(Len(UserData))
      BY <2>1, <2>7 DEF branchesSeed, Within, Progress
    <3>2. GrantsDone(Len(RoleData))' /\ UsersDone(Len(UserData))'
      BY <1>2, <3>1 DEF GrantsDone, UsersDone
    <3>3. CASE at = n
      <4>1. EmployeesDone(at - 1)'
        BY <1>4, <3>3 DEF EmployeesDone
      <4>2. seed' = "employees"
        BY <1>4, <2>7, <3>3
      <4>3. QED  BY <1>2, <2>3, <2>4, <3>1, <3>2, <3>3, <4>1, <4>2 DEF Within, Progress
    <3>4. CASE at # n
      <4>1. seed' = "branches"
        BY <1>4, <3>4
      <4>2. QED  BY <1>2, <2>3, <2>5, <3>1, <3>2, <3>4, <4>1 DEF Within, Progress
    <3>5. QED  BY <3>3, <3>4
  <2>8. QED  BY <2>6, <2>7
<1>7. QED  BY <1>2, <1>6 DEF HealInv, CrashIsHealed

\* The end of an entry of employee-branches.json: the next one, or the end.
LEMMA EntryHeals ==
  ASSUME TypeInv, TypeInv', HealInv, seed \in {"employees", "post"},
         NextEntry("employees", Len(EmployeeData)),
         UNCHANGED <<roles, permissions, grants, branches>>,
         changes' = 0 => OfFiles',
         changes' = 0 /\ ~ alone => UsersDone(Len(UserData))' /\
           \A i \in 1 .. at : HasAccount(i)' /\ HasPost(i)'
  PROVE  HealInv'
<1> DEFINE n == Len(EmployeeData)
<1>1. at \in 1 .. n /\ n \in Nat
  BY Files, Sizes DEF TypeInv, TypeOK, ControlTypes
<1>2. UNCHANGED <<changes, alone>>
  BY DEF NextEntry, Leave
<1>3. /\ at = n => at' = 1 /\ seed' = "none" /\ (finished' <=> ~ alone)
      /\ at # n => at' = at + 1 /\ seed' = "employees" /\ ~ finished'
  BY DEF NextEntry, Leave, After, HealInv
<1>4. CASE alone \/ changes' # 0
  BY <1>2, <1>3, <1>4 DEF HealInv, CrashIsHealed, Within
<1>5. CASE ~ alone /\ changes' = 0
  <2>1. /\ roles' = RoleData /\ permissions' = PermissionData
        /\ GrantsDone(Len(RoleData)) /\ BranchesDone(Len(BranchData))
    BY <1>2, <1>5 DEF HealInv, Within, Progress
  <2>2. GrantsDone(Len(RoleData))' /\ BranchesDone(Len(BranchData))'
    BY <2>1 DEF GrantsDone, BranchesDone
  <2>3. UsersDone(Len(UserData))' /\ OfFiles'
    BY <1>5
  <2>4. CASE at = n
    <3>1. EmployeesDone(Len(EmployeeData))'
      BY <1>5, <2>4 DEF EmployeesDone
    <3>2. Complete'
      <4>1. AllIn' => Complete'  BY AllDone, PTL
      <4>2. QED  BY <2>1, <2>2, <2>3, <3>1, <4>1 DEF AllIn
    <3>3. QED  BY <1>3, <1>5, <2>3, <2>4, <3>2 DEF HealInv, CrashIsHealed, Within
  <2>5. CASE at # n
    <3>1. at' - 1 = at  BY <1>1, <1>3, <2>5
    <3>2. EmployeesDone(at - 1)'
      BY <1>5, <3>1 DEF EmployeesDone
    <3>3. QED
      BY <1>2, <1>3, <1>5, <2>1, <2>2, <2>3, <2>5, <3>2 DEF HealInv, CrashIsHealed, Within, Progress
  <2>6. QED  BY <2>4, <2>5
<1>6. QED  BY <1>4, <1>5

LEMMA employeeBranchesSeedHeals ==
  ASSUME TypeInv, TypeInv', HealInv, employeeBranchesSeed PROVE HealInv'
<1> DEFINE entry == EmployeeData[at]
           role == FindFirst(roles, role_key(entry))
           branch == FindFirst(branches, branch_name(entry))
<1>1. UNCHANGED <<roles, permissions, grants, branches, posts>>
  BY DEF employeeBranchesSeed
<1>2. at \in 1 .. Len(EmployeeData) /\ entry.email \in Emails /\ entry \in Entries(EmployeeData)
  BY Files, Sizes DEF employeeBranchesSeed, TypeInv, TypeOK, ControlTypes, Entries
<1>3. CASE role = Undefined \/ branch = Undefined
  <2>1. NextEntry("employees", Len(EmployeeData)) /\ UNCHANGED account
    BY <1>3 DEF employeeBranchesSeed
  <2>2. UNCHANGED changes
    BY <2>1 DEF NextEntry, Leave
  <2>3. changes' = 0 => OfFiles'
    BY <1>1, <2>1, <2>2, SameRowsSameFiles DEF HealInv
  <2>4. ~ (changes' = 0 /\ ~ alone)
    <3>1. SUFFICES ASSUME changes = 0, ~ alone PROVE FALSE
      BY <2>2
    <3>2. roles = RoleData /\ Len(BranchData) <= Len(branches)
      BY <3>1 DEF employeeBranchesSeed, HealInv, Within, Progress, BranchesDone
    <3>3. branches # <<>> /\ roles # <<>>
      BY <3>2, Files DEF TypeInv, TypeOK, RowTypes
    <3>4. QED  BY <1>3, <3>3, FoundRows
  <2>5. QED  BY <1>1, <2>1, <2>3, <2>4, EntryHeals DEF employeeBranchesSeed
<1>4. CASE ~ (role = Undefined \/ branch = Undefined)
  <2>1. /\ account' = Upsert(entry.email, role)
        /\ seed' = "post" /\ UNCHANGED <<at, alone, finished, runs, changes>>
    BY <1>4 DEF employeeBranchesSeed
  <2>2. role \in Entries(RoleData)
    BY <1>4, FoundRows
  <2>3. /\ account'[entry.email] # NoRole
        /\ \A e \in Emails : account[e] # NoRole \/ e # entry.email => account'[e] = account[e]
    BY <1>2, <2>1, <2>2, UpsertKeeps DEF TypeInv, TypeOK
  <2>4. \A i \in 1 .. Len(UserData) : account'[UserData[i].email] = account[UserData[i].email]
    <3>1. TAKE i \in 1 .. Len(UserData)
    <3>2. UserData[i] \in Entries(UserData) /\ UserData[i].email \in Emails
      BY Files DEF Entries
    <3>3. UserData[i].email # entry.email
      BY <1>2, <3>2, FileAssumption
    <3>4. QED  BY <2>3, <3>2, <3>3
  <2>5. ASSUME changes' = 0 PROVE OfFiles' /\ Within'
    <3>1. OfFiles /\ Within
      BY <2>1, <2>5 DEF HealInv
    <3>2. OfFiles'
      BY <1>1, <2>4, <3>1 DEF OfFiles, GrantsOfFile, UsersOfFile, BranchesOfFile, PostsOfFile
    <3>3. HasAccount(at)'
      BY <2>1, <2>3 DEF HasAccount
    <3>4. ASSUME ~ alone PROVE Progress'
      <4>1. Progress
        BY <3>1, <3>4 DEF employeeBranchesSeed, Within
      <4>2. /\ GrantsDone(Len(RoleData))' /\ UsersDone(Len(UserData))'
            /\ BranchesDone(Len(BranchData))'
        BY <1>1, <2>4, <4>1 DEF employeeBranchesSeed, Progress, GrantsDone, UsersDone, BranchesDone
      <4>3. EmployeesDone(at - 1)'
        <5>1. SUFFICES ASSUME NEW i \in 1 .. at - 1 PROVE HasAccount(i)' /\ HasPost(i)'
          BY <2>1 DEF EmployeesDone
        <5>2. HasAccount(i) /\ HasPost(i)
          BY <4>1 DEF employeeBranchesSeed, Progress, EmployeesDone
        <5>3. EmployeeData[i].email \in Emails
          BY <1>2, Files
        <5>4. QED  BY <1>1, <2>3, <5>2, <5>3 DEF HasAccount, HasPost
      <4>4. roles' = RoleData /\ permissions' = PermissionData
        BY <1>1, <4>1 DEF employeeBranchesSeed, Progress
      <4>5. QED  BY <2>1, <4>2, <4>3, <4>4 DEF Progress
    <3>5. QED  BY <2>1, <3>2, <3>3, <3>4 DEF Within
  <2>6. ~ finished'
    BY <2>1 DEF employeeBranchesSeed, HealInv
  <2>7. QED  BY <2>5, <2>6 DEF HealInv, CrashIsHealed
<1>5. QED  BY <1>3, <1>4

LEMMA seedPostHeals == ASSUME TypeInv, TypeInv', HealInv, seedPost PROVE HealInv'
<1> DEFINE email == EmployeeData[at].email
           row == [email |-> email, branch |-> FindFirst(branches, branch_name(EmployeeData[at]))]
           m == Len(posts)
<1>1. UNCHANGED <<roles, permissions, grants, account, branches>>
      /\ NextEntry("employees", Len(EmployeeData))
  BY DEF seedPost
<1>2. UNCHANGED <<changes, alone>>
  BY <1>1 DEF NextEntry, Leave
<1>3. at \in 1 .. Len(EmployeeData) /\ email \in Emails
  BY Files, Sizes DEF seedPost, TypeInv, TypeOK, ControlTypes
<1>4. posts' = IF row \in Entries(posts) THEN posts ELSE Append(posts, row)
  BY DEF seedPost
<1>5. branches # <<>> /\ row.branch = branches[1] /\ row.branch \in Entries(BranchData)
      /\ row.email = email
  BY FoundRows DEF seedPost, TypeInv, PostHasBranch
<1>6. /\ m \in Nat
      /\ Len(Append(posts, row)) = m + 1 /\ Append(posts, row)[m + 1] = row
      /\ \A k \in 1 .. m : Append(posts, row)[k] = posts[k]
  <2>1. row \in [email : Emails, branch : Entries(BranchData)]
    BY <1>3, <1>5
  <2> HIDE DEF row
  <2>2. posts \in Seq([email : Emails, branch : Entries(BranchData)])
    BY DEF TypeInv, TypeOK, RowTypes
  <2>3. QED  BY <2>1, <2>2, LenProperties, AppendProperties
<1>7. \E k \in 1 .. Len(posts') : posts'[k].email = email
  <2>1. CASE row \in Entries(posts)
    <3>1. PICK k \in 1 .. m : posts[k] = row
      BY <2>1 DEF Entries
    <3>2. QED  BY <1>4, <1>5, <2>1, <3>1
  <2>2. CASE row \notin Entries(posts)
    <3>1. m + 1 \in 1 .. Len(posts') /\ posts'[m + 1] = row
      BY <1>4, <1>6, <2>2
    <3>2. QED  BY <1>5, <3>1
  <2>3. QED  BY <2>1, <2>2
<1>8. ASSUME NEW i \in 1 .. Len(EmployeeData), HasPost(i) PROVE HasPost(i)'
  <2>1. PICK k \in 1 .. m : posts[k].email = EmployeeData[i].email
    BY <1>8 DEF HasPost
  <2>2. k \in 1 .. Len(posts') /\ posts'[k] = posts[k]
    BY <1>4, <1>6
  <2>3. QED  BY <2>1, <2>2 DEF HasPost
<1>9. ASSUME changes' = 0 PROVE OfFiles'
  <2>1. OfFiles
    BY <1>2, <1>9 DEF HealInv
  <2>2. row.branch = BranchData[1]
    <3>1. Len(branches) \in Nat /\ Len(branches) # 0
      BY <1>5 DEF TypeInv, TypeOK, RowTypes
    <3>2. QED  BY <1>5, <2>1, <3>1 DEF OfFiles, BranchesOfFile
  <2>3. CASE row \in Entries(posts)
    BY <1>1, <1>4, <2>1, <2>3, SameRowsSameFiles
  <2>4. CASE row \notin Entries(posts)
    <3>1. \A k \in 1 .. m : posts[k].email # email
      <4>1. SUFFICES ASSUME NEW k \in 1 .. m, posts[k].email = email PROVE FALSE
        OBVIOUS
      <4>2. posts[k] \in [email : Emails, branch : Entries(BranchData)]
        BY ElementOfSeq DEF TypeInv, TypeOK, RowTypes
      <4>3. posts[k].branch = BranchData[1]
        BY <2>1 DEF OfFiles, PostsOfFile
      <4>4. posts[k] = [email |-> email, branch |-> BranchData[1]]
        BY <4>1, <4>2, <4>3
      <4>5. posts[k] = row
        BY <2>2, <4>4
      <4>6. QED  BY <2>4, <4>5 DEF Entries
    <3>2. /\ Len(posts') = m + 1 /\ posts'[m + 1] = row
          /\ \A k \in 1 .. m : posts'[k] = posts[k]
      BY <1>4, <1>6, <2>4
    <3>3. PostsOfFile'
      <4> HIDE DEF row
      <4>1. \A k \in 1 .. m + 1 : posts'[k].branch = BranchData[1]
        BY <1>6, <2>1, <2>2, <3>2 DEF OfFiles, PostsOfFile
      <4>2. ASSUME NEW k \in 1 .. m + 1, NEW l \in 1 .. m + 1, posts'[k].email = posts'[l].email
            PROVE  k = l
        <5>1. CASE k \in 1 .. m /\ l \in 1 .. m
          BY <2>1, <3>2, <4>2, <5>1 DEF OfFiles, PostsOfFile
        <5>2. CASE k = m + 1 \/ l = m + 1
          BY <1>5, <1>6, <3>1, <3>2, <4>2, <5>2
        <5>3. QED  BY <1>6, <5>1, <5>2
      <4>3. QED  BY <3>2, <4>1, <4>2 DEF PostsOfFile
    <3>4. QED  BY <1>1, <2>1, <3>3 DEF OfFiles, GrantsOfFile, UsersOfFile, BranchesOfFile
  <2>5. QED  BY <2>3, <2>4
<1>10. ASSUME changes' = 0, ~ alone
       PROVE  UsersDone(Len(UserData))' /\ \A i \in 1 .. at : HasAccount(i)' /\ HasPost(i)'
  <2>1. Progress /\ HasAccount(at)
    BY <1>2, <1>10 DEF seedPost, HealInv, Within
  <2>2. UsersDone(Len(UserData))'
    BY <1>1, <2>1 DEF seedPost, Progress, UsersDone
  <2>3. ASSUME NEW i \in 1 .. at PROVE HasAccount(i)' /\ HasPost(i)'
    <3>1. CASE i = at
      BY <1>1, <1>7, <2>1, <3>1 DEF HasAccount, HasPost
    <3>2. CASE i # at
      <4>1. i \in 1 .. at - 1 /\ i \in 1 .. Len(EmployeeData)
        BY <1>3, <3>2
      <4>2. HasAccount(i) /\ HasPost(i)
        BY <2>1, <4>1 DEF seedPost, Progress, EmployeesDone
      <4>3. QED  BY <1>1, <1>8, <4>1, <4>2 DEF HasAccount
    <3>3. QED  BY <3>1, <3>2
  <2>4. QED  BY <2>2, <2>3
<1>11. QED  BY <1>1, <1>9, <1>10, EntryHeals DEF seedPost

\* A run of seed.ts is always further than the files it has left behind.
LEMMA HealsInit == Init => HealInv
<1> SUFFICES ASSUME Init PROVE HealInv
  OBVIOUS
<1>1. \A i \in 1 .. Len(UserData) : account[UserData[i].email] = NoRole
  BY Files DEF Init
<1>2. Len(branches) = 0 /\ Len(posts) = 0 /\ Len(BranchData) \in Nat
  BY Files, EmptySeq DEF Init
<1>3. OfFiles
  BY <1>1, <1>2 DEF Init, OfFiles, GrantsOfFile, UsersOfFile, BranchesOfFile, PostsOfFile
<1>4. Within /\ ~ finished
  BY DEF Init, Within
<1>5. QED  BY <1>3, <1>4 DEF HealInv, CrashIsHealed
LEMMA HealsNext == IInv /\ TypeInv' /\ [Next]_vars => HealInv'
<1> SUFFICES ASSUME TypeInv, HealInv, TypeInv', [Next]_vars PROVE HealInv'
  BY DEF IInv
<1>1. CASE SeedAll  BY <1>1, StartHeals DEF SeedAll
<1>2. CASE SeedOne  BY <1>2, StartHeals DEF SeedOne
<1>3. CASE Crash  BY <1>3, CrashHeals
<1>4. CASE rolesSeed  BY <1>4, rolesSeedHeals
<1>5. CASE permissionsSeed  BY <1>5, permissionsSeedHeals
<1>6. CASE grantsSeed  BY <1>6, grantsSeedHeals
<1>7. CASE usersSeed  BY <1>7, usersSeedHeals
<1>8. CASE branchesSeed  BY <1>8, branchesSeedHeals
<1>9. CASE employeeBranchesSeed  BY <1>9, employeeBranchesSeedHeals
<1>10. CASE seedPost  BY <1>10, seedPostHeals
<1>11. CASE MoveEmployee \/ RemoveEmployee \/ RegrantRole \/ RemoveBranch
  BY <1>11, ChangeHeals DEF MoveEmployee, RemoveEmployee, RegrantRole, RemoveBranch
<1>12. CASE UNCHANGED vars
  <2>1. OfFiles => OfFiles'
    BY <1>12, SameRowsSameFiles DEF vars
  <2>2. Within => Within'
    BY <1>12 DEF vars, Within, Progress, GrantsDone, UsersDone, BranchesDone, EmployeesDone,
      HasAccount, HasPost
  <2>3. CrashIsHealed => CrashIsHealed'
    BY <1>12 DEF vars, CrashIsHealed, Complete
  <2>4. QED  BY <1>12, <2>1, <2>2, <2>3 DEF vars, HealInv
<1>13. QED
  BY <1>1, <1>2, <1>3, <1>4, <1>5, <1>6, <1>7, <1>8, <1>9, <1>10, <1>11, <1>12 DEF Next

\* What a run leaves, dying or not, is rows of the files in their order, and a
\* run of seed.ts has everything of the entries it has passed (seed.ts:8-27 and
\* the scripts it calls).
THEOREM Invariance == Spec => []IInv
<1>1. Init => IInv
  BY TypesInit, HealsInit DEF IInv
<1>2. IInv /\ [Next]_vars => IInv'
  <2>1. TypeInv /\ [Next]_vars => TypeInv'
    BY TypesNext
  <2>2. QED  BY <2>1, HealsNext DEF IInv
<1>3. QED  BY <1>1, <1>2, PTL DEF Spec

\* Once seed.ts has run to its end on tables only the scripts have touched,
\* everything of the files is there and every employee has one post, however
\* often it died before (permissions-seed.ts:12-92,
\* employee-branches-seed.ts:15-72).
THEOREM RunHealsCrash == Spec => []CrashIsHealed
<1>1. IInv => CrashIsHealed
  BY DEF IInv, HealInv
<1>2. QED  BY <1>1, Invariance, PTL
=============================================================================
