---------------------------- MODULE Avatar_proofs ----------------------------
(***************************************************************************)
(* Proof that an uploaded avatar can be served, for any number of users,   *)
(* overlapping requests, employee forms, failures and crashes.             *)
(*                                                                         *)
(* AvatarOnDisk alone is not inductive: a request could delete a file that *)
(* a row names.  What forbids it is ownership.  A file that its request    *)
(* has not yet put into a row has been named by no row, so no client can   *)
(* know it; a file that a request has replaced is in no other row, unless  *)
(* an employee form has put it there.                                      *)
(*                                                                         *)
(* The second part proves that requests that do not fail, one at a time of *)
(* each user, leave no file behind: every file is in the hand of a request *)
(* that may still delete it, or at home in a row that no request in flight *)
(* takes to be another.                                                    *)
(***************************************************************************)
EXTENDS Avatar, TLAPS

\* What a request names has been given out, and what it read has been shown.
Named == \A r \in Requests :
  /\ request[r].old \in shown \cup {NoFile, Elsewhere}
  /\ request[r].file \in taken \cup {NoFile}
  /\ request[r].pc = "idle" => request[r] = Idle
  /\ request[r].pc # "idle" => request[r].user \in Users
  /\ request[r].pc = "read" => request[r].file = NoFile
  /\ request[r].pc = "saved" => request[r].file # NoFile

\* A file that has not been in a row is its request's own, and on disk if the
\* request is still going to put it into one.
Owned == \A r \in Requests :
  request[r].pc \in {"saved", "failed"} /\ request[r].file # NoFile =>
    /\ request[r].file \notin shown
    /\ request[r].pc = "saved" => request[r].file \in disk
    /\ \A o \in Requests \ {r} : request[o].file # request[r].file

\* Two rows name the same file only where an employee form has put it.
Apart == \A u, v \in Users :
  u # v /\ avatar[u] = avatar[v] /\ avatar[u] \in Files => avatar[u] \in pasted

\* What a request has read from a row is in no other row, and in none any more
\* once the request has replaced it, except where an employee form has put it.
Replaced == \A r \in Requests, u \in Users :
  /\ request[r].old \in Files /\ avatar[u] = request[r].old
  /\ u # request[r].user \/ (request[r].pc = "updated" /\ request[r].file # NoFile)
  => request[r].old \in pasted

IInv == TypeOK /\ Named /\ Owned /\ Apart /\ Replaced /\ AvatarOnDisk

\* What EXCEPT does to one request.
LEMMA OneRequest ==
  ASSUME TypeOK, NEW r \in Requests, NEW q \in RequestStates,
         request' = [request EXCEPT ![r] = q]
  PROVE  /\ request' \in [Requests -> RequestStates]
         /\ request'[r] = q
         /\ \A o \in Requests \ {r} : request'[o] = request[o]
BY DEF TypeOK

\* The fields of a request, moved on.
LEMMA GoOn ==
  ASSUME TypeOK, NEW r \in Requests,
         NEW pc \in {"idle", "read", "saved", "failed", "updated"},
         request' = [request EXCEPT ![r].pc = pc]
  PROVE  /\ request' \in [Requests -> RequestStates]
         /\ request'[r].pc = pc /\ request'[r].old = request[r].old
         /\ request'[r].file = request[r].file /\ request'[r].user = request[r].user
         /\ \A o \in Requests \ {r} : request'[o] = request[o]
BY DEF TypeOK, RequestStates

\* A request that is not being served.
LEMMA IdleFields ==
  /\ Idle \in RequestStates /\ Idle.pc = "idle" /\ Idle.old = NoFile
  /\ Idle.file = NoFile /\ Idle.user = NoUser
BY DEF Idle, RequestStates, Avatars

\* The strings that are not files, and the files a row can name.
LEMMA Strings ==
  ASSUME TypeOK
  PROVE  /\ NoFile \notin Files /\ Elsewhere \notin Files /\ NoUser \notin Users
         /\ shown \subseteq Files /\ disk \subseteq Files
         /\ NoFile \notin disk /\ Elsewhere \notin disk
         /\ \A u \in Users : avatar[u] \in shown \cup {NoFile, Elsewhere}
         /\ \A u \in Users : avatar[u] \in Avatars
         /\ \A r \in Requests : request[r] \in RequestStates
BY AvatarAssumption DEF TypeOK, Avatars

\* Every behaviour starts in the invariant.
LEMMA InitOK == ASSUME Init PROVE IInv
<1>1. request \in [Requests -> RequestStates] /\ \A r \in Requests : request[r] = Idle
  BY IdleFields DEF Init
<1>2. avatar \in [Users -> shown \cup {NoFile, Elsewhere}]
      /\ \A u \in Users : avatar[u] = NoFile
  BY DEF Init
<1>3. TypeOK
  <2>1. faults \in 0 .. MaxFaults
    BY AvatarAssumption DEF Init
  <2> QED BY <1>1, <1>2, <2>1 DEF Init, TypeOK
<1>4. Named /\ Owned
  BY <1>1, IdleFields DEF Named, Owned
<1>5. Apart /\ Replaced /\ AvatarOnDisk
  BY <1>1, <1>2, AvatarAssumption, IdleFields DEF Apart, Replaced, AvatarOnDisk
<1> QED BY <1>3, <1>4, <1>5 DEF IInv

\* A request that ends, with the rows as they are.
LEMMA FinishStep ==
  ASSUME IInv, NEW r \in Requests, Finish(r), UNCHANGED rows,
         taken' \subseteq Files, taken \subseteq taken', disk' \subseteq taken',
         faults' \in 0 .. MaxFaults, overlapped' \in BOOLEAN, AvatarOnDisk',
         \A o \in Requests \ {r} :
           request[o].pc = "saved" => request[o].file \in disk'
  PROVE  IInv'
<1>1. /\ request' \in [Requests -> RequestStates] /\ request'[r] = Idle
      /\ \A o \in Requests \ {r} : request'[o] = request[o]
  BY IdleFields, OneRequest DEF Finish, IInv
<1>2. UNCHANGED avatar /\ UNCHANGED shown /\ UNCHANGED pasted /\ UNCHANGED displaced
  BY DEF rows
<1>3. TypeOK'
  BY <1>1, <1>2 DEF IInv, TypeOK
<1>4. Named'
  BY <1>1, <1>2, IdleFields DEF IInv, Named
<1>5. Owned'
  BY <1>1, <1>2, IdleFields DEF IInv, Owned
<1>6. Apart'
  BY <1>2 DEF IInv, Apart
<1>7. Replaced'
  BY <1>1, <1>2, IdleFields, Strings DEF IInv, Replaced
<1> QED BY <1>3, <1>4, <1>5, <1>6, <1>7 DEF IInv

\* Deleting a file a request may delete hurts neither a row nor another request.
LEMMA UnlinkStep ==
  ASSUME IInv, NEW r \in Requests, NEW f, Unlink(f), Finish(r),
         UNCHANGED <<rows, taken, overlapped>>,
         \A u \in Users : f \in Files /\ avatar[u] = f => f \in pasted,
         \A o \in Requests \ {r} : f \in Files /\ request[o].pc = "saved" => request[o].file # f
  PROVE  IInv'
<1>1. disk' = disk \ {f} \/ disk' = disk
  BY DEF Unlink
<1>2. faults' \in 0 .. MaxFaults
  BY AvatarAssumption DEF Unlink, Fault, IInv, TypeOK
<1>3. \A o \in Requests \ {r} : request[o].pc = "saved" => request[o].file \in disk'
  BY <1>1, Strings DEF IInv, Named, Owned
<1>4. UNCHANGED avatar /\ UNCHANGED pasted
  BY DEF rows
<1>5. AvatarOnDisk'
  BY <1>1, <1>4 DEF IInv, AvatarOnDisk
<1>6. taken' \subseteq Files /\ taken \subseteq taken' /\ disk' \subseteq taken'
      /\ overlapped' \in BOOLEAN
  BY <1>1 DEF IInv, TypeOK
<1> QED BY <1>2, <1>3, <1>5, <1>6, FinishStep

\* findUnique: the request knows the row's file, nobody's own.
LEMMA ReadUserStep ==
  ASSUME IInv, NEW r \in Requests, NEW u \in Users, ReadUser(r, u)
  PROVE  IInv'
<1> DEFINE q == [user |-> u, pc |-> "read", old |-> avatar[u], file |-> NoFile]
<1>0. avatar[u] \in Avatars /\ avatar[u] \in shown \cup {NoFile, Elsewhere}
  BY Strings DEF IInv
<1>1. q \in RequestStates
  BY <1>0 DEF RequestStates
<1>2. /\ request' \in [Requests -> RequestStates] /\ request'[r] = q
      /\ \A o \in Requests \ {r} : request'[o] = request[o]
  BY <1>1, OneRequest DEF ReadUser, IInv
<1>3. q.user = u /\ q.pc = "read" /\ q.old = avatar[u] /\ q.file = NoFile
  OBVIOUS
<1> HIDE DEF q
<1>4. /\ UNCHANGED avatar /\ UNCHANGED shown /\ UNCHANGED pasted /\ UNCHANGED displaced
      /\ UNCHANGED <<disk, taken, faults>> /\ overlapped' \in BOOLEAN
  BY DEF ReadUser, rows, IInv, TypeOK
<1>5. TypeOK' /\ Named'
  BY <1>0, <1>2, <1>3, <1>4 DEF IInv, TypeOK, Named
<1>6. Owned'
  BY <1>2, <1>3, <1>4 DEF IInv, Owned
<1>7. Apart' /\ AvatarOnDisk'
  BY <1>4 DEF IInv, Apart, AvatarOnDisk
<1>8. Replaced'
  BY <1>2, <1>3, <1>4 DEF IInv, Apart, Replaced
<1> QED BY <1>5, <1>6, <1>7, <1>8 DEF IInv

\* The new file has a name nobody knows yet.
LEMMA SaveFileStep == ASSUME IInv, NEW r \in Requests, SaveFile(r) PROVE IInv'
<1>1. PICK f \in Files \ taken :
        /\ taken' = taken \cup {f} /\ disk' = disk \cup {f}
        /\ request' = [request EXCEPT ![r].pc = "saved", ![r].file = f]
  BY DEF SaveFile
<1> DEFINE q == [request[r] EXCEPT !.pc = "saved", !.file = f]
<1>2. /\ q \in RequestStates /\ q.pc = "saved" /\ q.old = request[r].old /\ q.file = f
      /\ q.user = request[r].user /\ request' = [request EXCEPT ![r] = q]
  BY <1>1 DEF IInv, TypeOK, RequestStates
<1> HIDE DEF q
<1>3. /\ request' \in [Requests -> RequestStates] /\ request'[r] = q
      /\ \A o \in Requests \ {r} : request'[o] = request[o]
  BY <1>2, OneRequest DEF IInv
<1>4. /\ f # NoFile /\ f \notin shown
      /\ \A o \in Requests : request[o].file # f
  BY AvatarAssumption DEF IInv, TypeOK, Named
<1>5. /\ UNCHANGED avatar /\ UNCHANGED shown /\ UNCHANGED pasted /\ UNCHANGED displaced
      /\ UNCHANGED <<faults, overlapped>> /\ request[r].pc = "read"
  BY DEF SaveFile, rows
<1>6. TypeOK'
  BY <1>1, <1>3, <1>5 DEF IInv, TypeOK
<1>7. Named'
  BY <1>1, <1>2, <1>3, <1>4, <1>5 DEF IInv, Named
<1>8. Owned'
  BY <1>1, <1>2, <1>3, <1>4, <1>5 DEF IInv, Owned
<1>9. Apart' /\ AvatarOnDisk'
  BY <1>1, <1>5 DEF IInv, Apart, AvatarOnDisk
<1>10. Replaced'
  BY <1>2, <1>3, <1>5 DEF IInv, Replaced
<1> QED BY <1>6, <1>7, <1>8, <1>9, <1>10 DEF IInv

\* The update puts the request's own file, which no row has named, into the row.
LEMMA UpdateUserStep == ASSUME IInv, NEW r \in Requests, UpdateUser(r) PROVE IInv'
<1>1. /\ request' \in [Requests -> RequestStates]
      /\ request'[r].pc = "updated" /\ request'[r].old = request[r].old
      /\ request'[r].file = request[r].file /\ request'[r].user = request[r].user
      /\ \A o \in Requests \ {r} : request'[o] = request[o]
  BY GoOn DEF UpdateUser, IInv
<1>2. request[r].pc \in {"read", "saved"} /\ request[r].user \in Users
  BY DEF UpdateUser, Updating, IInv, Named
<1>3. UNCHANGED <<pasted, displaced, disk, taken, faults, overlapped>>
  BY DEF UpdateUser
<1>4. CASE request[r].file = NoFile
  <2>1. UNCHANGED avatar /\ UNCHANGED shown
    BY <1>4 DEF UpdateUser
  <2>2. TypeOK' /\ Named'
    BY <1>1, <1>2, <1>3, <2>1 DEF IInv, TypeOK, Named
  <2>3. Owned'
    BY <1>1, <1>3, <2>1 DEF IInv, Owned
  <2>4. Apart' /\ AvatarOnDisk' /\ Replaced'
    BY <1>1, <1>3, <1>4, <2>1 DEF IInv, Apart, AvatarOnDisk, Replaced
  <2> QED BY <2>2, <2>3, <2>4 DEF IInv
<1>5. CASE request[r].file # NoFile
  <2> DEFINE f == request[r].file
             w == request[r].user
  <2>1. /\ avatar' = [avatar EXCEPT ![w] = f] /\ shown' = shown \cup {f}
        /\ request[r].pc = "saved"
    BY <1>2, <1>5 DEF UpdateUser, IInv, Named
  <2>2. /\ f \in taken /\ f \in Files /\ f \notin shown /\ f \in disk
        /\ \A o \in Requests \ {r} : request[o].file # f
    BY <1>5, <2>1 DEF IInv, TypeOK, Named, Owned
  <2>3. /\ \A o \in Requests : request[o].old # f
        /\ \A u \in Users : avatar[u] # f
    BY <2>2, Strings DEF IInv, Named
  <2>4. avatar'[w] = f /\ \A u \in Users \ {w} : avatar'[u] = avatar[u]
    BY <1>2, <2>1 DEF IInv, TypeOK
  <2>5. avatar' \in [Users -> shown' \cup {NoFile, Elsewhere}]
    BY <1>2, <2>1 DEF IInv, TypeOK
  <2>6. TypeOK'
    BY <1>1, <1>3, <2>1, <2>2, <2>5 DEF IInv, TypeOK
  <2> HIDE DEF f, w
  <2>7. Named'
    BY <1>1, <1>2, <1>3, <2>1 DEF IInv, Named
  <2>8. Owned'
    BY <1>1, <1>3, <2>1, <2>2 DEF IInv, Owned
  <2>9. Apart'
    BY <1>3, <2>3, <2>4 DEF IInv, Apart
  <2>10. AvatarOnDisk'
    BY <1>3, <2>2, <2>4 DEF IInv, AvatarOnDisk
  <2>11. Replaced'
    BY <1>1, <1>3, <2>3, <2>4 DEF IInv, Replaced, w
  <2> QED BY <2>6, <2>7, <2>8, <2>9, <2>10, <2>11 DEF IInv
<1> QED BY <1>4, <1>5

\* The update throws: the request still owns its file.
LEMMA UpdateThrowsStep == ASSUME IInv, NEW r \in Requests, UpdateThrows(r) PROVE IInv'
<1>1. /\ request' \in [Requests -> RequestStates]
      /\ request'[r].pc = "failed" /\ request'[r].old = request[r].old
      /\ request'[r].file = request[r].file /\ request'[r].user = request[r].user
      /\ \A o \in Requests \ {r} : request'[o] = request[o]
  BY GoOn DEF UpdateThrows, IInv
<1>2. request[r].file # NoFile => request[r].pc = "saved"
  BY DEF UpdateThrows, Updating, IInv, Named
<1>3. /\ UNCHANGED avatar /\ UNCHANGED shown /\ UNCHANGED pasted /\ UNCHANGED displaced
      /\ UNCHANGED <<disk, taken, faults, overlapped>> /\ request[r].pc \in {"read", "saved"}
  BY DEF UpdateThrows, Updating, rows
<1>4. TypeOK' /\ Named'
  BY <1>1, <1>3 DEF IInv, TypeOK, Named
<1>5. Owned'
  BY <1>1, <1>2, <1>3 DEF IInv, Owned
<1>6. Apart' /\ Replaced' /\ AvatarOnDisk'
  BY <1>1, <1>3 DEF IInv, Apart, Replaced, AvatarOnDisk
<1> QED BY <1>4, <1>5, <1>6 DEF IInv

\* An employee form puts into a row nothing that is a request's own.
LEMMA WriteEmployeeStep ==
  ASSUME IInv, NEW u \in Users, NEW a \in FormAvatars, WriteEmployee(u, a)
  PROVE  IInv'
<1>1. avatar'[u] = a /\ \A v \in Users \ {u} : avatar'[v] = avatar[v]
  BY DEF WriteEmployee, IInv, TypeOK
<1>2. /\ pasted' = pasted \cup ({a} \cap Files)
      /\ displaced' = displaced \cup ({avatar[u]} \cap Files)
      /\ UNCHANGED <<shown, disk, taken, request, faults, overlapped>>
  BY DEF WriteEmployee
<1>3. TypeOK'
  <2>1. avatar' \in [Users -> shown \cup {NoFile, Elsewhere}]
    BY DEF WriteEmployee, FormAvatars, IInv, TypeOK
  <2>2. pasted' \subseteq shown /\ displaced' \subseteq shown
    BY <1>2, Strings DEF FormAvatars, IInv, TypeOK
  <2> QED BY <1>2, <2>1, <2>2 DEF IInv, TypeOK
<1>4. Named' /\ Owned'
  BY <1>2 DEF IInv, Named, Owned
<1>5. Apart'
  BY <1>1, <1>2 DEF IInv, Apart
<1>6. Replaced'
  BY <1>1, <1>2 DEF IInv, Replaced
<1>7. AvatarOnDisk'
  BY <1>1, <1>2 DEF IInv, AvatarOnDisk
<1> QED BY <1>3, <1>4, <1>5, <1>6, <1>7 DEF IInv

\* The steps that end a request.
LEMMA EndStep ==
  ASSUME IInv, NEW r \in Requests,
         RefuseFile(r) \/ SaveThrows(r) \/ CleanUp(r) \/ DeleteOld(r)
  PROVE  IInv'
<1>1. CASE RefuseFile(r)
  <2>1. AvatarOnDisk'
    BY <1>1 DEF RefuseFile, rows, IInv, AvatarOnDisk
  <2> QED BY <1>1, <2>1, FinishStep DEF RefuseFile, IInv, TypeOK, Owned, Named
<1>2. CASE SaveThrows(r)
  <2>1. PICK f \in Files \ taken : taken' = taken \cup {f} /\ disk' \in {disk, disk \cup {f}}
    BY <1>2 DEF SaveThrows
  <2>2. faults' \in 0 .. MaxFaults
    BY <1>2, AvatarAssumption DEF SaveThrows, Fault, IInv, TypeOK
  <2>3. AvatarOnDisk'
    BY <1>2, <2>1 DEF SaveThrows, rows, IInv, AvatarOnDisk
  <2> QED BY <1>2, <2>1, <2>2, <2>3, FinishStep DEF SaveThrows, IInv, TypeOK, Owned, Named
<1>3. CASE CleanUp(r)
  <2>1. request[r].file # NoFile =>
          /\ request[r].file \notin shown
          /\ \A o \in Requests \ {r} : request[o].file # request[r].file
    BY <1>3 DEF CleanUp, IInv, Owned
  <2>2. \A u \in Users : request[r].file \in Files => avatar[u] # request[r].file
    BY <2>1, Strings DEF IInv
  <2> QED BY <1>3, <2>1, <2>2, UnlinkStep, AvatarAssumption DEF CleanUp, FileToClean
<1>4. CASE DeleteOld(r)
  <2>1. OldFile(r) # NoFile => OldFile(r) = request[r].old /\ request[r].file # NoFile
    BY DEF OldFile
  <2>2. OldFile(r) \in Files => OldFile(r) # NoFile
    BY AvatarAssumption
  <2>3. \A u \in Users : OldFile(r) \in Files /\ avatar[u] = OldFile(r) => OldFile(r) \in pasted
    BY <1>4, <2>1, <2>2 DEF DeleteOld, IInv, Replaced
  <2>4. OldFile(r) \in Files => OldFile(r) \in shown
    BY <2>1, <2>2, Strings DEF IInv, Named
  <2>5. \A o \in Requests \ {r} :
          OldFile(r) \in Files /\ request[o].pc = "saved" => request[o].file # OldFile(r)
    BY <2>2, <2>4 DEF IInv, Owned
  <2> QED BY <1>4, <2>3, <2>5, UnlinkStep DEF DeleteOld
<1> QED BY <1>1, <1>2, <1>3, <1>4

\* The process dies: what was owned is litter, and the rows keep their files.
LEMMA CrashStep == ASSUME IInv, Crash PROVE IInv'
<1>1. faults' \in 0 .. MaxFaults
  BY AvatarAssumption DEF Crash, Fault, IInv, TypeOK
<1>2. request' \in [Requests -> RequestStates] /\ \A r \in Requests : request'[r] = Idle
  BY IdleFields DEF Crash
<1>3. /\ UNCHANGED avatar /\ UNCHANGED shown /\ UNCHANGED pasted /\ UNCHANGED displaced
      /\ UNCHANGED <<disk, taken, overlapped>>
  BY DEF Crash, rows
<1>4. TypeOK'
  BY <1>1, <1>2, <1>3 DEF IInv, TypeOK
<1>5. Named' /\ Owned'
  BY <1>2, IdleFields DEF Named, Owned
<1>6. Apart' /\ AvatarOnDisk'
  BY <1>3 DEF IInv, Apart, AvatarOnDisk
<1>7. Replaced'
  BY <1>2, IdleFields, AvatarAssumption DEF Replaced
<1> QED BY <1>4, <1>5, <1>6, <1>7 DEF IInv

\* Every step keeps the invariant.
LEMMA Inductive == ASSUME IInv, [Next]_vars PROVE IInv'
<1>1. CASE UNCHANGED vars
  BY <1>1 DEF vars, rows, IInv, TypeOK, Named, Owned, Apart, Replaced, AvatarOnDisk
<1>2. CASE Crash
  BY <1>2, CrashStep
<1>3. ASSUME NEW r \in Requests,
             \/ \E u \in Users : ReadUser(r, u)
             \/ RefuseFile(r) \/ SaveFile(r) \/ SaveThrows(r)
             \/ UpdateUser(r) \/ UpdateThrows(r) \/ CleanUp(r) \/ DeleteOld(r)
      PROVE  IInv'
  BY <1>3, ReadUserStep, SaveFileStep, UpdateUserStep, UpdateThrowsStep, EndStep
<1>4. CASE \E u \in Users : \E a \in FormAvatars : WriteEmployee(u, a)
  BY <1>4, WriteEmployeeStep
<1> QED BY <1>1, <1>2, <1>3, <1>4 DEF Next

\* The invariant holds for ever.
THEOREM Invariance == Spec => []IInv
BY InitOK, Inductive, PTL DEF Spec

\* An uploaded avatar can be served, however requests overlap, fail or die, as
\* long as no employee form has put its file into a row
\* (profile.service.ts:84-120, employee-branches.service.ts:147, 296).
THEOREM AvatarIsServed == Spec => []AvatarOnDisk
<1>1. IInv => AvatarOnDisk BY DEF IInv
<1> QED BY <1>1, Invariance, PTL
---------------------------------------------------------------------------
(***************************************************************************)
(* One request of a user at a time and no failure: nothing is left behind. *)
(* NoLitter speaks only of a moment with no request; in between, a file is *)
(* in the hand of the request that will delete it, or at home in a row.    *)
(***************************************************************************)

\* Until overlapped is set no user has two requests in flight.
Serial == ~overlapped => \A r, o \in Requests :
  request[r].user \in Users /\ request[o].user = request[r].user => r = o

\* The one file a request may still delete: its own until the row names it, then
\* the file the row named before.
InHand(r) == IF request[r].pc = "updated" THEN OldFile(r) ELSE request[r].file

\* The row of u names f, and a request that replaces it will delete f.
AtHome(u, f) ==
  /\ avatar[u] = f
  /\ \A r \in Requests :
       request[r].user = u /\ request[r].pc \in {"read", "saved"} => request[r].old = f

\* The files for which somebody answers: a request, a row, or an employee form.
Kept(f) ==
  \/ f \in displaced
  \/ \E r \in Requests : InHand(r) = f
  \/ \E u \in Users : AtHome(u, f)

Tidy == ~overlapped /\ faults = 0 => \A f \in disk : Kept(f)

LitterInv == Serial /\ Tidy

\* What has been tidy and is not in the hand of r stays so when r moves on.
LEMMA OthersTidy ==
  ASSUME IInv, LitterInv, NEW r \in Requests, request[r].pc # "idle",
         ~overlapped, faults = 0, UNCHANGED rows,
         \A o \in Requests \ {r} : request'[o] = request[o],
         request'[r].pc \in {"read", "saved"} =>
           /\ request[r].pc \in {"read", "saved"}
           /\ request'[r].user = request[r].user /\ request'[r].old = request[r].old,
         NEW f \in disk, InHand(r) = f => InHand(r)' = f
  PROVE  Kept(f)'
<1>1. UNCHANGED avatar /\ UNCHANGED displaced
  BY DEF rows
<1>2. CASE f \in displaced
  BY <1>1, <1>2 DEF Kept
<1>3. CASE \E o \in Requests : InHand(o) = f
  <2>1. PICK o \in Requests : InHand(o) = f
    BY <1>3
  <2>2. o # r => InHand(o)' = f
    BY <2>1 DEF InHand, OldFile
  <2> QED BY <2>1, <2>2 DEF Kept
<1>4. CASE \E u \in Users : AtHome(u, f)
  <2>1. PICK u \in Users : AtHome(u, f)
    BY <1>4
  <2>2. AtHome(u, f)'
    BY <1>1, <2>1 DEF AtHome
  <2> QED BY <2>2 DEF Kept
<1> QED BY <1>2, <1>3, <1>4 DEF LitterInv, Tidy, Kept

\* A request that goes on or ends keeps its user or gives it up.
LEMMA SerialStep ==
  ASSUME IInv, Serial, NEW r \in Requests, UNCHANGED overlapped,
         request'[r].user \in {request[r].user, NoUser},
         \A o \in Requests \ {r} : request'[o] = request[o]
  PROVE  Serial'
BY AvatarAssumption DEF Serial

\* findUnique: the request is its user's only one, or overlapped says that it is
\* not, and what it has read is what the row names.
LEMMA ReadUserTidy ==
  ASSUME IInv, LitterInv, NEW r \in Requests, NEW u \in Users, ReadUser(r, u)
  PROVE  LitterInv'
<1> DEFINE q == [user |-> u, pc |-> "read", old |-> avatar[u], file |-> NoFile]
<1>0. avatar[u] \in Avatars
  BY Strings DEF IInv
<1>1. q \in RequestStates
  BY <1>0 DEF RequestStates
<1>2. request'[r] = q /\ \A o \in Requests \ {r} : request'[o] = request[o]
  BY <1>1, OneRequest DEF ReadUser, IInv
<1>3. q.user = u /\ q.pc = "read" /\ q.old = avatar[u] /\ q.file = NoFile
  OBVIOUS
<1> HIDE DEF q
<1>4. /\ UNCHANGED avatar /\ UNCHANGED displaced /\ UNCHANGED <<disk, faults>>
      /\ request[r] = Idle /\ (~overlapped' => ~overlapped)
      /\ ~overlapped' => \A o \in Requests : request[o].user # u
  BY DEF ReadUser, rows
<1>5. Serial'
  BY <1>2, <1>3, <1>4 DEF LitterInv, Serial
<1>6. Tidy'
  <2>1. SUFFICES ASSUME ~overlapped', faults = 0, NEW f \in disk PROVE Kept(f)'
    BY <1>4 DEF Tidy
  <2>2. Kept(f) /\ f # NoFile
    BY <1>4, <2>1, Strings DEF LitterInv, Tidy, IInv
  <2>3. InHand(r) = NoFile
    BY <1>4, IdleFields DEF InHand
  <2>4. \A o \in Requests \ {r} : InHand(o)' = InHand(o)
    BY <1>2 DEF InHand, OldFile
  <2>5. \A v \in Users : AtHome(v, f) => AtHome(v, f)'
    BY <1>2, <1>3, <1>4 DEF AtHome
  <2> QED BY <1>4, <2>2, <2>3, <2>4, <2>5 DEF Kept
<1> QED BY <1>5, <1>6 DEF LitterInv

\* The file just written is in the request's hand.
LEMMA SaveFileTidy ==
  ASSUME IInv, LitterInv, NEW r \in Requests, SaveFile(r)
  PROVE  LitterInv'
<1>1. PICK f \in Files \ taken :
        /\ disk' = disk \cup {f}
        /\ request' = [request EXCEPT ![r].pc = "saved", ![r].file = f]
  BY DEF SaveFile
<1> DEFINE q == [request[r] EXCEPT !.pc = "saved", !.file = f]
<1>2. /\ q \in RequestStates /\ q.pc = "saved" /\ q.old = request[r].old /\ q.file = f
      /\ q.user = request[r].user /\ request' = [request EXCEPT ![r] = q]
  BY <1>1 DEF IInv, TypeOK, RequestStates
<1> HIDE DEF q
<1>3. request'[r] = q /\ \A o \in Requests \ {r} : request'[o] = request[o]
  BY <1>2, OneRequest DEF IInv
<1>4. request[r].pc = "read" /\ request[r].file = NoFile /\ UNCHANGED rows
      /\ UNCHANGED <<faults, overlapped>>
  BY DEF SaveFile, IInv, Named
<1>5. Serial'
  BY <1>2, <1>3, <1>4, SerialStep DEF LitterInv
<1>6. Tidy'
  <2>1. SUFFICES ASSUME ~overlapped, faults = 0, NEW g \in disk \cup {f} PROVE Kept(g)'
    BY <1>1, <1>4 DEF Tidy
  <2>2. CASE g = f
    <3>1. InHand(r)' = f
      BY <1>2, <1>3 DEF InHand
    <3> QED BY <2>2, <3>1 DEF Kept
  <2>3. CASE g \in disk
    <3>1. InHand(r) # g
      BY <1>4, <2>3, Strings DEF InHand, IInv
    <3> QED BY <1>2, <1>3, <1>4, <2>1, <2>3, <3>1, OthersTidy
  <2> QED BY <2>2, <2>3
<1> QED BY <1>5, <1>6 DEF LitterInv

\* The update commits: what the row named, if it was at home there, is in the
\* request's hand, and the new file is at home.
LEMMA UpdateUserTidy ==
  ASSUME IInv, LitterInv, NEW r \in Requests, UpdateUser(r)
  PROVE  LitterInv'
<1>1. /\ request'[r].pc = "updated" /\ request'[r].old = request[r].old
      /\ request'[r].file = request[r].file /\ request'[r].user = request[r].user
      /\ \A o \in Requests \ {r} : request'[o] = request[o]
  BY GoOn DEF UpdateUser, IInv
<1>2. request[r].pc \in {"read", "saved"} /\ request[r].user \in Users
      /\ UNCHANGED <<pasted, displaced, disk, taken, faults, overlapped>>
  BY DEF UpdateUser, Updating, IInv, Named
<1>3. Serial'
  BY <1>1, <1>2, SerialStep DEF LitterInv
<1>4. CASE request[r].file = NoFile
  <2>1. UNCHANGED rows /\ InHand(r) = NoFile
    BY <1>2, <1>4 DEF UpdateUser, rows, InHand
  <2>2. Tidy'
    <3>1. SUFFICES ASSUME ~overlapped, faults = 0, NEW f \in disk PROVE Kept(f)'
      BY <1>2 DEF Tidy
    <3>2. InHand(r) # f
      BY <2>1, Strings DEF IInv
    <3> QED BY <1>1, <1>2, <2>1, <3>1, <3>2, OthersTidy
  <2> QED BY <1>3, <2>2 DEF LitterInv
<1>5. CASE request[r].file # NoFile
  <2> DEFINE f == request[r].file
             w == request[r].user
  <2>1. avatar' = [avatar EXCEPT ![w] = f]
    BY <1>5 DEF UpdateUser
  <2>2. avatar'[w] = f /\ \A u \in Users \ {w} : avatar'[u] = avatar[u]
    BY <1>2, <2>1 DEF IInv, TypeOK
  <2>3. Tidy'
    <3>1. SUFFICES ASSUME ~overlapped, faults = 0, NEW g \in disk PROVE Kept(g)'
      BY <1>2 DEF Tidy
    <3>2. Kept(g)
      BY <3>1 DEF LitterInv, Tidy
    <3>3. \A o \in Requests \ {r} : request'[o].user # w
      BY <1>1, <1>2, <3>1 DEF LitterInv, Serial
    <3>4. AtHome(w, f)'
      BY <1>1, <1>2, <2>2, <3>3 DEF AtHome
    <3>5. InHand(r)' = request[r].old /\ InHand(r) = f
      BY <1>1, <1>2, <1>5 DEF InHand, OldFile
    <3>6. \A o \in Requests \ {r} : InHand(o)' = InHand(o)
      BY <1>1 DEF InHand, OldFile
    <3>7. AtHome(w, g) => InHand(r)' = g
      BY <1>2, <3>5 DEF AtHome
    <3>8. ASSUME NEW u \in Users \ {w}, AtHome(u, g) PROVE AtHome(u, g)'
      BY <1>1, <2>2, <3>8 DEF AtHome
    <3>9. CASE g \in displaced
      BY <1>2, <3>9 DEF Kept
    <3>10. CASE \E o \in Requests : InHand(o) = g
      <4>1. PICK o \in Requests : InHand(o) = g
        BY <3>10
      <4>2. CASE o = r
        BY <1>1, <1>2, <3>4, <3>5, <4>1, <4>2 DEF Kept
      <4>3. CASE o # r
        BY <3>6, <4>1, <4>3 DEF Kept
      <4> QED BY <4>2, <4>3
    <3>11. CASE \E u \in Users : AtHome(u, g)
      <4>1. PICK u \in Users : AtHome(u, g)
        BY <3>11
      <4>2. CASE u = w
        BY <3>7, <4>1, <4>2 DEF Kept
      <4>3. CASE u # w
        BY <3>8, <4>1, <4>3 DEF Kept
      <4> QED BY <4>2, <4>3
    <3> QED BY <3>2, <3>9, <3>10, <3>11 DEF Kept
  <2> QED BY <1>3, <2>3 DEF LitterInv
<1> QED BY <1>4, <1>5

\* The update throws: the file stays in the request's hand.
LEMMA UpdateThrowsTidy ==
  ASSUME IInv, LitterInv, NEW r \in Requests, UpdateThrows(r)
  PROVE  LitterInv'
<1>1. /\ request'[r].pc = "failed" /\ request'[r].old = request[r].old
      /\ request'[r].file = request[r].file /\ request'[r].user = request[r].user
      /\ \A o \in Requests \ {r} : request'[o] = request[o]
  BY GoOn DEF UpdateThrows, IInv
<1>2. request[r].pc \in {"read", "saved"} /\ UNCHANGED rows
      /\ UNCHANGED <<disk, faults, overlapped>>
  BY DEF UpdateThrows, Updating
<1>3. Serial'
  BY <1>1, <1>2, SerialStep DEF LitterInv
<1>4. InHand(r)' = InHand(r)
  BY <1>1, <1>2 DEF InHand
<1>5. Tidy'
  BY <1>1, <1>2, <1>4, OthersTidy DEF Tidy
<1> QED BY <1>3, <1>5 DEF LitterInv

\* The file in the hand is deleted, or a failure has been counted.
LEMMA EndTidy ==
  ASSUME IInv, LitterInv, NEW r \in Requests,
         RefuseFile(r) \/ SaveThrows(r) \/ CleanUp(r) \/ DeleteOld(r)
  PROVE  LitterInv'
<1>1. request[r].pc # "idle" /\ Finish(r) /\ UNCHANGED rows /\ UNCHANGED overlapped
  BY DEF RefuseFile, SaveThrows, CleanUp, DeleteOld
<1>2. request'[r] = Idle /\ \A o \in Requests \ {r} : request'[o] = request[o]
  BY <1>1, IdleFields, OneRequest DEF Finish, IInv
<1>3. Serial'
  BY <1>1, <1>2, SerialStep, IdleFields DEF LitterInv
<1>4. faults \in Nat
  BY AvatarAssumption DEF IInv, TypeOK
<1>5. faults' = 0 => faults = 0 /\ disk' \subseteq disk \ {InHand(r)}
  <2>1. CASE RefuseFile(r)
    <3>1. InHand(r) = NoFile
      BY <2>1 DEF RefuseFile, InHand, IInv, Named
    <3> QED BY <2>1, <3>1, Strings DEF RefuseFile, IInv
  <2>2. CASE SaveThrows(r)
    BY <1>4, <2>2 DEF SaveThrows, Fault
  <2>3. ASSUME Unlink(InHand(r)) PROVE faults' = 0 => faults = 0 /\ disk' \subseteq disk \ {InHand(r)}
    BY <1>4, <2>3 DEF Unlink, Fault
  <2>4. CASE CleanUp(r)
    BY <2>3, <2>4 DEF CleanUp, InHand, FileToClean
  <2>5. CASE DeleteOld(r)
    BY <2>3, <2>5 DEF DeleteOld, InHand
  <2> QED BY <2>1, <2>2, <2>4, <2>5
<1>6. Tidy'
  <2>1. SUFFICES ASSUME ~overlapped, faults' = 0, NEW f \in disk' PROVE Kept(f)'
    BY <1>1 DEF Tidy
  <2>2. faults = 0 /\ f \in disk /\ InHand(r) # f
    BY <1>5, <2>1
  <2> QED BY <1>1, <1>2, <2>1, <2>2, OthersTidy, IdleFields
<1> QED BY <1>3, <1>6 DEF LitterInv

\* An employee form answers for the file it takes out of a row.
LEMMA WriteEmployeeTidy ==
  ASSUME IInv, LitterInv, NEW u \in Users, NEW a \in FormAvatars, WriteEmployee(u, a)
  PROVE  LitterInv'
<1>1. /\ \A v \in Users \ {u} : avatar'[v] = avatar[v]
      /\ displaced' = displaced \cup ({avatar[u]} \cap Files)
      /\ UNCHANGED <<disk, request, faults, overlapped>>
  BY DEF WriteEmployee, IInv, TypeOK
<1>2. Serial'
  BY <1>1 DEF LitterInv, Serial
<1>3. Tidy'
  <2>1. SUFFICES ASSUME ~overlapped, faults = 0, NEW f \in disk PROVE Kept(f)'
    BY <1>1 DEF Tidy
  <2>2. Kept(f) /\ f \in Files
    BY <2>1, Strings DEF LitterInv, Tidy, IInv
  <2>3. \A r \in Requests : InHand(r)' = InHand(r)
    BY <1>1 DEF InHand, OldFile
  <2>4. AtHome(u, f) => f \in displaced'
    BY <1>1, <2>2 DEF AtHome
  <2>5. ASSUME NEW v \in Users \ {u}, AtHome(v, f) PROVE AtHome(v, f)'
    BY <1>1, <2>5 DEF AtHome
  <2> QED BY <1>1, <2>2, <2>3, <2>4, <2>5 DEF Kept
<1> QED BY <1>2, <1>3 DEF LitterInv

\* Every step keeps it; a crash is a failure.
LEMMA LitterInductive == ASSUME IInv, LitterInv, [Next]_vars PROVE LitterInv'
<1>1. CASE UNCHANGED vars
  <2>1. UNCHANGED <<avatar, displaced, disk, request, faults, overlapped>>
    BY <1>1 DEF vars, rows
  <2>2. Serial'
    BY <2>1 DEF LitterInv, Serial
  <2>3. Tidy'
    BY <2>1 DEF LitterInv, Tidy, Kept, AtHome, InHand, OldFile
  <2> QED BY <2>2, <2>3 DEF LitterInv
<1>2. CASE Crash
  <2>1. faults' # 0 /\ \A r \in Requests : request'[r].user \notin Users
    BY <1>2, IdleFields, AvatarAssumption DEF Crash, Fault, IInv, TypeOK
  <2> QED BY <2>1 DEF LitterInv, Serial, Tidy
<1>3. ASSUME NEW r \in Requests,
             \/ \E u \in Users : ReadUser(r, u)
             \/ RefuseFile(r) \/ SaveFile(r) \/ SaveThrows(r)
             \/ UpdateUser(r) \/ UpdateThrows(r) \/ CleanUp(r) \/ DeleteOld(r)
      PROVE  LitterInv'
  BY <1>3, ReadUserTidy, SaveFileTidy, UpdateUserTidy, UpdateThrowsTidy, EndTidy
<1>4. CASE \E u \in Users : \E a \in FormAvatars : WriteEmployee(u, a)
  BY <1>4, WriteEmployeeTidy
<1> QED BY <1>1, <1>2, <1>3, <1>4 DEF Next

\* As long as the requests of a user come one at a time and nothing fails but the
\* update itself, every file is named by a row, but for those an employee form has
\* taken out of a row (profile.service.ts:100-120, employee-branches.service.ts:296).
THEOREM NothingLeftBehind == Spec => []NoLitter
<1>1. Init => LitterInv
  BY IdleFields, AvatarAssumption DEF Init, LitterInv, Serial, Tidy
<1>2. IInv /\ LitterInv /\ [Next]_vars => LitterInv'
  BY LitterInductive
<1>3. IInv /\ LitterInv => NoLitter
  <2>1. SUFFICES ASSUME IInv, LitterInv, ~overlapped, faults = 0,
                        \A r \in Requests : request[r] = Idle, NEW f \in disk \ displaced
                 PROVE  \E u \in Users : avatar[u] = f
    BY DEF NoLitter
  <2>2. Kept(f) /\ f # NoFile
    BY <2>1, Strings DEF LitterInv, Tidy, IInv
  <2>3. \A r \in Requests : InHand(r) = NoFile
    BY <2>1, IdleFields DEF InHand
  <2> QED BY <2>1, <2>2, <2>3 DEF Kept, AtHome
<1> QED BY <1>1, <1>2, <1>3, Invariance, PTL DEF Spec
=============================================================================
