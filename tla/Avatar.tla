------------------------------- MODULE Avatar -------------------------------
(***************************************************************************)
(* The avatars of the users: ProfileService.update writes a file, then the *)
(* row that names it, then deletes the file the row named before.  The     *)
(* directory and the rows change in separate steps, under no lock, and a   *)
(* failure is repaired by deleting a file.                                 *)
(*                                                                         *)
(* EmployeeBranchesService writes the same column: create and update store *)
(* the avatar of the form as it is and touch no file.                      *)
(*                                                                         *)
(* A statement that throws is taken not to have been committed.            *)
(***************************************************************************)
EXTENDS Naturals, FiniteSets

CONSTANTS
  Users,      \* rows of User, those still to be created included
  Requests,   \* PATCH requests being served at the same time
  Files,      \* the file names there can ever be: time and a random number
  NoFile,     \* no avatar, or no avatar in the request
  Elsewhere,  \* a string that names no file of the directory
  NoUser,     \* of a request that is not being served
  MaxFaults   \* bound: how many failures happen in a behaviour

ASSUME AvatarAssumption ==
  /\ {NoFile, Elsewhere} \cap Files = {} /\ NoFile # Elsewhere
  /\ NoUser \notin Users /\ MaxFaults \in Nat

VARIABLES
  avatar,     \* User.avatar of every user
  disk,       \* files in the upload directory
  taken,      \* file names that have been given out
  request,    \* what each request is doing
  faults,     \* failures so far
  \* History.  Only shown is read, by the choice of what an employee form says.
  shown,      \* files some row has named: the names a client can know
  pasted,     \* files an employee form has put into a row that did not name them
  displaced,  \* files an employee form has taken out of a row
  overlapped  \* two requests of one user have been in flight at once

rows == <<avatar, shown, pasted, displaced>>
vars == <<rows, disk, taken, request, faults, overlapped>>

Avatars == Files \cup {NoFile, Elsewhere}

\* old is existingUser.avatar, file the new file.
RequestStates == [user : Users \cup {NoUser},
                  pc : {"idle", "read", "saved", "failed", "updated"},
                  old : Avatars, file : Files \cup {NoFile}]
Idle == [user |-> NoUser, pc |-> "idle", old |-> NoFile, file |-> NoFile]

Init ==
  /\ avatar = [u \in Users |-> NoFile]
  /\ disk = {}
  /\ taken = {}
  /\ request = [r \in Requests |-> Idle]
  /\ faults = 0
  /\ shown = {} /\ pasted = {} /\ displaced = {}
  /\ overlapped = FALSE

Fault == faults < MaxFaults /\ faults' = faults + 1
Finish(r) == request' = [request EXCEPT ![r] = Idle]

\* findUnique: the user as it is now.
ReadUser(r, u) ==
  /\ request[r] = Idle
  /\ request' = [request EXCEPT ![r] =
       [user |-> u, pc |-> "read", old |-> avatar[u], file |-> NoFile]]
  /\ overlapped' = (overlapped \/ \E o \in Requests : request[o].user = u)
  /\ UNCHANGED <<rows, disk, taken, faults>>

\* assertValidAvatarBuffer refuses the file: nothing has been written yet.
RefuseFile(r) ==
  /\ request[r].pc = "read"
  /\ Finish(r)
  /\ UNCHANGED <<rows, disk, taken, faults, overlapped>>

\* saveAvatarFile, under a name nobody has used.
SaveFile(r) ==
  /\ request[r].pc = "read"
  /\ \E f \in Files \ taken :
       /\ taken' = taken \cup {f}
       /\ disk' = disk \cup {f}
       /\ request' = [request EXCEPT ![r].pc = "saved", ![r].file = f]
  /\ UNCHANGED <<rows, faults, overlapped>>

\* writeFile throws, having created the file or not: nothing is cleaned up.
SaveThrows(r) ==
  /\ request[r].pc = "read"
  /\ Fault
  /\ \E f \in Files \ taken :
       /\ taken' = taken \cup {f}
       /\ disk' \in {disk, disk \cup {f}}
  /\ Finish(r)
  /\ UNCHANGED <<rows, overlapped>>

\* user.update with the avatar only if the request has one: after saving a
\* file, or from "read" without one.
Updating(r) == request[r].pc \in {"read", "saved"}

UpdateUser(r) ==
  /\ Updating(r)
  /\ \/ /\ request[r].file # NoFile
        /\ avatar' = [avatar EXCEPT ![request[r].user] = request[r].file]
        /\ shown' = shown \cup {request[r].file}
     \/ request[r].file = NoFile /\ UNCHANGED <<avatar, shown>>
  /\ request' = [request EXCEPT ![r].pc = "updated"]
  /\ UNCHANGED <<pasted, displaced, disk, taken, faults, overlapped>>

\* The email is in use, or the statement throws.
UpdateThrows(r) ==
  /\ Updating(r)
  /\ request' = [request EXCEPT ![r].pc = "failed"]
  /\ UNCHANGED <<rows, disk, taken, faults, overlapped>>

\* The catch block deletes the new file, the last lines the one it replaced;
\* deleteAvatarFileByFilename ignores that a file is missing or stays.
FileToCleanOld(r) == request[r].old
FileToClean(r) == request[r].file
OldFileAlways(r) == request[r].old
OldFileNever(r) == NoFile
OldFile(r) == IF request[r].file # NoFile THEN request[r].old ELSE NoFile

Unlink(f) == (disk' = disk \ {f} /\ UNCHANGED faults) \/ (Fault /\ UNCHANGED disk)

CleanUp(r) ==
  /\ request[r].pc = "failed"
  /\ Unlink(FileToClean(r))
  /\ Finish(r)
  /\ UNCHANGED <<rows, taken, overlapped>>

DeleteOld(r) ==
  /\ request[r].pc = "updated"
  /\ Unlink(OldFile(r))
  /\ Finish(r)
  /\ UNCHANGED <<rows, taken, overlapped>>

\* The employee form: z.string().optional().nullable(), nothing else is asked.
\* It can say what a response has shown the client, or anything else.
FormAvatars == {NoFile, Elsewhere} \cup shown

\* EmployeeBranchesService.update writes the avatar of the form into the row, in
\* one transaction; create writes it into a row that is new.  No file is touched.
\* A form without an avatar, or with the row's own, changes nothing.
WriteEmployee(u, a) ==
  /\ a # avatar[u]
  /\ avatar' = [avatar EXCEPT ![u] = a]
  /\ pasted' = pasted \cup ({a} \cap Files)
  /\ displaced' = displaced \cup ({avatar[u]} \cap Files)
  /\ UNCHANGED <<shown, disk, taken, request, faults, overlapped>>

\* The process dies: every request is gone, the rows and the directory stay.
Crash ==
  /\ Fault
  /\ request' = [r \in Requests |-> Idle]
  /\ UNCHANGED <<rows, disk, taken, overlapped>>

Next ==
  \/ \E r \in Requests :
       \/ \E u \in Users : ReadUser(r, u)
       \/ RefuseFile(r) \/ SaveFile(r) \/ SaveThrows(r)
       \/ UpdateUser(r) \/ UpdateThrows(r) \/ CleanUp(r) \/ DeleteOld(r)
  \/ \E u \in Users : \E a \in FormAvatars : WriteEmployee(u, a)
  \/ Crash

Spec == Init /\ [][Next]_vars

---------------------------------------------------------------------------
\* The type invariant: the directory holds, and the rows have named, only files
\* saveAvatarFile has named.
TypeOK ==
  /\ avatar \in [Users -> shown \cup {NoFile, Elsewhere}]
  /\ disk \subseteq taken /\ taken \subseteq Files
  /\ shown \subseteq taken /\ pasted \subseteq shown /\ displaced \subseteq shown
  /\ request \in [Requests -> RequestStates]
  /\ faults \in 0 .. MaxFaults
  /\ overlapped \in BOOLEAN

\* An uploaded avatar can be served as long as no employee form has put its file
\* into a row: no request, however they overlap, fail or die, deletes a file a
\* row names (profile.service.ts:84-120), and an employee form that only clears
\* or replaces avatars deletes none (employee-branches.service.ts:147, 296).
AvatarOnDisk == \A u \in Users : avatar[u] \in Files \ pasted => avatar[u] \in disk

\* As long as no two requests of one user overlap and nothing fails but the
\* update itself, every file is named by a row, but for those an employee form has
\* taken out of a row (profile.service.ts:100-120, employee-branches.service.ts:296).
NoLitter ==
  ~overlapped /\ faults = 0 /\ (\A r \in Requests : request[r] = Idle) =>
    \A f \in disk \ displaced : \E u \in Users : avatar[u] = f
=============================================================================
