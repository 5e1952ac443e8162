---------------------------- MODULE AddressBook ----------------------------
(***************************************************************************)
(* One address of a user (UserAddressesService): a row with the text of    *)
(* the address, the coordinates OpenCage gave for it and the name of a     *)
(* photo, and the directory the photos are in.  update() reads the row     *)
(* first and writes all its fields back later: those the request gives,    *)
(* and for the others what it read.                                        *)
(*                                                                         *)
(* A statement that throws is taken not to have been committed.            *)
(***************************************************************************)
EXTENDS Naturals, FiniteSets

CONSTANTS
  Requests,   \* requests about the address being served at the same time
  Texts,      \* texts of addresses
  NoText,     \* a request that gives no text
  Files,      \* the file names there can ever be: time and a random number
  NoFile,     \* no photo
  MaxFaults   \* bound: how many failures happen in a behaviour

ASSUME AddressAssumption ==
  /\ NoText \notin Texts
  /\ NoFile \notin Files
  /\ MaxFaults \in Nat

VARIABLES
  row,        \* the UserAddress row
  used,       \* does a shipment detail refer to the row
  disk,       \* files in the upload directory
  taken,      \* file names that have been given out
  request,    \* what each request is doing
  faults,     \* failures so far
  overlapped  \* history, read by no action: two requests have been in flight at once

vars == <<row, used, disk, taken, request, faults, overlapped>>

\* The coordinates are named by the text they were resolved from.
Rows == [life : {"none", "stored", "deleted"}, text : Texts \cup {NoText},
         at : Texts \cup {NoText}, photo : Files \cup {NoFile}]
NoRow == [life |-> "none", text |-> NoText, at |-> NoText, photo |-> NoFile]

Ops == {"create", "update", "remove"}
RequestStates == [pc : {"idle", "start", "located", "saved", "failed", "written"},
                  op : Ops, text : Texts \cup {NoText}, at : Texts \cup {NoText},
                  file : Files \cup {NoFile}, existing : Rows]
Idle == [pc |-> "idle", op |-> "create", text |-> NoText, at |-> NoText,
         file |-> NoFile, existing |-> NoRow]

Init ==
  /\ row = NoRow
  /\ used = FALSE
  /\ disk = {}
  /\ taken = {}
  /\ request = [r \in Requests |-> Idle]
  /\ faults = 0
  /\ overlapped = FALSE

Fault == faults < MaxFaults /\ faults' = faults + 1
Goto(r, pc) == request' = [request EXCEPT ![r].pc = pc]
Finish(r) == request' = [request EXCEPT ![r] = Idle]

Begin(op, text, existing) ==
  [pc |-> "start", op |-> op, text |-> text, at |-> NoText, file |-> NoFile,
   existing |-> existing]

---------------------------------------------------------------------------
\* create(): the text is required.  Every create makes a row of its own, so one
\* at a time makes the row of this model.
StartCreate(r, text) ==
  /\ request[r] = Idle
  /\ row.life = "none" /\ \A o \in Requests : request[o] = Idle
  /\ request' = [request EXCEPT ![r] = Begin("create", text, NoRow)]
  /\ UNCHANGED <<row, used, disk, taken, faults, overlapped>>

\* update() and remove() begin with findOne, which throws without a row.
FindOne(r, op, text) ==
  /\ request[r] = Idle
  /\ row.life = "stored"
  /\ op = "remove" => text = NoText
  /\ request' = [request EXCEPT ![r] = Begin(op, text, row)]
  /\ overlapped' = (overlapped \/ \E o \in Requests : request[o] # Idle)
  /\ UNCHANGED <<row, used, disk, taken, faults>>

\* getCoordinatesFromAddress if the request gives a text, else those it read.
CoordinatesKept(r) == IF request[r].op = "create" THEN request[r].text
                      ELSE request[r].existing.at
Coordinates(r) == IF request[r].text # NoText THEN request[r].text
                  ELSE request[r].existing.at

Locate(r) ==
  /\ request[r].pc = "start" /\ request[r].op # "remove"
  /\ request' = [request EXCEPT ![r].pc = "located", ![r].at = Coordinates(r)]
  /\ UNCHANGED <<row, used, disk, taken, faults, overlapped>>

\* OpenCage finds nothing or fails, or the photo is refused: nothing written yet.
Refuse(r) ==
  /\ request[r].pc \in {"start", "located"} /\ request[r].op # "remove"
  /\ Finish(r)
  /\ UNCHANGED <<row, used, disk, taken, faults, overlapped>>

\* savePhotoFile, under a name nobody has used.
SavePhoto(r) ==
  /\ request[r].pc = "located"
  /\ \E f \in Files \ taken :
       /\ taken' = taken \cup {f}
       /\ disk' = disk \cup {f}
       /\ request' = [request EXCEPT ![r].pc = "saved", ![r].file = f]
  /\ UNCHANGED <<row, used, faults, overlapped>>

\* writeFile throws, having created the file or not: nothing is cleaned up.
SaveThrows(r) ==
  /\ request[r].pc = "located"
  /\ Fault
  /\ \E f \in Files \ taken :
       /\ taken' = taken \cup {f}
       /\ disk' \in {disk, disk \cup {f}}
  /\ Finish(r)
  /\ UNCHANGED <<row, used, overlapped>>

Writing(r) == request[r].pc \in {"located", "saved"}

Insert(r) ==
  /\ Writing(r) /\ request[r].op = "create"
  /\ row.life = "none"
  /\ row' = [life |-> "stored", text |-> request[r].text, at |-> request[r].at,
             photo |-> request[r].file]
  /\ Finish(r)
  /\ UNCHANGED <<used, disk, taken, faults, overlapped>>

\* What update() writes: given fields, and for the others what it has read.
TextAfter(r) ==
  IF request[r].text # NoText THEN request[r].text ELSE request[r].existing.text
PhotoAfterDropped(r) == request[r].file
PhotoAfter(r) ==
  IF request[r].file # NoFile THEN request[r].file ELSE request[r].existing.photo

Update(r) ==
  /\ Writing(r) /\ request[r].op = "update"
  /\ row.life = "stored"
  /\ row' = [row EXCEPT !.text = TextAfter(r), !.at = request[r].at,
                        !.photo = PhotoAfter(r)]
  /\ Goto(r, "written")
  /\ UNCHANGED <<used, disk, taken, faults, overlapped>>

\* The insert or the update throws: the row is gone, or the statement fails.
WriteThrows(r) ==
  /\ Writing(r)
  /\ Goto(r, "failed")
  /\ UNCHANGED <<row, used, disk, taken, faults, overlapped>>

\* The row of a shipment's pickup address cannot be deleted (onDelete: Restrict).
Delete(r) ==
  /\ request[r].pc = "start" /\ request[r].op = "remove"
  /\ row.life = "stored" /\ ~used
  /\ row' = [row EXCEPT !.life = "deleted", !.photo = NoFile]
  /\ Goto(r, "written")
  /\ UNCHANGED <<used, disk, taken, faults, overlapped>>

\* The row is referred to, or gone already, or the statement fails.
DeleteThrows(r) ==
  /\ request[r].pc = "start" /\ request[r].op = "remove"
  /\ Finish(r)
  /\ UNCHANGED <<row, used, disk, taken, faults, overlapped>>

\* After a failed write the new file is deleted; after a successful one the old
\* file, if there is a new one or the row is gone.  A failing unlink is ignored.
FileToCleanNone(r) == NoFile
FileToClean(r) == request[r].file
OldFileAlways(r) == request[r].existing.photo
OldFile(r) ==
  IF request[r].file # NoFile \/ request[r].op = "remove"
    THEN request[r].existing.photo ELSE NoFile

Unlink(f) == (disk' = disk \ {f} /\ UNCHANGED faults) \/ (Fault /\ UNCHANGED disk)

CleanUp(r) ==
  /\ request[r].pc = "failed"
  /\ Unlink(FileToClean(r))
  /\ Finish(r)
  /\ UNCHANGED <<row, used, taken, overlapped>>

DeleteOld(r) ==
  /\ request[r].pc = "written"
  /\ Unlink(OldFile(r))
  /\ Finish(r)
  /\ UNCHANGED <<row, used, taken, overlapped>>

\* ShipmentsService.create makes a shipment detail that refers to the row.
Ship ==
  /\ row.life = "stored" /\ ~used
  /\ used' = TRUE
  /\ UNCHANGED <<row, disk, taken, request, faults, overlapped>>

\* The process dies: every request is gone, the row and the directory stay.
Crash ==
  /\ Fault
  /\ request' = [r \in Requests |-> Idle]
  /\ UNCHANGED <<row, used, disk, taken, overlapped>>

Next ==
  \/ \E r \in Requests :
       \/ \E text \in Texts : StartCreate(r, text)
       \/ \E op \in {"update", "remove"}, text \in Texts \cup {NoText} : FindOne(r, op, text)
       \/ Locate(r) \/ Refuse(r) \/ SavePhoto(r) \/ SaveThrows(r)
       \/ Insert(r) \/ Update(r) \/ WriteThrows(r) \/ Delete(r) \/ DeleteThrows(r)
       \/ CleanUp(r) \/ DeleteOld(r)
  \/ Ship
  \/ Crash

Spec == Init /\ [][Next]_vars

---------------------------------------------------------------------------
\* The type invariant of the row, the directory and the requests.
TypeOK ==
  /\ row \in Rows
  /\ used \in BOOLEAN
  /\ disk \subseteq taken /\ taken \subseteq Files
  /\ request \in [Requests -> RequestStates]
  /\ faults \in 0 .. MaxFaults
  /\ overlapped \in BOOLEAN

\* The coordinates a shipment's distance is computed from are those of the
\* address it is picked up at: no interleaving of updates writes the text of
\* one and the coordinates of another (user-addresses.service.ts:117-149).
CoordinatesMatch == row.life = "stored" => row.at = row.text

\* As long as no two requests overlap, whatever fails or dies, the photo the
\* row names can be served (user-addresses.service.ts:129-161).
PhotoOnDisk == ~overlapped => row.photo \in disk \cup {NoFile}

\* As long as no two requests overlap, a PATCH changes only the fields it gives
\* (user-addresses.service.ts:137-149).
PatchKeepsTheRest ==
  [][\A r \in Requests :
       ~overlapped /\ request[r].pc \in {"located", "saved"} /\ request'[r].pc = "written" =>
         /\ request[r].text = NoText => row'.text = row.text /\ row'.at = row.at
         /\ request[r].file = NoFile => row'.photo = row.photo]_vars

\* As long as no two requests overlap and nothing fails but statements, no file
\* is left that the row does not name (user-addresses.service.ts:150-171).
NoLitter ==
  ~overlapped /\ faults = 0 /\ (\A r \in Requests : request[r] = Idle) =>
    disk \subseteq {row.photo}
=============================================================================
