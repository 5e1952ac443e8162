------------------------- MODULE AddressBook_proofs -------------------------
(***************************************************************************)
(* Proof that the coordinates of an address are those of its text, for any *)
(* number of overlapping requests, failures and crashes.  It rests on what *)
(* a request carries: the row it read was such a pair, and what it is      *)
(* going to write is one too.                                              *)
(*                                                                         *)
(* The second part is about requests that overlap with no other: the photo *)
(* of the row can be served, no file is left behind, and a PATCH writes    *)
(* back what it was not given as it is.                                    *)
(***************************************************************************)
EXTENDS AddressBook, TLAPS

\* A request in flight has read a matching row, and carries a matching pair.
Carried == \A r \in Requests :
  /\ request[r].op = "create" => request[r].pc = "idle" \/ request[r].text # NoText
  /\ request[r].op = "update" => request[r].existing.at = request[r].existing.text
  /\ request[r].pc \in {"located", "saved"} => request[r].at = TextAfter(r)

IInv == TypeOK /\ Carried /\ CoordinatesMatch

\* What EXCEPT does to one request.
LEMMA OneRequest ==
  ASSUME TypeOK, NEW r \in Requests, NEW q \in RequestStates,
         request' = [request EXCEPT ![r] = q]
  PROVE  /\ request' \in [Requests -> RequestStates]
         /\ request'[r] = q
         /\ \A o \in Requests \ {r} : request'[o] = request[o]
BY DEF TypeOK

\* The types of a row and of a request's fields.
LEMMA Fields ==
  ASSUME TypeOK, NEW r \in Requests
  PROVE  /\ request[r] \in RequestStates
         /\ request[r].existing \in Rows
         /\ Coordinates(r) \in Texts \cup {NoText}
         /\ TextAfter(r) \in Texts \cup {NoText}
         /\ PhotoAfter(r) \in Files \cup {NoFile}
BY DEF TypeOK, RequestStates, Rows, Coordinates, TextAfter, PhotoAfter

\* A request that becomes q, carrying a matching pair, while the row stays a
\* matching one.
LEMMA RequestMoves ==
  ASSUME IInv, NEW r \in Requests, NEW q \in RequestStates,
         request' = [request EXCEPT ![r] = q],
         row' \in Rows, used' \in BOOLEAN, disk' \subseteq taken', taken' \subseteq Files,
         faults' \in 0 .. MaxFaults, overlapped' \in BOOLEAN,
         row'.life = "stored" => row'.at = row'.text,
         q.op = "create" => q.pc = "idle" \/ q.text # NoText,
         q.op = "update" => q.existing.at = q.existing.text,
         q.pc \in {"located", "saved"} =>
           q.at = IF q.text # NoText THEN q.text ELSE q.existing.text
  PROVE  IInv'
<1>1. /\ request' \in [Requests -> RequestStates] /\ request'[r] = q
      /\ \A o \in Requests \ {r} : request'[o] = request[o]
  BY OneRequest DEF IInv
<1>2. TypeOK'
  BY <1>1 DEF IInv, TypeOK
<1>3. Carried'
  BY <1>1 DEF IInv, Carried, TextAfter
<1>4. CoordinatesMatch'
  BY DEF CoordinatesMatch
<1> QED BY <1>2, <1>3, <1>4 DEF IInv

\* The row and the directory are left alone.
LEMMA RowKept ==
  ASSUME IInv
  PROVE  /\ row \in Rows /\ used \in BOOLEAN /\ disk \subseteq taken /\ taken \subseteq Files
         /\ faults \in 0 .. MaxFaults /\ overlapped \in BOOLEAN
         /\ row.life = "stored" => row.at = row.text
         /\ Fault => faults' \in 0 .. MaxFaults
BY AddressAssumption DEF IInv, TypeOK, CoordinatesMatch, Fault

\* Idle carries nothing.
LEMMA IdleRequest ==
  Idle \in RequestStates /\ Idle.pc = "idle" /\ Idle.op = "create"
<1>1. NoRow \in Rows
  BY DEF NoRow, Rows
<1> QED BY <1>1 DEF Idle, RequestStates, Ops

\* Every behaviour starts in the invariant.
LEMMA InitOK == ASSUME Init PROVE IInv
<1>1. NoRow \in Rows /\ NoRow.life = "none"
  BY DEF NoRow, Rows
<1>2. TypeOK
  <2>1. request \in [Requests -> RequestStates]
    BY IdleRequest DEF Init
  <2>2. faults \in 0 .. MaxFaults
    BY AddressAssumption DEF Init
  <2> QED BY <1>1, <2>1, <2>2 DEF Init, TypeOK
<1>3. Carried /\ CoordinatesMatch
  BY <1>1, IdleRequest DEF Init, Carried, CoordinatesMatch
<1> QED BY <1>2, <1>3 DEF IInv

\* A request that ends leaves the row alone, or wrote a matching pair before.
LEMMA FinishStep ==
  ASSUME IInv, NEW r \in Requests, Finish(r),
         row' \in Rows, row'.life = "stored" => row'.at = row'.text,
         used' \in BOOLEAN, disk' \subseteq taken', taken' \subseteq Files,
         faults' \in 0 .. MaxFaults, overlapped' \in BOOLEAN
  PROVE  IInv'
BY IdleRequest, RequestMoves DEF Finish

\* A request that moves on without changing what it carries.
LEMMA GotoStep ==
  ASSUME IInv, NEW r \in Requests, NEW pc \in {"failed", "written"}, Goto(r, pc),
         request[r].pc # "idle",
         row' \in Rows, row'.life = "stored" => row'.at = row'.text,
         used' \in BOOLEAN, disk' \subseteq taken', taken' \subseteq Files,
         faults' \in 0 .. MaxFaults, overlapped' \in BOOLEAN
  PROVE  IInv'
<1> DEFINE q == [request[r] EXCEPT !.pc = pc]
<1>1. request[r] \in RequestStates
  BY DEF IInv, TypeOK
<1>2. /\ q \in RequestStates /\ q.pc = pc /\ q.op = request[r].op
      /\ q.text = request[r].text /\ q.existing = request[r].existing
  BY <1>1 DEF RequestStates
<1>3. request' = [request EXCEPT ![r] = q]
  BY DEF Goto, IInv, TypeOK
<1>4. /\ q.op = "create" => q.text # NoText
      /\ q.op = "update" => q.existing.at = q.existing.text
  BY <1>2 DEF IInv, Carried
<1> HIDE DEF q
<1> QED BY <1>2, <1>3, <1>4, RequestMoves

\* The first step of a request.
LEMMA BeginStep ==
  ASSUME IInv, NEW r \in Requests, NEW op \in Ops, NEW text \in Texts \cup {NoText},
         \/ StartCreate(r, text) /\ op = "create" /\ text # NoText
         \/ FindOne(r, op, text) /\ op # "create"
  PROVE  IInv'
<1> DEFINE existing == IF op = "create" THEN NoRow ELSE row
           q == Begin(op, text, existing)
<1>1. existing \in Rows
  BY RowKept DEF NoRow, Rows
<1>2. /\ q \in RequestStates /\ q.pc = "start" /\ q.op = op /\ q.text = text
      /\ q.existing = existing
  BY <1>1 DEF Begin, RequestStates, Ops
<1>3. /\ request' = [request EXCEPT ![r] = q]
      /\ UNCHANGED <<row, used, disk, taken, faults>> /\ overlapped' \in BOOLEAN
      /\ op = "update" => row.life = "stored"
      /\ op = "create" => text # NoText
  BY RowKept DEF StartCreate, FindOne
<1>4. op = "update" => existing.at = existing.text
  BY <1>3, RowKept
<1> HIDE DEF q, existing
<1> QED BY <1>2, <1>3, <1>4, RowKept, RequestMoves

\* OpenCage answers, or it is not asked: the pair the request carries matches.
LEMMA LocateStep == ASSUME IInv, NEW r \in Requests, Locate(r) PROVE IInv'
<1> DEFINE q == [request[r] EXCEPT !.pc = "located", !.at = Coordinates(r)]
<1>1. /\ q \in RequestStates /\ q.pc = "located" /\ q.at = Coordinates(r)
      /\ q.op = request[r].op /\ q.text = request[r].text
      /\ q.existing = request[r].existing
  BY Fields DEF IInv, RequestStates
<1>2. /\ request' = [request EXCEPT ![r] = q]
      /\ UNCHANGED <<row, used, disk, taken, faults, overlapped>>
  BY DEF Locate, IInv, TypeOK
<1>3. /\ q.op = "create" => q.text # NoText
      /\ q.op = "update" => q.existing.at = q.existing.text
      /\ q.op \in {"create", "update"}
  BY <1>1 DEF Locate, IInv, Carried, RequestStates, Ops
<1>4. q.at = IF q.text # NoText THEN q.text ELSE q.existing.text
  BY <1>1, <1>3 DEF Coordinates
<1> HIDE DEF q
<1> QED BY <1>1, <1>2, <1>3, <1>4, RowKept, RequestMoves

\* The photo does not touch what the request carries.
LEMMA SavePhotoStep == ASSUME IInv, NEW r \in Requests, SavePhoto(r) PROVE IInv'
<1>1. PICK f \in Files \ taken :
        /\ taken' = taken \cup {f} /\ disk' = disk \cup {f}
        /\ request' = [request EXCEPT ![r].pc = "saved", ![r].file = f]
  BY DEF SavePhoto
<1> DEFINE q == [request[r] EXCEPT !.pc = "saved", !.file = f]
<1>2. /\ q \in RequestStates /\ q.pc = "saved" /\ q.at = request[r].at
      /\ q.op = request[r].op /\ q.text = request[r].text
      /\ q.existing = request[r].existing
  BY Fields DEF IInv, RequestStates
<1>3. request' = [request EXCEPT ![r] = q]
  BY <1>1 DEF IInv, TypeOK
<1>4. /\ q.op = "create" => q.text # NoText
      /\ q.op = "update" => q.existing.at = q.existing.text
      /\ q.at = IF q.text # NoText THEN q.text ELSE q.existing.text
  BY <1>2 DEF SavePhoto, IInv, Carried, TextAfter
<1>5. disk' \subseteq taken' /\ taken' \subseteq Files
  BY <1>1, RowKept
<1> HIDE DEF q
<1> QED BY <1>2, <1>3, <1>4, <1>5, RowKept, RequestMoves DEF SavePhoto

\* The statements that write or delete the row.
LEMMA WriteStep ==
  ASSUME IInv, NEW r \in Requests, Insert(r) \/ Update(r) \/ Delete(r)
  PROVE  IInv'
<1>1. request[r] \in RequestStates
  BY DEF IInv, TypeOK
<1>2. CASE Insert(r)
  <2>1. row'.at = row'.text
    BY <1>2 DEF Insert, Writing, IInv, Carried, TextAfter
  <2>2. row' \in Rows
    BY <1>1, <1>2 DEF Insert, RequestStates, Rows
  <2> QED BY <1>2, <2>1, <2>2, RowKept, FinishStep DEF Insert
<1>3. CASE Update(r)
  <2>1. row' \in Rows /\ row'.text = TextAfter(r) /\ row'.at = request[r].at
    BY <1>1, <1>3, Fields, RowKept DEF Update, RequestStates, Rows, IInv
  <2>2. row'.at = row'.text /\ request[r].pc # "idle"
    BY <1>3, <2>1 DEF Update, Writing, IInv, Carried
  <2> QED BY <1>3, <2>1, <2>2, RowKept, GotoStep DEF Update
<1>4. CASE Delete(r)
  <2>1. row' \in Rows /\ row'.life = "deleted" /\ request[r].pc # "idle"
    BY <1>4, RowKept DEF Delete, Rows
  <2> QED BY <1>4, <2>1, RowKept, GotoStep DEF Delete
<1> QED BY <1>2, <1>3, <1>4

\* The steps that fail, refuse or tidy up.
LEMMA EndStep ==
  ASSUME IInv, NEW r \in Requests,
         \/ Refuse(r) \/ SaveThrows(r) \/ WriteThrows(r) \/ DeleteThrows(r)
         \/ CleanUp(r) \/ DeleteOld(r)
  PROVE  IInv'
<1>1. CASE Refuse(r) \/ DeleteThrows(r)
  BY <1>1, RowKept, FinishStep DEF Refuse, DeleteThrows
<1>2. CASE SaveThrows(r)
  <2>1. disk' \subseteq taken' /\ taken' \subseteq Files
    BY <1>2, RowKept DEF SaveThrows
  <2> QED BY <1>2, <2>1, RowKept, FinishStep DEF SaveThrows
<1>3. CASE WriteThrows(r)
  <2>1. request[r].pc # "idle"
    BY <1>3 DEF WriteThrows, Writing
  <2> QED BY <1>3, <2>1, RowKept, GotoStep DEF WriteThrows
<1>4. CASE CleanUp(r)
  BY <1>4, RowKept, FinishStep DEF CleanUp, Unlink
<1>5. CASE DeleteOld(r)
  BY <1>5, RowKept, FinishStep DEF DeleteOld, Unlink
<1> QED BY <1>1, <1>2, <1>3, <1>4, <1>5

\* Every step keeps the invariant.
LEMMA Inductive == ASSUME IInv, [Next]_vars PROVE IInv'
<1>1. CASE UNCHANGED vars
  BY <1>1 DEF vars, IInv, TypeOK, Carried, CoordinatesMatch, TextAfter
<1>2. CASE Ship
  BY <1>2 DEF Ship, IInv, TypeOK, Carried, CoordinatesMatch, TextAfter
<1>3. CASE Crash
  <2>1. request' \in [Requests -> RequestStates] /\ \A r \in Requests : request'[r] = Idle
    BY <1>3, IdleRequest DEF Crash
  <2>2. TypeOK'
    BY <1>3, <2>1, RowKept DEF Crash, TypeOK
  <2>3. Carried'
    BY <2>1, IdleRequest DEF Carried
  <2> QED BY <1>3, <2>2, <2>3 DEF Crash, IInv, CoordinatesMatch
<1>4. ASSUME NEW r \in Requests, NEW text \in Texts, StartCreate(r, text) PROVE IInv'
  <2>1. "create" \in Ops /\ text # NoText /\ text \in Texts \cup {NoText}
    BY <1>4, AddressAssumption DEF Ops
  <2>2. \/ StartCreate(r, text) /\ "create" = "create" /\ text # NoText
        \/ FindOne(r, "create", text) /\ "create" # "create"
    BY <1>4, <2>1
  <2> QED BY <2>1, <2>2, BeginStep
<1>5. ASSUME NEW r \in Requests, NEW op \in {"update", "remove"},
             NEW text \in Texts \cup {NoText}, FindOne(r, op, text)
      PROVE  IInv'
  BY <1>5, BeginStep DEF Ops
<1>6. ASSUME NEW r \in Requests,
             \/ Locate(r) \/ Refuse(r) \/ SavePhoto(r) \/ SaveThrows(r)
             \/ Insert(r) \/ Update(r) \/ WriteThrows(r) \/ Delete(r) \/ DeleteThrows(r)
             \/ CleanUp(r) \/ DeleteOld(r)
      PROVE  IInv'
  BY <1>6, LocateStep, SavePhotoStep, WriteStep, EndStep
<1> QED BY <1>1, <1>2, <1>3, <1>4, <1>5, <1>6 DEF Next

\* The invariant holds for ever.
THEOREM Invariance == Spec => []IInv
BY InitOK, Inductive, PTL DEF Spec

\* No interleaving of updates writes the text of one and the coordinates of
\* another (user-addresses.service.ts:117-149).
THEOREM CoordinatesFollowText == Spec => []CoordinatesMatch
<1>1. IInv => CoordinatesMatch BY DEF IInv
<1> QED BY <1>1, Invariance, PTL

---------------------------------------------------------------------------
(***************************************************************************)
(* One request at a time: what it read is still so when it writes, so that *)
(* a PATCH keeps what it does not give, the photo of the row is on disk,   *)
(* and, if nothing but a statement fails, no other photo is.               *)
(***************************************************************************)

\* Until overlapped is set at most one request is in flight.
Serial == ~overlapped =>
  \A r, o \in Requests : request[r] # Idle /\ request[o] # Idle => r = o

\* A row that has never been written is empty.
Unborn == row.life = "none" => row = NoRow

\* The one file a request may still delete: its own until the row names it, then
\* the one the row named before.
InHand(r) == IF request[r].pc = "written" THEN OldFile(r) ELSE request[r].file

\* What holds of a request that is alone: until it writes, the row is as it read
\* it, and what it may delete is not the photo of the row.
Current(r) ==
  /\ request[r].pc # "written" => request[r].existing = row
  /\ request[r].pc \in {"start", "located"} => request[r].file = NoFile
  /\ request[r].pc = "saved" => request[r].file \in disk
  /\ InHand(r) # NoFile => InHand(r) # row.photo
  /\ faults = 0 => disk \subseteq {row.photo, InHand(r)}

LoneInv ==
  /\ Serial /\ Unborn /\ PhotoOnDisk /\ NoLitter
  /\ ~overlapped => \A r \in Requests : request[r] # Idle => Current(r)

\* A step of one request leaves the others alone: alone it stays.
LEMMA Alone ==
  ASSUME IInv, LoneInv, NEW r \in Requests, request[r] # Idle, UNCHANGED overlapped,
         \A o \in Requests \ {r} : request'[o] = request[o],
         Unborn', ~overlapped => row'.photo \in disk' \cup {NoFile},
         ~overlapped /\ request'[r] # Idle => Current(r)',
         ~overlapped /\ request'[r] = Idle /\ faults' = 0 => disk' \subseteq {row'.photo}
  PROVE  LoneInv'
<1>1. Serial' /\ (~overlapped => \A o \in Requests \ {r} : request'[o] = Idle)
  BY DEF LoneInv, Serial
<1>2. PhotoOnDisk' /\ NoLitter'
  BY DEF PhotoOnDisk, NoLitter
<1>3. ~overlapped' => \A o \in Requests : request'[o] # Idle => Current(o)'
  BY <1>1
<1> QED BY <1>1, <1>2, <1>3 DEF LoneInv

\* What a lone request finds.
LEMMA WhatIsRead ==
  ASSUME IInv, LoneInv, NEW r \in Requests, request[r].pc # "idle", ~overlapped
  PROVE  /\ request[r] # Idle /\ Current(r) /\ row.photo \in disk \cup {NoFile}
         /\ NoFile \notin disk /\ faults \in Nat
<1>1. request[r] # Idle
  BY DEF Idle
<1> QED BY <1>1, AddressAssumption DEF LoneInv, PhotoOnDisk, IInv, TypeOK

\* The request has read the row as it is, or there is no row yet.
LEMMA BeginAlone ==
  ASSUME IInv, LoneInv, NEW r \in Requests, NEW op \in Ops, NEW text \in Texts \cup {NoText},
         (StartCreate(r, text) /\ op = "create") \/ FindOne(r, op, text)
  PROVE  LoneInv'
<1> DEFINE q == Begin(op, text, row)
<1>1. /\ q \in RequestStates /\ q.pc = "start" /\ q.existing = row /\ q.file = NoFile
      /\ q # Idle
  BY RowKept DEF Begin, RequestStates, Ops, Idle
<1>2. request' = [request EXCEPT ![r] = q] /\ UNCHANGED <<row, disk, faults>>
  BY DEF StartCreate, FindOne, LoneInv, Unborn
<1>3. request'[r] = q /\ \A o \in Requests \ {r} : request'[o] = request[o]
  BY <1>1, <1>2, OneRequest DEF IInv
<1>4. ~overlapped' => ~overlapped /\ \A o \in Requests : request[o] = Idle
  BY DEF StartCreate, FindOne
<1> HIDE DEF q
<1>5. Serial' /\ Unborn'
  BY <1>2, <1>3, <1>4 DEF LoneInv, Serial, Unborn
<1>6. PhotoOnDisk' /\ NoLitter'
  BY <1>1, <1>2, <1>3, <1>4 DEF LoneInv, PhotoOnDisk, NoLitter
<1>7. ~overlapped' => Current(r)'
  BY <1>1, <1>2, <1>3, <1>4 DEF LoneInv, NoLitter, Current, InHand
<1> QED BY <1>3, <1>4, <1>5, <1>6, <1>7 DEF LoneInv

\* A request that moves on without writing the row or deleting a file.
LEMMA OnAlone ==
  ASSUME IInv, LoneInv, NEW r \in Requests, Locate(r) \/ SavePhoto(r) \/ WriteThrows(r)
  PROVE  LoneInv'
<1>1. request[r].pc # "idle" /\ request[r] # Idle /\ request[r] \in RequestStates
  BY Fields DEF Locate, SavePhoto, WriteThrows, Writing, Idle, IInv
<1>2. CASE Locate(r)
  <2> DEFINE q == [request[r] EXCEPT !.pc = "located", !.at = Coordinates(r)]
  <2>1. /\ q \in RequestStates /\ q.pc = "located" /\ q.file = request[r].file
        /\ q.existing = request[r].existing
    BY Fields DEF IInv, RequestStates
  <2>2. request' = [request EXCEPT ![r] = q]
    BY <1>2 DEF Locate, IInv, TypeOK
  <2>3. request'[r] = q /\ \A o \in Requests \ {r} : request'[o] = request[o]
    BY <2>1, <2>2, OneRequest DEF IInv
  <2> HIDE DEF q
  <2>4. ~overlapped => Current(r)'
    BY <1>1, <1>2, <2>1, <2>3, WhatIsRead DEF Locate, Current, InHand
  <2>5. request'[r] # Idle /\ Unborn'
    BY <1>2, <2>1, <2>3 DEF Idle, Locate, LoneInv, Unborn
  <2> QED BY <1>1, <1>2, <2>3, <2>4, <2>5, WhatIsRead, Alone DEF Locate
<1>3. CASE SavePhoto(r)
  <2>1. PICK f \in Files \ taken :
          /\ taken' = taken \cup {f} /\ disk' = disk \cup {f}
          /\ request' = [request EXCEPT ![r].pc = "saved", ![r].file = f]
    BY <1>3 DEF SavePhoto
  <2> DEFINE q == [request[r] EXCEPT !.pc = "saved", !.file = f]
  <2>2. /\ q \in RequestStates /\ q.pc = "saved" /\ q.file = f
        /\ q.existing = request[r].existing
    BY <1>1 DEF RequestStates
  <2>3. request' = [request EXCEPT ![r] = q]
    BY <2>1 DEF IInv, TypeOK
  <2>4. request'[r] = q /\ \A o \in Requests \ {r} : request'[o] = request[o]
    BY <2>2, <2>3, OneRequest DEF IInv
  <2> HIDE DEF q
  <2>5. ~overlapped => f # row.photo
    BY <1>1, WhatIsRead, AddressAssumption DEF IInv, TypeOK
  <2>6. ~overlapped => Current(r)'
    <3>1. SUFFICES ASSUME ~overlapped PROVE Current(r)'
      OBVIOUS
    <3>2. /\ request[r].existing = row
          /\ faults = 0 => disk \subseteq {row.photo}
      BY <1>1, <1>3, <3>1, WhatIsRead DEF SavePhoto, Current, InHand
    <3>3. InHand(r)' = f
      BY <2>2, <2>4 DEF InHand
    <3> QED BY <1>3, <2>1, <2>2, <2>4, <2>5, <3>1, <3>2, <3>3 DEF SavePhoto, Current
  <2>7. request'[r] # Idle /\ Unborn'
    BY <1>3, <2>2, <2>4 DEF Idle, SavePhoto, LoneInv, Unborn
  <2> QED BY <1>1, <1>3, <2>1, <2>4, <2>6, <2>7, WhatIsRead, Alone DEF SavePhoto
<1>4. CASE WriteThrows(r)
  <2> DEFINE q == [request[r] EXCEPT !.pc = "failed"]
  <2>1. /\ q \in RequestStates /\ q.pc = "failed" /\ q.file = request[r].file
        /\ q.existing = request[r].existing
    BY <1>1 DEF RequestStates
  <2>2. request' = [request EXCEPT ![r] = q]
    BY <1>4 DEF WriteThrows, Goto, IInv, TypeOK
  <2>3. request'[r] = q /\ \A o \in Requests \ {r} : request'[o] = request[o]
    BY <2>1, <2>2, OneRequest DEF IInv
  <2> HIDE DEF q
  <2>4. ~overlapped => Current(r)'
    BY <1>1, <1>4, <2>1, <2>3, WhatIsRead DEF WriteThrows, Writing, Current, InHand
  <2>5. request'[r] # Idle /\ Unborn'
    BY <1>4, <2>1, <2>3 DEF Idle, WriteThrows, LoneInv, Unborn
  <2> QED BY <1>1, <1>4, <2>3, <2>4, <2>5, WhatIsRead, Alone DEF WriteThrows
<1> QED BY <1>2, <1>3, <1>4

\* The row takes the photo in the request's hand and puts its own there.
LEMMA WriteAlone ==
  ASSUME IInv, LoneInv, NEW r \in Requests, Insert(r) \/ Update(r) \/ Delete(r)
  PROVE  LoneInv'
<1>1. request[r].pc # "idle" /\ request[r] # Idle /\ request[r] \in RequestStates
  BY Fields DEF Insert, Update, Delete, Writing, Idle, IInv
<1>2. CASE Insert(r)
  <2>1. request'[r] = Idle /\ \A o \in Requests \ {r} : request'[o] = request[o]
    BY <1>2, IdleRequest, OneRequest DEF Insert, Finish, IInv
  <2>2. row'.photo = request[r].file /\ row'.life = "stored" /\ row.photo = NoFile
    BY <1>2 DEF Insert, LoneInv, Unborn, NoRow
  <2>3. ~overlapped => /\ row'.photo \in disk' \cup {NoFile}
                       /\ faults' = 0 => disk' \subseteq {row'.photo}
    BY <1>1, <1>2, <2>2, WhatIsRead DEF Insert, Writing, Current, InHand
  <2> QED BY <1>1, <1>2, <2>1, <2>2, <2>3, Alone DEF Insert, Unborn
<1>3. ASSUME NEW q \in RequestStates, Goto(r, "written"), q = [request[r] EXCEPT !.pc = "written"]
      PROVE  /\ request'[r] = q /\ \A o \in Requests \ {r} : request'[o] = request[o]
             /\ q.pc = "written" /\ q.op = request[r].op /\ q.file = request[r].file
             /\ q.existing = request[r].existing
  <2>1. request' = [request EXCEPT ![r] = q]
    BY <1>3 DEF Goto, IInv, TypeOK
  <2> QED BY <1>1, <1>3, <2>1, OneRequest DEF IInv, RequestStates
<1>4. PICK q \in RequestStates : q = [request[r] EXCEPT !.pc = "written"]
  BY <1>1 DEF RequestStates
<1>5. CASE Update(r)
  <2>1. /\ request'[r] = q /\ \A o \in Requests \ {r} : request'[o] = request[o]
        /\ q.pc = "written" /\ q.op = "update" /\ q.file = request[r].file
        /\ q.existing = request[r].existing
    BY <1>3, <1>4, <1>5 DEF Update
  <2>2. row'.photo = PhotoAfter(r) /\ row'.life = "stored"
    BY <1>5, RowKept DEF Update, Rows
  <2>3. ~overlapped => row'.photo \in disk' \cup {NoFile}
    BY <1>1, <1>5, <2>2, WhatIsRead DEF Update, Writing, Current, PhotoAfter
  <2>4. ~overlapped => Current(r)'
    <3>1. SUFFICES ASSUME ~overlapped PROVE Current(r)'
      OBVIOUS
    <3>2. /\ request[r].existing = row
          /\ request[r].file # NoFile => request[r].file # row.photo
          /\ faults = 0 => disk \subseteq {row.photo, request[r].file}
          /\ NoFile \notin disk
      BY <1>1, <1>5, <3>1, WhatIsRead DEF Update, Writing, Current, InHand
    <3>3. InHand(r)' = IF request[r].file # NoFile THEN row.photo ELSE NoFile
      BY <2>1, <3>2 DEF InHand, OldFile
    <3>4. row'.photo = IF request[r].file # NoFile THEN request[r].file ELSE row.photo
      BY <2>2, <3>2 DEF PhotoAfter
    <3> QED BY <1>5, <2>1, <3>2, <3>3, <3>4 DEF Update, Current
  <2> QED BY <1>1, <1>5, <2>1, <2>2, <2>3, <2>4, Alone DEF Update, Unborn, Idle
<1>6. CASE Delete(r)
  <2>1. /\ request'[r] = q /\ \A o \in Requests \ {r} : request'[o] = request[o]
        /\ q.pc = "written" /\ q.op = "remove" /\ q.file = request[r].file
        /\ q.existing = request[r].existing
    BY <1>3, <1>4, <1>6 DEF Delete
  <2>2. row'.photo = NoFile /\ row'.life = "deleted"
    BY <1>6, RowKept DEF Delete, Rows
  <2>3. ~overlapped => Current(r)'
    <3>1. SUFFICES ASSUME ~overlapped PROVE Current(r)'
      OBVIOUS
    <3>2. /\ request[r].existing = row
          /\ faults = 0 => disk \subseteq {row.photo, NoFile}
      BY <1>1, <1>6, <3>1, WhatIsRead DEF Delete, Current, InHand
    <3>3. InHand(r)' = row.photo
      BY <2>1, <3>2 DEF InHand, OldFile
    <3> QED BY <1>6, <2>1, <2>2, <3>2, <3>3 DEF Delete, Current
  <2> QED BY <1>1, <1>6, <2>1, <2>2, <2>3, Alone DEF Delete, Unborn, Idle
<1> QED BY <1>2, <1>5, <1>6

\* The file in the hand is deleted, or a failure has been counted.
LEMMA EndAlone ==
  ASSUME IInv, LoneInv, NEW r \in Requests,
         \/ Refuse(r) \/ SaveThrows(r) \/ DeleteThrows(r) \/ CleanUp(r) \/ DeleteOld(r)
  PROVE  LoneInv'
<1>1. /\ request[r].pc # "idle" /\ request[r] # Idle /\ Finish(r)
      /\ UNCHANGED <<row, overlapped>>
  BY DEF Refuse, SaveThrows, DeleteThrows, CleanUp, DeleteOld, Idle
<1>2. request'[r] = Idle /\ \A o \in Requests \ {r} : request'[o] = request[o]
  BY <1>1, IdleRequest, OneRequest DEF Finish, IInv
<1>3. Unborn'
  BY <1>1 DEF LoneInv, Unborn
<1>4. CASE Refuse(r) \/ DeleteThrows(r)
  BY <1>1, <1>2, <1>3, <1>4, WhatIsRead, Alone DEF Refuse, DeleteThrows, Current, InHand
<1>5. CASE SaveThrows(r)
  <2>1. faults \in Nat
    BY AddressAssumption DEF IInv, TypeOK
  <2>2. faults' # 0 /\ disk \subseteq disk'
    BY <1>5, <2>1 DEF SaveThrows, Fault
  <2> QED BY <1>1, <1>2, <1>3, <2>2, WhatIsRead, Alone
<1>6. ASSUME NEW f, f = InHand(r), Unlink(f) PROVE LoneInv'
  <2>1. ~overlapped => /\ faults' = 0 => disk' = disk \ {f} /\ faults = 0
                       /\ disk' = disk \ {f} \/ disk' = disk
    BY <1>1, <1>6, WhatIsRead DEF Unlink, Fault
  <2> QED BY <1>1, <1>2, <1>3, <1>6, <2>1, WhatIsRead, Alone DEF Current
<1>7. CASE CleanUp(r)
  BY <1>6, <1>7 DEF CleanUp, InHand, FileToClean
<1>8. CASE DeleteOld(r)
  BY <1>6, <1>8 DEF DeleteOld, InHand
<1> QED BY <1>4, <1>5, <1>7, <1>8

\* Every step keeps it; a crash is a failure, and leaves the row its photo.
LEMMA LoneInductive == ASSUME IInv, LoneInv, [Next]_vars PROVE LoneInv'
<1>1. CASE UNCHANGED vars \/ Ship
  BY <1>1 DEF vars, Ship, LoneInv, Serial, Unborn, PhotoOnDisk, NoLitter, Current, InHand, OldFile
<1>2. CASE Crash
  <2>1. faults' # 0
    BY <1>2 DEF Crash, Fault, IInv, TypeOK
  <2> QED BY <1>2, <2>1 DEF Crash, LoneInv, Serial, Unborn, PhotoOnDisk, NoLitter
<1>3. ASSUME NEW r \in Requests, NEW text \in Texts, StartCreate(r, text) PROVE LoneInv'
  BY <1>3, BeginAlone DEF Ops
<1>4. ASSUME NEW r \in Requests, NEW op \in {"update", "remove"},
             NEW text \in Texts \cup {NoText}, FindOne(r, op, text)
      PROVE  LoneInv'
  BY <1>4, BeginAlone DEF Ops
<1>5. ASSUME NEW r \in Requests,
             \/ Locate(r) \/ Refuse(r) \/ SavePhoto(r) \/ SaveThrows(r)
             \/ Insert(r) \/ Update(r) \/ WriteThrows(r) \/ Delete(r) \/ DeleteThrows(r)
             \/ CleanUp(r) \/ DeleteOld(r)
      PROVE  LoneInv'
  BY <1>5, OnAlone, WriteAlone, EndAlone
<1> QED BY <1>1, <1>2, <1>3, <1>4, <1>5 DEF Next

\* The invariant of the requests that overlap with no other: what a request in
\* flight has seen of the row and the files is still so (user-addresses.service.ts:129-171).
THEOREM LoneInvariance == Spec => []LoneInv
<1>1. Init => LoneInv
  BY DEF Init, LoneInv, Serial, Unborn, PhotoOnDisk, NoLitter, NoRow
<1>2. IInv /\ LoneInv /\ [Next]_vars => LoneInv'
  BY LoneInductive
<1> QED BY <1>1, <1>2, Invariance, PTL DEF Spec

\* As long as no two requests overlap, whatever fails or dies, the photo the
\* row names can be served (user-addresses.service.ts:129-161).
THEOREM PhotoIsServed == Spec => []PhotoOnDisk
<1>1. LoneInv => PhotoOnDisk BY DEF LoneInv
<1> QED BY <1>1, LoneInvariance, PTL

\* As long as no two requests overlap and nothing fails but statements, no file
\* is left that the row does not name (user-addresses.service.ts:150-171).
THEOREM NothingLeftBehind == Spec => []NoLitter
<1>1. LoneInv => NoLitter BY DEF LoneInv
<1> QED BY <1>1, LoneInvariance, PTL

\* Only the statement of an update takes a request to "written".
LEMMA OnlyUpdateWrites ==
  ASSUME IInv, [Next]_vars, NEW r \in Requests,
         request[r].pc \in {"located", "saved"}, request'[r].pc = "written"
  PROVE  Update(r)
<1>1. CASE UNCHANGED vars \/ Ship \/ Crash
  BY <1>1 DEF vars, Ship, Crash, Idle
<1>2. ASSUME NEW o \in Requests, NEW q \in RequestStates, q.pc # "written",
             request' = [request EXCEPT ![o] = q]
      PROVE  FALSE
  BY <1>2, OneRequest DEF IInv
<1>3. ASSUME NEW o \in Requests, NEW text \in Texts, StartCreate(o, text) PROVE FALSE
  BY <1>3 DEF StartCreate, Begin, IInv, TypeOK
<1>4. ASSUME NEW o \in Requests, NEW op, NEW text, FindOne(o, op, text) PROVE FALSE
  BY <1>4 DEF FindOne, Begin, IInv, TypeOK
<1>5. ASSUME NEW o \in Requests, Finish(o) PROVE FALSE
  BY <1>2, <1>5, IdleRequest DEF Finish
<1>6. ASSUME NEW o \in Requests, Locate(o) \/ SavePhoto(o) \/ WriteThrows(o) PROVE FALSE
  <2>1. CASE Locate(o)
    BY <2>1 DEF Locate, IInv, TypeOK
  <2>2. CASE SavePhoto(o)
    BY <2>2 DEF SavePhoto, IInv, TypeOK
  <2>3. CASE WriteThrows(o)
    BY <2>3 DEF WriteThrows, Goto, IInv, TypeOK
  <2> QED BY <1>6, <2>1, <2>2, <2>3
<1>7. ASSUME NEW o \in Requests, Update(o) \/ Delete(o) PROVE Update(r)
  BY <1>7 DEF Update, Delete, Goto, IInv, TypeOK
<1>8. ASSUME NEW o \in Requests,
             \/ Refuse(o) \/ SaveThrows(o) \/ Insert(o) \/ DeleteThrows(o) \/ CleanUp(o)
             \/ DeleteOld(o)
      PROVE  FALSE
  BY <1>5, <1>8 DEF Refuse, SaveThrows, Insert, DeleteThrows, CleanUp, DeleteOld
<1> QED BY <1>1, <1>3, <1>4, <1>6, <1>7, <1>8 DEF Next

\* As long as no two requests overlap, a PATCH changes only the fields it gives
\* (user-addresses.service.ts:137-149).
THEOREM PatchIsPartial == Spec => PatchKeepsTheRest
<1>1. ASSUME IInv, LoneInv, [Next]_vars, NEW r \in Requests, ~overlapped,
             request[r].pc \in {"located", "saved"}, request'[r].pc = "written"
      PROVE  /\ request[r].text = NoText => row'.text = row.text /\ row'.at = row.at
             /\ request[r].file = NoFile => row'.photo = row.photo
  <2>1. Update(r)
    BY <1>1, OnlyUpdateWrites
  <2>2. request[r].existing = row
    BY <1>1, WhatIsRead DEF Current
  <2>3. /\ row'.text = TextAfter(r) /\ row'.at = request[r].at
        /\ row'.photo = PhotoAfter(r) /\ row.at = row.text
    BY <2>1, RowKept, <1>1 DEF Update, Rows
  <2>4. request[r].at = TextAfter(r)
    BY <1>1 DEF IInv, Carried
  <2> QED BY <2>2, <2>3, <2>4 DEF TextAfter, PhotoAfter
<1>2. IInv /\ LoneInv /\ [Next]_vars =>
        [\A r \in Requests :
           ~overlapped /\ request[r].pc \in {"located", "saved"} /\ request'[r].pc = "written" =>
             /\ request[r].text = NoText => row'.text = row.text /\ row'.at = row.at
             /\ request[r].file = NoFile => row'.photo = row.photo]_vars
  BY <1>1
<1> QED BY <1>2, Invariance, LoneInvariance, PTL DEF Spec, PatchKeepsTheRest
=============================================================================
