--------------------------- MODULE Sessions_proofs ---------------------------
(***************************************************************************)
(* Proof that no session outlives the password it was opened with as long  *)
(* as no two requests overlap, whatever fails: every token that is valid   *)
(* goes back to a login with the present password.  The invariant has to   *)
(* say what a request in flight carries: the password it was checked       *)
(* against, or a token that was valid when it was checked, is still the    *)
(* present one, since nobody else can have changed it meanwhile.           *)
(*                                                                         *)
(* The second part proves that a session has one valid token at most, and  *)
(* the third that no browser that sends what it was given is taken for a   *)
(* thief; each has its own invariant on top of the first.                  *)
(***************************************************************************)
EXTENDS Sessions, TLAPS

\* What a request carries has been issued, and is there when it is needed.
Given == \A r \in Requests :
  /\ request[r].token \in issued \cup {NoToken} /\ request[r].new \in issued \cup {NoToken}
  /\ request[r].pc = "idle" => request[r] = Idle
  /\ request[r].pc \notin {"idle"} /\ request[r].op \in {"refresh", "logout"}
       => request[r].token # NoToken
  /\ request[r].pc = "inserted" => request[r].op = "refresh" /\ request[r].new # NoToken
  /\ request[r].pc = "issuing" => request[r].op \in {"register", "login", "refresh"}

\* There is no password to change before there is a user.
UserFirst ==
  /\ ~account => password = 0
  /\ \A r \in Requests : Serving(r, "changePassword", "checked") => account

\* A request about to insert a token does so for the present password.
Current(q, sec, pw) ==
  /\ q.pc = "issuing" /\ q.op = "refresh" => sec[q.token] = pw
  /\ q.pc \in {"checked", "issuing"} /\ q.op \in {"register", "login"} => q.knows = pw

Serial == ~overlapped =>
  /\ \A r, o \in Requests : request[r] # Idle /\ request[o] # Idle => r = o
  /\ \A r \in Requests : Current(request[r], secret, password)

IInv == TypeOK /\ Given /\ UserFirst /\ Serial /\ SessionsFollowPassword

\* The unused request.
LEMMA IdleRequest ==
  /\ Idle \in RequestStates /\ Idle.pc = "idle" /\ Idle.op = "login"
  /\ Idle.token = NoToken /\ Idle.new = NoToken
BY SessionsAssumption DEF Idle, RequestStates, Passwords

\* What EXCEPT does to one request.
LEMMA OneRequest ==
  ASSUME TypeOK, NEW r \in Requests, NEW q \in RequestStates,
         request' = [request EXCEPT ![r] = q]
  PROVE  /\ request' \in [Requests -> RequestStates]
         /\ request'[r] = q
         /\ \A o \in Requests \ {r} : request'[o] = request[o]
BY DEF TypeOK

\* Every behaviour starts in the invariant.
LEMMA InitOK == ASSUME Init PROVE IInv
<1>1. /\ request \in [Requests -> RequestStates] /\ \A r \in Requests : request[r] = Idle
      /\ faults \in 0 .. MaxFaults /\ password \in Passwords
      /\ secret \in [Tokens -> Passwords]
  BY IdleRequest, SessionsAssumption DEF Init, Passwords
<1>2. TypeOK
  BY <1>1 DEF Init, TypeOK
<1>3. Given /\ UserFirst
  BY <1>1, IdleRequest DEF Init, Given, UserFirst, Serving
<1>4. Serial /\ SessionsFollowPassword
  BY <1>1, IdleRequest DEF Init, Serial, Current, SessionsFollowPassword, Live
<1> QED BY <1>2, <1>3, <1>4 DEF IInv

\* The rows, cookies and history of a step that changes none of their types.
Rows ==
  /\ account' \in BOOLEAN /\ password' \in Passwords
  /\ issued' \subseteq Tokens /\ revoked' \subseteq issued' /\ expired' \subseteq issued'
  /\ replacedBy' \in [Tokens -> issued' \cup {NoToken}]
  /\ cookie' \in [Browsers -> issued' \cup {NoToken}]
  /\ faults' \in 0 .. MaxFaults
  /\ session' \in [Tokens -> Tokens \cup {NoToken}]
  /\ secret' \in [Tokens -> Passwords]
  /\ overlapped' \in BOOLEAN /\ alarm' \in BOOLEAN

\* A step that leaves a variable alone leaves its type alone.
LEMMA RowsKept ==
  ASSUME TypeOK
  PROVE  /\ account \in BOOLEAN /\ password \in Passwords
         /\ issued \subseteq Tokens /\ revoked \subseteq issued /\ expired \subseteq issued
         /\ replacedBy \in [Tokens -> issued \cup {NoToken}]
         /\ cookie \in [Browsers -> issued \cup {NoToken}]
         /\ faults \in 0 .. MaxFaults
         /\ session \in [Tokens -> Tokens \cup {NoToken}]
         /\ secret \in [Tokens -> Passwords]
         /\ overlapped \in BOOLEAN /\ alarm \in BOOLEAN
BY DEF TypeOK

\* A request becomes q, with what it carries, beside the others as they are.
LEMMA RequestMoves ==
  ASSUME IInv, NEW r \in Requests, NEW q \in RequestStates,
         request' = [request EXCEPT ![r] = q],
         Rows, issued \subseteq issued',
         q.token \in issued' \cup {NoToken}, q.new \in issued' \cup {NoToken},
         q.pc = "idle" => q = Idle,
         q.pc # "idle" /\ q.op \in {"refresh", "logout"} => q.token # NoToken,
         q.pc = "inserted" => q.op = "refresh" /\ q.new # NoToken,
         q.pc = "issuing" => q.op \in {"register", "login", "refresh"},
         ~account' => password' = 0, account => account',
         q.pc = "checked" /\ q.op = "changePassword" => account',
         ~overlapped' =>
           /\ ~overlapped
           /\ \A o \in Requests \ {r} : request[o] = Idle
           /\ Current(q, secret', password')
           /\ \A t \in Live' : secret'[t] = password'
  PROVE  IInv'
<1>1. /\ request' \in [Requests -> RequestStates] /\ request'[r] = q
      /\ \A o \in Requests \ {r} : request'[o] = request[o]
  BY OneRequest DEF IInv
<1>2. TypeOK'
  BY <1>1 DEF Rows, TypeOK
<1>3. Given'
  BY <1>1 DEF IInv, Given
<1>4. UserFirst'
  BY <1>1 DEF IInv, UserFirst, Serving
<1>5. Serial'
  <2> SUFFICES ASSUME ~overlapped'
               PROVE  /\ \A p, o \in Requests :
                           request'[p] # Idle /\ request'[o] # Idle => p = o
                      /\ \A o \in Requests : Current(request'[o], secret', password')
    BY DEF Serial
  <2>1. \A o \in Requests \ {r} : request'[o] # Idle =>
          FALSE
    BY <1>1
  <2>2. \A p, o \in Requests : request'[p] # Idle /\ request'[o] # Idle => p = o
    BY <1>1, <2>1 DEF IInv, Serial
  <2>3. Current(Idle, secret', password')
    BY IdleRequest DEF Current
  <2>4. \A o \in Requests : Current(request'[o], secret', password')
    BY <1>1, <2>1, <2>3 DEF IInv, Serial
  <2> QED BY <2>2, <2>4
<1>6. SessionsFollowPassword'
  BY DEF SessionsFollowPassword
<1> QED BY <1>2, <1>3, <1>4, <1>5, <1>6 DEF IInv

\* A request goes on: as long as nothing overlaps, it is alone.
LEMMA RequestGoesOn ==
  ASSUME IInv, NEW r \in Requests, request[r].pc # "idle", NEW q \in RequestStates,
         request' = [request EXCEPT ![r] = q],
         Rows, issued \subseteq issued', UNCHANGED overlapped,
         q.token \in issued' \cup {NoToken}, q.new \in issued' \cup {NoToken},
         q.pc = "idle" => q = Idle,
         q.pc # "idle" /\ q.op \in {"refresh", "logout"} => q.token # NoToken,
         q.pc = "inserted" => q.op = "refresh" /\ q.new # NoToken,
         q.pc = "issuing" => q.op \in {"register", "login", "refresh"},
         ~account' => password' = 0, account => account',
         q.pc = "checked" /\ q.op = "changePassword" => account',
         ~overlapped =>
           /\ Current(q, secret', password')
           /\ \A t \in Live' : secret'[t] = password'
  PROVE  IInv'
<1>1. request[r] # Idle
  BY IdleRequest
<1>2. ~overlapped => \A o \in Requests \ {r} : request[o] = Idle
  BY <1>1 DEF IInv, Serial
<1> QED BY <1>2, RequestMoves

\* A request ends.
LEMMA RequestEnds ==
  ASSUME IInv, NEW r \in Requests, request[r].pc # "idle", Finish(r),
         Rows, issued \subseteq issued', UNCHANGED overlapped,
         ~account' => password' = 0, account => account',
         ~overlapped => \A t \in Live' : secret'[t] = password'
  PROVE  IInv'
<1>1. Current(Idle, secret', password')
  BY IdleRequest DEF Current
<1> QED BY <1>1, IdleRequest, RequestGoesOn DEF Finish

\* A request goes on to pc, with everything else it carries.
LEMMA Pc ==
  ASSUME TypeOK, NEW r \in Requests, NEW pc \in {"checked", "issuing", "inserted", "answered"},
         Goto(r, pc)
  PROVE  LET q == [request[r] EXCEPT !.pc = pc] IN
         /\ q \in RequestStates /\ request' = [request EXCEPT ![r] = q]
         /\ q.pc = pc /\ q.op = request[r].op /\ q.token = request[r].token
         /\ q.new = request[r].new /\ q.knows = request[r].knows
BY DEF TypeOK, Goto, RequestStates

\* A request begins: it carries its cookie and the present password.
LEMMA BeginStep ==
  ASSUME IInv, NEW r \in Requests, NEW b \in Browsers, NEW pc, NEW op, NEW token, NEW knows,
         Begin(r, pc, op, b, token, knows),
         \/ ~account /\ pc = "checked" /\ op = "register" /\ token = NoToken /\ knows = 0
         \/ account /\ pc = "issuing" /\ op = "login" /\ token = NoToken /\ knows = password
         \/ /\ account /\ pc = "checked" /\ op = "changePassword"
            /\ token = NoToken /\ knows = password
         \/ /\ pc = "sent" /\ op \in {"refresh", "logout"} /\ token = cookie[b]
            /\ token # NoToken /\ knows = 0
  PROVE  IInv'
<1> DEFINE q == [pc |-> pc, op |-> op, browser |-> b, token |-> token, new |-> NoToken,
                 knows |-> knows]
<1>1. token \in issued \cup {NoToken} /\ issued \subseteq Tokens /\ knows \in Passwords
  BY SessionsAssumption DEF IInv, TypeOK, Passwords
<1>2. /\ q \in RequestStates /\ q.pc = pc /\ q.op = op /\ q.token = token
      /\ q.new = NoToken /\ q.knows = knows
  BY <1>1 DEF RequestStates
<1>3. request' = [request EXCEPT ![r] = q]
  BY DEF Begin
<1>4. Rows /\ issued' = issued /\ account' = account /\ password' = password
      /\ secret' = secret /\ revoked' = revoked
  BY RowsKept DEF Begin, rowVars, historyVars, IInv, Rows
<1>5. ~overlapped' => ~overlapped /\ \A o \in Requests : request[o] = Idle
  BY DEF Begin, Quiet
<1>6. Current(q, secret', password')
  BY <1>2, <1>4 DEF Current, IInv, UserFirst
<1>7. ~account' => password' = 0
  BY <1>4 DEF IInv, UserFirst
<1>8. ~overlapped' => \A t \in Live' : secret'[t] = password'
  BY <1>4, <1>5 DEF IInv, SessionsFollowPassword, Live
<1> HIDE DEF q
<1> QED BY <1>1, <1>2, <1>3, <1>4, <1>5, <1>6, <1>7, <1>8, RequestMoves

\* The rows that most steps leave alone.
LEMMA NothingWritten ==
  ASSUME IInv, UNCHANGED <<rowVars, historyVars, overlapped>>,
         expired' \subseteq issued, cookie' \in [Browsers -> issued \cup {NoToken}],
         faults' \in 0 .. MaxFaults
  PROVE  /\ Rows /\ issued \subseteq issued'
         /\ ~account' => password' = 0
         /\ account => account'
         /\ ~overlapped => \A t \in Live' : secret'[t] = password'
BY RowsKept DEF IInv, Rows, rowVars, historyVars, UserFirst, SessionsFollowPassword, Live

\* The email is still free.
LEMMA CreateUserStep == ASSUME IInv, NEW r \in Requests, CreateUser(r) PROVE IInv'
<1> DEFINE q == [request[r] EXCEPT !.pc = "issuing"]
<1>1. /\ q \in RequestStates /\ request' = [request EXCEPT ![r] = q]
      /\ q.pc = "issuing" /\ q.op = request[r].op /\ q.token = request[r].token
      /\ q.new = request[r].new /\ q.knows = request[r].knows
  BY Pc DEF CreateUser, IInv
<1>2. request[r].pc = "checked" /\ request[r].op = "register"
  BY DEF CreateUser, Serving
<1>3. ~overlapped => Current(q, secret', password')
  BY <1>1, <1>2 DEF CreateUser, historyVars, IInv, Serial, Current
<1>4. /\ Rows /\ issued' = issued /\ account' = TRUE /\ UNCHANGED overlapped
      /\ ~overlapped => \A t \in Live' : secret'[t] = password'
  BY RowsKept DEF CreateUser, historyVars, IInv, Rows, SessionsFollowPassword, Live
<1>5. q.token \in issued \cup {NoToken} /\ q.new \in issued \cup {NoToken}
  BY <1>1 DEF IInv, Given
<1> HIDE DEF q
<1> QED BY <1>1, <1>2, <1>3, <1>4, <1>5, RequestGoesOn

\* The new password leaves no valid token.
LEMMA CommitPasswordStep == ASSUME IInv, NEW r \in Requests, CommitPassword(r) PROVE IInv'
<1>1. request[r].pc # "idle" /\ account
  BY DEF CommitPassword, Serving, IInv, UserFirst
<1>2. password' \in Passwords
  BY SessionsAssumption DEF CommitPassword, Passwords, IInv, TypeOK
<1>3. Rows /\ Live' = {}
  BY <1>2, RowsKept DEF CommitPassword, RevokedByPassword, historyVars, IInv, Rows, Live
<1> QED BY <1>1, <1>3, RequestEnds DEF CommitPassword

\* A token that was valid when it was checked belongs to the present password.
LEMMA CheckTokenStep == ASSUME IInv, NEW r \in Requests, CheckToken(r) PROVE IInv'
<1> DEFINE q == [request[r] EXCEPT !.pc = "issuing"]
<1>1. /\ q \in RequestStates /\ request' = [request EXCEPT ![r] = q]
      /\ q.pc = "issuing" /\ q.op = request[r].op /\ q.token = request[r].token
      /\ q.new = request[r].new /\ q.knows = request[r].knows
  BY Pc DEF CheckToken, IInv
<1>2. request[r].pc = "sent" /\ request[r].op = "refresh" /\ request[r].token \in Live
  BY DEF CheckToken, Serving
<1>3. ~overlapped => Current(q, secret', password')
  BY <1>1, <1>2 DEF CheckToken, rowVars, historyVars, IInv, SessionsFollowPassword, Current
<1>4. /\ Rows /\ issued' = issued /\ UNCHANGED overlapped /\ account' = account
      /\ ~account' => password' = 0
      /\ ~overlapped => \A t \in Live' : secret'[t] = password'
  BY RowsKept, NothingWritten DEF CheckToken, rowVars, IInv
<1>5. q.token \in issued \cup {NoToken} /\ q.new \in issued \cup {NoToken} /\ q.token # NoToken
  BY <1>1, <1>2 DEF IInv, Given
<1> HIDE DEF q
<1> QED BY <1>1, <1>2, <1>3, <1>4, <1>5, RequestGoesOn

\* The new token is one of the present password, and another than all before.
LEMMA InsertStep == ASSUME IInv, NEW r \in Requests, Insert(r) PROVE IInv'
<1>1. PICK t \in Tokens \ issued :
        /\ issued' = issued \cup {t}
        /\ session' = [session EXCEPT ![t] = IF IsRotation(r) THEN session[request[r].token]
                                             ELSE t]
        /\ secret' = [secret EXCEPT ![t] = IF IsRotation(r) THEN secret[request[r].token]
                                           ELSE request[r].knows]
        /\ request' = [request EXCEPT ![r].new = t,
                         ![r].pc = IF IsRotation(r) THEN "inserted" ELSE "answered"]
  BY DEF Insert
<1> DEFINE q == [request[r] EXCEPT !.new = t,
                   !.pc = IF IsRotation(r) THEN "inserted" ELSE "answered"]
<1>2. /\ request[r] \in RequestStates /\ request[r].pc = "issuing"
      /\ request[r].op \in {"register", "login", "refresh"}
      /\ request[r].token \in issued \cup {NoToken}
      /\ IsRotation(r) => request[r].token # NoToken
  BY DEF Insert, IInv, TypeOK, Given, IsRotation
<1>3. /\ q \in RequestStates /\ request' = [request EXCEPT ![r] = q]
      /\ q.op = request[r].op /\ q.token = request[r].token /\ q.new = t
      /\ q.pc = IF IsRotation(r) THEN "inserted" ELSE "answered"
  BY <1>1, <1>2 DEF RequestStates, IInv, TypeOK
<1>4. Current(q, secret', password')
  BY <1>3 DEF Current
<1>5. /\ session' \in [Tokens -> Tokens \cup {NoToken}]
      /\ secret' \in [Tokens -> Passwords]
  BY <1>1, <1>2, RowsKept DEF IInv, RequestStates
<1>6. Rows
  BY <1>1, <1>5, RowsKept DEF Insert, IInv, Rows
<1>7. ~overlapped => \A u \in Live' : secret'[u] = password'
  <2> SUFFICES ASSUME ~overlapped, NEW u \in Live' PROVE secret'[u] = password'
    OBVIOUS
  <2>1. Live' \subseteq Live \cup {t} /\ Live \subseteq issued /\ password' = password
    BY <1>1 DEF Insert, Live
  <2>2. CASE u = t
    <3>1. Current(request[r], secret, password)
      BY DEF IInv, Serial
    <3>2. secret'[t] = IF IsRotation(r) THEN secret[request[r].token] ELSE request[r].knows
      BY <1>1, RowsKept DEF IInv
    <3> QED BY <1>2, <2>1, <2>2, <3>1, <3>2 DEF Current, IsRotation
  <2>3. CASE u # t
    BY <1>1, <2>1, <2>3, RowsKept DEF IInv, SessionsFollowPassword
  <2> QED BY <2>2, <2>3
<1>8. /\ account' = account /\ issued \subseteq issued' /\ UNCHANGED overlapped
      /\ ~account' => password' = 0
  BY <1>1 DEF Insert, IInv, UserFirst
<1>9. t # NoToken /\ t \in issued' /\ request[r].token \in issued' \cup {NoToken}
  BY <1>1, <1>2, SessionsAssumption
<1> HIDE DEF q
<1> QED BY <1>2, <1>3, <1>4, <1>6, <1>7, <1>8, <1>9, RequestGoesOn DEF IsRotation

\* A revocation of one token.
LEMMA RevokeStep ==
  ASSUME IInv, NEW r \in Requests, Replace(r) \/ Revoke(r)
  PROVE  IInv'
<1> DEFINE q == [request[r] EXCEPT !.pc = "answered"]
<1>1. /\ q \in RequestStates /\ request' = [request EXCEPT ![r] = q]
      /\ q.pc = "answered" /\ q.op = request[r].op /\ q.token = request[r].token
      /\ q.new = request[r].new /\ q.knows = request[r].knows
  BY Pc DEF Replace, Revoke, IInv
<1>2. /\ request[r].pc # "idle" /\ request[r].token \in issued
      /\ request[r].new \in issued \cup {NoToken}
  BY DEF Replace, Revoke, Serving, IInv, Given
<1>3. /\ revoked' = revoked \cup {request[r].token}
      /\ UNCHANGED <<account, password, issued, expired, cookie, faults, overlapped, historyVars>>
  BY DEF Replace, Revoke, RevokedByRotation
<1>4. replacedBy' \in [Tokens -> issued \cup {NoToken}]
  BY <1>2, RowsKept DEF Replace, Revoke, IInv
<1>5. Rows
  BY <1>2, <1>3, <1>4, RowsKept DEF IInv, Rows, historyVars
<1>6. ~overlapped => \A t \in Live' : secret'[t] = password'
  BY <1>3 DEF IInv, SessionsFollowPassword, Live, historyVars
<1>7. Current(q, secret', password')
  BY <1>1 DEF Current
<1>8. q.token \in issued \cup {NoToken} /\ q.new \in issued \cup {NoToken}
      /\ q.token # NoToken /\ (~account => password = 0)
  BY <1>1, <1>2, SessionsAssumption DEF IInv, TypeOK, UserFirst
<1> HIDE DEF q
<1> QED BY <1>1, <1>2, <1>3, <1>5, <1>6, <1>7, <1>8, RequestGoesOn

\* The steps that end a request.
LEMMA EndStep ==
  ASSUME IInv, NEW r \in Requests,
         DetectReuse(r) \/ Answer(r) \/ Refuse(r) \/ Throws(r)
  PROVE  IInv'
<1>1. CASE DetectReuse(r)
  <2>1. Rows /\ Live' = {} /\ request[r].pc # "idle"
    BY <1>1, RowsKept DEF DetectReuse, Serving, IInv, Rows, Live
  <2>2. ~account => password = 0
    BY DEF IInv, UserFirst
  <2> QED BY <1>1, <2>1, <2>2, RequestEnds DEF DetectReuse
<1>2. CASE Answer(r)
  <2>1. request[r].pc # "idle" /\ request[r].new \in issued \cup {NoToken}
    BY <1>2 DEF Answer, IInv, Given
  <2>2. cookie' \in [Browsers -> issued \cup {NoToken}]
    BY <1>2, <2>1, RowsKept DEF Answer, CookieAfter, IInv
  <2>3. expired' \subseteq issued /\ faults' \in 0 .. MaxFaults
    BY <1>2, RowsKept DEF Answer, IInv
  <2> QED BY <1>2, <2>1, <2>2, <2>3, NothingWritten, RequestEnds DEF Answer
<1>3. CASE Refuse(r) \/ Throws(r)
  <2>1. request[r].pc # "idle"
    BY <1>3 DEF Refuse, Throws, Serving, IInv, Given
  <2>2. expired' \subseteq issued /\ cookie' \in [Browsers -> issued \cup {NoToken}]
    BY <1>3, RowsKept DEF Refuse, Throws, IInv
  <2>3. faults' \in 0 .. MaxFaults
    BY <1>3, SessionsAssumption DEF Refuse, Throws, IInv, TypeOK
  <2> QED BY <1>3, <2>1, <2>2, <2>3, NothingWritten, RequestEnds DEF Refuse, Throws
<1> QED BY <1>1, <1>2, <1>3

\* The requests are as they were, or all gone, and nothing has been written.
LEMMA OutsideStep ==
  ASSUME IInv, Crash \/ (\E t \in Tokens : Expire(t)) \/ (\E b \in Browsers : DropCookie(b))
  PROVE  IInv'
<1>1. /\ UNCHANGED <<rowVars, historyVars, overlapped>>
      /\ request' = request \/ request' = [r \in Requests |-> Idle]
  BY DEF Crash, Expire, DropCookie
<1>2. expired' \subseteq issued
  BY RowsKept DEF Crash, Expire, DropCookie, IInv
<1>3. cookie' \in [Browsers -> issued \cup {NoToken}]
  BY RowsKept DEF Crash, Expire, DropCookie, IInv
<1>4. faults' \in 0 .. MaxFaults
  BY SessionsAssumption DEF Crash, Expire, DropCookie, IInv, TypeOK
<1>5. Rows /\ (~overlapped => \A t \in Live' : secret'[t] = password')
  BY <1>1, <1>2, <1>3, <1>4, NothingWritten
<1>6. /\ request' \in [Requests -> RequestStates]
      /\ \A r \in Requests : request'[r] = request[r] \/ request'[r] = Idle
  BY <1>1, IdleRequest DEF IInv, TypeOK
<1>7. TypeOK'
  BY <1>5, <1>6 DEF Rows, TypeOK
<1>8. Given'
  BY <1>1, <1>6, IdleRequest DEF rowVars, IInv, Given
<1>9. UserFirst'
  BY <1>1, <1>6, IdleRequest DEF rowVars, IInv, UserFirst, Serving
<1>10. Serial'
  BY <1>1, <1>6, IdleRequest DEF rowVars, historyVars, IInv, Serial, Current
<1>11. SessionsFollowPassword'
  BY <1>1, <1>5 DEF SessionsFollowPassword
<1> QED BY <1>7, <1>8, <1>9, <1>10, <1>11 DEF IInv

\* Every step keeps the invariant.
LEMMA Inductive == ASSUME IInv, [Next]_vars PROVE IInv'
<1>1. CASE UNCHANGED vars
  BY <1>1 DEF vars, IInv, TypeOK, Given, UserFirst, Serving, Serial, SessionsFollowPassword, Live
<1>2. ASSUME NEW r \in Requests, NEW b \in Browsers,
             \/ Register(r, b) \/ Login(r, b) \/ Refresh(r, b) \/ Logout(r, b)
             \/ ChangePassword(r, b)
      PROVE  IInv'
  <2>1. CASE Register(r, b)
    BY <2>1, BeginStep DEF Register
  <2>2. CASE Login(r, b)
    BY <2>2, BeginStep DEF Login
  <2>3. CASE ChangePassword(r, b)
    BY <2>3, BeginStep DEF ChangePassword
  <2>4. CASE Refresh(r, b)
    BY <2>4, BeginStep DEF Refresh
  <2>5. CASE Logout(r, b)
    BY <2>5, BeginStep DEF Logout
  <2> QED BY <1>2, <2>1, <2>2, <2>3, <2>4, <2>5
<1>3. ASSUME NEW r \in Requests,
             \/ CreateUser(r) \/ CommitPassword(r) \/ CheckToken(r) \/ DetectReuse(r)
             \/ Insert(r) \/ Replace(r) \/ Revoke(r) \/ Answer(r) \/ Refuse(r) \/ Throws(r)
      PROVE  IInv'
  BY <1>3, CreateUserStep, CommitPasswordStep, CheckTokenStep, InsertStep, RevokeStep, EndStep
<1>4. CASE Crash \/ (\E t \in Tokens : Expire(t)) \/ (\E b \in Browsers : DropCookie(b))
  BY <1>4, OutsideStep
<1> QED BY <1>1, <1>2, <1>3, <1>4 DEF Next

\* The invariant holds for ever.
THEOREM Invariance == Spec => []IInv
BY InitOK, Inductive, PTL DEF Spec

\* The rows, cookies and requests keep their types (auth.service.ts:37-255).
THEOREM TypeCorrect == Spec => []TypeOK
<1>1. IInv => TypeOK BY DEF IInv
<1> QED BY <1>1, Invariance, PTL

\* As long as no two requests overlap, whatever fails, no session opened with an
\* earlier password outlives a change of it (profile.service.ts:155-178).
THEOREM SessionsEndWithPassword == Spec => []SessionsFollowPassword
<1>1. IInv => SessionsFollowPassword BY DEF IInv
<1> QED BY <1>1, Invariance, PTL

---------------------------------------------------------------------------
(***************************************************************************)
(* One request at a time and no failure: a session has one valid token.    *)
(* Between the insert of a token and the revocation of the one it replaces *)
(* there are two, and both are in the hand of the request that rotates.    *)
(***************************************************************************)

\* A session is named by its first token.
Rooted == \A t \in issued : session[t] \in issued

\* A token that is being rotated is still valid.
Unrevoked == ~overlapped => \A r \in Requests :
  IsRotation(r) /\ request[r].pc \in {"issuing", "inserted"} =>
    request[r].token \notin revoked

OneChain == ~overlapped /\ faults = 0 =>
  \A t, u \in Live : session[t] = session[u] =>
    \/ t = u
    \/ \E r \in Requests : /\ request[r].pc = "inserted"
                           /\ {t, u} \subseteq {request[r].token, request[r].new}

ChainInv == Rooted /\ Unrevoked /\ OneChain

\* As long as nothing overlaps a request in flight is alone.
LEMMA Alone ==
  ASSUME IInv, NEW r \in Requests, request[r].pc # "idle", ~overlapped
  PROVE  \A o \in Requests \ {r} : request[o] = Idle
BY IdleRequest DEF IInv, Serial

\* A step that inserts no token: two valid tokens of a session were so before,
\* and if their rotation has gone on it has revoked one.
LEMMA NothingInserted ==
  ASSUME IInv, ChainInv, UNCHANGED <<issued, session>>, revoked \subseteq revoked',
         ~overlapped' => ~overlapped, faults' = 0 => faults = 0,
         ~overlapped' => \A r \in Requests :
           request'[r].op = "refresh" /\ request'[r].pc \in {"issuing", "inserted"} =>
             request'[r].token \notin revoked',
         ~overlapped' /\ faults' = 0 => \A r \in Requests : request[r].pc = "inserted" =>
           request'[r] = request[r] \/ request[r].token \in revoked'
  PROVE  ChainInv'
<1>1. Rooted' /\ Unrevoked'
  BY DEF ChainInv, Rooted, Unrevoked, IsRotation
<1>2. OneChain'
  <2> SUFFICES ASSUME ~overlapped', faults' = 0, NEW t \in Live', NEW u \in Live',
                      session'[t] = session'[u], t # u
               PROVE  \E r \in Requests : /\ request'[r].pc = "inserted"
                        /\ {t, u} \subseteq {request'[r].token, request'[r].new}
    BY DEF OneChain
  <2>1. t \in Live /\ u \in Live /\ t \notin revoked' /\ u \notin revoked'
    BY DEF Live
  <2>2. PICK r \in Requests : /\ request[r].pc = "inserted"
                              /\ {t, u} \subseteq {request[r].token, request[r].new}
    BY <2>1 DEF ChainInv, OneChain
  <2> QED BY <2>1, <2>2
<1> QED BY <1>1, <1>2 DEF ChainInv

\* The new token begins a session or continues that of the token in hand.
LEMMA InsertChain == ASSUME IInv, ChainInv, NEW r \in Requests, Insert(r) PROVE ChainInv'
<1>1. PICK t \in Tokens \ issued :
        /\ issued' = issued \cup {t}
        /\ session' = [session EXCEPT ![t] = IF IsRotation(r) THEN session[request[r].token]
                                             ELSE t]
        /\ request' = [request EXCEPT ![r].new = t,
                         ![r].pc = IF IsRotation(r) THEN "inserted" ELSE "answered"]
  BY DEF Insert
<1> DEFINE q == [request[r] EXCEPT !.new = t,
                   !.pc = IF IsRotation(r) THEN "inserted" ELSE "answered"]
<1>2. /\ request[r] \in RequestStates /\ request[r].pc = "issuing"
      /\ request[r].token \in issued \cup {NoToken}
      /\ IsRotation(r) => request[r].token # NoToken
  BY DEF Insert, IInv, TypeOK, Given, IsRotation
<1>3. /\ q \in RequestStates /\ request' = [request EXCEPT ![r] = q]
      /\ q.op = request[r].op /\ q.token = request[r].token /\ q.new = t
      /\ q.pc = IF IsRotation(r) THEN "inserted" ELSE "answered"
  BY <1>1, <1>2 DEF RequestStates, IInv, TypeOK
<1> HIDE DEF q
<1>4. request'[r] = q /\ \A o \in Requests \ {r} : request'[o] = request[o]
  BY <1>3, OneRequest DEF IInv
<1>5. /\ UNCHANGED <<revoked, overlapped, faults>> /\ issued \subseteq Tokens
      /\ \A u \in issued : session'[u] = session[u]
      /\ session'[t] = IF IsRotation(r) THEN session[request[r].token] ELSE t
  BY <1>1, RowsKept DEF Insert, IInv
<1>6. Rooted'
  BY <1>1, <1>2, <1>5 DEF ChainInv, Rooted
<1>7. ~overlapped /\ IsRotation(r) => request[r].token \notin revoked
  BY <1>2 DEF ChainInv, Unrevoked
<1>8. Unrevoked'
  BY <1>3, <1>4, <1>5, <1>7 DEF ChainInv, Unrevoked, IsRotation
<1>9. ASSUME ~overlapped, faults = 0 PROVE \A u, v \in Live : session[u] = session[v] => u = v
  <2>1. \A o \in Requests : request[o].pc # "inserted"
    BY <1>2, <1>9, Alone, IdleRequest
  <2> QED BY <1>9, <2>1 DEF ChainInv, OneChain
<1>10. ASSUME ~overlapped, faults = 0, NEW u \in Live, session'[u] = session'[t]
       PROVE  IsRotation(r) /\ u = request[r].token
  <2>1. u \in issued /\ session[u] \in issued /\ session'[u] = session[u]
    BY <1>5 DEF ChainInv, Rooted, Live
  <2>2. IsRotation(r) /\ session[u] = session[request[r].token]
    BY <1>1, <1>5, <1>10, <2>1
  <2>3. request[r].token \in Live
    BY <1>2, <1>7, <1>10, <2>2 DEF Live
  <2> QED BY <1>9, <1>10, <2>2, <2>3
<1>11. OneChain'
  <2> SUFFICES ASSUME ~overlapped, faults = 0, NEW u \in Live', NEW v \in Live',
                      session'[u] = session'[v], u # v
               PROVE  request'[r].pc = "inserted"
                        /\ {u, v} \subseteq {request'[r].token, request'[r].new}
    BY <1>5 DEF OneChain
  <2>1. Live' = Live \cup {t} /\ \A w \in Live : session'[w] = session[w]
    BY <1>1, <1>5, RowsKept DEF Live, IInv
  <2>2. \/ u = t /\ v \in Live
        \/ v = t /\ u \in Live
    BY <1>9, <2>1
  <2> QED BY <1>3, <1>4, <1>10, <2>2
<1> QED BY <1>6, <1>8, <1>11 DEF ChainInv

\* A request begins, in no rotation yet, or goes on, its token valid.
LEMMA MoveChain ==
  ASSUME IInv, ChainInv, NEW r \in Requests, NEW q \in RequestStates,
         request' = [request EXCEPT ![r] = q],
         UNCHANGED <<issued, revoked, faults, session>>, ~overlapped' => ~overlapped,
         request[r].pc # "inserted",
         ~overlapped' /\ q.op = "refresh" /\ q.pc \in {"issuing", "inserted"} =>
           q.token \notin revoked
  PROVE  ChainInv'
<1>1. request'[r] = q /\ \A o \in Requests \ {r} : request'[o] = request[o]
  BY OneRequest DEF IInv
<1>2. ~overlapped' => \A o \in Requests :
        request'[o].op = "refresh" /\ request'[o].pc \in {"issuing", "inserted"} =>
          request'[o].token \notin revoked'
  BY <1>1 DEF ChainInv, Unrevoked, IsRotation
<1>3. \A o \in Requests : request[o].pc = "inserted" => request'[o] = request[o]
  BY <1>1
<1> QED BY <1>2, <1>3, NothingInserted

\* A request stops rotating, or had never begun: it revokes tokens of its own.
LEMMA EndChain ==
  ASSUME IInv, ChainInv, NEW r \in Requests, request[r].pc # "idle", NEW q \in RequestStates,
         request' = [request EXCEPT ![r] = q], q.pc \in {"idle", "answered"},
         UNCHANGED <<issued, session, overlapped>>, revoked \subseteq revoked',
         faults' = 0 => faults = 0,
         request[r].pc = "inserted" /\ faults' = 0 => request[r].token \in revoked'
  PROVE  ChainInv'
<1>1. request'[r] = q /\ \A o \in Requests \ {r} : request'[o] = request[o]
  BY OneRequest DEF IInv
<1>2. ~overlapped' => \A o \in Requests :
        request'[o].op = "refresh" /\ request'[o].pc \in {"issuing", "inserted"} =>
          request'[o].token \notin revoked'
  BY <1>1, Alone, IdleRequest
<1>3. ~overlapped' /\ faults' = 0 => \A o \in Requests : request[o].pc = "inserted" =>
        request'[o] = request[o] \/ request[o].token \in revoked'
  BY <1>1
<1> QED BY <1>2, <1>3, NothingInserted

\* A request that begins has no token to rotate yet.
LEMMA BeginChain ==
  ASSUME IInv, ChainInv, NEW r \in Requests, NEW b \in Browsers,
         NEW pc \in {"sent", "checked", "issuing"}, NEW op, NEW token \in Tokens \cup {NoToken},
         NEW knows \in Passwords, Begin(r, pc, op, b, token, knows),
         pc = "issuing" => op = "login",
         op \in {"register", "login", "refresh", "logout", "changePassword"}
  PROVE  ChainInv'
<1>1. PICK q \in RequestStates : q.pc = pc /\ q.op = op
                                 /\ request' = [request EXCEPT ![r] = q]
  BY DEF Begin, RequestStates
<1>2. request[r].pc # "inserted" /\ (~overlapped' => ~overlapped)
  BY IdleRequest DEF Begin
<1>3. UNCHANGED <<issued, revoked, faults, session>>
  BY DEF Begin, rowVars, historyVars
<1> QED BY <1>1, <1>2, <1>3, MoveChain

\* Every step keeps one valid token for each session.
LEMMA ChainInductive == ASSUME IInv, ChainInv, [Next]_vars PROVE ChainInv'
<1>0. faults \in Nat
  BY SessionsAssumption DEF IInv, TypeOK
<1>1. CASE UNCHANGED vars \/ (\E t \in Tokens : Expire(t)) \/ (\E b \in Browsers : DropCookie(b))
  BY <1>1, NothingInserted
     DEF vars, Expire, DropCookie, rowVars, historyVars, ChainInv, Unrevoked, IsRotation
<1>2. CASE Crash
  <2>1. \A r \in Requests : request'[r] = Idle
    BY <1>2 DEF Crash
  <2>2. faults' # 0
    BY <1>0, <1>2 DEF Crash
  <2> QED BY <1>2, <2>1, <2>2, IdleRequest, NothingInserted DEF Crash, rowVars, historyVars
<1>3. ASSUME NEW r \in Requests, NEW b \in Browsers,
             \/ Register(r, b) \/ Login(r, b) \/ Refresh(r, b) \/ Logout(r, b)
             \/ ChangePassword(r, b)
      PROVE  ChainInv'
  <2>1. /\ cookie[b] \in Tokens \cup {NoToken} /\ NoToken \in Tokens \cup {NoToken}
        /\ password \in Passwords /\ 0 \in Passwords
    BY RowsKept, SessionsAssumption DEF IInv, Passwords
  <2>2. CASE Register(r, b)
    BY <2>1, <2>2, BeginChain DEF Register
  <2>3. CASE Login(r, b)
    BY <2>1, <2>3, BeginChain DEF Login
  <2>4. CASE ChangePassword(r, b)
    BY <2>1, <2>4, BeginChain DEF ChangePassword
  <2>5. CASE Refresh(r, b)
    BY <2>1, <2>5, BeginChain DEF Refresh
  <2>6. CASE Logout(r, b)
    BY <2>1, <2>6, BeginChain DEF Logout
  <2> QED BY <1>3, <2>2, <2>3, <2>4, <2>5, <2>6
<1>4. ASSUME NEW r \in Requests, CreateUser(r) \/ CheckToken(r) PROVE ChainInv'
  <2> DEFINE q == [request[r] EXCEPT !.pc = "issuing"]
  <2>1. /\ q \in RequestStates /\ request' = [request EXCEPT ![r] = q]
        /\ q.token = request[r].token /\ q.op = request[r].op
    BY <1>4, Pc DEF CreateUser, CheckToken, IInv
  <2> HIDE DEF q
  <2>2. /\ UNCHANGED <<issued, revoked, faults, session, overlapped>>
        /\ request[r].pc \in {"checked", "sent"}
        /\ request[r].op = "register" \/ request[r].token \notin revoked
    BY <1>4 DEF CreateUser, CheckToken, Serving, rowVars, historyVars, Live
  <2> QED BY <2>1, <2>2, MoveChain
<1>5. ASSUME NEW r \in Requests, Replace(r) \/ Revoke(r) PROVE ChainInv'
  <2> DEFINE q == [request[r] EXCEPT !.pc = "answered"]
  <2>1. q \in RequestStates /\ request' = [request EXCEPT ![r] = q] /\ q.pc = "answered"
    BY <1>5, Pc DEF Replace, Revoke, IInv
  <2> HIDE DEF q
  <2>2. /\ UNCHANGED <<issued, session, overlapped, faults>> /\ request[r].pc # "idle"
        /\ revoked' = revoked \cup {request[r].token}
    BY <1>5 DEF Replace, Revoke, RevokedByRotation, Serving, historyVars
  <2> QED BY <2>1, <2>2, EndChain
<1>6. ASSUME NEW r \in Requests,
             \/ CommitPassword(r) \/ DetectReuse(r) \/ Answer(r) \/ Refuse(r) \/ Throws(r)
      PROVE  ChainInv'
  <2>1. /\ request' = [request EXCEPT ![r] = Idle] /\ UNCHANGED <<issued, session, overlapped>>
        /\ revoked' = revoked \/ revoked' = issued
    BY <1>6 DEF CommitPassword, DetectReuse, Answer, Refuse, Throws, Finish, RevokedByPassword,
                rowVars, historyVars
  <2>2. revoked \subseteq revoked' /\ request[r].pc # "idle"
    BY <1>6, <2>1, RowsKept
       DEF CommitPassword, DetectReuse, Answer, Refuse, Throws, Serving, IInv, Given
  <2>3. /\ faults' = 0 => faults = 0
        /\ request[r].pc = "inserted" => faults' # 0
    BY <1>0, <1>6 DEF CommitPassword, DetectReuse, Answer, Refuse, Throws, Serving, historyVars
  <2> QED BY <2>1, <2>2, <2>3, IdleRequest, EndChain
<1> QED BY <1>1, <1>2, <1>3, <1>4, <1>5, <1>6, InsertChain DEF Next

\* As long as no two requests overlap and nothing fails, rotation never forks a
\* session (auth.service.ts:176-180, 239-252).
THEOREM RotationKeepsOneToken == Spec => []OneTokenPerSession
<1>1. Init => ChainInv
  BY IdleRequest DEF Init, ChainInv, Rooted, Unrevoked, OneChain, Live
<1>2. IInv /\ ChainInv /\ [Next]_vars => ChainInv'
  BY ChainInductive
<1>3. ChainInv => OneTokenPerSession
  BY IdleRequest DEF ChainInv, OneChain, OneTokenPerSession, Quiet
<1> QED BY <1>1, <1>2, <1>3, Invariance, PTL DEF Spec

---------------------------------------------------------------------------
(***************************************************************************)
(* One request at a time, no failure, no change of the password: then no   *)
(* browser ever sends a revoked token.  A token is revoked while the       *)
(* request that sent it is in flight, and the answer puts a newer one, or  *)
(* none, into the one cookie that held it.                                 *)
(***************************************************************************)
Calm == ~overlapped /\ faults = 0 /\ password = 0

\* What a request carries: a token that is valid until it is replaced and is in
\* no other browser's cookie, and a new one that nobody has seen.
Fresh(r) ==
  /\ request[r].pc \in {"sent", "checked", "issuing"} => request[r].new = NoToken
  /\ request[r].pc \in {"sent", "checked", "issuing", "inserted"} =>
       request[r].token \notin revoked
  /\ request[r].token # NoToken =>
       \A b \in Browsers \ {request[r].browser} : cookie[b] # request[r].token
  /\ request[r].new # NoToken =>
       /\ request[r].new \notin revoked /\ request[r].new # request[r].token
       /\ \A b \in Browsers : cookie[b] # request[r].new

\* A cookie that is no longer valid is about to be replaced, and no two browsers
\* share a token.
CookiesFresh ==
  /\ \A b \in Browsers : cookie[b] \in revoked =>
       \E r \in Requests : request[r].pc = "answered" /\ request[r].browser = b
  /\ \A a, b \in Browsers : cookie[a] = cookie[b] /\ cookie[a] # NoToken => a = b

CalmInv == Calm => ~alarm /\ CookiesFresh /\ \A r \in Requests : Fresh(r)

\* A request that is not being answered leaves no cookie revoked.
LEMMA CookiesValid ==
  ASSUME IInv, CalmInv, Calm, NEW r \in Requests, request[r].pc \notin {"idle", "answered"},
         NEW b \in Browsers
  PROVE  cookie[b] \notin revoked
BY Alone, IdleRequest DEF CalmInv, CookiesFresh, Calm

\* A calm step of the one request there is.
LEMMA CalmMoves ==
  ASSUME IInv, CalmInv, NEW r \in Requests, NEW q \in RequestStates,
         request' = [request EXCEPT ![r] = q], Calm' => Calm,
         Calm' => /\ \A o \in Requests \ {r} : request[o] = Idle
                  /\ NoToken \notin revoked' /\ ~alarm' /\ CookiesFresh' /\ Fresh(r)'
  PROVE  CalmInv'
<1>1. request'[r] = q /\ \A o \in Requests \ {r} : request'[o] = request[o]
  BY OneRequest DEF IInv
<1>2. Calm' => \A o \in Requests \ {r} : Fresh(o)'
  BY <1>1, IdleRequest DEF Fresh
<1> QED BY <1>2 DEF CalmInv

\* A request begins with its browser's cookie, which is valid.
LEMMA BeginCalm ==
  ASSUME IInv, CalmInv, NEW r \in Requests, NEW b \in Browsers,
         NEW pc \in {"sent", "checked", "issuing"}, NEW op, NEW token \in {NoToken, cookie[b]},
         NEW knows \in Passwords, Begin(r, pc, op, b, token, knows),
         op \in {"register", "login", "refresh", "logout", "changePassword"}
  PROVE  CalmInv'
<1> DEFINE q == [pc |-> pc, op |-> op, browser |-> b, token |-> token, new |-> NoToken,
                 knows |-> knows]
<1>1. token \in Tokens \cup {NoToken} /\ NoToken \notin revoked
  BY RowsKept, SessionsAssumption DEF IInv
<1>2. /\ q \in RequestStates /\ q.pc = pc /\ q.browser = b /\ q.token = token /\ q.new = NoToken
      /\ request' = [request EXCEPT ![r] = q]
  BY <1>1 DEF Begin, RequestStates
<1> HIDE DEF q
<1>3. request'[r] = q /\ \A o \in Requests \ {r} : request'[o] = request[o]
  BY <1>2, OneRequest DEF IInv
<1>4. /\ UNCHANGED <<revoked, cookie, alarm, faults, password>>
      /\ ~overlapped' => ~overlapped /\ \A o \in Requests : request[o] = Idle
  BY DEF Begin, Quiet, rowVars, historyVars
<1>5. Calm' => Calm
  BY <1>4 DEF Calm
<1>6. ASSUME Calm' PROVE ~alarm' /\ CookiesFresh' /\ Fresh(r)'
  <2>1. /\ \A a \in Browsers : cookie[a] \notin revoked
        /\ \A a, c \in Browsers : cookie[a] = cookie[c] /\ cookie[a] # NoToken => a = c
        /\ ~alarm
    BY <1>4, <1>5, <1>6, IdleRequest DEF CalmInv, CookiesFresh, Calm
  <2>2. Fresh(r)'
    BY <1>1, <1>2, <1>3, <1>4, <2>1 DEF Fresh
  <2> QED BY <1>4, <2>1, <2>2 DEF CookiesFresh
<1>7. Calm' => \A o \in Requests : request[o] = Idle
  BY <1>4 DEF Calm
<1> QED BY <1>1, <1>2, <1>4, <1>5, <1>6, <1>7, CalmMoves

\* A request goes on, with everything else it carries.
LEMMA CalmPc ==
  ASSUME IInv, NEW r \in Requests, NEW pc \in {"issuing", "answered"}, Goto(r, pc)
  PROVE  /\ \E q \in RequestStates : request' = [request EXCEPT ![r] = q]
         /\ request'[r].pc = pc /\ request'[r].browser = request[r].browser
         /\ request'[r].token = request[r].token /\ request'[r].new = request[r].new
         /\ \A o \in Requests \ {r} : request'[o] = request[o]
<1> DEFINE q == [request[r] EXCEPT !.pc = pc]
<1>1. request[r] \in RequestStates
  BY DEF IInv, TypeOK
<1>2. /\ q \in RequestStates /\ q.pc = pc /\ q.browser = request[r].browser
      /\ q.token = request[r].token /\ q.new = request[r].new
  BY <1>1 DEF RequestStates
<1>3. request' = [request EXCEPT ![r] = q]
  BY DEF Goto, IInv, TypeOK
<1> HIDE DEF q
<1> QED BY <1>2, <1>3, OneRequest DEF IInv

\* A step that changes neither rows nor cookies nor what a request carries.
LEMMA CheckCalm ==
  ASSUME IInv, CalmInv, NEW r \in Requests, CreateUser(r) \/ CheckToken(r)
  PROVE  CalmInv'
<1>1. /\ Goto(r, "issuing") /\ request[r].pc \in {"checked", "sent"}
      /\ UNCHANGED <<revoked, cookie, alarm, faults, password, overlapped>>
  BY DEF CreateUser, CheckToken, Serving, rowVars, historyVars
<1>2. /\ \E q \in RequestStates : request' = [request EXCEPT ![r] = q]
      /\ request'[r].pc = "issuing" /\ request'[r].browser = request[r].browser
      /\ request'[r].token = request[r].token /\ request'[r].new = request[r].new
  BY <1>1, CalmPc
<1>3. Calm' => Calm /\ NoToken \notin revoked
  BY <1>1, RowsKept, SessionsAssumption DEF Calm, IInv
<1>4. Calm' => CookiesFresh'
  BY <1>1, <1>3, CookiesValid DEF CookiesFresh, CalmInv
<1>5. Calm' => Fresh(r)'
  BY <1>1, <1>2, <1>3 DEF Fresh, CalmInv
<1>6. Calm' => \A o \in Requests \ {r} : request[o] = Idle
  BY <1>1, <1>3, Alone DEF Calm
<1> QED BY <1>1, <1>2, <1>3, <1>4, <1>5, <1>6, CalmMoves DEF CalmInv

\* Nobody has seen the new token.
LEMMA InsertCalm == ASSUME IInv, CalmInv, NEW r \in Requests, Insert(r) PROVE CalmInv'
<1>1. PICK t \in Tokens \ issued :
        request' = [request EXCEPT ![r].new = t,
                      ![r].pc = IF IsRotation(r) THEN "inserted" ELSE "answered"]
  BY DEF Insert
<1> DEFINE q == [request[r] EXCEPT !.new = t,
                   !.pc = IF IsRotation(r) THEN "inserted" ELSE "answered"]
<1>2. /\ request[r] \in RequestStates /\ request[r].pc = "issuing"
      /\ request[r].token \in issued \cup {NoToken}
  BY DEF Insert, IInv, TypeOK, Given
<1>3. /\ q \in RequestStates /\ request' = [request EXCEPT ![r] = q]
      /\ q.browser = request[r].browser /\ q.token = request[r].token /\ q.new = t
      /\ q.pc \in {"inserted", "answered"}
  BY <1>1, <1>2 DEF RequestStates, IInv, TypeOK
<1> HIDE DEF q
<1>4. request'[r] = q
  BY <1>3, OneRequest DEF IInv
<1>5. UNCHANGED <<revoked, cookie, alarm, faults, password, overlapped>>
  BY DEF Insert
<1>6. Calm' => Calm /\ NoToken \notin revoked
  BY <1>5, RowsKept, SessionsAssumption DEF Calm, IInv
<1>7. Calm' => CookiesFresh'
  BY <1>2, <1>5, <1>6, CookiesValid DEF CookiesFresh, CalmInv
<1>8. t \notin revoked /\ t # request[r].token /\ \A b \in Browsers : cookie[b] # t
  BY <1>1, <1>2, RowsKept, SessionsAssumption DEF IInv
<1>9. Calm' => Fresh(r)'
  BY <1>2, <1>3, <1>4, <1>5, <1>6, <1>8 DEF Fresh, CalmInv
<1>10. Calm' => \A o \in Requests \ {r} : request[o] = Idle
  BY <1>2, <1>6, Alone DEF Calm
<1> QED BY <1>3, <1>5, <1>6, <1>7, <1>9, <1>10, CalmMoves DEF CalmInv

\* The token revoked is in one cookie at most, that of the browser which waits
\* for the answer.
LEMMA RevokeCalm ==
  ASSUME IInv, CalmInv, NEW r \in Requests, Replace(r) \/ Revoke(r)
  PROVE  CalmInv'
<1>1. /\ Goto(r, "answered") /\ request[r].pc \in {"sent", "inserted"}
      /\ revoked' = revoked \cup {request[r].token} /\ request[r].token # NoToken
      /\ UNCHANGED <<cookie, alarm, faults, password, overlapped>>
  BY DEF Replace, Revoke, RevokedByRotation, Serving, historyVars, IInv, Given
<1>2. /\ \E q \in RequestStates : request' = [request EXCEPT ![r] = q]
      /\ request'[r].pc = "answered" /\ request'[r].browser = request[r].browser
      /\ request'[r].token = request[r].token /\ request'[r].new = request[r].new
  BY <1>1, CalmPc
<1>3. Calm' => Calm /\ NoToken \notin revoked'
  BY <1>1, RowsKept, SessionsAssumption DEF Calm, IInv
<1>4. Calm => Fresh(r)
  BY DEF CalmInv
<1>5. Calm' => CookiesFresh'
  <2> SUFFICES ASSUME Calm PROVE CookiesFresh'
    BY <1>3
  <2>1. \A b \in Browsers : cookie[b] \in revoked' => b = request[r].browser
    BY <1>1, <1>4, CookiesValid DEF Fresh
  <2> QED BY <1>1, <1>2, <2>1 DEF CookiesFresh, CalmInv
<1>6. Calm' => Fresh(r)'
  BY <1>1, <1>2, <1>3, <1>4 DEF Fresh
<1>7. Calm' => \A o \in Requests \ {r} : request[o] = Idle
  BY <1>1, <1>3, Alone DEF Calm
<1> QED BY <1>1, <1>2, <1>3, <1>5, <1>6, <1>7, CalmMoves DEF CalmInv

\* The answer replaces the only cookie that may have been revoked.
LEMMA AnswerCalm == ASSUME IInv, CalmInv, NEW r \in Requests, Answer(r) PROVE CalmInv'
<1>1. /\ Finish(r) /\ request[r].pc = "answered"
      /\ cookie' = [cookie EXCEPT ![request[r].browser] = request[r].new]
      /\ UNCHANGED <<revoked, alarm, faults, password, overlapped>>
  BY DEF Answer, CookieAfter, rowVars, historyVars
<1>2. request' = [request EXCEPT ![r] = Idle] /\ request'[r] = Idle
  BY <1>1, IdleRequest, OneRequest DEF Finish, IInv
<1>3. Calm' => Calm /\ NoToken \notin revoked
  BY <1>1, RowsKept, SessionsAssumption DEF Calm, IInv
<1>4. Calm' => \A o \in Requests \ {r} : request[o] = Idle
  BY <1>1, <1>3, Alone DEF Calm
<1>5. Calm' => CookiesFresh'
  <2> SUFFICES ASSUME Calm, \A o \in Requests \ {r} : request[o] = Idle PROVE CookiesFresh'
    BY <1>3, <1>4
  <2>1. \A b \in Browsers : cookie'[b] = IF b = request[r].browser THEN request[r].new
                                         ELSE cookie[b]
    BY <1>1, RowsKept DEF IInv
  <2>2. \A b \in Browsers : cookie[b] \in revoked => b = request[r].browser
    BY IdleRequest DEF CalmInv, CookiesFresh
  <2>3. Fresh(r) /\ NoToken \notin revoked
    BY <1>3, RowsKept, SessionsAssumption DEF CalmInv, IInv
  <2>4. \A b \in Browsers : cookie'[b] \notin revoked'
    BY <1>1, <2>1, <2>2, <2>3 DEF Fresh
  <2>5. \A a, b \in Browsers : cookie'[a] = cookie'[b] /\ cookie'[a] # NoToken => a = b
    BY <2>1, <2>3 DEF Fresh, CalmInv, CookiesFresh
  <2> QED BY <2>4, <2>5 DEF CookiesFresh
<1>6. Calm' => Fresh(r)'
  BY <1>1, <1>2, <1>3, IdleRequest DEF Fresh
<1> QED BY <1>1, <1>2, <1>3, <1>4, <1>5, <1>6, IdleRequest, CalmMoves DEF CalmInv

\* Nothing is calm after a change of the password or a failure, and the alarm
\* would need a revoked cookie.
LEMMA EndCalm ==
  ASSUME IInv, CalmInv, NEW r \in Requests,
         CommitPassword(r) \/ DetectReuse(r) \/ Refuse(r) \/ Throws(r)
  PROVE  CalmInv'
<1>0. password \in Nat /\ faults \in Nat
  BY SessionsAssumption DEF IInv, TypeOK, Passwords
<1>1. CASE CommitPassword(r)
  BY <1>0, <1>1 DEF CommitPassword, CalmInv, Calm
<1>2. CASE Throws(r)
  BY <1>0, <1>2 DEF Throws, CalmInv, Calm
<1>3. CASE DetectReuse(r)
  <2>1. Calm' => Calm
    BY <1>3 DEF DetectReuse, Calm
  <2>2. ~Calm
    BY <1>3 DEF DetectReuse, Serving, CalmInv, Fresh
  <2> QED BY <2>1, <2>2 DEF CalmInv
<1>4. CASE Refuse(r)
  <2>1. /\ Finish(r) /\ request[r].pc \in {"checked", "sent"}
        /\ UNCHANGED <<revoked, cookie, alarm, faults, password, overlapped>>
    BY <1>4 DEF Refuse, Serving, rowVars, historyVars
  <2>2. request' = [request EXCEPT ![r] = Idle] /\ request'[r] = Idle
    BY <2>1, IdleRequest, OneRequest DEF Finish, IInv
  <2>3. Calm' => Calm /\ NoToken \notin revoked
    BY <2>1, RowsKept, SessionsAssumption DEF Calm, IInv
  <2>4. Calm' => \A o \in Requests \ {r} : request[o] = Idle
    BY <2>1, <2>3, Alone DEF Calm
  <2>5. Calm' => CookiesFresh'
    BY <2>1, <2>3, CookiesValid DEF CookiesFresh, CalmInv
  <2>6. Calm' => Fresh(r)'
    BY <2>1, <2>2, <2>3, IdleRequest DEF Fresh
  <2> QED BY <2>1, <2>2, <2>3, <2>4, <2>5, <2>6, IdleRequest, CalmMoves DEF CalmInv
<1> QED BY <1>1, <1>2, <1>3, <1>4

\* A cookie that is dropped is none.
LEMMA OutsideCalm ==
  ASSUME IInv, CalmInv,
         \/ UNCHANGED vars \/ Crash
         \/ (\E t \in Tokens : Expire(t)) \/ (\E b \in Browsers : DropCookie(b))
  PROVE  CalmInv'
<1>0. faults \in Nat /\ NoToken \notin revoked
  BY RowsKept, SessionsAssumption DEF IInv
<1>1. CASE UNCHANGED vars \/ \E t \in Tokens : Expire(t)
  BY <1>1 DEF vars, Expire, rowVars, historyVars, CalmInv, Calm, CookiesFresh, Fresh
<1>2. CASE Crash
  BY <1>0, <1>2 DEF Crash, CalmInv, Calm
<1>3. ASSUME NEW b \in Browsers, DropCookie(b) PROVE CalmInv'
  <2>1. /\ \A a \in Browsers : cookie'[a] \in {cookie[a], NoToken}
        /\ UNCHANGED <<revoked, request, alarm, faults, password, overlapped>>
    BY <1>3, RowsKept DEF DropCookie, rowVars, historyVars, IInv
  <2>2. Calm' => Calm
    BY <2>1 DEF Calm
  <2>3. Calm => CookiesFresh'
    BY <1>0, <2>1 DEF CookiesFresh, CalmInv
  <2>4. Calm => \A r \in Requests : Fresh(r)'
    BY <2>1 DEF Fresh, CalmInv
  <2> QED BY <2>1, <2>2, <2>3, <2>4 DEF CalmInv
<1> QED BY <1>1, <1>2, <1>3

\* Every step keeps the cookies valid, or ends the calm.
LEMMA CalmInductive == ASSUME IInv, CalmInv, [Next]_vars PROVE CalmInv'
<1>1. ASSUME NEW r \in Requests, NEW b \in Browsers,
             \/ Register(r, b) \/ Login(r, b) \/ Refresh(r, b) \/ Logout(r, b)
             \/ ChangePassword(r, b)
      PROVE  CalmInv'
  <2>1. password \in Passwords /\ 0 \in Passwords
    BY RowsKept, SessionsAssumption DEF IInv, Passwords
  <2>2. CASE Register(r, b)
    BY <2>1, <2>2, BeginCalm DEF Register
  <2>3. CASE Login(r, b)
    BY <2>1, <2>3, BeginCalm DEF Login
  <2>4. CASE ChangePassword(r, b)
    BY <2>1, <2>4, BeginCalm DEF ChangePassword
  <2>5. CASE Refresh(r, b)
    BY <2>1, <2>5, BeginCalm DEF Refresh
  <2>6. CASE Logout(r, b)
    BY <2>1, <2>6, BeginCalm DEF Logout
  <2> QED BY <1>1, <2>2, <2>3, <2>4, <2>5, <2>6
<1>2. ASSUME NEW r \in Requests,
             \/ CreateUser(r) \/ CommitPassword(r) \/ CheckToken(r) \/ DetectReuse(r)
             \/ Insert(r) \/ Replace(r) \/ Revoke(r) \/ Answer(r) \/ Refuse(r) \/ Throws(r)
      PROVE  CalmInv'
  BY <1>2, CheckCalm, InsertCalm, RevokeCalm, AnswerCalm, EndCalm
<1> QED BY <1>1, <1>2, OutsideCalm DEF Next

\* A browser that sends what it was last given never sets off the reuse alarm:
\* that needs requests that overlap, a failure or lost answer, or a change of
\* password (auth.service.ts:132-157).
THEOREM AlarmNeedsCause == Spec => []NoFalseAlarm
<1>1. Init => CalmInv
  BY IdleRequest DEF Init, CalmInv, CookiesFresh, Fresh
<1>2. IInv /\ CalmInv /\ [Next]_vars => CalmInv'
  BY CalmInductive
<1>3. IInv /\ CalmInv => NoFalseAlarm
  BY SessionsAssumption DEF IInv, TypeOK, Passwords, CalmInv, Calm, NoFalseAlarm
<1> QED BY <1>1, <1>2, <1>3, Invariance, PTL DEF Spec
=============================================================================
