------------------------------ MODULE Sessions ------------------------------
(***************************************************************************)
(* The refresh tokens of one customer (AuthService, changePassword of      *)
(* ProfileService): each login opens a session, which is a chain of        *)
(* tokens, every token replacing the one before it.  A browser holds its   *)
(* token in a cookie and sends it with a request; what the request does to *)
(* the tokens and the answer that changes the cookie come later.  The      *)
(* insert of the new token and the revocation of the old one are two       *)
(* statements in no transaction.                                           *)
(*                                                                         *)
(* A statement that throws is taken not to have been committed.  Access    *)
(* tokens live on their own, so whoever has logged in may change the       *)
(* password.                                                               *)
(***************************************************************************)
EXTENDS Naturals, FiniteSets

CONSTANTS
  Requests,     \* requests of the customer being served at the same time
  Browsers,
  NoBrowser,    \* the sender of an unused request
  Tokens,       \* the random tokens there can ever be
  NoToken,      \* no cookie, no successor
  MaxPasswords, \* bound: changes of the password in a behaviour
  MaxFaults     \* bound: failures in a behaviour

ASSUME SessionsAssumption ==
  /\ NoToken \notin Tokens /\ NoBrowser \notin Browsers
  /\ MaxPasswords \in Nat
  /\ MaxFaults \in Nat

VARIABLES
  account,      \* has the customer's User row been created
  password,     \* which of his passwords the row has the hash of
  issued,       \* tokens with a RefreshToken row
  revoked,      \* those with a revokedAt
  expired,      \* those whose expiresAt has passed
  replacedBy,   \* RefreshToken.replacedById
  cookie,       \* the refresh_token cookie of each browser
  request,      \* what each request is doing
  faults,       \* failures so far
  session,      \* history, read by no action: the first token of a token's chain
  secret,       \* history: the password its session was opened with
  overlapped,   \* history: two requests have been in flight at once
  alarm         \* history: a reuse has been detected

rowVars == <<account, password, issued, revoked, replacedBy>>
historyVars == <<session, secret, alarm>>
vars == <<account, password, issued, revoked, replacedBy, expired, cookie, request,
          faults, session, secret, alarm, overlapped>>

Passwords == 0 .. MaxPasswords

\* browser is the sender, token the cookie it sent, new the token it will be
\* answered, and knows the password the request was checked against.
RequestStates == [pc : {"idle", "sent", "checked", "issuing", "inserted", "answered"},
                  op : {"register", "login", "refresh", "logout", "changePassword"},
                  browser : Browsers \cup {NoBrowser}, token : Tokens \cup {NoToken},
                  new : Tokens \cup {NoToken}, knows : Passwords]
Idle == [pc |-> "idle", op |-> "login", browser |-> NoBrowser, token |-> NoToken,
         new |-> NoToken, knows |-> 0]

Init ==
  /\ account = FALSE
  /\ password = 0
  /\ issued = {} /\ revoked = {} /\ expired = {}
  /\ replacedBy = [t \in Tokens |-> NoToken]
  /\ cookie = [b \in Browsers |-> NoToken]
  /\ request = [r \in Requests |-> Idle]
  /\ faults = 0
  /\ session = [t \in Tokens |-> NoToken]
  /\ secret = [t \in Tokens |-> 0]
  /\ overlapped = FALSE
  /\ alarm = FALSE

Live == issued \ revoked
Quiet == \A r \in Requests : request[r] = Idle

Goto(r, pc) == request' = [request EXCEPT ![r].pc = pc]
Finish(r) == request' = [request EXCEPT ![r] = Idle]

\* A request of browser b begins.
Begin(r, pc, op, b, token, knows) ==
  /\ request[r] = Idle
  /\ request' = [request EXCEPT ![r] = [pc |-> pc, op |-> op, browser |-> b,
                    token |-> token, new |-> NoToken, knows |-> knows]]
  /\ overlapped' = (overlapped \/ ~Quiet)
  /\ UNCHANGED <<rowVars, expired, cookie, faults, historyVars>>

Serving(r, op, pc) == request[r].op = op /\ request[r].pc = pc

---------------------------------------------------------------------------
(* register, login and changePassword: the first read decides, and one     *)
(* that is refused there changes nothing.                                  *)

\* No user has the email yet.
Register(r, b) == ~account /\ Begin(r, "checked", "register", b, NoToken, 0)

\* user.create; the email is unique.
CreateUser(r) ==
  /\ Serving(r, "register", "checked")
  /\ ~account
  /\ account' = TRUE
  /\ Goto(r, "issuing")
  /\ UNCHANGED <<password, issued, revoked, replacedBy, expired, cookie, faults,
                 overlapped, historyVars>>

\* The customer gives the password that the row he is read from has the hash of.
Login(r, b) == account /\ Begin(r, "issuing", "login", b, NoToken, password)

\* The current password is right.
ChangePassword(r, b) ==
  /\ account /\ password < MaxPasswords
  /\ Begin(r, "checked", "changePassword", b, NoToken, password)

\* The transaction: the password, and every token of the user.
RevokedByPasswordNone == revoked
RevokedByPassword == issued

CommitPassword(r) ==
  /\ Serving(r, "changePassword", "checked")
  /\ password < MaxPasswords
  /\ password' = password + 1
  /\ revoked' = RevokedByPassword
  /\ Finish(r)
  /\ UNCHANGED <<account, issued, replacedBy, expired, cookie, faults, overlapped,
                 historyVars>>

---------------------------------------------------------------------------
(* rotateRefreshToken, issueRefreshToken and revokeRefreshToken            *)

\* POST /auth/refresh and /auth/logout send the cookie; without one the first is
\* refused and the second has nothing to revoke.
Refresh(r, b) == cookie[b] # NoToken /\ Begin(r, "sent", "refresh", b, cookie[b], 0)
Logout(r, b) == cookie[b] # NoToken /\ Begin(r, "sent", "logout", b, cookie[b], 0)

\* The token is there, not revoked and not expired.
CheckToken(r) ==
  /\ Serving(r, "refresh", "sent")
  /\ request[r].token \in Live \ expired
  /\ Goto(r, "issuing")
  /\ UNCHANGED <<rowVars, expired, cookie, faults, overlapped, historyVars>>

\* A revoked token comes back: every token of the user is revoked, answer 401.
DetectReuse(r) ==
  /\ Serving(r, "refresh", "sent")
  /\ request[r].token \in revoked
  /\ revoked' = issued
  /\ alarm' = TRUE
  /\ Finish(r)
  /\ UNCHANGED <<account, password, issued, replacedBy, expired, cookie, faults,
                 overlapped, session, secret>>

\* refreshToken.create, for a session of its own or as the successor of token.
IsRotation(r) == request[r].op = "refresh"

Insert(r) ==
  /\ request[r].pc = "issuing"
  /\ \E t \in Tokens \ issued :
       /\ issued' = issued \cup {t}
       /\ session' = [session EXCEPT ![t] = IF IsRotation(r) THEN session[request[r].token]
                                            ELSE t]
       /\ secret' = [secret EXCEPT ![t] = IF IsRotation(r) THEN secret[request[r].token]
                                          ELSE request[r].knows]
       /\ request' = [request EXCEPT ![r].new = t,
                        ![r].pc = IF IsRotation(r) THEN "inserted" ELSE "answered"]
  /\ UNCHANGED <<account, password, revoked, replacedBy, expired, cookie, faults,
                 overlapped, alarm>>

\* refreshToken.update of the one replaced, by id and whatever it says by now.
RevokedByRotationNone(r) == {}
RevokedByRotation(r) == {request[r].token}

Replace(r) ==
  /\ request[r].pc = "inserted"
  /\ revoked' = revoked \cup RevokedByRotation(r)
  /\ replacedBy' = [replacedBy EXCEPT ![request[r].token] = request[r].new]
  /\ Goto(r, "answered")
  /\ UNCHANGED <<account, password, issued, expired, cookie, faults, overlapped,
                 historyVars>>

\* logout revokes the one token of the cookie.
Revoke(r) ==
  /\ Serving(r, "logout", "sent")
  /\ revoked' = revoked \cup {request[r].token}
  /\ Goto(r, "answered")
  /\ UNCHANGED <<account, password, issued, replacedBy, expired, cookie, faults,
                 overlapped, historyVars>>

\* setAuthCookies, or clearCookie after a logout.
CookieKept(r) == IF IsRotation(r) THEN request[r].token ELSE request[r].new
CookieAfter(r) == request[r].new

Answer(r) ==
  /\ request[r].pc = "answered"
  /\ cookie' = [cookie EXCEPT ![request[r].browser] = CookieAfter(r)]
  /\ Finish(r)
  /\ UNCHANGED <<rowVars, expired, faults, overlapped, historyVars>>

---------------------------------------------------------------------------
\* The email has been taken meanwhile, or the token has expired: answer 409, 401.
Refuse(r) ==
  /\ \/ Serving(r, "register", "checked") /\ account
     \/ Serving(r, "refresh", "sent") /\ request[r].token \in expired \ revoked
  /\ Finish(r)
  /\ UNCHANGED <<rowVars, expired, cookie, faults, overlapped, historyVars>>

\* A statement throws, or the answer does not arrive: the rows written stay.
Throws(r) ==
  /\ request[r] # Idle
  /\ faults < MaxFaults /\ faults' = faults + 1
  /\ Finish(r)
  /\ UNCHANGED <<rowVars, expired, cookie, overlapped, historyVars>>

\* The process dies, and every request with it.
Crash ==
  /\ ~Quiet
  /\ faults < MaxFaults /\ faults' = faults + 1
  /\ request' = [r \in Requests |-> Idle]
  /\ UNCHANGED <<rowVars, expired, cookie, overlapped, historyVars>>

\* A token reaches its expiresAt, and soon after its cookie the maxAge.
Expire(t) ==
  /\ t \in issued \ expired
  /\ expired' = expired \cup {t}
  /\ UNCHANGED <<rowVars, cookie, request, faults, overlapped, historyVars>>

DropCookie(b) ==
  /\ cookie[b] \in expired
  /\ cookie' = [cookie EXCEPT ![b] = NoToken]
  /\ UNCHANGED <<rowVars, expired, request, faults, overlapped, historyVars>>

Next ==
  \/ \E r \in Requests :
       \/ \E b \in Browsers :
            Register(r, b) \/ Login(r, b) \/ Refresh(r, b) \/ Logout(r, b)
            \/ ChangePassword(r, b)
       \/ CreateUser(r) \/ CommitPassword(r) \/ CheckToken(r) \/ DetectReuse(r)
       \/ Insert(r) \/ Replace(r) \/ Revoke(r) \/ Answer(r) \/ Refuse(r) \/ Throws(r)
  \/ Crash
  \/ \E t \in Tokens : Expire(t)
  \/ \E b \in Browsers : DropCookie(b)

Spec == Init /\ [][Next]_vars

---------------------------------------------------------------------------
\* The type invariant of the rows, cookies and requests: what is revoked,
\* replaced or sent has been issued.
TypeOK ==
  /\ account \in BOOLEAN
  /\ password \in Passwords
  /\ issued \subseteq Tokens /\ revoked \subseteq issued /\ expired \subseteq issued
  /\ replacedBy \in [Tokens -> issued \cup {NoToken}]
  /\ cookie \in [Browsers -> issued \cup {NoToken}]
  /\ request \in [Requests -> RequestStates]
  /\ faults \in 0 .. MaxFaults
  /\ session \in [Tokens -> Tokens \cup {NoToken}]
  /\ secret \in [Tokens -> Passwords]
  /\ overlapped \in BOOLEAN
  /\ alarm \in BOOLEAN

\* As long as no two requests overlap and nothing fails, rotation never forks a
\* session: of all its tokens one is valid at most (auth.service.ts:176-180,
\* 239-252).
OneTokenPerSession ==
  ~overlapped /\ faults = 0 /\ Quiet =>
    \A t, u \in Live : session[t] = session[u] => t = u

\* A browser that sends what it was last given never sets off the reuse alarm,
\* which ends every session of the user: that needs requests that overlap, a
\* failure or lost answer, or a change of password (auth.service.ts:132-157).
NoFalseAlarm == alarm => overlapped \/ faults > 0 \/ password > 0

\* As long as no two requests overlap, whatever fails, no session opened with an
\* earlier password outlives a change of it (profile.service.ts:155-178).
SessionsFollowPassword ==
  ~overlapped => \A t \in Live : secret[t] = password
=============================================================================
