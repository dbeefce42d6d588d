---------------------------- MODULE AuthService ----------------------------
(***************************************************************************)
(* Sessions: the handlers of routes/auth.rs and routes/users.rs that open, *)
(* prolong and end them, with services/auth.rs, services/user.rs and the   *)
(* statements of TokenService underneath.                                  *)
(*                                                                         *)
(*   register         create_user -> tokens -> ok                          *)
(*   login            find_user -> find_credential -> tokens -> ok         *)
(*   refresh          rotate -> find_user -> find_credential -> ok         *)
(*   logout           revoke -> ok                                         *)
(*   change_password  find_credential -> update -> revoke -> ok            *)
(*   deactivate       update -> revoke -> ok                               *)
(*                                                                         *)
(* `stage' is the call the handler awaits; in tokens, rotate and revoke it *)
(* is inside TokenService, whose pc says at which statement.  A handler    *)
(* ends at `ok' or at one of the error answers, and may be dropped at any  *)
(* await.                                                                  *)
(***************************************************************************)
EXTENDS TokenService

CONSTANTS
    Passwords,   \* the passwords in play, all long enough to register with
    NoPassword,  \* no password given, or no local credential
    AccessTtl,   \* config.access_token_expiry_secs
    Leeway       \* seconds an expired JWT is still accepted (jsonwebtoken)

ASSUME AuthConstants ==
    /\ NoPassword \notin Passwords
    /\ AccessTtl \in Nat
    /\ Leeway \in Nat

VARIABLES
    account,    \* users joined with local_credentials: status and password
    op,         \* the operation a client has under way
    stage,      \* what its handler awaits, or its answer
    who,        \* the user_id the handler works for
    given,      \* the password in the request body
    fresh,      \* change_password: the new password
    new,        \* the refresh token of the answer
    mint,       \* exp of the access token of the answer
    access,     \* access tokens in the hands of clients
    delivered,  \* refresh tokens in the hands of clients
    \* History, read by the properties only:
    seen,       \* the user's tokens stored when the request began
    barred,     \* no session was due when the request began
    swept       \* the user's tokens were all revoked since it began

request == <<op, stage, who, given, fresh, new, mint>>
history == <<seen, barred, swept>>
authVars == <<account, request, access, delivered, history>>
vars == <<tokenVars, authVars>>

Operations == {"register", "login", "refresh", "logout", "change_password", "deactivate"}
Sessions   == {"register", "login", "refresh"}
Errors     == {"invalid", "disabled", "conflict"}
Answers    == Errors \cup {"ok"}
Awaits     == {"create_user", "find_user", "find_credential", "update",
               "tokens", "rotate", "revoke"}

NoAccount == [status |-> "none", pwd |-> NoPassword]

AuthInit ==
    /\ TokenInit
    /\ account = [u \in Users |-> NoAccount]
    /\ op    = [c \in Clients |-> "none"]
    /\ stage = [c \in Clients |-> "idle"]
    /\ who   = [c \in Clients |-> NoUser]
    /\ given = [c \in Clients |-> NoPassword]
    /\ fresh = [c \in Clients |-> NoPassword]
    /\ new   = [c \in Clients |-> NoToken]
    /\ mint  = [c \in Clients |-> 0]
    /\ access = {}
    /\ delivered = {}
    /\ seen   = [c \in Clients |-> {}]
    /\ barred = [c \in Clients |-> FALSE]
    /\ swept  = [c \in Clients |-> FALSE]

-----------------------------------------------------------------------------
(***************************************************************************)
(* Requests arrive.                                                        *)
(***************************************************************************)
TokensOf(u) == {t \in Stored : table[t].user = u}

\* validate_access_token and RequireUser: signature and expiry, no look-up, so
\* the account may be inactive by now.
AuthUser(u) == \E a \in access : a.user = u /\ now <= a.exp + Leeway

Arrive(c, o, s) ==
    /\ stage[c] = "idle"
    /\ op'    = [op    EXCEPT ![c] = o]
    /\ stage' = [stage EXCEPT ![c] = s]

\* What the history of a request of user u begins with.
Note(c, u, bar) ==
    /\ seen'   = [seen   EXCEPT ![c] = TokensOf(u)]
    /\ barred' = [barred EXCEPT ![c] = bar]
    /\ swept'  = [swept  EXCEPT ![c] = FALSE]

\* A request that names its user and a password, and awaits a statement of
\* services/user.rs.
AskUser(c, o, s, u, p) ==
    /\ Arrive(c, o, s)
    /\ who'   = [who   EXCEPT ![c] = u]
    /\ given' = [given EXCEPT ![c] = p]
    /\ Note(c, u, account[u].status = "inactive")
    /\ UNCHANGED <<tokenVars, account, new, mint, access, delivered>>

Register(c, u, p) ==
    AskUser(c, "register", "create_user", u, p) /\ UNCHANGED fresh

Login(c, u, p) ==
    AskUser(c, "login", "find_user", u, p) /\ UNCHANGED fresh

ChangePassword(c, u, p, q) ==
    /\ AuthUser(u)
    /\ AskUser(c, "change_password", "find_credential", u, p)
    /\ fresh' = [fresh EXCEPT ![c] = q]

Deactivate(c, u) ==
    /\ AuthUser(u)
    /\ AskUser(c, "deactivate", "update", u, NoPassword)
    /\ UNCHANGED fresh

Logout(c, u) ==
    /\ AuthUser(u)
    /\ Arrive(c, "logout", "revoke")
    /\ who' = [who EXCEPT ![c] = u]
    /\ CallRevokeAll(c, u)
    /\ Note(c, u, FALSE)
    /\ UNCHANGED <<account, given, fresh, new, mint, access, delivered>>

\* t is a delivered token, or NoToken for any other string.
Owner(t) == IF t \in Stored THEN table[t].user ELSE NoUser

Refresh(c, t) ==
    /\ Arrive(c, "refresh", "rotate")
    /\ CallRotate(c, t)
    /\ Note(c, Owner(t), t \in Stored /\ (table[t].revoked
                             \/ account[table[t].user].status = "inactive"))
    /\ UNCHANGED <<account, who, given, fresh, new, mint, access, delivered>>

-----------------------------------------------------------------------------
(***************************************************************************)
(* Statements of services/user.rs.                                         *)
(***************************************************************************)
Goto(c, s) == stage' = [stage EXCEPT ![c] = s]

\* Mutant of CreateUser: ON CONFLICT DO UPDATE, which makes the account anew.
CreateOrReplace(c) ==
    /\ stage[c] = "create_user"
    /\ account' = [account EXCEPT ![who[c]] = [status |-> "active", pwd |-> given[c]]]
    /\ CallCreate(c, who[c])
    /\ Goto(c, "tokens")
    /\ UNCHANGED <<op, who, given, fresh, new, mint, access, delivered, history>>

\* create: both inserts and the commit are one transaction; the email is unique.
CreateUser(c) ==
    /\ stage[c] = "create_user"
    /\ IF account[who[c]].status = "none"
       THEN /\ account' = [account EXCEPT ![who[c]] =
                              [status |-> "active", pwd |-> given[c]]]
            /\ CallCreate(c, who[c])
            /\ Goto(c, "tokens")
       ELSE /\ Goto(c, "conflict")
            /\ UNCHANGED <<tokenVars, account>>
    /\ UNCHANGED <<op, who, given, fresh, new, mint, access, delivered, history>>

\* Mutant of FindUser: no is_active check.
FindAnyUser(c) ==
    /\ stage[c] = "find_user"
    /\ Goto(c, IF account[who[c]].status = "none" THEN "invalid" ELSE "find_credential")
    /\ UNCHANGED <<tokenVars, account, op, who, given, fresh, new, mint, access,
                   delivered, history>>

\* find_by_email (login) or find_by_id (refresh), and the is_active check.
FindUser(c) ==
    /\ stage[c] = "find_user"
    /\ \/ account[who[c]].status = "none" /\ Goto(c, "invalid")
       \/ account[who[c]].status = "inactive" /\ Goto(c, "disabled")
       \/ account[who[c]].status = "active" /\ Goto(c, "find_credential")
    /\ UNCHANGED <<tokenVars, account, op, who, given, fresh, new, mint, access,
                   delivered, history>>

\* find_local_credential and verify_password, as login and change_password call them.
WrongPassword(c) ==
    /\ stage[c] = "find_credential"
    /\ op[c] \in {"login", "change_password"}
    /\ account[who[c]].pwd # given[c]
    /\ Goto(c, "invalid")
    /\ UNCHANGED <<tokenVars, account, op, who, given, fresh, new, mint, access,
                   delivered, history>>

\* Mutant of LoginVerified: stores a token itself, without an expiry.
LoginInserts(c) ==
    /\ stage[c] = "find_credential"
    /\ op[c] = "login"
    /\ account[who[c]].pwd = given[c]
    /\ pc'  = [pc  EXCEPT ![c] = "insert"]
    /\ usr' = [usr EXCEPT ![c] = who[c]]
    /\ Goto(c, "tokens")
    /\ UNCHANGED <<table, now, tok, exp, out, account, op, who, given, fresh, new, mint,
                   access, delivered, history>>

LoginVerified(c) ==
    /\ stage[c] = "find_credential"
    /\ op[c] = "login"
    /\ account[who[c]].pwd = given[c]
    /\ CallCreate(c, who[c])
    /\ Goto(c, "tokens")
    /\ UNCHANGED <<account, op, who, given, fresh, new, mint, access, delivered, history>>

ChangeVerified(c) ==
    /\ stage[c] = "find_credential"
    /\ op[c] = "change_password"
    /\ account[who[c]].pwd = given[c]
    /\ Goto(c, "update")
    /\ UNCHANGED <<tokenVars, account, op, who, given, fresh, new, mint, access,
                   delivered, history>>

\* refresh mints the access token last, after the credential's look-up.
RefreshMint(c) ==
    /\ stage[c] = "find_credential"
    /\ op[c] = "refresh"
    /\ mint' = [mint EXCEPT ![c] = now + AccessTtl]
    /\ Goto(c, "ok")
    /\ UNCHANGED <<tokenVars, account, op, who, given, fresh, new, access, delivered,
                   history>>

\* UPDATE local_credentials SET password_hash = $1 WHERE user_id = $2
UpdatePassword(c) ==
    /\ stage[c] = "update"
    /\ op[c] = "change_password"
    /\ account' = [account EXCEPT ![who[c]].pwd = fresh[c]]
    /\ CallRevokeAll(c, who[c])
    /\ Goto(c, "revoke")
    /\ UNCHANGED <<op, who, given, fresh, new, mint, access, delivered, history>>

\* UPDATE users SET is_active = FALSE WHERE id = $1
SetInactive(c) ==
    /\ stage[c] = "update"
    /\ op[c] = "deactivate"
    /\ account' = [account EXCEPT ![who[c]].status = "inactive"]
    /\ CallRevokeAll(c, who[c])
    /\ Goto(c, "revoke")
    /\ UNCHANGED <<op, who, given, fresh, new, mint, access, delivered, history>>

-----------------------------------------------------------------------------
(***************************************************************************)
(* Statements of services/token.rs.  issue_tokens mints the access token   *)
(* in the same local code that prepares the INSERT.                        *)
(***************************************************************************)
TokenStatement(c) ==
    /\ Statement(c)
    /\ swept' = [d \in Clients |->
                    swept[d] \/ (pc[c] = "revoke_all" /\ usr[c] \in {usr[d], who[d]})]
    /\ mint'  = IF stage[c] = "tokens" /\ pc[c] = "create"
                THEN [mint EXCEPT ![c] = now + AccessTtl]
                ELSE mint
    /\ UNCHANGED <<account, op, stage, who, given, fresh, new, access, delivered,
                   seen, barred>>

TokensIssued(c) ==
    /\ stage[c] = "tokens"
    /\ Return(c)
    /\ new' = [new EXCEPT ![c] = out[c]]
    /\ Goto(c, "ok")
    /\ UNCHANGED <<account, op, who, given, fresh, mint, access, delivered, history>>

\* Mutant of RotateRefused: tries the refused token again.
RotateRetries(c) ==
    /\ stage[c] = "rotate"
    /\ pc[c] = "done"
    /\ out[c] = NoToken
    /\ pc' = [pc EXCEPT ![c] = "select"]
    /\ UNCHANGED <<table, now, tok, usr, exp, out, authVars>>

RotateRefused(c) ==
    /\ stage[c] = "rotate"
    /\ out[c] = NoToken
    /\ Return(c)
    /\ Goto(c, "invalid")
    /\ UNCHANGED <<account, op, who, given, fresh, new, mint, access, delivered, history>>

\* Mutant of RotateDone: answers with the token that was presented.
RotateEchoes(c) ==
    /\ stage[c] = "rotate"
    /\ out[c] # NoToken
    /\ Return(c)
    /\ new' = [new EXCEPT ![c] = tok[c]]
    /\ who' = [who EXCEPT ![c] = usr[c]]
    /\ Goto(c, "find_user")
    /\ UNCHANGED <<account, op, given, fresh, mint, access, delivered, history>>

RotateDone(c) ==
    /\ stage[c] = "rotate"
    /\ out[c] # NoToken
    /\ Return(c)
    /\ new' = [new EXCEPT ![c] = out[c]]
    /\ who' = [who EXCEPT ![c] = usr[c]]
    /\ Goto(c, "find_user")
    /\ UNCHANGED <<account, op, given, fresh, mint, access, delivered, history>>

RevokeDone(c) ==
    /\ stage[c] = "revoke"
    /\ Return(c)
    /\ Goto(c, "ok")
    /\ UNCHANGED <<account, op, who, given, fresh, new, mint, access, delivered, history>>

-----------------------------------------------------------------------------
(***************************************************************************)
(* The answer reaches the client, or the request ends without one: an      *)
(* error of the database, a client that hung up, an answer that is lost.   *)
(***************************************************************************)
Close(c) ==
    /\ op'    = [op    EXCEPT ![c] = "none"]
    /\ stage' = [stage EXCEPT ![c] = "idle"]
    /\ who'   = [who   EXCEPT ![c] = NoUser]
    /\ given' = [given EXCEPT ![c] = NoPassword]
    /\ fresh' = [fresh EXCEPT ![c] = NoPassword]
    /\ new'   = [new   EXCEPT ![c] = NoToken]
    /\ mint'  = [mint  EXCEPT ![c] = 0]
    /\ seen'   = [seen   EXCEPT ![c] = {}]
    /\ barred' = [barred EXCEPT ![c] = FALSE]
    /\ swept'  = [swept  EXCEPT ![c] = FALSE]
    /\ UNCHANGED account

\* Mutant of Reply: every answer is taken for a session.
ReplySession(c) ==
    /\ stage[c] \in Answers
    /\ delivered' = delivered \cup {new[c]}
    /\ access' = access \cup {[user |-> who[c], exp |-> mint[c]]}
    /\ Close(c)
    /\ UNCHANGED tokenVars

Reply(c) ==
    /\ stage[c] \in Answers
    /\ IF stage[c] = "ok" /\ op[c] \in Sessions
       THEN /\ delivered' = delivered \cup {new[c]}
            /\ access' = access \cup {[user |-> who[c], exp |-> mint[c]]}
       ELSE UNCHANGED <<access, delivered>>
    /\ Close(c)
    /\ UNCHANGED tokenVars

Drop(c) ==
    /\ stage[c] # "idle"
    /\ IF pc[c] = "idle" THEN UNCHANGED tokenVars ELSE Abort(c)
    /\ Close(c)
    /\ UNCHANGED <<access, delivered>>

AuthTick == Tick /\ UNCHANGED authVars

-----------------------------------------------------------------------------
Request(c) ==
    \/ \E u \in Users, p \in Passwords :
          \/ Register(c, u, p)
          \/ Login(c, u, p)
          \/ \E q \in Passwords : ChangePassword(c, u, p, q)
    \/ \E u \in Users : Logout(c, u) \/ Deactivate(c, u)
    \/ \E t \in delivered \cup {NoToken} : Refresh(c, t)

Progress(c) ==
    \/ CreateUser(c)
    \/ FindUser(c)
    \/ WrongPassword(c)
    \/ LoginVerified(c)
    \/ ChangeVerified(c)
    \/ RefreshMint(c)
    \/ UpdatePassword(c)
    \/ SetInactive(c)
    \/ TokenStatement(c)
    \/ TokensIssued(c)
    \/ RotateRefused(c)
    \/ RotateDone(c)
    \/ RevokeDone(c)

AuthNext ==
    \/ \E c \in Clients : Request(c) \/ Progress(c) \/ Reply(c) \/ Drop(c)
    \/ AuthTick

AuthSpec == AuthInit /\ [][AuthNext]_vars

\* The runtime polls every ready handler and the database answers or fails: a
\* request under way takes its next step, and an answer is sent or lost.
FairAuthSpec == AuthSpec /\ \A c \in Clients : WF_vars(Progress(c) \/ Reply(c) \/ Drop(c))
-----------------------------------------------------------------------------
\* Type correctness of the variables this module adds.
AuthTypeOK ==
    /\ account \in [Users -> [status : {"none", "active", "inactive"},
                              pwd    : Passwords \cup {NoPassword}]]
    /\ op    \in [Clients -> Operations \cup {"none"}]
    /\ stage \in [Clients -> Awaits \cup Answers \cup {"idle"}]
    /\ who   \in [Clients -> Users \cup {NoUser}]
    /\ given \in [Clients -> Passwords \cup {NoPassword}]
    /\ fresh \in [Clients -> Passwords \cup {NoPassword}]
    /\ new   \in [Clients -> Tokens \cup {NoToken}]
    /\ mint  \in [Clients -> 0 .. MaxTime + AccessTtl]
    /\ access \subseteq [user : Users, exp : 0 .. MaxTime + AccessTtl]
    /\ delivered \subseteq Stored
    /\ seen   \in [Clients -> SUBSET Stored]
    /\ barred \in [Clients -> BOOLEAN]
    /\ swept  \in [Clients -> BOOLEAN]

Revoked(t) == table[t].revoked

\* No session for a request that was not due one when it arrived: the account had
\* been deactivated, or the refresh token presented had been revoked, by a logout, a
\* password change, a deactivation, a rotation or the detection of reuse.  refresh
\* rotates the token first and looks at the account afterwards, so the refusal must
\* survive that order (auth.rs:80-82, 114-122, token.rs:153-156).
BarredGetsNoSession ==
    \A c \in Clients : barred[c] /\ stage[c] = "ok" => op[c] \notin Sessions

\* When logout, change_password or deactivate has answered ok, every token of the
\* user that was stored when the request arrived is revoked.  The same holds when
\* refresh has answered that the token is invalid: presenting a revoked or expired
\* token ends all sessions of its user (routes/users.rs:73-78, 104-105, token.rs:153-156).
SweepIsComplete ==
    \A c \in Clients :
        \/ stage[c] = "ok" /\ op[c] \in {"logout", "change_password", "deactivate"}
        \/ stage[c] = "invalid" /\ op[c] = "refresh"
        => \A t \in seen[c] : Revoked(t)

\* The refresh token of an answer works, unless all tokens of the user were revoked
\* while the request was under way: no other request can use it up, since nobody has
\* it yet, and expiry is never due at once (auth.rs:206-227, token.rs:164-172).
AnswerCarriesLiveToken ==
    \A c \in Clients :
        stage[c] = "ok" /\ op[c] \in Sessions /\ ~swept[c] => Live(new[c])

\* No refresh token is given out twice: the one in an answer under preparation is not
\* in the hands of a client yet, and no other request is about to answer with it
\* (auth.rs:114-116, 138-140).
AnswerIsFresh ==
    \A c \in Clients :
        new[c] # NoToken =>
           /\ new[c] \notin delivered
           /\ \A d \in Clients \ {c} : new[d] # new[c]

\* What logout promises (auth.rs:149 "Revoke all refresh tokens for the authenticated
\* user"; tests/services/auth.rs logout_revokes_all_tokens): after it answered ok no
\* session that was open when it arrived still has a live token.
LogoutEndsSessions ==
    \A c \in Clients : stage[c] = "ok" /\ op[c] = "logout"
        => \A t \in Stored : t \in seen[c] \/ table[t].parent \in seen[c] => Revoked(t)

\* The handlers use the token service through its methods only, one call at a time,
\* so that what holds of TokenService holds of the whole (auth.rs:114-116, 154-156, 220).
UsesTokenService == TokenSpec

\* Every request ends, whatever the others do.
EveryRequestEnds == \A c \in Clients : stage[c] # "idle" ~> stage[c] = "idle"

\* A user who is signed out everywhere, with no request of his past the point where a
\* refresh token is due, stays so until he logs in or registers: a refresh with any token
\* that was ever stored, of any age, a logout, a password change or a deactivation, in
\* whatever order their statements run, brings no session of his back
\* (token.rs:146-172, 228-246; auth.rs:114-122).
Opening == {"login", "register"}

SignedOut(u) ==
    /\ \A t \in TokensOf(u) : ~Live(t)
    /\ \A c \in Clients : usr[c] = u => pc[c] \notin {"revoke", "create", "insert"}
    /\ \A c \in Clients : who[c] = u => op[c] \notin Opening

SignedOutStep ==
    \A u \in Users : SignedOut(u) =>
        \/ SignedOut(u)'
        \/ \E c \in Clients : stage[c] = "idle" /\ op'[c] \in Opening /\ who'[c] = u

SignedOutStays == [][SignedOutStep]_vars

\* How many steps a handler may still take: those of its own stages, and of the call of
\* the token service it is in.
StageSteps == [idle |-> 0, ok |-> 1, invalid |-> 1, disabled |-> 1, conflict |-> 1,
               tokens |-> 1, revoke |-> 1, update |-> 4, create_user |-> 5,
               find_credential |-> 5, find_user |-> 6, rotate |-> 6]

CallSteps == [idle |-> 0, done |-> 1, insert |-> 2, revoke_all |-> 2, create |-> 3,
              revoke |-> 4, select |-> 5]

StepsLeft(c) == StageSteps[stage[c]] + CallSteps[pc[c]]

\* No request runs for ever on its own account: each step is of the clock, of a request
\* that arrives, or brings a handler nearer to its end, at most eleven steps after its
\* arrival, and no step sets another handler back.  Nothing is retried and nothing waits
\* for what another request may undo (auth.rs:57-160, token.rs:146-246).
AdvanceStep ==
    /\ \A c \in Clients : stage[c] # "idle" =>
          \/ StepsLeft(c)' < StepsLeft(c)
          \/ UNCHANGED <<stage[c], pc[c], who[c], new[c]>>
    /\ \/ now' > now
       \/ \E c \in Clients : stage[c] = "idle" /\ stage'[c] # "idle"
       \/ \E c \in Clients : stage[c] # "idle" /\ StepsLeft(c)' < StepsLeft(c)

HandlersAdvance == [][AdvanceStep]_vars

\* The accounts keep the promises of AccountRegistry under the handlers that open,
\* prolong and end sessions: none is made anew, activated again or loses its password
\* (user.rs:104-156, 209-245, 397-406).
Registry == INSTANCE AccountRegistry WITH
    status  <- [u \in Users |-> account[u].status],
    secured <- {u \in Users : account[u].pwd # NoPassword}

HandlersKeepRegistry == Registry!RegistrySpec
=============================================================================
