------------------------- MODULE AuthSessionProofs -------------------------
(***************************************************************************)
(* More about AuthService, on top of AuthServiceProofs: who gets no        *)
(* session, that a sweep is complete, and that an answer carries a token   *)
(* that works.  All three are about what one handler has learnt while the  *)
(* statements of the others run between its own; SessionInv says what that *)
(* is, handler by handler:                                                 *)
(*                                                                         *)
(*   Serves, CallIsFor  which request and whose account it works for       *)
(*   HasAccount         a refresh that is let through finds its account    *)
(*   Kept               how far a request gets that is not due a session   *)
(*   Sweeps             what it has to revoke, and when it has             *)
(*   Works              the token it will answer with is not revoked,      *)
(*                      unless a sweep of its user has come in between     *)
(***************************************************************************)
EXTENDS AuthServiceProofs

Ends == {"logout", "change_password", "deactivate"}

\* Which request a handler serves at each of its awaits.
Serves(c) ==
    /\ stage[c] = "create_user" => op[c] = "register"
    /\ stage[c] = "tokens" => op[c] \in {"register", "login"}
    /\ stage[c] = "find_user" => op[c] \in {"login", "refresh"}
    /\ stage[c] = "find_credential" => op[c] \in {"login", "refresh", "change_password"}
    /\ stage[c] = "update" => op[c] \in {"change_password", "deactivate"}
    /\ stage[c] = "revoke" => op[c] \in Ends

\* For whom a call of the token service is.
CallIsFor(c) ==
    /\ stage[c] \in {"tokens", "revoke"} => usr[c] = who[c]
    /\ tok[c] \in delivered \cup {NoToken}
    /\ stage[c] = "rotate" /\ usr[c] # NoUser
          => tok[c] \in Stored /\ usr[c] = table[tok[c]].user
    /\ stage[c] = "rotate" /\ (pc[c] = "revoke_all" \/ out[c] # NoToken) => usr[c] # NoUser

\* Tokens are stored for accounts that exist, so a refresh always finds its account.
TokensHaveAccounts ==
    \A t \in Stored : account[table[t].user].status # "none"

HasAccount(c) ==
    /\ pc[c] \in {"create", "insert"} => account[usr[c]].status # "none"
    /\ stage[c] = "find_credential" /\ op[c] = "login" => account[who[c]].status # "none"
    /\ stage[c] = "find_user" /\ op[c] = "refresh" => account[who[c]].status # "none"

\* How far a request that is not due a session can come.
Kept(c) ==
    barred[c] =>
       /\ op[c] \in {"register", "login"} =>
             /\ who[c] \in Users
             /\ account[who[c]].status = "inactive"
             /\ stage[c] \notin {"find_credential", "tokens", "ok"}
       /\ op[c] = "refresh" =>
             \/ /\ stage[c] = "rotate"
                /\ tok[c] \in Stored
                /\ \/ account[table[tok[c]].user].status = "inactive"
                   \/ /\ table[tok[c]].revoked
                      /\ pc[c] \in {"select", "revoke_all", "done"}
                      /\ out[c] = NoToken
             \/ stage[c] = "find_user" /\ account[who[c]].status = "inactive"
             \/ stage[c] \in {"invalid", "disabled"}

\* The tokens a request has to revoke, and when it has.
Sweeps(c) ==
    /\ op[c] \in Ends => \A t \in seen[c] : table[t].user = who[c]
    /\ stage[c] = "rotate"
          => \A t \in seen[c] : tok[c] \in Stored /\ table[t].user = table[tok[c]].user
    /\ \/ stage[c] = "revoke" /\ pc[c] = "done"
       \/ stage[c] = "rotate" /\ pc[c] = "done" /\ out[c] = NoToken
       \/ stage[c] = "ok" /\ op[c] \in Ends
       \/ stage[c] = "invalid" /\ op[c] = "refresh"
       => \A t \in seen[c] : Revoked(t)

\* The token a handler is about to answer with.
Works(c) ==
    /\ out[c] # NoToken => /\ table[out[c]].user = usr[c]
                           /\ swept[c] \/ ~Revoked(out[c])
    /\ new[c] # NoToken => /\ table[new[c]].user = who[c]
                           /\ swept[c] \/ ~Revoked(new[c])

Own(c) == Serves(c) /\ CallIsFor(c) /\ HasAccount(c) /\ Kept(c) /\ Sweeps(c) /\ Works(c)

SessionInv == TokensHaveAccounts /\ \A c \in Clients : Own(c)

-----------------------------------------------------------------------------
(***************************************************************************)
(* What a step does to the tables.                                         *)
(***************************************************************************)
\* Rows stay and their flags are only set; an account that exists stays, and one that is
\* deactivated stays so.
TablesKeep ==
    /\ \A t \in Stored :
          /\ t \in Stored'
          /\ table'[t].user = table[t].user
          /\ Revoked(t) => Revoked(t)'
    /\ \A u \in Users :
          /\ account[u].status = "inactive" => account'[u].status = "inactive"
          /\ account[u].status # "none" => account'[u].status # "none"

LEMMA StepKeepsTables ==
    ASSUME AuthInv, [AuthNext]_vars
    PROVE  TablesKeep
<1>1. [TokenNext]_tokenVars
  BY Drives
<1>2. \A t \in Stored : /\ t \in Stored'
                        /\ table'[t].user = table[t].user
                        /\ Revoked(t) => Revoked(t)'
  <2> DEFINE Goal == \A t \in Stored : /\ t \in Stored'
                                       /\ table'[t].user = table[t].user
                                       /\ Revoked(t) => Revoked(t)'
  <2>1. ASSUME table' = table PROVE Goal
    BY <2>1 DEF Stored, Revoked
  <2>2. ASSUME NEW c \in Clients, RotateRevoke(c) \/ RevokeAll(c) PROVE Goal
    BY <2>2, UpdatesSetFlagsOnly DEF AuthInv, FlagsOnly, Revoked
  <2>3. ASSUME NEW c \in Clients, NEW t \in Tokens, InsertToken(c, t) PROVE Goal
    BY <2>3 DEF InsertToken, Stored, Revoked
  <2> QED
    BY <1>1, <2>1, <2>2, <2>3
       DEF TokenNext, Call, CallCreate, CallRotate, CallRevokeAll, Begin, Statement,
           SelectUnknown, SelectRefused, SelectValid, PrepareToken, Return, Abort, Forget,
           Tick, tokenVars
<1>3. \A u \in Users :
          /\ account[u].status = "inactive" => account'[u].status = "inactive"
          /\ account[u].status # "none" => account'[u].status # "none"
  <2> DEFINE Goal == \A u \in Users :
          /\ account[u].status = "inactive" => account'[u].status = "inactive"
          /\ account[u].status # "none" => account'[u].status # "none"
  <2>1. ASSUME account' = account PROVE Goal
    BY <2>1
  <2>2. ASSUME NEW c \in Clients, CreateUser(c) \/ UpdatePassword(c) \/ SetInactive(c)
        PROVE  Goal
    BY <2>2 DEF CreateUser, UpdatePassword, SetInactive, AuthInv, AuthTypeOK
  <2>3. ASSUME NEW c \in Clients, Request(c) PROVE Goal
    BY <2>1, <2>3 DEF Request, Register, Login, ChangePassword, Deactivate, AskUser, Logout,
         Refresh
  <2>4. ASSUME NEW c \in Clients,
               \/ FindUser(c) \/ WrongPassword(c) \/ LoginVerified(c) \/ ChangeVerified(c)
               \/ RefreshMint(c) \/ TokenStatement(c) \/ TokensIssued(c) \/ RotateRefused(c)
               \/ RotateDone(c) \/ RevokeDone(c) \/ Reply(c) \/ Drop(c)
        PROVE  Goal
    BY <2>1, <2>4 DEF FindUser, WrongPassword, LoginVerified, ChangeVerified, RefreshMint,
         TokenStatement, TokensIssued, RotateRefused, RotateDone, RevokeDone, Reply, Drop, Close
  <2>5. ASSUME AuthTick \/ UNCHANGED vars PROVE Goal
    BY <2>1, <2>5 DEF AuthTick, authVars, vars
  <2> QED BY <2>2, <2>3, <2>4, <2>5 DEF AuthNext, Progress
<1> QED BY <1>2, <1>3 DEF TablesKeep

\* A flag is set by the UPDATE of a rotation, or by a sweep, which the history notes.
LEMMA FlagsSet ==
    ASSUME AuthInv, NEW c \in Clients, ClientStep(c), NEW t \in Stored, ~Revoked(t), Revoked(t)'
    PROVE  \/ pc[c] = "revoke" /\ t = tok[c]
           \/ /\ pc[c] = "revoke_all" /\ usr[c] = table[t].user
              /\ \A d \in Clients : usr[c] \in {usr[d], who[d]} => swept'[d]
<1>1. table' # table
  BY DEF Revoked
<1>2. TokenStatement(c)
  BY <1>1 DEF ClientStep, Request, Register, Login, ChangePassword, Deactivate, AskUser, Logout,
       Refresh, CallRevokeAll, CallRotate, CallCreate, Begin, Progress, CreateUser, FindUser,
       WrongPassword, LoginVerified, ChangeVerified, RefreshMint, UpdatePassword, SetInactive,
       TokensIssued, RotateRefused, RotateDone, RevokeDone, Return, Reply, Drop, Abort, Forget,
       tokenVars
<1>3. table \in [Stored -> Row]
  BY DEF AuthInv, TokenInv, TokenTypeOK
<1>4. CASE RotateRevoke(c)
  BY <1>3, <1>4 DEF RotateRevoke, Revoked, Row
<1>5. CASE RevokeAll(c)
  <2>1. usr[c] = table[t].user /\ pc[c] = "revoke_all"
    BY <1>3, <1>5 DEF RevokeAll, Revoked, Row
  <2>2. \A d \in Clients : usr[c] \in {usr[d], who[d]} => swept'[d]
    BY <1>2, <2>1 DEF TokenStatement
  <2> QED BY <2>1, <2>2
<1>6. ASSUME NEW n \in Tokens, InsertToken(c, n) PROVE FALSE
  BY <1>6 DEF InsertToken, Revoked
<1> QED BY <1>1, <1>2, <1>4, <1>5, <1>6
        DEF TokenStatement, Statement, SelectUnknown, SelectRefused, SelectValid, PrepareToken

\* What the history and the tokens given out say of the request d of another.
LEMMA OthersHistory ==
    ASSUME AuthInv, NEW c \in Clients, ClientStep(c), NEW d \in Clients, d # c
    PROVE  /\ seen'[d] = seen[d] /\ barred'[d] = barred[d]
           /\ swept[d] => swept'[d]
           /\ delivered \subseteq delivered'
<1> USE DEF AuthInv, AuthTypeOK
<1>1. CASE Request(c)
  BY <1>1 DEF Request, Register, Login, ChangePassword, Deactivate, AskUser, Logout, Refresh, Note
<1>2. CASE TokenStatement(c)
  BY <1>2 DEF TokenStatement
<1>3. CASE \/ CreateUser(c) \/ UpdatePassword(c) \/ SetInactive(c)
           \/ FindUser(c) \/ WrongPassword(c) \/ LoginVerified(c) \/ ChangeVerified(c)
           \/ RefreshMint(c) \/ TokensIssued(c) \/ RotateRefused(c)
           \/ RotateDone(c) \/ RevokeDone(c)
  BY <1>3 DEF CreateUser, UpdatePassword, SetInactive, FindUser, WrongPassword, LoginVerified,
       ChangeVerified, RefreshMint, TokensIssued, RotateRefused, RotateDone, RevokeDone, history
<1>4. CASE Reply(c) \/ Drop(c)
  BY <1>4 DEF Reply, Drop, Close
<1> QED BY <1>1, <1>2, <1>3, <1>4 DEF ClientStep, Progress

\* So what the handler d has learnt stays true.
LEMMA OthersOwn ==
    ASSUME AuthInv, SessionInv, NEW c \in Clients, ClientStep(c), NEW d \in Clients, d # c
    PROVE  Own(d)'
<1>1. SameHandler(d) /\ TablesKeep
  BY StepIsLocal, StepKeepsTables DEF AuthNext, ClientStep
<1>2. /\ seen'[d] = seen[d] /\ barred'[d] = barred[d]
      /\ swept[d] => swept'[d]
      /\ delivered \subseteq delivered'
  BY OthersHistory
<1>3. Own(d) /\ HandlerKnows(d)
  BY DEF SessionInv, AuthInv, Handlers
<1>4. seen[d] \subseteq Stored /\ who[d] \in Users \cup {NoUser} /\ usr[d] \in Users \cup {NoUser}
  BY DEF AuthInv, AuthTypeOK, TokenInv, TokenTypeOK
<1>5. \A t \in Stored : table[t].user \in Users
  BY DEF AuthInv, TokenInv, TokenTypeOK, Row
<1>6. Serves(d)' /\ CallIsFor(d)'
  BY <1>1, <1>2, <1>3 DEF Own, Serves, CallIsFor, SameHandler, TablesKeep
<1>7. HasAccount(d)'
  <2>1. pc[d] \in {"create", "insert"} => usr[d] \in Users
    BY DEF AuthInv, TokenInv, Requests, RequestKnows
  <2> QED BY <1>1, <1>3, <2>1 DEF Own, HasAccount, HandlerKnows, SameHandler, TablesKeep
<1>8. Kept(d)'
  <2>1. stage[d] = "find_user" => who[d] \in Users
    BY <1>3 DEF HandlerKnows
  <2>2. \A u \in Users : account[u].status = "inactive" => account'[u].status = "inactive"
    BY <1>1 DEF TablesKeep
  <2>3. tok[d] \in Stored => /\ tok[d] \in Stored'
                             /\ table'[tok[d]].user = table[tok[d]].user
                             /\ table[tok[d]].revoked => table'[tok[d]].revoked
    BY <1>1 DEF TablesKeep, Revoked
  <2>4. Kept(d)
    BY <1>3 DEF Own
  <2>5. CASE op[d] \in {"register", "login"}
    BY <1>1, <1>2, <2>2, <2>4, <2>5 DEF Kept, SameHandler
  <2>6. CASE op[d] = "refresh"
    BY <1>1, <1>2, <1>5, <2>1, <2>2, <2>3, <2>4, <2>6 DEF Kept, SameHandler
  <2>7. CASE op[d] \notin {"register", "login", "refresh"}
    BY <1>1, <2>7 DEF Kept, SameHandler
  <2> QED BY <2>5, <2>6, <2>7
<1>9. Sweeps(d)'
  BY <1>1, <1>2, <1>3, <1>4 DEF Own, Sweeps, SameHandler, TablesKeep
<1>10. Works(d)'
  <2>1. ASSUME NEW t \in Held(d), table[t].user \in {usr[d], who[d]}, ~Revoked(t), Revoked(t)'
        PROVE  swept'[d]
    <3>1. t \in Stored /\ t \notin delivered /\ t # NoToken
      BY DEF AuthInv, HeldAreFresh, Held
    <3>2. tok[c] \in delivered \cup {NoToken}
      BY DEF SessionInv, Own, CallIsFor
    <3> QED BY <2>1, <3>1, <3>2, FlagsSet
  <2>2. \A t \in Held(d) : t \in Stored
    BY DEF AuthInv, HeldAreFresh
  <2> QED BY <1>1, <1>2, <1>3, <2>1, <2>2 DEF Own, Works, SameHandler, TablesKeep, Held
<1> QED BY <1>6, <1>7, <1>8, <1>9, <1>10 DEF Own

-----------------------------------------------------------------------------
(***************************************************************************)
(* What a handler learns from its own step.                                *)
(***************************************************************************)
LEMMA RequestOwn ==
    ASSUME AuthInv, SessionInv, NEW c \in Clients, Request(c)
    PROVE  Own(c)'
<1> USE Domains
<1>1. HandlerKnows(c) /\ stage[c] = "idle" /\ pc[c] = "idle" /\ out[c] = NoToken /\ new[c] = NoToken
  BY DEF AuthInv, Handlers, HandlerKnows, InCall, Request, Register, Login, ChangePassword,
     Deactivate, AskUser, Logout, Refresh, Arrive
<1>2. AuthTypeOK /\ TokenTypeOK /\ \A t \in Stored : t # NoToken /\ table[t].user \in Users
  BY TokenConstants DEF AuthInv, TokenInv, TokenTypeOK, Row
<1>3. ASSUME NEW o, NEW s, NEW u \in Users, NEW p, AskUser(c, o, s, u, p),
             \/ o = "register" /\ s = "create_user"
             \/ o = "login" /\ s = "find_user"
             \/ o = "change_password" /\ s = "find_credential"
             \/ o = "deactivate" /\ s = "update"
      PROVE  Own(c)'
  <2>1. /\ op'[c] = o /\ stage'[c] = s /\ who'[c] = u
        /\ pc'[c] = "idle" /\ out'[c] = NoToken /\ new'[c] = NoToken /\ tok'[c] = tok[c]
        /\ UNCHANGED <<table, account, delivered>>
    BY <1>1, <1>3 DEF AskUser, Arrive, tokenVars
  <2>2. seen'[c] = TokensOf(u) /\ barred'[c] = (account[u].status = "inactive")
    BY <1>2, <1>3 DEF AskUser, Note, AuthTypeOK
  <2>3. Own(c)
    BY DEF SessionInv
  <2>4. Serves(c)' /\ CallIsFor(c)' /\ HasAccount(c)' /\ Works(c)'
    BY <1>3, <2>1, <2>3 DEF Own, Serves, CallIsFor, HasAccount, Works
  <2>5. Kept(c)'
    BY <1>3, <2>1, <2>2 DEF Kept
  <2>6. Sweeps(c)'
    BY <1>3, <2>1, <2>2 DEF Sweeps, TokensOf
  <2> QED BY <2>4, <2>5, <2>6 DEF Own
<1>4. ASSUME NEW u \in Users, Logout(c, u) PROVE Own(c)'
  <2>1. /\ op'[c] = "logout" /\ stage'[c] = "revoke" /\ who'[c] = u
        /\ pc'[c] = "revoke_all" /\ out'[c] = NoToken /\ new'[c] = NoToken
        /\ tok'[c] = NoToken /\ usr'[c] = u
        /\ UNCHANGED <<table, account, delivered>>
    BY <1>1, <1>4 DEF Logout, Arrive, CallRevokeAll, Begin
  <2>2. seen'[c] = TokensOf(u) /\ barred'[c] = FALSE
    BY <1>2, <1>4 DEF Logout, Note, AuthTypeOK
  <2> QED BY <2>1, <2>2
          DEF Own, Serves, CallIsFor, HasAccount, Kept, Sweeps, Works, TokensOf, Ends
<1>5. ASSUME NEW t \in delivered \cup {NoToken}, Refresh(c, t) PROVE Own(c)'
  <2>1. /\ op'[c] = "refresh" /\ stage'[c] = "rotate"
        /\ pc'[c] = "select" /\ out'[c] = NoToken /\ new'[c] = NoToken
        /\ tok'[c] = t /\ usr'[c] = NoUser
        /\ UNCHANGED <<table, account, delivered>>
    BY <1>1, <1>5 DEF Refresh, Arrive, CallRotate, Begin
  <2>2. /\ seen'[c] = TokensOf(Owner(t))
        /\ barred'[c] = (t \in Stored /\ (table[t].revoked
                             \/ account[table[t].user].status = "inactive"))
    BY <1>2, <1>5 DEF Refresh, Note, AuthTypeOK
  <2>3. \A x \in seen'[c] : t \in Stored /\ table[x].user = table[t].user
    BY <1>2, <2>2, TokenConstants DEF TokensOf, Owner
  <2>4. Kept(c)'
    BY <2>1, <2>2 DEF Kept, Stored
  <2>5. Sweeps(c)'
    BY <2>1, <2>3 DEF Sweeps, Ends, Stored
  <2> QED BY <2>1, <2>4, <2>5 DEF Own, Serves, CallIsFor, HasAccount, Works
<1> QED BY <1>3, <1>4, <1>5 DEF Request, Register, Login, ChangePassword, Deactivate

\* Nothing a handler has learnt is lost when it goes on without a call of the token service.
LEMMA UserOwn ==
    ASSUME AuthInv, SessionInv, NEW c \in Clients,
           \/ CreateUser(c) \/ FindUser(c) \/ WrongPassword(c) \/ LoginVerified(c)
           \/ ChangeVerified(c) \/ RefreshMint(c) \/ UpdatePassword(c) \/ SetInactive(c)
    PROVE  Own(c)'
<1> USE Domains
<1>1. /\ HandlerKnows(c) /\ Own(c)
      /\ pc[c] = "idle" /\ out[c] = NoToken
      /\ stage[c] \in {"create_user", "find_user", "find_credential", "update"}
  BY DEF SessionInv, AuthInv, Handlers, HandlerKnows, InCall, CreateUser, FindUser,
     WrongPassword, LoginVerified, ChangeVerified, RefreshMint, UpdatePassword, SetInactive
<1>2. /\ op'[c] = op[c] /\ who'[c] = who[c] /\ new'[c] = new[c] /\ out'[c] = NoToken
      /\ seen'[c] = seen[c] /\ barred'[c] = barred[c] /\ swept'[c] = swept[c]
      /\ UNCHANGED <<table, delivered>>
  BY <1>1 DEF CreateUser, FindUser, WrongPassword, LoginVerified, ChangeVerified, RefreshMint,
     UpdatePassword, SetInactive, history, tokenVars, CallCreate, CallRevokeAll, Begin
<1>3. who[c] \in Users /\ TablesKeep /\ AuthTypeOK
  BY <1>1, StepKeepsTables DEF HandlerKnows, AuthInv, AuthNext, Progress
<1>4. Works(c)'
  BY <1>1, <1>2 DEF Own, Works, Revoked
<1>5. CASE CreateUser(c)
  <2>1. \/ /\ stage'[c] = "tokens" /\ pc'[c] = "create" /\ usr'[c] = who[c] /\ tok'[c] = NoToken
           /\ account[who[c]].status = "none" /\ account'[who[c]].status = "active"
        \/ stage'[c] = "conflict" /\ pc'[c] = "idle" /\ tok'[c] = tok[c]
    BY <1>1, <1>3, <1>5 DEF CreateUser, CallCreate, Begin, Goto, tokenVars, AuthTypeOK
  <2>2. op[c] = "register" /\ CallIsFor(c) /\ Kept(c)
    BY <1>1, <1>5 DEF Own, Serves, CreateUser
  <2> QED BY <1>2, <1>3, <1>4, <2>1, <2>2
          DEF Own, Serves, CallIsFor, HasAccount, Kept, Sweeps, TablesKeep, Ends
<1>6. CASE FindUser(c)
  <2>1. /\ pc'[c] = "idle" /\ tok'[c] = tok[c] /\ account' = account
        /\ \/ account[who[c]].status = "none" /\ stage'[c] = "invalid"
           \/ account[who[c]].status = "inactive" /\ stage'[c] = "disabled"
           \/ account[who[c]].status = "active" /\ stage'[c] = "find_credential"
    BY <1>1, <1>6 DEF FindUser, Goto, tokenVars
  <2>2. /\ op[c] \in {"login", "refresh"} /\ stage[c] = "find_user"
        /\ CallIsFor(c) /\ HasAccount(c) /\ Kept(c)
    BY <1>1, <1>6 DEF Own, Serves, FindUser
  <2> QED BY <1>2, <1>4, <2>1, <2>2
          DEF Own, Serves, CallIsFor, HasAccount, Kept, Sweeps, Ends
<1>7. CASE WrongPassword(c) \/ ChangeVerified(c) \/ RefreshMint(c)
  <2>1. /\ pc'[c] = "idle" /\ tok'[c] = tok[c] /\ account' = account
        /\ \/ op[c] \in {"login", "change_password"} /\ stage'[c] = "invalid"
           \/ op[c] = "change_password" /\ stage'[c] = "update"
           \/ op[c] = "refresh" /\ stage'[c] = "ok"
    BY <1>1, <1>7 DEF WrongPassword, ChangeVerified, RefreshMint, Goto, tokenVars
  <2>2. CallIsFor(c) /\ Kept(c) /\ Sweeps(c) /\ stage[c] = "find_credential"
    BY <1>1, <1>7 DEF Own, WrongPassword, ChangeVerified, RefreshMint
  <2> QED BY <1>2, <1>4, <2>1, <2>2
          DEF Own, Serves, CallIsFor, HasAccount, Kept, Sweeps, Ends
<1>8. CASE LoginVerified(c)
  <2>1. /\ stage'[c] = "tokens" /\ pc'[c] = "create" /\ usr'[c] = who[c] /\ tok'[c] = NoToken
        /\ account' = account
    BY <1>1, <1>8 DEF LoginVerified, CallCreate, Begin, Goto
  <2>2. op[c] = "login" /\ HasAccount(c) /\ Kept(c) /\ stage[c] = "find_credential"
    BY <1>1, <1>8 DEF Own, LoginVerified
  <2> QED BY <1>2, <1>4, <2>1, <2>2
          DEF Own, Serves, CallIsFor, HasAccount, Kept, Sweeps, Ends
<1>9. CASE UpdatePassword(c) \/ SetInactive(c)
  <2>1. /\ stage'[c] = "revoke" /\ pc'[c] = "revoke_all" /\ usr'[c] = who[c] /\ tok'[c] = NoToken
    BY <1>1, <1>9 DEF UpdatePassword, SetInactive, CallRevokeAll, Begin, Goto
  <2>2. op[c] \in Ends /\ Sweeps(c)
    BY <1>1, <1>9 DEF Own, UpdatePassword, SetInactive, Ends
  <2> QED BY <1>2, <1>4, <2>1, <2>2
          DEF Own, Serves, CallIsFor, HasAccount, Kept, Sweeps, Ends
<1> QED BY <1>5, <1>6, <1>7, <1>8, <1>9

\* The statements of the token service.
LEMMA StatementOwn ==
    ASSUME AuthInv, SessionInv, NEW c \in Clients, TokenStatement(c)
    PROVE  Own(c)'
<1> USE Domains
<1>1. HandlerKnows(c) /\ Own(c) /\ RequestKnows(c) /\ AuthTypeOK /\ TokenTypeOK
  BY DEF SessionInv, AuthInv, Handlers, TokenInv, Requests
<1>2. /\ op'[c] = op[c] /\ who'[c] = who[c] /\ new'[c] = new[c] /\ stage'[c] = stage[c]
      /\ seen'[c] = seen[c] /\ barred'[c] = barred[c] /\ UNCHANGED <<account, delivered>>
      /\ swept[c] => swept'[c]
  BY <1>1 DEF TokenStatement, AuthTypeOK
<1>3. TablesKeep
  BY StepKeepsTables DEF AuthNext, Progress
<1>4. stage[c] \in InCall /\ new[c] = NoToken /\ out[c] = NoToken /\ pc[c] # "done"
  BY <1>1 DEF TokenStatement, Statement, SelectUnknown, SelectRefused, SelectValid, RotateRevoke,
     PrepareToken, InsertToken, RevokeAll, HandlerKnows, InCall
<1>5. /\ seen[c] \subseteq Stored
      /\ \A t \in Stored : t # NoToken /\ t \in Tokens /\ table[t].user \in Users
  BY <1>1, TokenConstants DEF AuthTypeOK, TokenTypeOK, Row
<1>6. /\ stage[c] \in {"rotate", "revoke", "tokens"}
      /\ stage[c] = "rotate" => op[c] = "refresh"
      /\ stage[c] = "tokens" => op[c] \in {"register", "login"} /\ pc[c] \in {"create", "insert"}
      /\ stage[c] = "revoke" => pc[c] = "revoke_all" /\ op[c] \notin Sessions
  BY <1>1, <1>4 DEF HandlerKnows, Own, Serves, InCall
<1> USE DEF Own, Serves, CallIsFor, HasAccount, Kept, Sweeps, Works
<1>7. CASE SelectUnknown(c)
  <2>1. /\ pc[c] = "select" /\ tok[c] \notin Stored
        /\ pc'[c] = "done" /\ tok'[c] = tok[c] /\ usr'[c] = usr[c] /\ out'[c] = NoToken
        /\ UNCHANGED table
    BY <1>4, <1>7 DEF SelectUnknown
  <2> QED BY <1>1, <1>2, <1>4, <1>5, <1>6, <2>1 DEF Ends, Stored
<1>8. CASE SelectRefused(c)
  <2>1. /\ pc[c] = "select" /\ tok[c] \in Stored
        /\ pc'[c] = "revoke_all" /\ tok'[c] = tok[c] /\ usr'[c] = table[tok[c]].user
        /\ out'[c] = NoToken
        /\ UNCHANGED table
    BY <1>4, <1>8 DEF SelectRefused
  <2> QED BY <1>1, <1>2, <1>4, <1>5, <1>6, <2>1, TokenConstants DEF Ends, Stored
<1>9. CASE SelectValid(c)
  <2>1. /\ pc[c] = "select" /\ tok[c] \in Stored /\ ~table[tok[c]].revoked
        /\ pc'[c] = "revoke" /\ tok'[c] = tok[c] /\ usr'[c] = table[tok[c]].user
        /\ out'[c] = NoToken
        /\ UNCHANGED table
    BY <1>4, <1>9 DEF SelectValid, Refused
  <2> QED BY <1>1, <1>2, <1>4, <1>5, <1>6, <2>1, TokenConstants DEF Ends, Stored
<1>10. CASE RotateRevoke(c) \/ PrepareToken(c)
  <2>1. /\ pc[c] \in {"revoke", "create"}
        /\ pc'[c] \in {"create", "insert"}
        /\ tok'[c] = tok[c] /\ usr'[c] = usr[c] /\ out'[c] = NoToken
    BY <1>4, <1>10 DEF RotateRevoke, PrepareToken
  <2>2. HasAccount(c)'
    <3>1. pc[c] = "revoke" => tok[c] \in Stored /\ table[tok[c]].user = usr[c]
      BY <1>1 DEF RequestKnows, RotationKnows
    <3>2. pc[c] = "revoke" => account[usr[c]].status # "none"
      BY <3>1 DEF SessionInv, TokensHaveAccounts
    <3> QED BY <1>1, <1>2, <1>4, <1>6, <2>1, <3>2
  <2>3. CallIsFor(c)' /\ Kept(c)'
    BY <1>1, <1>2, <1>3, <1>4, <1>5, <1>6, <2>1 DEF TablesKeep
  <2>4. Serves(c)' /\ Sweeps(c)' /\ Works(c)'
    BY <1>1, <1>2, <1>3, <1>4, <1>5, <1>6, <2>1 DEF TablesKeep, Ends
  <2> QED BY <2>2, <2>3, <2>4
<1>11. ASSUME NEW t \in Tokens, InsertToken(c, t) PROVE Own(c)'
  <2>1. /\ pc[c] = "insert" /\ t \in Stored' /\ t # NoToken
        /\ pc'[c] = "done" /\ tok'[c] = tok[c] /\ usr'[c] = usr[c] /\ out'[c] = t
        /\ table'[t].user = usr[c] /\ ~Revoked(t)'
    BY <1>4, <1>11, TokenConstants DEF InsertToken, NewRow, Revoked, Stored
  <2>2. usr[c] \in Users
    BY <1>1, <2>1 DEF RequestKnows
  <2>3. CallIsFor(c)' /\ Kept(c)'
    BY <1>1, <1>2, <1>3, <1>4, <1>5, <1>6, <2>1, <2>2, TokenConstants DEF TablesKeep
  <2>4. Serves(c)' /\ Sweeps(c)' /\ Works(c)' /\ HasAccount(c)'
    BY <1>1, <1>2, <1>3, <1>4, <1>5, <1>6, <2>1, <2>2 DEF TablesKeep, Ends
  <2> QED BY <2>3, <2>4
<1>12. CASE RevokeAll(c)
  <2>1. /\ pc[c] = "revoke_all"
        /\ pc'[c] = "done" /\ tok'[c] = tok[c] /\ usr'[c] = usr[c] /\ out'[c] = NoToken
        /\ Stored' = Stored
    BY <1>4, <1>12 DEF RevokeAll, Stored
  <2>2. \A t \in Stored : table[t].user = usr[c] => Revoked(t)'
    BY <1>1, <1>12 DEF RevokeAll, Revoked, Row, TokenTypeOK
  <2>3. CallIsFor(c)' /\ Kept(c)'
    BY <1>1, <1>2, <1>3, <1>4, <1>5, <1>6, <2>1 DEF TablesKeep, Revoked
  <2>4. \A t \in seen[c] : Revoked(t)'
    <3>1. CASE stage[c] = "rotate"
      BY <1>1, <1>5, <2>1, <2>2, <3>1
    <3>2. CASE stage[c] = "revoke"
      BY <1>1, <1>5, <1>6, <2>1, <2>2, <3>2
    <3> QED BY <1>6, <2>1, <3>1, <3>2
  <2>5. Sweeps(c)'
    BY <1>1, <1>2, <1>3, <1>5, <1>6, <2>1, <2>4 DEF TablesKeep, Ends
  <2>6. Serves(c)' /\ Works(c)' /\ HasAccount(c)'
    BY <1>1, <1>2, <1>3, <1>4, <1>6, <2>1
  <2> QED BY <2>3, <2>5, <2>6
<1> QED BY <1>7, <1>8, <1>9, <1>10, <1>11, <1>12 DEF TokenStatement, Statement

\* A call of the token service returns.
LEMMA ReturnOwn ==
    ASSUME AuthInv, SessionInv, NEW c \in Clients,
           TokensIssued(c) \/ RotateRefused(c) \/ RotateDone(c) \/ RevokeDone(c)
    PROVE  Own(c)'
<1> USE Domains DEF Own, Serves, CallIsFor, HasAccount, Kept, Sweeps, Works
<1>1. HandlerKnows(c) /\ Own(c) /\ AuthTypeOK
  BY DEF SessionInv, AuthInv, Handlers
<1>2. /\ op'[c] = op[c] /\ seen'[c] = seen[c] /\ barred'[c] = barred[c] /\ swept'[c] = swept[c]
      /\ UNCHANGED <<table, account, delivered>>
      /\ pc[c] = "done" /\ pc'[c] = "idle"
      /\ tok'[c] = NoToken /\ usr'[c] = NoUser /\ out'[c] = NoToken
  BY DEF TokensIssued, RotateRefused, RotateDone, RevokeDone, Return, Forget, history
<1>3. CASE TokensIssued(c)
  <2>1. /\ stage[c] = "tokens" /\ stage'[c] = "ok" /\ who'[c] = who[c] /\ new'[c] = out[c]
        /\ op[c] \in {"register", "login"}
    BY <1>1, <1>3 DEF TokensIssued, Goto
  <2> QED BY <1>1, <1>2, <2>1 DEF Ends, Revoked
<1>4. CASE RotateRefused(c)
  <2>1. /\ stage[c] = "rotate" /\ stage'[c] = "invalid" /\ who'[c] = who[c]
        /\ new'[c] = NoToken /\ out[c] = NoToken /\ op[c] = "refresh"
    BY <1>1, <1>4 DEF RotateRefused, Goto, HandlerKnows, InCall
  <2> QED BY <1>1, <1>2, <2>1 DEF Ends, Revoked
<1>5. CASE RotateDone(c)
  <2>1. /\ stage[c] = "rotate" /\ stage'[c] = "find_user" /\ who'[c] = usr[c]
        /\ new'[c] = out[c] /\ out[c] # NoToken /\ op[c] = "refresh"
    BY <1>1, <1>5 DEF RotateDone, Goto, HandlerKnows
  <2>2. account[usr[c]].status # "none"
    BY <1>1, <2>1 DEF SessionInv, TokensHaveAccounts
  <2> QED BY <1>1, <1>2, <2>1, <2>2 DEF Ends, Revoked
<1>6. CASE RevokeDone(c)
  <2>1. /\ stage[c] = "revoke" /\ stage'[c] = "ok" /\ who'[c] = who[c]
        /\ new'[c] = NoToken /\ op[c] \in Ends
    BY <1>1, <1>6 DEF RevokeDone, Goto, HandlerKnows, InCall
  <2> QED BY <1>1, <1>2, <2>1 DEF Ends, Revoked
<1> QED BY <1>3, <1>4, <1>5, <1>6

\* After the answer, or without one, there is nothing to know.
LEMMA EndOwn ==
    ASSUME AuthInv, SessionInv, NEW c \in Clients, Reply(c) \/ Drop(c)
    PROVE  Own(c)'
<1> USE Domains
<1>1. HandlerKnows(c) /\ Own(c)
  BY DEF SessionInv, AuthInv, Handlers
<1>2. /\ op'[c] = "none" /\ stage'[c] = "idle" /\ new'[c] = NoToken
  BY DEF Reply, Drop, Close
<1>3. /\ pc'[c] = "idle" /\ out'[c] = NoToken
      /\ tok'[c] = tok[c] \/ tok'[c] = NoToken
      /\ delivered \subseteq delivered'
  BY <1>1 DEF Reply, Drop, Abort, Forget, tokenVars, HandlerKnows, InCall, Answers, Errors
<1> QED BY <1>1, <1>2, <1>3
        DEF Own, Serves, CallIsFor, HasAccount, Kept, Sweeps, Works, Ends

-----------------------------------------------------------------------------
(***************************************************************************)
(* The invariant, and what follows from it.                                *)
(***************************************************************************)
\* A row that was not there comes of an INSERT.
LEMMA NewByInsert ==
    ASSUME AuthInv, [AuthNext]_vars, NEW t \in Stored', t \notin Stored
    PROVE  \E c \in Clients : InsertToken(c, t)
<1>1. [TokenNext]_tokenVars
  BY Drives
<1>2. \A c \in Clients : RotateRevoke(c) \/ RevokeAll(c) => Stored' = Stored
  BY DEF RotateRevoke, RevokeAll, Stored
<1>3. \/ Stored' = Stored
      \/ \E c \in Clients, x \in Tokens : InsertToken(c, x)
  BY <1>1, <1>2
     DEF TokenNext, Call, CallCreate, CallRotate, CallRevokeAll, Begin, Statement,
         SelectUnknown, SelectRefused, SelectValid, PrepareToken, Return, Abort, Forget,
         Tick, tokenVars, Stored
<1>4. \A c \in Clients, x \in Tokens : InsertToken(c, x) => Stored' = Stored \cup {x}
  BY DEF InsertToken, Stored
<1> QED BY <1>3, <1>4

LEMMA AccountsStay == AuthInv /\ SessionInv /\ [AuthNext]_vars => TokensHaveAccounts'
<1> SUFFICES ASSUME AuthInv, SessionInv, [AuthNext]_vars, NEW t \in Stored'
             PROVE  account'[table'[t].user].status # "none"
  BY DEF TokensHaveAccounts, Stored
<1>1. TablesKeep
  BY StepKeepsTables
<1>2. CASE t \in Stored
  <2>1. table[t].user \in Users /\ account[table[t].user].status # "none"
    BY <1>2 DEF SessionInv, TokensHaveAccounts, AuthInv, TokenInv, TokenTypeOK, Row
  <2> QED BY <1>1, <1>2, <2>1 DEF TablesKeep
<1>3. CASE t \notin Stored
  <2>1. PICK c \in Clients : InsertToken(c, t)
    BY <1>3, NewByInsert
  <2>2. usr[c] \in Users /\ account[usr[c]].status # "none"
    BY <2>1 DEF InsertToken, SessionInv, Own, HasAccount, AuthInv, TokenInv, Requests, RequestKnows
  <2>3. table'[t].user = usr[c]
    BY <2>1 DEF InsertToken, NewRow
  <2> QED BY <1>1, <2>2, <2>3 DEF TablesKeep
<1> QED BY <1>2, <1>3

LEMMA SessionStep == AuthInv /\ SessionInv /\ [AuthNext]_vars => SessionInv'
<1> SUFFICES ASSUME AuthInv, SessionInv, [AuthNext]_vars, NEW d \in Clients PROVE Own(d)'
  BY AccountsStay DEF SessionInv
<1>1. ASSUME NEW c \in Clients, ClientStep(c) PROVE Own(d)'
  <2>1. CASE c = d
    BY <1>1, <2>1, RequestOwn, UserOwn, StatementOwn, ReturnOwn, EndOwn DEF ClientStep, Progress
  <2>2. CASE c # d
    BY <1>1, <2>2, OthersOwn
  <2> QED BY <2>1, <2>2
<1>2. ASSUME AuthTick \/ UNCHANGED vars PROVE Own(d)'
  <2>1. Own(d) /\ UNCHANGED <<table, pc, tok, usr, out, authVars>>
    BY <1>2 DEF SessionInv, AuthTick, Tick, call, vars, tokenVars
  <2> QED BY <2>1
          DEF Own, Serves, CallIsFor, HasAccount, Kept, Sweeps, Works, authVars, request, history,
              Stored, Revoked
<1> QED BY <1>1, <1>2 DEF AuthNext, ClientStep

LEMMA SessionInit == AuthInit => SessionInv
BY DEF AuthInit, TokenInit, SessionInv, TokensHaveAccounts, Own, Serves, CallIsFor, HasAccount,
       Kept, Sweeps, Works, Ends, Stored

LEMMA SessionInvariance == AuthSpec => []SessionInv
BY AuthInvariance, SessionInit, SessionStep, PTL DEF AuthSpec

\* A request for an account that had been deactivated, or with a refresh token that had been
\* revoked, is not answered with a session, whatever runs between its look-ups
\* (auth.rs:80-82, 114-122, token.rs:153-156).
THEOREM BarredGetNoSession == AuthSpec => []BarredGetsNoSession
<1>1. AuthInv /\ SessionInv => BarredGetsNoSession
  BY DEF SessionInv, Own, Kept, Sessions, BarredGetsNoSession
<1> QED BY <1>1, AuthInvariance, SessionInvariance, PTL

\* When logout, change_password or deactivate has answered ok, or a refresh that the token
\* is invalid, what was stored for the user when the request arrived is revoked
\* (routes/users.rs:73-78, 104-105, token.rs:153-156).
THEOREM SweepsAreComplete == AuthSpec => []SweepIsComplete
<1>1. SessionInv => SweepIsComplete
  BY DEF SessionInv, Own, Sweeps, Ends, SweepIsComplete
<1> QED BY <1>1, SessionInvariance, PTL

\* The refresh token of an answer works, unless a sweep of its user came in between
\* (auth.rs:206-227, token.rs:164-172).
THEOREM AnswersWork == AuthSpec => []AnswerCarriesLiveToken
<1>1. AuthInv /\ SessionInv => AnswerCarriesLiveToken
  <2> SUFFICES ASSUME AuthInv, SessionInv, NEW c \in Clients,
                      stage[c] = "ok", op[c] \in Sessions, ~swept[c]
               PROVE  Live(new[c])
    BY DEF AnswerCarriesLiveToken
  <2>1. new[c] # NoToken
    BY DEF AuthInv, Handlers, HandlerKnows
  <2>2. new[c] \in Stored /\ ~Revoked(new[c])
    BY <2>1 DEF AuthInv, HeldAreFresh, Held, SessionInv, Own, Works
  <2> QED BY <2>2 DEF Live, Revoked
<1> QED BY <1>1, AuthInvariance, SessionInvariance, PTL

-----------------------------------------------------------------------------
(***************************************************************************)
(* Signed out everywhere, and so it stays.                                 *)
(***************************************************************************)
\* The two ways to come by a call that will store a token: a rotation finds its token live,
\* and a request opens a session.
LEMMA SignedOutHandler ==
    ASSUME AuthInv, SessionInv, NEW u \in Users, SignedOut(u), NEW c \in Clients, ClientStep(c),
           ~(stage[c] = "idle" /\ op'[c] \in Opening /\ who'[c] = u)
    PROVE  /\ usr'[c] = u => pc'[c] \notin {"revoke", "create", "insert"}
           /\ who'[c] = u => op'[c] \notin Opening
<1> USE Domains, TokenConstants
<1>1. /\ usr[c] = u => pc[c] \notin {"revoke", "create", "insert"}
      /\ who[c] = u => op[c] \notin Opening
      /\ \A t \in Stored : table[t].user = u => table[t].revoked
  BY DEF SignedOut, TokensOf, Live
<1>2. HandlerKnows(c) /\ Serves(c)
  BY DEF SessionInv, Own, AuthInv, Handlers
<1>3. CASE Request(c)
  <2>1. stage[c] = "idle" /\ pc[c] = "idle"
    BY <1>2, <1>3 DEF Request, Register, Login, ChangePassword, Deactivate, AskUser, Logout,
         Refresh, Arrive, HandlerKnows, InCall
  <2>2. pc'[c] \in {"idle", "select", "revoke_all"}
    BY <1>3, <2>1 DEF Request, Register, Login, ChangePassword, Deactivate, AskUser, Logout,
         Refresh, CallRevokeAll, CallRotate, Begin, tokenVars
  <2> QED BY <2>1, <2>2
<1>4. CASE CreateUser(c) \/ LoginVerified(c)
  <2>1. op[c] \in Opening
    BY <1>2, <1>4 DEF CreateUser, LoginVerified, Serves, Opening
  <2>2. who[c] # u /\ who'[c] = who[c]
    BY <1>1, <1>4, <2>1 DEF CreateUser, LoginVerified
  <2>3. pc'[c] = "idle" \/ usr'[c] = who[c]
    BY <1>2, <1>4 DEF CreateUser, LoginVerified, CallCreate, Begin, Goto, tokenVars,
         HandlerKnows, InCall
  <2> QED BY <2>2, <2>3
<1>5. CASE \/ FindUser(c) \/ WrongPassword(c) \/ ChangeVerified(c) \/ RefreshMint(c)
           \/ UpdatePassword(c) \/ SetInactive(c)
  <2>1. op'[c] = op[c] /\ who'[c] = who[c]
    BY <1>5 DEF FindUser, WrongPassword, ChangeVerified, RefreshMint, UpdatePassword, SetInactive
  <2>2. pc'[c] \in {"idle", "revoke_all"}
    BY <1>2, <1>5 DEF FindUser, WrongPassword, ChangeVerified, RefreshMint, UpdatePassword,
         SetInactive, CallRevokeAll, Begin, tokenVars, HandlerKnows, InCall
  <2> QED BY <1>1, <2>1, <2>2
<1>6. CASE TokenStatement(c)
  <2>1. op'[c] = op[c] /\ who'[c] = who[c] /\ Statement(c)
    BY <1>6 DEF TokenStatement
  <2>2. CASE SelectValid(c)
    BY <1>1, <2>1, <2>2 DEF SelectValid, Refused, AuthInv, TokenInv, TokenTypeOK
  <2>3. CASE SelectUnknown(c) \/ SelectRefused(c) \/ RevokeAll(c)
    BY <1>1, <2>1, <2>3 DEF SelectUnknown, SelectRefused, RevokeAll
  <2>4. CASE RotateRevoke(c) \/ PrepareToken(c) \/ \E t \in Tokens : InsertToken(c, t)
    <3>1. usr'[c] = usr[c] /\ pc[c] \in {"revoke", "create", "insert"}
      BY <2>4 DEF RotateRevoke, PrepareToken, InsertToken
    <3> QED BY <1>1, <2>1, <3>1
  <2> QED BY <2>1, <2>2, <2>3, <2>4 DEF Statement
<1>7. CASE TokensIssued(c) \/ RotateRefused(c) \/ RotateDone(c) \/ RevokeDone(c)
  <2>1. pc'[c] = "idle" /\ op'[c] = op[c]
    BY <1>7 DEF TokensIssued, RotateRefused, RotateDone, RevokeDone, Return, Forget
  <2>2. who'[c] = who[c] \/ op[c] = "refresh"
    BY <1>2, <1>7 DEF TokensIssued, RotateRefused, RotateDone, RevokeDone, HandlerKnows
  <2> QED BY <1>1, <2>1, <2>2 DEF Opening
<1>8. CASE Reply(c) \/ Drop(c)
  <2>1. op'[c] = "none" /\ pc'[c] = "idle"
    BY <1>2, <1>8 DEF Reply, Drop, Close, Abort, Forget, tokenVars, HandlerKnows, InCall,
                      Answers, Errors
  <2> QED BY <2>1 DEF Opening
<1> QED BY <1>3, <1>4, <1>5, <1>6, <1>7, <1>8 DEF ClientStep, Progress

\* Once a user is signed out everywhere, and none of his requests is past the point where a
\* refresh token is due, only a login or a registration of his opens a session again
\* (token.rs:146-172, 228-246; auth.rs:114-122).
THEOREM SignedOutForGood == AuthSpec => SignedOutStays
<1>1. AuthInv /\ SessionInv /\ [AuthNext]_vars => [SignedOutStep]_vars
  <2> SUFFICES ASSUME AuthInv, SessionInv, AuthNext, NEW u \in Users, SignedOut(u),
                      \A c \in Clients : ~(stage[c] = "idle" /\ op'[c] \in Opening /\ who'[c] = u)
               PROVE  SignedOut(u)'
    BY DEF SignedOutStep
  <2>1. \A t \in TokensOf(u)' : ~Live(t)'
    <3> SUFFICES ASSUME NEW t \in Stored', table'[t].user = u PROVE Revoked(t)'
      BY DEF TokensOf, Live, Revoked
    <3>1. CASE t \in Stored
      BY <3>1, StepKeepsTables DEF TablesKeep, SignedOut, TokensOf, Live, Revoked
    <3>2. CASE t \notin Stored
      <4>1. PICK c \in Clients : InsertToken(c, t)
        BY <3>2, NewByInsert
      <4>2. pc[c] = "insert" /\ table'[t].user = usr[c]
        BY <4>1 DEF InsertToken, NewRow
      <4> QED BY <4>2 DEF SignedOut
    <3> QED BY <3>1, <3>2
  <2>2. ASSUME NEW c \in Clients
        PROVE  /\ usr'[c] = u => pc'[c] \notin {"revoke", "create", "insert"}
               /\ who'[c] = u => op'[c] \notin Opening
    <3>1. CASE ClientStep(c)
      BY <3>1, SignedOutHandler
    <3>2. ASSUME NEW d \in Clients, ClientStep(d), d # c PROVE SameHandler(c)
      BY <3>2, StepIsLocal
    <3>3. ASSUME AuthTick PROVE SameHandler(c)
      BY <3>3 DEF AuthTick, Tick, call, authVars, request, SameHandler
    <3>4. ASSUME SameHandler(c)
          PROVE  /\ usr'[c] = u => pc'[c] \notin {"revoke", "create", "insert"}
                 /\ who'[c] = u => op'[c] \notin Opening
      BY <3>4 DEF SameHandler, SignedOut
    <3> QED BY <3>1, <3>2, <3>3, <3>4 DEF AuthNext, ClientStep
  <2> QED BY <2>1, <2>2 DEF SignedOut
<1> QED BY <1>1, AuthInvariance, SessionInvariance, PTL DEF AuthSpec, SignedOutStays

-----------------------------------------------------------------------------
(***************************************************************************)
(* The accounts.  That a statement of services/user.rs never undoes what   *)
(* the registry promises is not a matter of the statement alone: UPDATE    *)
(* sets whatever it is given, on the account it is given.  It needs that   *)
(* whoever asks for it holds an access token of an account that was made,  *)
(* and that every account was made with a password.                        *)
(***************************************************************************)
Equipped(c) ==
    /\ stage[c] = "create_user" => given[c] \in Passwords
    /\ op[c] \in Ends /\ stage[c] \in {"find_credential", "update"}
          => account[who[c]].status # "none"
    /\ op[c] = "change_password" => fresh[c] \in Passwords

\* Every account has a password, and none is without.
AllSecured == \A u \in Users : account[u].status # "none" <=> account[u].pwd # NoPassword

BearersExist == \A a \in access : account[a.user].status # "none"

RegistryInv ==
    /\ AllSecured
    /\ BearersExist
    /\ \A c \in Clients : Equipped(c)

LEMMA RegistryInvInit == AuthInit => RegistryInv
BY DEF AuthInit, RegistryInv, AllSecured, BearersExist, NoAccount, Equipped, Ends

\* An answer with a session is for an account that exists: the refresh token it carries is.
LEMMA AnswerHasAccount ==
    ASSUME AuthInv, SessionInv, NEW c \in Clients, stage[c] = "ok", op[c] \in Sessions
    PROVE  account[who[c]].status # "none"
<1>1. new[c] # NoToken
  BY DEF AuthInv, Handlers, HandlerKnows
<1>2. new[c] \in Stored /\ table[new[c]].user = who[c]
  BY <1>1 DEF AuthInv, HeldAreFresh, Held, SessionInv, Own, Works
<1> QED BY <1>2 DEF SessionInv, TokensHaveAccounts

\* What a step does to the accounts.
AccountStep ==
    \/ UNCHANGED account
    \/ \E c \in Clients :
          \/ CreateUser(c) /\ account[who[c]].status = "none"
          \/ UpdatePassword(c)
          \/ SetInactive(c)

LEMMA StepOfAccounts == [AuthNext]_vars => AccountStep
<1> SUFFICES ASSUME [AuthNext]_vars PROVE AccountStep
  OBVIOUS
<1>1. ASSUME NEW c \in Clients, Request(c) \/ Reply(c) \/ Drop(c) PROVE AccountStep
  BY <1>1 DEF AccountStep, Request, Register, Login, ChangePassword, Deactivate, AskUser,
              Logout, Refresh, Reply, Drop, Close
<1>2. ASSUME NEW c \in Clients, Progress(c) PROVE AccountStep
  BY <1>2 DEF AccountStep, Progress, CreateUser, FindUser, WrongPassword, LoginVerified,
              ChangeVerified, RefreshMint, TokenStatement, TokensIssued, RotateRefused,
              RotateDone, RevokeDone
<1> QED BY <1>1, <1>2 DEF AuthNext, AuthTick, authVars, vars, AccountStep

LEMMA RegistryInvStep == AuthInv /\ SessionInv /\ RegistryInv /\ [AuthNext]_vars => RegistryInv'
<1> SUFFICES ASSUME AuthInv, SessionInv, RegistryInv, [AuthNext]_vars PROVE RegistryInv'
  OBVIOUS
<1> USE Domains
<1>1. TablesKeep /\ AccountStep
  BY StepKeepsTables, StepOfAccounts
<1>2. /\ account \in [Users -> [status : {"none", "active", "inactive"},
                               pwd    : Passwords \cup {NoPassword}]]
      /\ given = [d \in Clients |-> given[d]] /\ fresh = [d \in Clients |-> fresh[d]]
      /\ \A a \in access : a.user \in Users
      /\ \A c \in Clients : HandlerKnows(c) /\ Serves(c) /\ Equipped(c)
      /\ NoPassword \notin Passwords
  BY AuthConstants DEF AuthInv, AuthTypeOK, Handlers, SessionInv, Own, RegistryInv
<1>3. AllSecured'
  <2>1. ASSUME NEW c \in Clients, CreateUser(c), account[who[c]].status = "none"
        PROVE  AllSecured'
    <3>1. who[c] \in Users /\ given[c] \in Passwords
      BY <1>2, <2>1 DEF CreateUser, HandlerKnows, Equipped
    <3>2. account' = [account EXCEPT ![who[c]] = [status |-> "active", pwd |-> given[c]]]
      BY <2>1 DEF CreateUser
    <3> QED BY <1>2, <3>1, <3>2 DEF RegistryInv, AllSecured
  <2>2. ASSUME NEW c \in Clients, UpdatePassword(c) PROVE AllSecured'
    <3>1. who[c] \in Users /\ fresh[c] \in Passwords /\ account[who[c]].status # "none"
      BY <1>2, <2>2 DEF UpdatePassword, HandlerKnows, Equipped, Ends
    <3>2. account' = [account EXCEPT ![who[c]].pwd = fresh[c]]
      BY <2>2 DEF UpdatePassword
    <3> QED BY <1>2, <3>1, <3>2 DEF RegistryInv, AllSecured
  <2>3. ASSUME NEW c \in Clients, SetInactive(c) PROVE AllSecured'
    <3>1. who[c] \in Users /\ account[who[c]].status # "none"
      BY <1>2, <2>3 DEF SetInactive, HandlerKnows, Equipped, Ends
    <3>2. account' = [account EXCEPT ![who[c]].status = "inactive"]
      BY <2>3 DEF SetInactive
    <3> QED BY <1>2, <3>1, <3>2 DEF RegistryInv, AllSecured
  <2>4. CASE UNCHANGED account
    BY <2>4 DEF RegistryInv, AllSecured
  <2> QED BY <1>1, <2>1, <2>2, <2>3, <2>4 DEF AccountStep
<1>4. BearersExist'
  <2>1. CASE access' = access
    BY <1>1, <1>2, <2>1 DEF RegistryInv, BearersExist, TablesKeep
  <2>2. ASSUME NEW c \in Clients, Reply(c) PROVE BearersExist'
    <3>1. stage[c] = "ok" /\ op[c] \in Sessions
             => who[c] \in Users /\ account[who[c]].status # "none"
      BY <1>2, AnswerHasAccount DEF HandlerKnows
    <3>2. \A a \in access' : \/ a \in access
                             \/ stage[c] = "ok" /\ op[c] \in Sessions /\ a.user = who[c]
      BY <2>2 DEF Reply
    <3> QED BY <1>1, <1>2, <3>1, <3>2 DEF RegistryInv, BearersExist, TablesKeep
  <2>3. ASSUME NEW c \in Clients, Request(c) PROVE access' = access
    BY <2>3 DEF Request, Register, Login, ChangePassword, Deactivate, AskUser, Logout, Refresh
  <2>4. ASSUME NEW c \in Clients, Progress(c) \/ Drop(c) PROVE access' = access
    BY <2>4 DEF Progress, CreateUser, FindUser, WrongPassword, LoginVerified, ChangeVerified,
         RefreshMint, UpdatePassword, SetInactive, TokenStatement, TokensIssued, RotateRefused,
         RotateDone, RevokeDone, Drop
  <2>5. ASSUME AuthTick \/ UNCHANGED vars PROVE access' = access
    BY <2>5 DEF AuthTick, authVars, vars
  <2> QED BY <2>1, <2>2, <2>3, <2>4, <2>5 DEF AuthNext
<1>5. ASSUME NEW d \in Clients PROVE Equipped(d)'
  <2>1. Equipped(d) /\ HandlerKnows(d) /\ Serves(d)
    BY <1>2
  <2>2. ASSUME /\ op'[d] = op[d] /\ stage'[d] = stage[d] /\ who'[d] = who[d]
               /\ given'[d] = given[d] /\ fresh'[d] = fresh[d]
        PROVE  Equipped(d)'
    BY <1>1, <2>1, <2>2 DEF Equipped, HandlerKnows, TablesKeep
  <2>3. ASSUME Request(d) PROVE Equipped(d)'
    <3>1. \A u \in Users : AuthUser(u) => account[u].status # "none"
      BY DEF RegistryInv, BearersExist, AuthUser
    <3>2. account' = account
      BY <2>3 DEF Request, Register, Login, ChangePassword, Deactivate, AskUser, Logout, Refresh
    <3> QED BY <1>2, <2>3, <3>1, <3>2
            DEF Request, Register, Login, ChangePassword, Deactivate, AskUser, Arrive, Logout,
                Refresh, Equipped, Ends
  <2>4. ASSUME Progress(d) PROVE Equipped(d)'
    <3>1. op'[d] = op[d] /\ given'[d] = given[d] /\ fresh'[d] = fresh[d]
      BY <2>4 DEF Progress, CreateUser, FindUser, WrongPassword, LoginVerified, ChangeVerified,
                  RefreshMint, UpdatePassword, SetInactive, TokenStatement, TokensIssued,
                  RotateRefused, RotateDone, RevokeDone
    <3>2. CASE ChangeVerified(d)
      BY <1>2, <2>1, <3>1, <3>2 DEF ChangeVerified, Equipped, Goto, Ends
    <3>3. CASE FindUser(d)
      <4>1. op[d] \in {"login", "refresh"} /\ stage'[d] # "create_user"
        BY <1>2, <2>1, <3>3 DEF FindUser, Serves, Goto
      <4> QED BY <2>1, <3>1, <4>1 DEF Equipped, Ends
    <3>4. CASE TokenStatement(d)
      BY <2>2, <3>1, <3>4 DEF TokenStatement
    <3>5. CASE RotateDone(d)
      <4>1. op[d] = "refresh" /\ stage'[d] = "find_user"
        BY <1>2, <2>1, <3>5 DEF RotateDone, HandlerKnows, Goto
      <4> QED BY <2>1, <3>1, <4>1 DEF Equipped, Ends
    <3>6. CASE \/ CreateUser(d) \/ WrongPassword(d) \/ LoginVerified(d) \/ RefreshMint(d)
               \/ UpdatePassword(d) \/ SetInactive(d)
               \/ TokensIssued(d) \/ RotateRefused(d) \/ RevokeDone(d)
      <4>1. stage'[d] \in {"tokens", "conflict", "invalid", "ok", "revoke"}
        BY <1>2, <3>6 DEF CreateUser, WrongPassword, LoginVerified, RefreshMint, UpdatePassword,
             SetInactive, TokensIssued, RotateRefused, RevokeDone, Goto
      <4> QED BY <2>1, <3>1, <4>1 DEF Equipped
    <3> QED BY <2>4, <3>2, <3>3, <3>4, <3>5, <3>6 DEF Progress
  <2>5. ASSUME Reply(d) \/ Drop(d) PROVE Equipped(d)'
    <3>1. op'[d] = "none" /\ stage'[d] = "idle"
      BY <2>5 DEF Reply, Drop, Close
    <3> QED BY <3>1 DEF Equipped, Ends
  <2>6. ASSUME NEW c \in Clients, ClientStep(c), c # d PROVE Equipped(d)'
    <3>1. SameHandler(d)
      BY <2>6, StepIsLocal
    <3>2. given'[d] = given[d] /\ fresh'[d] = fresh[d]
      BY <1>2, <2>6
         DEF ClientStep, Request, Register, Login, ChangePassword, Deactivate, AskUser, Logout,
             Refresh, Progress, CreateUser, FindUser, WrongPassword, LoginVerified, ChangeVerified,
             RefreshMint, UpdatePassword, SetInactive, TokenStatement, TokensIssued, RotateRefused,
             RotateDone, RevokeDone, Reply, Drop, Close
    <3> QED BY <2>2, <3>1, <3>2 DEF SameHandler
  <2>7. ASSUME AuthTick \/ UNCHANGED vars PROVE Equipped(d)'
    BY <2>2, <2>7 DEF AuthTick, authVars, request, vars
  <2> QED BY <2>3, <2>4, <2>5, <2>6, <2>7 DEF AuthNext, ClientStep
<1> QED BY <1>3, <1>4, <1>5 DEF RegistryInv

LEMMA RegistryInvariance == AuthSpec => []RegistryInv
BY AuthInvariance, SessionInvariance, RegistryInvInit, RegistryInvStep, PTL DEF AuthSpec

LEMMA RegistryStepMaps ==
    AuthInv /\ RegistryInv /\ [AuthNext]_vars
        => [Registry!RegistryNext]_(Registry!registry)
<1> DEFINE status  == [u \in Users |-> account[u].status]
           secured == {u \in Users : account[u].pwd # NoPassword}
<1> SUFFICES ASSUME AuthInv, RegistryInv, [AuthNext]_vars
             PROVE  \/ status' = status /\ secured' = secured
                    \/ \E u \in Users :
                          \/ /\ status[u] = "none"
                             /\ status' = [status EXCEPT ![u] = "active"]
                             /\ secured' = secured \cup {u}
                          \/ /\ status[u] # "none"
                             /\ status' = [status EXCEPT ![u] = "inactive"]
                             /\ secured' = secured
  BY DEF Registry!RegistryNext, Registry!Enrol, Registry!Import, Registry!Retire,
         Registry!Make, Registry!registry
<1>1. AccountStep
  BY StepOfAccounts
<1>2. /\ account \in [Users -> [status : {"none", "active", "inactive"},
                               pwd    : Passwords \cup {NoPassword}]]
      /\ \A c \in Clients : HandlerKnows(c) /\ Equipped(c)
      /\ \A u \in Users : account[u].status # "none" <=> account[u].pwd # NoPassword
      /\ NoPassword \notin Passwords
  BY AuthConstants DEF AuthInv, AuthTypeOK, Handlers, RegistryInv, AllSecured
<1>3. ASSUME NEW c \in Clients, CreateUser(c), account[who[c]].status = "none"
      PROVE  /\ who[c] \in Users /\ status[who[c]] = "none"
             /\ status' = [status EXCEPT ![who[c]] = "active"]
             /\ secured' = secured \cup {who[c]}
  <2>1. who[c] \in Users /\ given[c] \in Passwords
    BY <1>2, <1>3 DEF CreateUser, HandlerKnows, Equipped
  <2>2. account' = [account EXCEPT ![who[c]] = [status |-> "active", pwd |-> given[c]]]
    BY <1>3 DEF CreateUser
  <2> QED BY <1>2, <1>3, <2>1, <2>2
<1>4. ASSUME NEW c \in Clients, UpdatePassword(c)
      PROVE  status' = status /\ secured' = secured
  <2>1. who[c] \in Users /\ fresh[c] \in Passwords /\ account[who[c]].pwd # NoPassword
    BY <1>2, <1>4 DEF UpdatePassword, HandlerKnows, Equipped, Ends
  <2>2. account' = [account EXCEPT ![who[c]].pwd = fresh[c]]
    BY <1>4 DEF UpdatePassword
  <2> QED BY <1>2, <2>1, <2>2
<1>5. ASSUME NEW c \in Clients, SetInactive(c)
      PROVE  /\ who[c] \in Users /\ status[who[c]] # "none"
             /\ status' = [status EXCEPT ![who[c]] = "inactive"]
             /\ secured' = secured
  <2>1. who[c] \in Users /\ account[who[c]].status # "none"
    BY <1>2, <1>5 DEF SetInactive, HandlerKnows, Equipped, Ends
  <2>2. account' = [account EXCEPT ![who[c]].status = "inactive"]
    BY <1>5 DEF SetInactive
  <2> QED BY <1>2, <2>1, <2>2
<1>6. CASE UNCHANGED account
  BY <1>6
<1> HIDE DEF status, secured
<1> QED BY <1>1, <1>3, <1>4, <1>5, <1>6 DEF AccountStep

\* Under the handlers the tables of the accounts keep what AccountRegistry promises: no
\* account is made anew, activated again or loses its password
\* (user.rs:104-156, 209-245, 397-406).
THEOREM SessionsKeepRegistry == AuthSpec => HandlersKeepRegistry
<1>1. AuthInit => Registry!RegistryInit
  BY DEF AuthInit, NoAccount, Registry!RegistryInit
<1> QED BY <1>1, RegistryStepMaps, AuthInvariance, RegistryInvariance, PTL
        DEF AuthSpec, HandlersKeepRegistry, Registry!RegistrySpec
=============================================================================
