------------------------- MODULE AuthServiceProofs -------------------------
(***************************************************************************)
(* Proofs about AuthService, for every number of tokens, users, clients    *)
(* and passwords and every lifetime.                                       *)
(*                                                                         *)
(* The handlers implement TokenSpec, so every theorem about TokenService   *)
(* holds of the whole.  What this rests on is AuthInv: where a handler is, *)
(* its call of the token service is where the handler expects it, and the  *)
(* user and the token it is about to use are real.                         *)
(***************************************************************************)
EXTENDS AuthService, TokenServiceProofs

InCall == {"tokens", "rotate", "revoke"}

\* What a handler knows at each of its awaits.
HandlerKnows(c) ==
    /\ stage[c] \in InCall <=> pc[c] # "idle"
    /\ stage[c] = "tokens" => /\ pc[c] \in {"create", "insert", "done"}
                              /\ pc[c] = "done" => out[c] # NoToken
    /\ stage[c] = "revoke" => pc[c] \in {"revoke_all", "done"} /\ op[c] \notin Sessions
    /\ out[c] # NoToken => pc[c] = "done" /\ stage[c] \in {"tokens", "rotate"}
    /\ stage[c] \in {"create_user", "find_user", "find_credential", "update", "tokens"}
          => who[c] \in Users
    /\ stage[c] = "rotate" =>
          /\ op[c] = "refresh"
          /\ pc[c] \in {"revoke", "create", "insert"} \/ out[c] # NoToken => usr[c] \in Users
    /\ stage[c] = "ok" /\ op[c] \in Sessions => who[c] \in Users /\ new[c] # NoToken
    /\ stage[c] \in {"find_user", "find_credential"} =>
          (op[c] = "refresh" <=> new[c] # NoToken)
    /\ stage[c] \in InCall \cup {"idle", "create_user", "update"} => new[c] = NoToken

\* The refresh tokens in the hands of a handler.
Held(c) == {out[c], new[c]} \ {NoToken}

\* Each is stored, nobody else's, and not given out yet.
HeldAreFresh ==
    /\ \A c \in Clients : Held(c) \subseteq Stored /\ Held(c) \cap delivered = {}
    /\ \A c, d \in Clients : c # d => Held(c) \cap Held(d) = {}

Handlers == \A c \in Clients : HandlerKnows(c)

AuthInv ==
    /\ TokenInv
    /\ AuthTypeOK
    /\ Handlers
    /\ HeldAreFresh

\* A step of client c's handler.
ClientStep(c) == Request(c) \/ Progress(c) \/ Reply(c) \/ Drop(c)

-----------------------------------------------------------------------------
(***************************************************************************)
(* The handlers drive the token service through its methods.               *)
(***************************************************************************)
LEMMA RequestDrives ==
    ASSUME AuthInv, NEW c \in Clients, Request(c)
    PROVE  [TokenNext]_tokenVars
<1>1. ASSUME NEW u \in Users, Logout(c, u) PROVE TokenNext
  <2>1. CallRevokeAll(c, u)
    BY <1>1 DEF Logout
  <2> QED BY <2>1 DEF TokenNext, Call, CallRevokeAll
<1>2. ASSUME NEW t \in delivered \cup {NoToken}, Refresh(c, t) PROVE TokenNext
  <2>1. t \in Stored \cup {NoToken} /\ CallRotate(c, t)
    BY <1>2 DEF AuthInv, AuthTypeOK, Refresh
  <2> QED BY <2>1 DEF TokenNext, Call, CallRotate
<1>3. ASSUME NEW o, NEW s, NEW u, NEW p, AskUser(c, o, s, u, p)
      PROVE  UNCHANGED tokenVars
  BY <1>3 DEF AskUser
<1>4. ASSUME NEW u \in Users, NEW p \in Passwords,
             \/ Register(c, u, p)
             \/ Login(c, u, p)
             \/ \E q \in Passwords : ChangePassword(c, u, p, q)
      PROVE  UNCHANGED tokenVars
  BY <1>4 DEF Register, Login, ChangePassword, AskUser
<1>5. ASSUME NEW u \in Users, Deactivate(c, u) PROVE UNCHANGED tokenVars
  BY <1>5 DEF Deactivate, AskUser
<1> QED BY <1>1, <1>2, <1>4, <1>5 DEF Request

LEMMA ProgressDrives ==
    ASSUME AuthInv, NEW c \in Clients, Progress(c)
    PROVE  [TokenNext]_tokenVars
<1>1. stage[c] \in {"create_user", "find_credential", "update"} => who[c] \in Users
  BY DEF AuthInv, Handlers, HandlerKnows
<1>2. ASSUME CreateUser(c) PROVE [TokenNext]_tokenVars
  <2>1. UNCHANGED tokenVars \/ CallCreate(c, who[c])
    BY <1>2 DEF CreateUser
  <2> QED BY <1>1, <1>2, <2>1 DEF CreateUser, TokenNext, Call, CallCreate
<1>3. ASSUME FindUser(c) \/ WrongPassword(c) \/ ChangeVerified(c) \/ RefreshMint(c)
      PROVE  UNCHANGED tokenVars
  BY <1>3 DEF FindUser, WrongPassword, ChangeVerified, RefreshMint
<1>4. ASSUME LoginVerified(c) PROVE TokenNext
  BY <1>1, <1>4 DEF LoginVerified, TokenNext, Call, CallCreate
<1>5. ASSUME UpdatePassword(c) \/ SetInactive(c) PROVE TokenNext
  <2>1. CallRevokeAll(c, who[c]) /\ who[c] \in Users
    BY <1>1, <1>5 DEF UpdatePassword, SetInactive
  <2> QED BY <2>1 DEF TokenNext, Call, CallRevokeAll
<1>6. ASSUME TokenStatement(c) PROVE TokenNext
  <2>1. Statement(c)
    BY <1>6 DEF TokenStatement
  <2> QED BY <2>1 DEF TokenNext
<1>7. ASSUME TokensIssued(c) \/ RotateRefused(c) \/ RotateDone(c) \/ RevokeDone(c)
      PROVE  TokenNext
  <2>1. Return(c)
    BY <1>7 DEF TokensIssued, RotateRefused, RotateDone, RevokeDone
  <2> QED BY <2>1 DEF TokenNext
<1> QED BY <1>2, <1>3, <1>4, <1>5, <1>6, <1>7 DEF Progress

LEMMA Drives == AuthInv /\ [AuthNext]_vars => [TokenNext]_tokenVars
<1> SUFFICES ASSUME AuthInv, [AuthNext]_vars PROVE [TokenNext]_tokenVars
  OBVIOUS
<1>1. ASSUME NEW c \in Clients, Reply(c) PROVE UNCHANGED tokenVars
  BY <1>1 DEF Reply
<1>2. ASSUME NEW c \in Clients, Drop(c) PROVE [TokenNext]_tokenVars
  <2>1. UNCHANGED tokenVars \/ Abort(c)
    BY <1>2 DEF Drop
  <2> QED BY <2>1 DEF TokenNext
<1>3. ASSUME AuthTick PROVE TokenNext
  BY <1>3 DEF AuthTick, TokenNext
<1>4. ASSUME UNCHANGED vars PROVE UNCHANGED tokenVars
  BY <1>4 DEF vars
<1> QED BY <1>1, <1>2, <1>3, <1>4, RequestDrives, ProgressDrives DEF AuthNext

-----------------------------------------------------------------------------
(***************************************************************************)
(* A client's step leaves the handlers of the others where they are.       *)
(***************************************************************************)
SameHandler(d) ==
    /\ pc'[d] = pc[d] /\ tok'[d] = tok[d] /\ usr'[d] = usr[d] /\ out'[d] = out[d]
    /\ op'[d] = op[d] /\ stage'[d] = stage[d] /\ who'[d] = who[d] /\ new'[d] = new[d]

\* The functions that SameHandler speaks of have domain Clients.
LEMMA Domains ==
    ASSUME AuthInv
    PROVE  /\ pc = [c \in Clients |-> pc[c]] /\ tok = [c \in Clients |-> tok[c]]
           /\ usr = [c \in Clients |-> usr[c]] /\ out = [c \in Clients |-> out[c]]
           /\ exp = [c \in Clients |-> exp[c]]
           /\ op = [c \in Clients |-> op[c]] /\ stage = [c \in Clients |-> stage[c]]
           /\ who = [c \in Clients |-> who[c]] /\ new = [c \in Clients |-> new[c]]
BY DEF AuthInv, TokenInv, TokenTypeOK, AuthTypeOK

LEMMA RequestIsLocal ==
    ASSUME AuthInv, NEW c \in Clients, Request(c), NEW d \in Clients, d # c
    PROVE  SameHandler(d)
BY Domains
   DEF Request, Register, Login, ChangePassword, Deactivate, AskUser, Logout, Refresh,
       Arrive, CallRevokeAll, CallRotate, Begin, tokenVars, SameHandler

LEMMA StatementIsLocal ==
    ASSUME AuthInv, NEW c \in Clients, TokenStatement(c), NEW d \in Clients, d # c
    PROVE  SameHandler(d)
<1>1. pc'[d] = pc[d] /\ tok'[d] = tok[d] /\ usr'[d] = usr[d] /\ out'[d] = out[d]
  BY Domains
     DEF TokenStatement, Statement, SelectUnknown, SelectRefused, SelectValid, RotateRevoke,
         PrepareToken, InsertToken, RevokeAll
<1> QED BY <1>1 DEF TokenStatement, SameHandler

LEMMA ProgressIsLocal ==
    ASSUME AuthInv, NEW c \in Clients, Progress(c), NEW d \in Clients, d # c
    PROVE  SameHandler(d)
<1>1. CASE CreateUser(c) \/ FindUser(c) \/ WrongPassword(c) \/ LoginVerified(c)
           \/ ChangeVerified(c) \/ RefreshMint(c) \/ UpdatePassword(c) \/ SetInactive(c)
  BY <1>1, Domains
     DEF CreateUser, FindUser, WrongPassword, LoginVerified, ChangeVerified, RefreshMint,
         UpdatePassword, SetInactive, Goto, CallCreate, CallRevokeAll, Begin, tokenVars,
         SameHandler
<1>2. CASE TokensIssued(c) \/ RotateRefused(c) \/ RotateDone(c) \/ RevokeDone(c)
  BY <1>2, Domains
     DEF TokensIssued, RotateRefused, RotateDone, RevokeDone, Return, Forget, Goto, SameHandler
<1> QED BY <1>1, <1>2, StatementIsLocal DEF Progress

LEMMA EndIsLocal ==
    ASSUME AuthInv, NEW c \in Clients, Reply(c) \/ Drop(c), NEW d \in Clients, d # c
    PROVE  SameHandler(d)
BY Domains DEF Reply, Drop, Close, Abort, Forget, tokenVars, SameHandler

LEMMA StepIsLocal ==
    ASSUME AuthInv, NEW c \in Clients, ClientStep(c), NEW d \in Clients, d # c
    PROVE  SameHandler(d)
BY RequestIsLocal, ProgressIsLocal, EndIsLocal DEF ClientStep

LEMMA OthersStillKnow ==
    ASSUME NEW d \in Clients, HandlerKnows(d), SameHandler(d)
    PROVE  HandlerKnows(d)'
BY DEF HandlerKnows, SameHandler, InCall

-----------------------------------------------------------------------------
(***************************************************************************)
(* A client's step leaves its own handler where the invariant wants it.    *)
(***************************************************************************)
LEMMA RequestKnowsOwn ==
    ASSUME AuthInv, NEW c \in Clients, Request(c)
    PROVE  HandlerKnows(c)'
<1> USE Domains DEF HandlerKnows, InCall
<1>1. /\ HandlerKnows(c)
      /\ pc[c] \in Statements \cup {"idle", "done"}
      /\ NoToken \notin Tokens
  BY TokenConstants DEF AuthInv, Handlers, TokenInv, TokenTypeOK
<1>2. ASSUME NEW o, NEW s \in {"create_user", "find_user", "find_credential", "update"},
             NEW u \in Users, NEW p, AskUser(c, o, s, u, p), o # "refresh"
      PROVE  HandlerKnows(c)'
  BY <1>1, <1>2 DEF AskUser, Arrive, tokenVars
<1>3. ASSUME NEW u \in Users, Logout(c, u) PROVE HandlerKnows(c)'
  BY <1>1, <1>3 DEF Logout, Arrive, CallRevokeAll, Begin, Sessions
<1>4. ASSUME NEW t, Refresh(c, t) PROVE HandlerKnows(c)'
  BY <1>1, <1>4 DEF Refresh, Arrive, CallRotate, Begin
<1> QED BY <1>2, <1>3, <1>4 DEF Request, Register, Login, ChangePassword, Deactivate

\* A statement of a call takes pc to a statement of the same call.
LEMMA StatementKnowsOwn ==
    ASSUME AuthInv, NEW c \in Clients, TokenStatement(c)
    PROVE  HandlerKnows(c)'
<1> USE Domains DEF HandlerKnows, InCall
<1>1. HandlerKnows(c) /\ RequestKnows(c) /\ NoToken \notin Tokens
  BY TokenConstants DEF AuthInv, Handlers, TokenInv, Requests
<1>2. /\ op'[c] = op[c] /\ stage'[c] = stage[c] /\ who'[c] = who[c] /\ new'[c] = new[c]
      /\ Statement(c)
  BY DEF TokenStatement
<1>3. CASE SelectUnknown(c)
  BY <1>1, <1>2, <1>3 DEF SelectUnknown
<1>4. CASE SelectRefused(c)
  BY <1>1, <1>2, <1>4 DEF SelectRefused
<1>5. CASE SelectValid(c)
  <2>1. table[tok[c]].user \in Users
    BY <1>5 DEF SelectValid, AuthInv, TokenInv, TokenTypeOK, Row
  <2> QED BY <1>1, <1>2, <1>5, <2>1 DEF SelectValid
<1>6. CASE RotateRevoke(c)
  BY <1>1, <1>2, <1>6 DEF RotateRevoke
<1>7. CASE PrepareToken(c)
  BY <1>1, <1>2, <1>7 DEF PrepareToken
<1>8. CASE \E t \in Tokens : InsertToken(c, t)
  BY <1>1, <1>2, <1>8 DEF InsertToken
<1>9. CASE RevokeAll(c)
  BY <1>1, <1>2, <1>9 DEF RevokeAll
<1> QED BY <1>2, <1>3, <1>4, <1>5, <1>6, <1>7, <1>8, <1>9 DEF Statement

LEMMA ProgressKnowsOwn ==
    ASSUME AuthInv, NEW c \in Clients, Progress(c)
    PROVE  HandlerKnows(c)'
<1> USE Domains DEF HandlerKnows, InCall
<1>1. HandlerKnows(c) /\ NoToken \notin Tokens
  BY TokenConstants DEF AuthInv, Handlers
<1>2. CASE CreateUser(c)
  BY <1>1, <1>2 DEF CreateUser, CallCreate, Begin, Goto, tokenVars
<1>3. CASE FindUser(c) \/ WrongPassword(c) \/ ChangeVerified(c) \/ RefreshMint(c)
  BY <1>1, <1>3 DEF FindUser, WrongPassword, ChangeVerified, RefreshMint, Goto, tokenVars
<1>4. CASE LoginVerified(c)
  BY <1>1, <1>4 DEF LoginVerified, CallCreate, Begin, Goto
<1>5. CASE UpdatePassword(c) \/ SetInactive(c)
  BY <1>1, <1>5 DEF UpdatePassword, SetInactive, CallRevokeAll, Begin, Goto, Sessions
<1>6. CASE TokensIssued(c) \/ RevokeDone(c)
  BY <1>1, <1>6 DEF TokensIssued, RevokeDone, Return, Forget, Goto
<1>7. CASE RotateRefused(c) \/ RotateDone(c)
  BY <1>1, <1>7 DEF RotateRefused, RotateDone, Return, Forget, Goto
<1> QED BY <1>2, <1>3, <1>4, <1>5, <1>6, <1>7, StatementKnowsOwn DEF Progress

LEMMA EndKnowsOwn ==
    ASSUME AuthInv, NEW c \in Clients, Reply(c) \/ Drop(c)
    PROVE  HandlerKnows(c)'
<1>1. HandlerKnows(c)
  BY DEF AuthInv, Handlers
<1>2. pc'[c] = "idle" /\ out'[c] = NoToken
  BY <1>1, Domains
     DEF Reply, Drop, Abort, Forget, tokenVars, HandlerKnows, InCall, Answers, Errors
<1> QED BY <1>2, Domains DEF Reply, Drop, Close, HandlerKnows, InCall

LEMMA HandlersStep == AuthInv /\ [AuthNext]_vars => Handlers'
<1> SUFFICES ASSUME AuthInv, [AuthNext]_vars, NEW d \in Clients PROVE HandlerKnows(d)'
  BY DEF Handlers
<1>1. HandlerKnows(d)
  BY DEF AuthInv, Handlers
<1>2. ASSUME NEW c \in Clients, ClientStep(c) PROVE HandlerKnows(d)'
  <2>1. CASE c = d
    BY <1>2, <2>1, RequestKnowsOwn, ProgressKnowsOwn, EndKnowsOwn DEF ClientStep
  <2>2. CASE c # d
    BY <1>1, <1>2, <2>2, StepIsLocal, OthersStillKnow
  <2> QED BY <2>1, <2>2
<1>3. ASSUME AuthTick \/ UNCHANGED vars PROVE HandlerKnows(d)'
  BY <1>1, <1>3, OthersStillKnow
     DEF AuthTick, Tick, call, authVars, request, vars, tokenVars, SameHandler
<1> QED BY <1>2, <1>3 DEF AuthNext, ClientStep

-----------------------------------------------------------------------------
(***************************************************************************)
(* The tokens in the hands of handlers and of clients.                     *)
(***************************************************************************)
\* Rows are only added.
LEMMA StoredGrows == TokenInv /\ [TokenNext]_tokenVars => Stored \subseteq Stored'
<1> SUFFICES ASSUME TokenInv, [TokenNext]_tokenVars PROVE Stored \subseteq Stored'
  OBVIOUS
<1>1. ASSUME table' = table PROVE Stored \subseteq Stored'
  BY <1>1 DEF Stored
<1>2. ASSUME NEW c \in Clients, RotateRevoke(c) \/ RevokeAll(c) PROVE Stored \subseteq Stored'
  BY <1>2 DEF RotateRevoke, RevokeAll, Stored
<1>3. ASSUME NEW c \in Clients, NEW t \in Tokens, InsertToken(c, t)
      PROVE  Stored \subseteq Stored'
  BY <1>3 DEF InsertToken, Stored
<1> QED
  BY <1>1, <1>2, <1>3
     DEF TokenNext, Call, CallCreate, CallRotate, CallRevokeAll, Begin, Statement,
         SelectUnknown, SelectRefused, SelectValid, PrepareToken, Return, Abort, Forget,
         Tick, tokenVars

\* Only an INSERT puts a token into the hands of a handler, and it is a new one.
LEMMA HeldStep ==
    ASSUME AuthInv, NEW c \in Clients, ClientStep(c)
    PROVE  \/ Held(c)' \subseteq Held(c)
           \/ \E t \in Tokens : t \notin Stored /\ t \in Stored' /\ Held(c)' \subseteq {t}
<1> USE Domains DEF Held
<1>1. HandlerKnows(c)
  BY DEF AuthInv, Handlers
<1>2. CASE Request(c)
  <2>1. out'[c] = out[c] /\ new'[c] = new[c]
    BY <1>2 DEF Request, Register, Login, ChangePassword, Deactivate, AskUser, Logout,
                Refresh, CallRevokeAll, CallRotate, Begin, tokenVars
  <2> QED BY <2>1
<1>3. CASE CreateUser(c) \/ FindUser(c) \/ WrongPassword(c) \/ LoginVerified(c)
           \/ ChangeVerified(c) \/ RefreshMint(c) \/ UpdatePassword(c) \/ SetInactive(c)
  <2>1. out'[c] = out[c] /\ new'[c] = new[c]
    BY <1>3 DEF CreateUser, FindUser, WrongPassword, LoginVerified, ChangeVerified,
                RefreshMint, UpdatePassword, SetInactive, CallCreate, CallRevokeAll, Begin,
                tokenVars
  <2> QED BY <2>1
<1>4. CASE TokenStatement(c)
  <2>1. new'[c] = new[c] /\ new[c] = NoToken
    BY <1>1, <1>4 DEF TokenStatement, HandlerKnows, InCall, Statement, SelectUnknown,
                      SelectRefused, SelectValid, RotateRevoke, PrepareToken, InsertToken,
                      RevokeAll
  <2>2. ASSUME NEW t \in Tokens, InsertToken(c, t)
        PROVE  t \notin Stored /\ t \in Stored' /\ Held(c)' \subseteq {t}
    BY <2>1, <2>2 DEF InsertToken, Stored
  <2>3. ASSUME \/ SelectUnknown(c) \/ SelectRefused(c) \/ SelectValid(c)
               \/ RotateRevoke(c) \/ PrepareToken(c) \/ RevokeAll(c)
        PROVE  Held(c)' \subseteq Held(c)
    BY <2>1, <2>3 DEF SelectUnknown, SelectRefused, SelectValid, RotateRevoke, PrepareToken,
                      RevokeAll
  <2> QED BY <1>4, <2>2, <2>3 DEF TokenStatement, Statement
<1>5. CASE TokensIssued(c) \/ RotateRefused(c) \/ RotateDone(c) \/ RevokeDone(c)
  BY <1>5 DEF TokensIssued, RotateRefused, RotateDone, RevokeDone, Return, Forget
<1>6. CASE Reply(c) \/ Drop(c)
  BY <1>6 DEF Reply, Drop, Close, Abort, Forget, tokenVars
<1> QED BY <1>2, <1>3, <1>4, <1>5, <1>6 DEF ClientStep, Progress

\* Only an answer hands a token to a client, and the handler keeps none.
LEMMA DeliveredStep ==
    ASSUME AuthInv, NEW c \in Clients, ClientStep(c)
    PROVE  \/ delivered' = delivered
           \/ delivered' \subseteq delivered \cup Held(c) /\ Held(c)' = {}
<1>1. ASSUME ~Reply(c) PROVE delivered' = delivered
  BY <1>1 DEF ClientStep, Request, Register, Login, ChangePassword, Deactivate, AskUser,
              Logout, Refresh, Progress, CreateUser, FindUser, WrongPassword, LoginVerified,
              ChangeVerified, RefreshMint, UpdatePassword, SetInactive, TokenStatement,
              TokensIssued, RotateRefused, RotateDone, RevokeDone, Drop
<1>2. ASSUME Reply(c) PROVE \/ delivered' = delivered
                            \/ delivered' \subseteq delivered \cup Held(c) /\ Held(c)' = {}
  <2>1. HandlerKnows(c)
    BY DEF AuthInv, Handlers
  <2>2. new'[c] = NoToken /\ out'[c] = out[c]
    BY <1>2, Domains DEF Reply, Close, tokenVars
  <2>3. out[c] = NoToken
    BY <1>2, <2>1 DEF Reply, HandlerKnows, Answers, Errors
  <2>4. delivered' = delivered
        \/ (stage[c] = "ok" /\ op[c] \in Sessions /\ delivered' = delivered \cup {new[c]})
    BY <1>2 DEF Reply
  <2>5. stage[c] = "ok" /\ op[c] \in Sessions => new[c] # NoToken
    BY <2>1 DEF HandlerKnows
  <2> QED BY <2>2, <2>3, <2>4, <2>5 DEF Held
<1> QED BY <1>1, <1>2

LEMMA HeldStaysFresh == AuthInv /\ [AuthNext]_vars => HeldAreFresh'
<1> SUFFICES ASSUME AuthInv, [AuthNext]_vars PROVE HeldAreFresh'
  OBVIOUS
<1>1. Stored \subseteq Stored'
  BY Drives, StoredGrows DEF AuthInv
<1>2. HeldAreFresh /\ delivered \subseteq Stored
  BY DEF AuthInv, AuthTypeOK
<1>3. ASSUME NEW c \in Clients, ClientStep(c) PROVE HeldAreFresh'
  <2>1. \A d \in Clients : d # c => Held(d)' = Held(d)
    BY <1>3, StepIsLocal DEF SameHandler, Held
  <2>2. \A d \in Clients : Held(d) \subseteq Stored
    BY <1>2 DEF HeldAreFresh
  <2> QED BY <1>1, <1>2, <1>3, <2>1, <2>2, HeldStep, DeliveredStep DEF HeldAreFresh
<1>4. ASSUME AuthTick \/ UNCHANGED vars PROVE HeldAreFresh'
  <2>1. /\ out' = out /\ new' = new /\ delivered' = delivered
    BY <1>4 DEF AuthTick, Tick, call, authVars, request, vars, tokenVars
  <2> QED BY <1>1, <1>2, <2>1 DEF HeldAreFresh, Held
<1> QED BY <1>3, <1>4 DEF AuthNext, ClientStep

-----------------------------------------------------------------------------
(***************************************************************************)
(* Types.                                                                  *)
(***************************************************************************)
LEMMA RequestTypes ==
    ASSUME AuthInv, NEW c \in Clients, Request(c), Stored \subseteq Stored'
    PROVE  AuthTypeOK'
<1>1. AuthTypeOK
  BY DEF AuthInv
<1>2. \A u : TokensOf(u) \in SUBSET Stored
  BY DEF TokensOf
<1>3. PICK o \in Operations, s \in Awaits : Arrive(c, o, s)
  BY DEF Request, Register, Login, ChangePassword, Deactivate, Logout, Refresh, AskUser,
         Operations, Awaits
<1>4. op' \in [Clients -> Operations \cup {"none"}]
  BY <1>1, <1>3 DEF AuthTypeOK, Arrive
<1>5. stage' \in [Clients -> Awaits \cup Answers \cup {"idle"}]
  BY <1>1, <1>3 DEF AuthTypeOK, Arrive
<1>6. /\ who' \in [Clients -> Users \cup {NoUser}]
      /\ given' \in [Clients -> Passwords \cup {NoPassword}]
      /\ fresh' \in [Clients -> Passwords \cup {NoPassword}]
  <2>1. CASE \E u \in Users, p \in Passwords : Register(c, u, p) \/ Login(c, u, p)
    BY <1>1, <2>1 DEF AuthTypeOK, Register, Login, AskUser
  <2>2. CASE \E u \in Users, p, q \in Passwords : ChangePassword(c, u, p, q)
    BY <1>1, <2>2 DEF AuthTypeOK, ChangePassword, AskUser
  <2>3. CASE \E u \in Users : Logout(c, u) \/ Deactivate(c, u)
    BY <1>1, <2>3 DEF AuthTypeOK, Logout, Deactivate, AskUser
  <2>4. CASE \E t : Refresh(c, t)
    BY <1>1, <2>4 DEF AuthTypeOK, Refresh
  <2> QED BY <2>1, <2>2, <2>3, <2>4 DEF Request
<1>7. UNCHANGED <<account, new, mint, access, delivered>>
  BY DEF Request, Register, Login, ChangePassword, Deactivate, Logout, Refresh, AskUser
<1>8. \E u, b : b \in BOOLEAN /\ Note(c, u, b)
  <2>1. \A u : (account[u].status = "inactive") \in BOOLEAN
    OBVIOUS
  <2>2. CASE \E u \in Users : \E p, p2, o2, s2 : AskUser(c, o2, s2, u, p)
    BY <2>1, <2>2 DEF AskUser
  <2>3. CASE \E u \in Users : Logout(c, u)
    BY <2>3 DEF Logout
  <2>4. CASE \E t : Refresh(c, t)
    <3>1. PICK t : Refresh(c, t)
      BY <2>4
    <3> DEFINE b == t \in Stored /\ (table[t].revoked
                             \/ account[table[t].user].status = "inactive")
    <3>2. Note(c, Owner(t), b)
      BY <3>1 DEF Refresh
    <3>3. b \in BOOLEAN
      OBVIOUS
    <3> HIDE DEF b
    <3> QED BY <3>2, <3>3
  <2> QED BY <2>2, <2>3, <2>4 DEF Request, Register, Login, ChangePassword, Deactivate
<1>9. /\ seen' \in [Clients -> SUBSET Stored]
      /\ barred' \in [Clients -> BOOLEAN]
      /\ swept' \in [Clients -> BOOLEAN]
  BY <1>1, <1>2, <1>8 DEF AuthTypeOK, Note
<1> QED BY <1>1, <1>4, <1>5, <1>6, <1>7, <1>9 DEF AuthTypeOK

LEMMA ProgressTypes ==
    ASSUME AuthInv, NEW c \in Clients, Progress(c), Stored \subseteq Stored'
    PROVE  AuthTypeOK'
<1> USE DEF AuthInv, AuthTypeOK
<1>1. HandlerKnows(c) /\ NoToken \notin Tokens
  BY TokenConstants DEF Handlers
<1>2. now + AccessTtl \in 0 .. MaxTime + AccessTtl
  BY TokenConstants, AuthConstants DEF TokenInv, TokenTypeOK
<1>3. CASE CreateUser(c) \/ FindUser(c) \/ WrongPassword(c) \/ LoginVerified(c)
           \/ ChangeVerified(c) \/ UpdatePassword(c) \/ SetInactive(c)
  <2>1. stage[c] \in {"create_user", "update"} => who[c] \in Users
    BY <1>1 DEF HandlerKnows
  <2>2. account' \in [Users -> [status : {"none", "active", "inactive"},
                               pwd    : Passwords \cup {NoPassword}]]
    BY <1>3, <2>1 DEF CreateUser, FindUser, WrongPassword, LoginVerified, ChangeVerified,
                      UpdatePassword, SetInactive
  <2>3. stage' \in [Clients -> Awaits \cup Answers \cup {"idle"}]
    BY <1>3 DEF CreateUser, FindUser, WrongPassword, LoginVerified, ChangeVerified,
                UpdatePassword, SetInactive, Goto, Awaits, Answers, Errors
  <2>4. UNCHANGED <<op, who, given, fresh, new, mint, access, delivered, history>>
    BY <1>3 DEF CreateUser, FindUser, WrongPassword, LoginVerified, ChangeVerified,
                UpdatePassword, SetInactive
  <2> QED BY <2>2, <2>3, <2>4 DEF history
<1>4. CASE RefreshMint(c)
  BY <1>2, <1>4 DEF RefreshMint, Goto, Awaits, Answers, history
<1>5. CASE TokenStatement(c)
  <2>1. mint' \in [Clients -> 0 .. MaxTime + AccessTtl]
    BY <1>2, <1>5 DEF TokenStatement
  <2>2. swept' \in [Clients -> BOOLEAN]
    BY <1>5 DEF TokenStatement
  <2>3. UNCHANGED <<account, op, stage, who, given, fresh, new, access, delivered,
                    seen, barred>>
    BY <1>5 DEF TokenStatement
  <2> QED BY <2>1, <2>2, <2>3
<1>6. CASE TokensIssued(c) \/ RotateRefused(c) \/ RotateDone(c) \/ RevokeDone(c)
  <2>1. out[c] \in Tokens \cup {NoToken}
    BY DEF TokenInv, TokenTypeOK
  <2>2. RotateDone(c) => usr[c] \in Users
    BY <1>1 DEF RotateDone, HandlerKnows
  <2> QED BY <1>6, <2>1, <2>2 DEF TokensIssued, RotateRefused, RotateDone, RevokeDone, Goto,
                                  Awaits, Answers, Errors, history
<1> QED BY <1>3, <1>4, <1>5, <1>6 DEF Progress

LEMMA EndTypes ==
    ASSUME AuthInv, NEW c \in Clients, Reply(c) \/ Drop(c), Stored \subseteq Stored'
    PROVE  AuthTypeOK'
<1> USE DEF AuthInv, AuthTypeOK
<1>1. 0 \in 0 .. MaxTime + AccessTtl
  BY TokenConstants, AuthConstants
<1>2. HandlerKnows(c)
  BY DEF Handlers
<1>3. /\ delivered' \subseteq Stored
      /\ access' \subseteq [user : Users, exp : 0 .. MaxTime + AccessTtl]
  <2>1. CASE Drop(c)
    BY <2>1 DEF Drop
  <2>2. CASE Reply(c) /\ stage[c] = "ok" /\ op[c] \in Sessions
    <3>1. who[c] \in Users /\ new[c] \in Stored
      BY <1>2, <2>2 DEF HandlerKnows, HeldAreFresh, Held
    <3>2. [user |-> who[c], exp |-> mint[c]] \in [user : Users, exp : 0 .. MaxTime + AccessTtl]
      BY <3>1
    <3> QED BY <2>2, <3>1, <3>2 DEF Reply
  <2>3. CASE Reply(c) /\ ~(stage[c] = "ok" /\ op[c] \in Sessions)
    BY <2>3 DEF Reply
  <2> QED BY <2>1, <2>2, <2>3
<1>4. Close(c)
  BY DEF Reply, Drop
<1>5. /\ account' = account
      /\ op' \in [Clients -> Operations \cup {"none"}]
      /\ stage' \in [Clients -> Awaits \cup Answers \cup {"idle"}]
  BY <1>4 DEF Close
<1>6. /\ who' \in [Clients -> Users \cup {NoUser}]
      /\ given' \in [Clients -> Passwords \cup {NoPassword}]
      /\ fresh' \in [Clients -> Passwords \cup {NoPassword}]
  BY <1>4 DEF Close
<1>7. /\ new' \in [Clients -> Tokens \cup {NoToken}]
      /\ mint' \in [Clients -> 0 .. MaxTime + AccessTtl]
  BY <1>1, <1>4 DEF Close
<1>8. /\ seen' \in [Clients -> SUBSET Stored]
      /\ barred' \in [Clients -> BOOLEAN]
      /\ swept' \in [Clients -> BOOLEAN]
  BY <1>4 DEF Close
<1> QED BY <1>3, <1>5, <1>6, <1>7, <1>8

LEMMA AuthTypeStep == AuthInv /\ [AuthNext]_vars => AuthTypeOK'
<1> SUFFICES ASSUME AuthInv, [AuthNext]_vars PROVE AuthTypeOK'
  OBVIOUS
<1>1. Stored \subseteq Stored'
  BY Drives, StoredGrows DEF AuthInv
<1>2. ASSUME AuthTick \/ UNCHANGED vars PROVE AuthTypeOK'
  <2>1. UNCHANGED authVars
    BY <1>2 DEF AuthTick, vars
  <2> QED BY <1>1, <2>1 DEF AuthInv, AuthTypeOK, authVars, request, history
<1> QED BY <1>1, <1>2, RequestTypes, ProgressTypes, EndTypes DEF AuthNext

-----------------------------------------------------------------------------
(***************************************************************************)
(* The invariant, and what follows from it.                                *)
(***************************************************************************)
LEMMA AuthInitInv == AuthInit => AuthInv
<1> SUFFICES ASSUME AuthInit PROVE AuthInv
  OBVIOUS
<1>1. TokenInv
  BY InitInv DEF AuthInit
<1>2. AuthTypeOK
  BY TokenConstants, AuthConstants DEF AuthInit, AuthTypeOK, NoAccount
<1>3. Handlers
  BY DEF AuthInit, TokenInit, Handlers, HandlerKnows, InCall
<1>4. HeldAreFresh
  BY DEF AuthInit, TokenInit, HeldAreFresh, Held
<1> QED BY <1>1, <1>2, <1>3, <1>4 DEF AuthInv

LEMMA AuthInvStep == AuthInv /\ [AuthNext]_vars => AuthInv'
BY Drives, InvStep, AuthTypeStep, HandlersStep, HeldStaysFresh DEF AuthInv

\* AuthInv holds throughout.
THEOREM AuthInvariance == AuthSpec => []AuthInv
BY AuthInitInv, AuthInvStep, PTL DEF AuthSpec

\* Every variable of the handlers keeps its type.
THEOREM AuthTypeCorrect == AuthSpec => []AuthTypeOK
<1>1. AuthInv => AuthTypeOK
  BY DEF AuthInv
<1> QED BY <1>1, AuthInvariance, PTL

\* The handlers use the token service through its methods only, so the theorems of
\* TokenServiceProofs hold of AuthSpec as well.
THEOREM HandlersImplementTokens == AuthSpec => UsesTokenService
<1>1. AuthInit => TokenInit
  BY DEF AuthInit
<1> QED BY <1>1, Drives, AuthInvariance, PTL DEF AuthSpec, UsesTokenService, TokenSpec

\* No refresh token is given out twice.
THEOREM AnswersAreFresh == AuthSpec => []AnswerIsFresh
<1>1. AuthInv => AnswerIsFresh
  BY DEF AuthInv, HeldAreFresh, Held, AnswerIsFresh
<1> QED BY <1>1, AuthInvariance, PTL

\* What TokenLedger promises of the table holds under the handlers as well: they reach
\* it through the calls of the token service only (auth.rs:114-116, 154-156, 220).
THEOREM HandlersKeepLedger == AuthSpec => LedgerSpec
BY HandlersImplementTokens, ImplementsLedger DEF UsesTokenService

\* So does what TokenService keeps to: a revoked token stays so and buys no new successor,
\* successors are of revoked tokens, one per client that waits for its answers, and last
\* no shorter (token.rs:107-108, 153-172).
THEOREM HandlersRotateSafely ==
    AuthSpec => /\ RevokedIsFinal
                /\ []SuccessorOfRevoked
                /\ []OneSuccessorPerClient
                /\ []RotationExtends
BY HandlersImplementTokens, RevocationIsFinal, SuccessorsOfRevokedOnly, SequentialSingleUse,
   RotationNeverShortens DEF UsesTokenService

-----------------------------------------------------------------------------
(***************************************************************************)
(* Every step of a handler brings it nearer to its end.                    *)
(***************************************************************************)
LEMMA StepCounts ==
    /\ StageSteps["idle"] = 0 /\ StageSteps["ok"] = 1 /\ StageSteps["invalid"] = 1
    /\ StageSteps["disabled"] = 1 /\ StageSteps["conflict"] = 1 /\ StageSteps["tokens"] = 1
    /\ StageSteps["revoke"] = 1 /\ StageSteps["update"] = 4 /\ StageSteps["create_user"] = 5
    /\ StageSteps["find_credential"] = 5 /\ StageSteps["find_user"] = 6
    /\ StageSteps["rotate"] = 6
    /\ CallSteps["idle"] = 0 /\ CallSteps["done"] = 1 /\ CallSteps["insert"] = 2
    /\ CallSteps["revoke_all"] = 2 /\ CallSteps["create"] = 3 /\ CallSteps["revoke"] = 4
    /\ CallSteps["select"] = 5
BY DEF StageSteps, CallSteps

LEMMA StepAdvances ==
    ASSUME AuthInv, NEW c \in Clients, Progress(c) \/ Reply(c) \/ Drop(c), stage[c] # "idle"
    PROVE  StepsLeft(c)' < StepsLeft(c)
<1> USE StepCounts, Domains DEF StepsLeft
<1>1. HandlerKnows(c)
  BY DEF AuthInv, Handlers
<1>2. /\ stage[c] \in Awaits \cup Answers \cup {"idle"}
      /\ pc[c] \in Statements \cup {"idle", "done"}
  BY DEF AuthInv, AuthTypeOK, TokenInv, TokenTypeOK
<1>3. CASE CreateUser(c) \/ LoginVerified(c) \/ UpdatePassword(c) \/ SetInactive(c)
  <2>1. pc[c] = "idle"
    BY <1>1, <1>3 DEF CreateUser, LoginVerified, UpdatePassword, SetInactive, HandlerKnows, InCall
  <2> QED BY <1>3, <2>1 DEF CreateUser, LoginVerified, UpdatePassword, SetInactive, Goto,
               CallCreate, CallRevokeAll, Begin, tokenVars
<1>4. CASE FindUser(c) \/ WrongPassword(c) \/ ChangeVerified(c) \/ RefreshMint(c)
  <2>1. pc[c] = "idle"
    BY <1>1, <1>4 DEF FindUser, WrongPassword, ChangeVerified, RefreshMint, HandlerKnows, InCall
  <2> QED BY <1>4, <2>1 DEF FindUser, WrongPassword, ChangeVerified, RefreshMint, Goto, tokenVars
<1>5. CASE TokenStatement(c)
  <2>1. stage'[c] = stage[c] /\ StageSteps[stage[c]] \in Nat
    BY <1>2, <1>5 DEF TokenStatement, Awaits, Answers, Errors
  <2>2. /\ CallSteps[pc'[c]] < CallSteps[pc[c]]
        /\ CallSteps[pc[c]] \in Nat /\ CallSteps[pc'[c]] \in Nat
    <3>1. \/ pc[c] = "select" /\ pc'[c] \in {"done", "revoke_all", "revoke"}
          \/ pc[c] = "revoke" /\ pc'[c] = "create"
          \/ pc[c] = "create" /\ pc'[c] = "insert"
          \/ pc[c] \in {"insert", "revoke_all"} /\ pc'[c] = "done"
      BY <1>5 DEF TokenStatement, Statement, SelectUnknown, SelectRefused, SelectValid,
                  RotateRevoke, PrepareToken, InsertToken, RevokeAll
    <3> QED BY <3>1
  <2> QED BY <2>1, <2>2
<1>6. CASE TokensIssued(c) \/ RotateRefused(c) \/ RotateDone(c) \/ RevokeDone(c)
  BY <1>6 DEF TokensIssued, RotateRefused, RotateDone, RevokeDone, Return, Forget, Goto
<1>7. CASE Reply(c) \/ Drop(c)
  <2>1. stage'[c] = "idle" /\ pc'[c] = "idle"
    BY <1>1, <1>7 DEF Reply, Drop, Close, Abort, Forget, tokenVars, HandlerKnows, InCall,
                      Answers, Errors
  <2>2. CallSteps[pc[c]] \in Nat /\ StageSteps[stage[c]] \in Nat /\ StageSteps[stage[c]] > 0
    BY <1>2 DEF Awaits, Answers, Errors, Statements
  <2> QED BY <2>1, <2>2
<1> QED BY <1>3, <1>4, <1>5, <1>6, <1>7 DEF Progress

\* No request runs for ever on its own account: a step of its handler brings it nearer to
\* its end, and no step of another touches it (auth.rs:57-160, token.rs:146-246).
THEOREM RequestsAdvance == AuthSpec => HandlersAdvance
<1>1. AuthInv /\ [AuthNext]_vars => [AdvanceStep]_vars
  <2> SUFFICES ASSUME AuthInv, AuthNext PROVE AdvanceStep
    OBVIOUS
  <2>1. ASSUME NEW c \in Clients, NEW d \in Clients \ {c}, ClientStep(c)
        PROVE  UNCHANGED <<stage[d], pc[d], who[d], new[d]>>
    BY <2>1, StepIsLocal DEF SameHandler
  <2>2. ASSUME NEW c \in Clients, ClientStep(c), stage[c] # "idle"
        PROVE  StepsLeft(c)' < StepsLeft(c)
    <3>1. ~Request(c)
      BY <2>2 DEF Request, Register, Login, ChangePassword, Deactivate, AskUser, Logout, Refresh,
                  Arrive
    <3> QED BY <2>2, <3>1, StepAdvances DEF ClientStep
  <2>3. ASSUME NEW c \in Clients, ClientStep(c), stage[c] = "idle" PROVE stage'[c] # "idle"
    <3>1. Request(c)
      <4>1. pc[c] = "idle"
        BY <2>3 DEF AuthInv, Handlers, HandlerKnows, InCall
      <4>2. ~TokenStatement(c)
        BY <4>1 DEF TokenStatement, Statement, SelectUnknown, SelectRefused, SelectValid,
                    RotateRevoke, PrepareToken, InsertToken, RevokeAll
      <4>3. ~Reply(c) /\ ~Drop(c)
        BY <2>3 DEF Reply, Drop, Answers, Errors
      <4> QED BY <2>3, <4>1, <4>2, <4>3 DEF ClientStep, Progress, CreateUser, FindUser,
               WrongPassword, LoginVerified, ChangeVerified, RefreshMint, UpdatePassword,
               SetInactive, TokensIssued, RotateRefused, RotateDone, RevokeDone, Return
    <3> QED BY <2>3, <3>1 DEF Request, Register, Login, ChangePassword, Deactivate, AskUser, Logout,
               Refresh, Arrive, Goto, AuthInv, AuthTypeOK
  <2>4. ASSUME AuthTick
        PROVE  /\ now' > now
               /\ \A d \in Clients : UNCHANGED <<stage[d], pc[d], who[d], new[d]>>
    BY <2>4 DEF AuthTick, Tick, call, authVars, request, AuthInv, TokenInv, TokenTypeOK
  <2>5. CASE \E c \in Clients : ClientStep(c)
    BY <2>1, <2>2, <2>3, <2>5 DEF AdvanceStep
  <2> QED BY <2>4, <2>5 DEF AuthNext, ClientStep, AdvanceStep
<1> QED BY <1>1, AuthInvariance, PTL DEF AuthSpec, HandlersAdvance
=============================================================================
