---------------------------- MODULE TokenService ----------------------------
(***************************************************************************)
(* Refresh tokens: services/token.rs over the table refresh_tokens.        *)
(*                                                                         *)
(* Every method is a chain of single SQL statements with no transaction    *)
(* around them, so each statement is an action: it does what the statement *)
(* does to the table and the local code up to the next await.  Any number  *)
(* of requests may be between two statements at once.  `pc[c]' is the      *)
(* statement that client c's running request awaits:                       *)
(*                                                                         *)
(*   create_refresh_token     create -> insert -> done                     *)
(*   rotate_refresh_token     select -> done               (unknown)       *)
(*                            select -> revoke_all -> done (refused)       *)
(*                            select -> revoke -> create -> insert -> done *)
(*   revoke_all_user_tokens   revoke_all -> done                           *)
(*                                                                         *)
(* A request may stop for good before any of its statements: an error of   *)
(* the database or of the pool is returned with `?', and a handler whose   *)
(* client hung up, or whose server is shut down, is dropped at an await.   *)
(*                                                                         *)
(* A client sends one request at a time; concurrent use of one token is    *)
(* two clients that hold the same token.                                   *)
(***************************************************************************)
EXTENDS Integers

CONSTANTS
    Tokens,      \* refresh tokens that can ever be generated (256-bit random)
    Users,       \* accounts
    Clients,     \* request slots: at most one request of each is under way
    RefreshTtl,  \* config.refresh_token_expiry_secs
    MaxTime,     \* bound on the clock
    NoToken,     \* no token; also any string that no row was stored for
    NoUser       \* no account

ASSUME TokenConstants ==
    /\ RefreshTtl \in Nat
    /\ MaxTime \in Nat
    /\ NoToken \notin Tokens
    /\ NoUser \notin Users

VARIABLES
    table,  \* refresh_tokens: token -> row
    now,    \* OffsetDateTime::now_utc()
    pc,     \* the statement a request awaits
    tok,    \* rotate: the raw token presented
    usr,    \* the user_id of the call, or of the row that rotate read
    exp,    \* expires_at, computed before the INSERT is sent
    out     \* the token the call returns; NoToken when it returns none

call == <<pc, tok, usr, exp, out>>
tokenVars == <<table, now, pc, tok, usr, exp, out>>

\* The clock is bounded by MaxTime, so expiry times are as well.
Expiries == 0 .. MaxTime + RefreshTtl

\* parent (the token this one replaced) and client (whose request stored it)
\* are not columns: they record where a row comes from.
Row == [ user    : Users,
         expires : Expiries,
         revoked : BOOLEAN,
         parent  : Tokens \cup {NoToken},
         client  : Clients ]

Stored == DOMAIN table

Live(t) == t \in Stored /\ ~table[t].revoked

TokenInit ==
    /\ table = [t \in {} |-> NoToken]
    /\ now = 0
    /\ pc  = [c \in Clients |-> "idle"]
    /\ tok = [c \in Clients |-> NoToken]
    /\ usr = [c \in Clients |-> NoUser]
    /\ exp = [c \in Clients |-> 0]
    /\ out = [c \in Clients |-> NoToken]

-----------------------------------------------------------------------------
(***************************************************************************)
(* The three calls.                                                        *)
(***************************************************************************)
Begin(c, stmt, t, u) ==
    /\ pc[c] = "idle"
    /\ pc'  = [pc  EXCEPT ![c] = stmt]
    /\ tok' = [tok EXCEPT ![c] = t]
    /\ usr' = [usr EXCEPT ![c] = u]
    /\ UNCHANGED <<table, now, exp, out>>

CallCreate(c, u)    == Begin(c, "create", NoToken, u)
CallRotate(c, t)    == Begin(c, "select", t, NoUser)
CallRevokeAll(c, u) == Begin(c, "revoke_all", NoToken, u)

(***************************************************************************)
(* rotate_refresh_token.  The row is read once; the checks and the         *)
(* argon2 verification (of the token the row was looked up with, so it     *)
(* succeeds) look at that copy and not at the table.                       *)
(***************************************************************************)
\* Mutant of Refused: forgets that a revoked token must be refused.
RefusedIfExpired(row) == row.expires < now

Refused(row) == row.revoked \/ row.expires < now

SelectUnknown(c) ==
    /\ pc[c] = "select"
    /\ tok[c] \notin Stored
    /\ pc' = [pc EXCEPT ![c] = "done"]
    /\ UNCHANGED <<table, now, tok, usr, exp, out>>

\* Mutant of SelectRefused: refuses, and leaves the user's other tokens alone.
SelectRefusedOnly(c) ==
    /\ pc[c] = "select"
    /\ tok[c] \in Stored
    /\ Refused(table[tok[c]])
    /\ pc' = [pc EXCEPT ![c] = "done"]
    /\ UNCHANGED <<table, now, tok, usr, exp, out>>

SelectRefused(c) ==
    /\ pc[c] = "select"
    /\ tok[c] \in Stored
    /\ Refused(table[tok[c]])
    /\ usr' = [usr EXCEPT ![c] = table[tok[c]].user]
    /\ pc'  = [pc  EXCEPT ![c] = "revoke_all"]
    /\ UNCHANGED <<table, now, tok, exp, out>>

\* Mutant of SelectValid: loses the user_id of the row it has read.
SelectLosesUser(c) ==
    /\ pc[c] = "select"
    /\ tok[c] \in Stored
    /\ ~Refused(table[tok[c]])
    /\ pc' = [pc EXCEPT ![c] = "revoke"]
    /\ UNCHANGED <<table, now, tok, usr, exp, out>>

SelectValid(c) ==
    /\ pc[c] = "select"
    /\ tok[c] \in Stored
    /\ ~Refused(table[tok[c]])
    /\ usr' = [usr EXCEPT ![c] = table[tok[c]].user]
    /\ pc'  = [pc  EXCEPT ![c] = "revoke"]
    /\ UNCHANGED <<table, now, tok, exp, out>>

\* Mutant of RotateRevoke: WHERE user_id = $1 in place of WHERE id = $1.
RotateRevokesUser(c) ==
    /\ pc[c] = "revoke"
    /\ table' = [t \in Stored |->
                    [table[t] EXCEPT !.revoked = @ \/ table[t].user = usr[c]]]
    /\ pc' = [pc EXCEPT ![c] = "create"]
    /\ UNCHANGED <<now, tok, usr, exp, out>>

\* UPDATE ... SET revoked = TRUE WHERE id = $1, whatever the flag is by now
RotateRevoke(c) ==
    /\ pc[c] = "revoke"
    /\ table' = [table EXCEPT ![tok[c]].revoked = TRUE]
    /\ pc'    = [pc EXCEPT ![c] = "create"]
    /\ UNCHANGED <<now, tok, usr, exp, out>>

(***************************************************************************)
(* create_refresh_token: the expiry is fixed before the INSERT is sent.    *)
(***************************************************************************)
PrepareToken(c) ==
    /\ pc[c] = "create"
    /\ exp' = [exp EXCEPT ![c] = now + RefreshTtl]
    /\ pc'  = [pc  EXCEPT ![c] = "insert"]
    /\ UNCHANGED <<table, now, tok, usr, out>>

NewRow(c) == [ user    |-> usr[c],
               expires |-> exp[c],
               revoked |-> FALSE,
               parent  |-> tok[c],
               client  |-> c ]

InsertToken(c, t) ==
    /\ pc[c] = "insert"
    /\ t \notin Stored
    /\ table' = [x \in Stored \cup {t} |-> IF x = t THEN NewRow(c) ELSE table[x]]
    /\ out' = [out EXCEPT ![c] = t]
    /\ pc'  = [pc  EXCEPT ![c] = "done"]
    /\ UNCHANGED <<now, tok, usr, exp>>

(***************************************************************************)
(* revoke_all_user_tokens, on its own or after a refused rotation.         *)
(***************************************************************************)
\* Mutant of RevokeAll: the UPDATE has lost its WHERE user_id = $1.
RevokeEverybody(c) ==
    /\ pc[c] = "revoke_all"
    /\ table' = [t \in Stored |-> [table[t] EXCEPT !.revoked = TRUE]]
    /\ pc' = [pc EXCEPT ![c] = "done"]
    /\ UNCHANGED <<now, tok, usr, exp, out>>

RevokeAll(c) ==
    /\ pc[c] = "revoke_all"
    /\ table' = [t \in Stored |->
                    [table[t] EXCEPT !.revoked = @ \/ table[t].user = usr[c]]]
    /\ pc' = [pc EXCEPT ![c] = "done"]
    /\ UNCHANGED <<now, tok, usr, exp, out>>

(***************************************************************************)
(* The end of a call: its answer, or an abort before any statement.        *)
(***************************************************************************)
Forget(c) ==
    /\ pc'  = [pc  EXCEPT ![c] = "idle"]
    /\ tok' = [tok EXCEPT ![c] = NoToken]
    /\ usr' = [usr EXCEPT ![c] = NoUser]
    /\ exp' = [exp EXCEPT ![c] = 0]
    /\ out' = [out EXCEPT ![c] = NoToken]
    /\ UNCHANGED <<table, now>>

Return(c) == pc[c] = "done" /\ Forget(c)

Abort(c) == pc[c] \notin {"idle", "done"} /\ Forget(c)

Tick ==
    /\ now < MaxTime
    /\ now' = now + 1
    /\ UNCHANGED <<table, call>>

-----------------------------------------------------------------------------
Call(c) ==
    \/ \E u \in Users : CallCreate(c, u) \/ CallRevokeAll(c, u)
    \/ \E t \in Stored \cup {NoToken} : CallRotate(c, t)

Statement(c) ==
    \/ SelectUnknown(c)
    \/ SelectRefused(c)
    \/ SelectValid(c)
    \/ RotateRevoke(c)
    \/ PrepareToken(c)
    \/ \E t \in Tokens : InsertToken(c, t)
    \/ RevokeAll(c)

TokenNext ==
    \/ \E c \in Clients : Call(c) \/ Statement(c) \/ Return(c) \/ Abort(c)
    \/ Tick

TokenSpec == TokenInit /\ [][TokenNext]_tokenVars

-----------------------------------------------------------------------------
Statements == {"select", "revoke", "create", "insert", "revoke_all"}

\* Type correctness of every variable.
TokenTypeOK ==
    /\ Stored \subseteq Tokens
    /\ table \in [Stored -> Row]
    /\ now \in 0 .. MaxTime
    /\ pc  \in [Clients -> Statements \cup {"idle", "done"}]
    /\ tok \in [Clients -> Tokens \cup {NoToken}]
    /\ usr \in [Clients -> Users \cup {NoUser}]
    /\ exp \in [Clients -> Expiries]
    /\ out \in [Clients -> Tokens \cup {NoToken}]

\* The rotations of t that have passed the checks of rotate_refresh_token and
\* have not answered: they will store a successor of t unless they abort.
Holders(t) ==
    {c \in Clients : pc[c] \in {"revoke", "create", "insert"} /\ tok[c] = t}

IsSuccessor(n, t) == n \in Stored /\ table[n].parent = t

\* A successor exists only of a token that is stored, revoked and of the same
\* user: a session is never prolonged while its previous token still works, and
\* never moves to another account (token.rs:164-172).
SuccessorOfRevoked ==
    \A n \in Stored : table[n].parent # NoToken =>
        /\ table[n].parent \in Stored
        /\ table[table[n].parent].revoked
        /\ table[table[n].parent].user = table[n].user

\* A client that waits for each answer before its next request gets at most one
\* successor for a token, also when its requests are aborted half-way and sent
\* again: two successors of one token always are of two requests that overlapped
\* (token.rs:153-169).
OneSuccessorPerClient ==
    \A m, n \in Stored :
        /\ table[m].parent # NoToken
        /\ table[m].parent = table[n].parent
        /\ table[m].client = table[n].client
        => m = n

\* Rotation never shortens a session: the successor lasts at least as long as the
\* token it replaces, although its expiry is computed before the INSERT and other
\* requests run in between (token.rs:107-108).
RotationExtends ==
    \A n \in Stored : table[n].parent # NoToken =>
        table[table[n].parent].expires <= table[n].expires

\* Once a token is revoked, by whatever request, no further rotation of it passes
\* the checks: the requests that can still store a successor of it are those that
\* had passed them before, and their number only falls (token.rs:153-156).
RevokedStep ==
    \A t \in Stored : table[t].revoked =>
        /\ table'[t].revoked
        /\ Holders(t)' \subseteq Holders(t)

RevokedIsFinal == [][RevokedStep]_tokenVars

\* The table keeps the promises of TokenLedger (rows only added, revocation only
\* one way, successors only of revoked rows, revocation per row or per user).
Ledger == INSTANCE TokenLedger WITH
    ledger <- [t \in Stored |-> [ user    |-> table[t].user,
                                  expires |-> table[t].expires,
                                  revoked |-> table[t].revoked,
                                  parent  |-> table[t].parent ]]

LedgerSpec == Ledger!LedgerSpec

\* What rotate_refresh_token's description promises (token.rs:127-128: "then
\* immediately rotate it (old token revoked, new one issued)"; tests/routes/auth.rs
\* refresh_token_single_use_enforced): a token buys at most one successor.
SingleUse ==
    \A m, n \in Stored :
        /\ table[m].parent # NoToken
        /\ table[m].parent = table[n].parent
        => m = n
=============================================================================
