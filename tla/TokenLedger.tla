---------------------------- MODULE TokenLedger ----------------------------
(***************************************************************************)
(* What the table refresh_tokens promises to the rest of the program,      *)
(* whoever writes to it and in whatever order:                             *)
(*                                                                         *)
(*   - rows are only added, and nothing but the flag `revoked' changes;    *)
(*   - the flag only ever goes from FALSE to TRUE;                         *)
(*   - a session is opened with a live row, and prolonged only by a        *)
(*     successor of a row that is already revoked, of the same user, that  *)
(*     does not expire before it;                                          *)
(*   - one row is revoked at a time (rotation), or all rows of one user    *)
(*     (logout, password change, deactivation, reuse of a revoked token).  *)
(*                                                                         *)
(* TokenService.tla, which models the statements of services/token.rs one  *)
(* by one, is shown to implement this module.                              *)
(***************************************************************************)
EXTENDS Naturals

CONSTANTS
    Tokens,     \* refresh tokens that can ever be generated
    Users,      \* accounts
    Expiries,   \* the instants a token may expire at
    NoToken     \* the parent of a token issued at login or registration

VARIABLE ledger \* the stored rows: a function from a subset of Tokens

Stored == DOMAIN ledger

\* A live row of user u that expires at e, in place of the row p or of none.
LiveRow(u, e, p) == [user |-> u, expires |-> e, revoked |-> FALSE, parent |-> p]

\* The ledger with the row `row' stored for the fresh token t.
WithRow(t, row) ==
    [x \in Stored \cup {t} |-> IF x = t THEN row ELSE ledger[x]]

LedgerInit == ledger = [t \in {} |-> NoToken]

\* A new session.
Issue(t, u, e) ==
    /\ t \notin Stored
    /\ ledger' = WithRow(t, LiveRow(u, e, NoToken))

\* The next token of a running session, for the same user.
Succeed(t, p, e) ==
    /\ t \notin Stored
    /\ ledger[p].revoked
    /\ ledger[p].expires <= e
    /\ ledger' = WithRow(t, LiveRow(ledger[p].user, e, p))

Retire(t) ==
    /\ t \in Stored
    /\ ledger' = [ledger EXCEPT ![t].revoked = TRUE]

RevokeUser(u) ==
    ledger' = [t \in Stored |->
                  [ledger[t] EXCEPT !.revoked = @ \/ ledger[t].user = u]]

LedgerNext ==
    \/ \E t \in Tokens, u \in Users, e \in Expiries : Issue(t, u, e)
    \/ \E t \in Tokens, p \in Stored, e \in Expiries : Succeed(t, p, e)
    \/ \E t \in Tokens : Retire(t)
    \/ \E u \in Users  : RevokeUser(u)

LedgerSpec == LedgerInit /\ [][LedgerNext]_ledger
=============================================================================
