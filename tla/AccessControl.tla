--------------------------- MODULE AccessControl ---------------------------
(***************************************************************************)
(* Access control: the extractors of middleware.rs, which trust the role   *)
(* signed into an access token, and the administration of roles, which     *)
(* changes the one stored in the table users.                              *)
(*                                                                         *)
(*   sign_in      read -> mint     (login and refresh)                     *)
(*   update_role  update                                                   *)
(*                                                                         *)
(* Look-ups that only fill in an answer are left out, and so is what else  *)
(* a login or a refresh may be refused for (AuthService).  A token carries *)
(* the time it has left instead of its expiry.  What a request has read    *)
(* may be stale when it is used, and so may what a token says.             *)
(***************************************************************************)
EXTENDS Naturals

CONSTANTS
    Users,     \* accounts, all registered
    Nobody,    \* an id in a path that is no account's
    Root,      \* the first administrator, made one in the database
    Clients,   \* request slots
    Lifetime   \* access_token_expiry_secs, and the leeway of the validation

ASSUME AccessConstants ==
    /\ Nobody \notin Users
    /\ Root \in Users
    /\ Lifetime \in Nat \ {0}

VARIABLES
    role,     \* users.role
    tokens,   \* how long clients hold an access token with these claims: of those that
              \* say the same of a user, the one that lasts longest
    stage,    \* the statement the handler awaits, or the token it mints
    actor,    \* claims.sub; the user who signs in
    target,   \* update_role: the user in the path
    next      \* update_role: the role in the body; sign_in: the role it has read

request == <<stage, actor, target, next>>
accessVars == <<role, tokens, request>>

Roles == {"guest", "user", "admin"}

Level == [guest |-> 0, user |-> 1, admin |-> 2]

IsAtLeast(r, required) == Level[r] >= Level[required]

\* The claims that open a gate: a guest's open none.
Claims == [sub : Users, role : Roles \ {"guest"}]

\* Client c is given a token that lasts n.
Minted(c, n) ==
    [t \in Claims |-> IF t = [sub |-> actor[c], role |-> next[c]] THEN n ELSE tokens[t]]

AccessInit ==
    /\ role = [u \in Users |-> IF u = Root THEN "admin" ELSE "user"]
    /\ tokens = [t \in Claims |-> 0]
    /\ stage  = [c \in Clients |-> "idle"]
    /\ actor  = [c \in Clients |-> Nobody]
    /\ target = [c \in Clients |-> Nobody]
    /\ next   = [c \in Clients |-> "guest"]

-----------------------------------------------------------------------------
Goto(c, s) == stage' = [stage EXCEPT ![c] = s]

Arrive(c, u, s) ==
    /\ stage[c] = "idle"
    /\ Goto(c, s)
    /\ actor' = [actor EXCEPT ![c] = u]
    /\ UNCHANGED <<role, tokens>>

\* RequireUser and RequireAdmin: validate_access_token, which looks at the signature and
\* the expiry only, and require_role.
Requires(t, minimum) == tokens[t] > 0 /\ IsAtLeast(t.role, minimum)

\* A login or a refresh whose password or refresh token is good.
SignIn(c, u) ==
    /\ Arrive(c, u, "read")
    /\ UNCHANGED <<target, next>>

\* Mutant of UpdateRole: an administrator may change his own role.
UpdateAnyRole(c, t, u, r) ==
    /\ Requires(t, "admin")
    /\ Arrive(c, t.sub, "update")
    /\ target' = [target EXCEPT ![c] = u]
    /\ next'   = [next   EXCEPT ![c] = r]

\* Refused with Forbidden before anything is read: the role in the claims is too low,
\* or it is the administrator's own.
UpdateRole(c, t, u, r) ==
    /\ Requires(t, "admin")
    /\ u # t.sub
    /\ Arrive(c, t.sub, "update")
    /\ target' = [target EXCEPT ![c] = u]
    /\ next'   = [next   EXCEPT ![c] = r]

\* Mutant of ReadUser: the role is taken from a token the user holds.
ReadClaims(c) ==
    /\ stage[c] = "read"
    /\ \E t \in Claims :
          /\ t.sub = actor[c]
          /\ tokens[t] > 0 \/ t.role = role[actor[c]]
          /\ next' = [next EXCEPT ![c] = t.role]
    /\ Goto(c, "mint")
    /\ UNCHANGED <<role, tokens, actor, target>>

\* find_by_email or find_by_id.
ReadUser(c) ==
    /\ stage[c] = "read"
    /\ next' = [next EXCEPT ![c] = role[actor[c]]]
    /\ Goto(c, "mint")
    /\ UNCHANGED <<role, tokens, actor, target>>

-----------------------------------------------------------------------------
Close(c) ==
    /\ Goto(c, "idle")
    /\ actor'  = [actor  EXCEPT ![c] = Nobody]
    /\ target' = [target EXCEPT ![c] = Nobody]
    /\ next'   = [next   EXCEPT ![c] = "guest"]

\* UPDATE users SET role = $1 WHERE id = $2: nothing if there is no such row.  The
\* answer, UserNotFound or the new row, changes nothing any more.
ChangeRole(c) ==
    /\ stage[c] = "update"
    /\ role' = IF target[c] \in Users THEN [role EXCEPT ![target[c]] = next[c]] ELSE role
    /\ Close(c)
    /\ UNCHANGED tokens

\* Mutant of SignedIn: the leeway is counted twice.
SignedInLonger(c) ==
    /\ stage[c] = "mint"
    /\ tokens' = Minted(c, Lifetime + 1)
    /\ Close(c)
    /\ UNCHANGED role

\* generate_access_token signs the role that was read.
SignedIn(c) ==
    /\ stage[c] = "mint"
    /\ tokens' = Minted(c, Lifetime)
    /\ Close(c)
    /\ UNCHANGED role

\* An error of the database, a refused login, a client that hung up.
Fail(c) ==
    /\ stage[c] # "idle"
    /\ Close(c)
    /\ UNCHANGED <<role, tokens>>

\* The expiry in the claims comes nearer, and ExpiredSignature is an error.
Tick ==
    /\ tokens' = [t \in Claims |-> IF tokens[t] > 0 THEN tokens[t] - 1 ELSE 0]
    /\ UNCHANGED <<role, request>>

-----------------------------------------------------------------------------
AccessRequest(c) ==
    \/ \E u \in Users : SignIn(c, u)
    \/ \E t \in Claims, u \in Users \cup {Nobody}, r \in Roles : UpdateRole(c, t, u, r)

AccessStep(c) ==
    \/ ReadUser(c)
    \/ ChangeRole(c)
    \/ SignedIn(c)
    \/ Fail(c)

AccessNext ==
    \/ \E c \in Clients : AccessRequest(c) \/ AccessStep(c)
    \/ Tick

\* Nothing but the passing of time is assumed: requests may never be made or answered.
AccessSpec == AccessInit /\ [][AccessNext]_accessVars /\ WF_accessVars(Tick)

-----------------------------------------------------------------------------
AccessTypeOK ==
    /\ role \in [Users -> Roles]
    /\ tokens \in [Claims -> 0 .. Lifetime]
    /\ stage \in [Clients -> {"idle", "read", "mint", "update"}]
    /\ actor  \in [Clients -> Users \cup {Nobody}]
    /\ target \in [Clients -> Users \cup {Nobody}]
    /\ next   \in [Clients -> Roles]

\* Administrators who take turns cannot be left without one: only a change made for one
\* who is no administrator any more, and whose token says he is, takes the role from the
\* last (admin.rs:28-40).
Administrators == {u \in Users : role[u] = "admin"}

LastStep ==
    (Administrators # {} /\ Administrators' = {})
       => \E c \in Clients : stage[c] = "update" /\ actor[c] \notin Administrators

LastAdministratorStays == [][LastStep]_accessVars

\* A power that was taken away ends being accepted by itself, unless it is given back
\* (models.rs:59-61): no renewal of a session keeps it alive.
Overrated(u) ==
    \E t \in Claims : t.sub = u /\ tokens[t] > 0 /\ ~IsAtLeast(role[u], t.role)

DemotionTakesEffect == \A u \in Users : Overrated(u) ~> ~Overrated(u)

\* A claim that says more than the table, and that no request is about to sign.
Outdated(t) ==
    /\ ~IsAtLeast(role[t.sub], t.role)
    /\ \A c \in Clients : ~(stage[c] = "mint" /\ actor[c] = t.sub /\ next[c] = t.role)

\* Once a power was taken away, and the sign-ins that had read it have ended, what is left
\* of its tokens only runs out: until an administrator gives the power back, no request
\* prolongs them, so they are refused after one lifetime at the latest (models.rs:59-61;
\* auth.rs:118-131).
OutdatedStep ==
    \A t \in Claims : Outdated(t) =>
        \/ IsAtLeast(role[t.sub], t.role)'
        \/ Outdated(t)' /\ tokens'[t] <= tokens[t]

OutdatedRunsOut == [][OutdatedStep]_accessVars
=============================================================================
