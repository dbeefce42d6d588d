------------------------------ MODULE Accounts ------------------------------
(***************************************************************************)
(* Accounts and their credentials: services/user.rs over the tables users, *)
(* local_credentials and oauth_credentials, as register, login, refresh,   *)
(* the OAuth login, unlink and deactivate use it.                          *)
(*                                                                         *)
(*   register   insert_user -> insert_local -> commit -> ok                *)
(*   login      find_email -> find_local -> ok                             *)
(*   oauth      find_identity -> [find_email -> [create ->] link ->]       *)
(*                find_local -> ok                                         *)
(*   refresh    find_id -> find_local -> ok                                *)
(*   unlink     delete -> ok                                               *)
(*   deactivate update -> ok                                               *)
(*                                                                         *)
(* The three statements of register are one transaction, every other       *)
(* statement commits by itself, and what a request has read is a copy that *)
(* may be stale when it is used.  Passwords and refresh tokens are in      *)
(* AuthService.                                                            *)
(***************************************************************************)
EXTENDS Integers, FiniteSets

CONSTANTS
    Users,       \* users.id
    Emails,
    Usernames,
    Identities,  \* (provider, provider_user_id)
    Providers,
    ProviderOf,  \* the provider of an identity
    Clients,     \* request slots
    None         \* no user, email, username or identity

ASSUME AccountConstants ==
    /\ ProviderOf \in [Identities -> Providers]
    /\ None \notin Users \cup Emails \cup Usernames \cup Identities \cup Providers

VARIABLES
    users,     \* users: id -> row
    local,     \* local_credentials: user_id -> username
    links,     \* oauth_credentials: identity -> user_id
    sessions,  \* what clients were given: the account and the auth_method claim
    stage,     \* the statement a request awaits, or its answer
    op,        \* the request
    email,     \* its email, or that of the profile the provider returned
    name,      \* register: the username
    ident,     \* oauth: the identity of the profile; unlink: the provider
    who,       \* the user it works on, once known
    active,    \* is_active of the row it has read
    opened,    \* refresh: how its session was opened
    method,    \* the auth_method it will answer with
    bare,      \* history: users created without a credential
    off,       \* history: users that were inactive when the request arrived
    claimed,   \* history: the emails an identity came with
    landed     \* history: the users an identity was answered with

tables  == <<users, local, links>>
request == <<stage, op, email, name, ident, who, active, opened, method>>
history == <<bare, off, claimed, landed>>
accountVars == <<tables, sessions, request, history>>

Operations == {"register", "login", "oauth", "refresh", "unlink", "deactivate"}
Awaits  == {"insert_user", "insert_local", "commit", "find_email", "find_identity",
            "find_id", "create", "link", "find_local", "delete", "update"}
Answers == {"ok", "email_taken", "username_taken", "invalid", "disabled", "not_found",
            "database"}
Methods == {"password", "oauth"}

\* Of the two unique columns of the table only the email is kept.
UserRow == [email : Emails, active : BOOLEAN]

Session == [user : Users, method : Methods, opened : Methods]

AccountsInit ==
    /\ users = [u \in {} |-> None]
    /\ local = [u \in {} |-> None]
    /\ links = [i \in {} |-> None]
    /\ sessions = {}
    /\ stage  = [c \in Clients |-> "idle"]
    /\ op     = [c \in Clients |-> "none"]
    /\ email  = [c \in Clients |-> None]
    /\ name   = [c \in Clients |-> None]
    /\ ident  = [c \in Clients |-> None]
    /\ who    = [c \in Clients |-> None]
    /\ active = [c \in Clients |-> FALSE]
    /\ opened = [c \in Clients |-> "password"]
    /\ method = [c \in Clients |-> "password"]
    /\ bare = {}
    /\ off = [c \in Clients |-> {}]
    /\ claimed = [i \in Identities |-> {}]
    /\ landed  = [i \in Identities |-> {}]

-----------------------------------------------------------------------------
(***************************************************************************)
(* Requests.                                                               *)
(***************************************************************************)
\* f with v for x, also when x is not in its domain
With(f, x, v) == [y \in DOMAIN f \cup {x} |-> IF y = x THEN v ELSE f[y]]

Existing == DOMAIN users

Inactive == {u \in Existing : ~users[u].active}

Arrive(c, o, s) ==
    /\ stage[c] = "idle"
    /\ op'    = [op    EXCEPT ![c] = o]
    /\ stage' = [stage EXCEPT ![c] = s]
    /\ off'   = [off   EXCEPT ![c] = Inactive]
    /\ UNCHANGED <<tables, sessions, active, method, bare, landed>>

Register(c, e, n) ==
    /\ Arrive(c, "register", "insert_user")
    /\ email' = [email EXCEPT ![c] = e]
    /\ name'  = [name  EXCEPT ![c] = n]
    /\ UNCHANGED <<ident, who, opened, claimed>>

Login(c, e) ==
    /\ Arrive(c, "login", "find_email")
    /\ email' = [email EXCEPT ![c] = e]
    /\ UNCHANGED <<name, ident, who, opened, claimed>>

\* login_or_register_oauth, called with the profile the provider returned; the
\* email of an identity may change at the provider between two logins.
OAuthLogin(c, i, e) ==
    /\ Arrive(c, "oauth", "find_identity")
    /\ ident' = [ident EXCEPT ![c] = i]
    /\ email' = [email EXCEPT ![c] = e]
    /\ claimed' = [claimed EXCEPT ![i] = @ \cup {e}]
    /\ UNCHANGED <<name, who, opened>>

\* A session's refresh token is rotated; its row names the user.
Refresh(c, s) ==
    /\ Arrive(c, "refresh", "find_id")
    /\ who'    = [who    EXCEPT ![c] = s.user]
    /\ opened' = [opened EXCEPT ![c] = s.opened]
    /\ UNCHANGED <<email, name, ident, claimed>>

Unlink(c, s, p) ==
    /\ Arrive(c, "unlink", "delete")
    /\ who'   = [who   EXCEPT ![c] = s.user]
    /\ ident' = [ident EXCEPT ![c] = p]
    /\ UNCHANGED <<email, name, opened, claimed>>

Deactivate(c, s) ==
    /\ Arrive(c, "deactivate", "update")
    /\ who' = [who EXCEPT ![c] = s.user]
    /\ UNCHANGED <<email, name, ident, opened, claimed>>

-----------------------------------------------------------------------------
(***************************************************************************)
(* create: two INSERTs and a COMMIT.  A row is seen by the other requests  *)
(* when it is committed; until then an INSERT of the same key waits for    *)
(* the outcome of the transaction that holds it.                           *)
(***************************************************************************)
HoldsEmail(d, e) == stage[d] \in {"insert_local", "commit"} /\ email[d] = e

HoldsUsername(d, n) == stage[d] = "commit" /\ name[d] = n

EmailUsed(e) == \E u \in Existing : users[u].email = e

Fresh(u) == u \notin Existing /\ \A d \in Clients : who[d] # u

Goto(c, s) == stage' = [stage EXCEPT ![c] = s]

InsertUser(c, u) ==
    /\ stage[c] = "insert_user"
    /\ \A d \in Clients : ~HoldsEmail(d, email[c])
    /\ IF EmailUsed(email[c])
       THEN Goto(c, "email_taken") /\ UNCHANGED who
       ELSE Fresh(u) /\ Goto(c, "insert_local") /\ who' = [who EXCEPT ![c] = u]
    /\ UNCHANGED <<tables, sessions, op, email, name, ident, active, opened, method, history>>

\* users.display_name is unique as well, and comes after the email: the INSERT of either
\* kind may meet the name of an existing row, which is answered with AppError::Database.
NameTaken(c) ==
    /\ stage[c] \in {"insert_user", "create"}
    /\ \A d \in Clients : ~HoldsEmail(d, email[c])
    /\ ~EmailUsed(email[c])
    /\ Existing # {}
    /\ Goto(c, "database")
    /\ UNCHANGED <<tables, sessions, op, email, name, ident, who, active, opened, method, history>>

\* Mutant of InsertLocal: the first INSERT is not part of the transaction.
InsertLocalAlone(c) ==
    /\ stage[c] = "insert_local"
    /\ \A d \in Clients : ~HoldsUsername(d, name[c])
    /\ users' = With(users, who[c], [email |-> email[c], active |-> TRUE])
    /\ Goto(c, IF \E u \in DOMAIN local : local[u] = name[c] THEN "username_taken" ELSE "commit")
    /\ UNCHANGED <<local, links, sessions, op, email, name, ident, who, active, opened, method,
                   history>>

\* A refused INSERT rolls back the transaction.
InsertLocal(c) ==
    /\ stage[c] = "insert_local"
    /\ \A d \in Clients : ~HoldsUsername(d, name[c])
    /\ Goto(c, IF \E u \in DOMAIN local : local[u] = name[c] THEN "username_taken" ELSE "commit")
    /\ UNCHANGED <<tables, sessions, op, email, name, ident, who, active, opened, method, history>>

Commit(c) ==
    /\ stage[c] = "commit"
    /\ users' = With(users, who[c], [email |-> email[c], active |-> TRUE])
    /\ local' = With(local, who[c], name[c])
    /\ method' = [method EXCEPT ![c] = "password"]
    /\ opened' = [opened EXCEPT ![c] = "password"]
    /\ Goto(c, "ok")
    /\ UNCHANGED <<links, sessions, op, email, name, ident, who, active, history>>

-----------------------------------------------------------------------------
(***************************************************************************)
(* The look-ups.                                                           *)
(***************************************************************************)
\* The check of is_active, on the copy the request holds.
Admitted(a) == IF a THEN "find_local" ELSE "disabled"

\* The request has read the row of u.
Found(c, u) ==
    /\ who'    = [who    EXCEPT ![c] = u]
    /\ active' = [active EXCEPT ![c] = users[u].active]

FindIdentity(c) ==
    /\ stage[c] = "find_identity"
    /\ IF ident[c] \in DOMAIN links
       THEN LET u == links[ident[c]]
            IN  Found(c, u) /\ Goto(c, Admitted(users[u].active))
       ELSE Goto(c, "find_email") /\ UNCHANGED <<who, active>>
    /\ UNCHANGED <<tables, sessions, op, email, name, ident, opened, method, history>>

\* An OAuth login that finds the account goes on to link it, a password login to
\* the check of is_active.
FindEmail(c) ==
    /\ stage[c] = "find_email"
    /\ \/ \E u \in Existing :
             /\ users[u].email = email[c]
             /\ Found(c, u)
             /\ Goto(c, IF op[c] = "oauth" THEN "link" ELSE Admitted(users[u].active))
       \/ /\ ~EmailUsed(email[c])
          /\ Goto(c, IF op[c] = "oauth" THEN "create" ELSE "invalid")
          /\ UNCHANGED <<who, active>>
    /\ UNCHANGED <<tables, sessions, op, email, name, ident, opened, method, history>>

FindId(c) ==
    /\ stage[c] = "find_id"
    /\ Found(c, who[c])
    /\ Goto(c, Admitted(users[who[c]].active))
    /\ UNCHANGED <<tables, sessions, op, email, name, ident, opened, method, history>>

\* Mutant of FindLocal: a refresh derives the auth_method from the linked identities.
FindLocalByLink(c) ==
    /\ stage[c] = "find_local"
    /\ LET has  == who[c] \in DOMAIN local
           bound == \E i \in DOMAIN links : links[i] = who[c]
           m    == IF op[c] = "login" \/ (op[c] = "refresh" /\ ~bound)
                   THEN "password" ELSE "oauth"
       IN  /\ op[c] = "login" => has
           /\ method' = [method EXCEPT ![c] = m]
           /\ opened' = [opened EXCEPT ![c] = IF op[c] = "refresh" THEN @ ELSE m]
           /\ Goto(c, "ok")
    /\ UNCHANGED <<tables, sessions, op, email, name, ident, who, active, history>>

\* find_local_credential, on which all three logins end: a password login needs the
\* credential and the right password, a refresh derives the auth_method from it.
FindLocal(c) ==
    /\ stage[c] = "find_local"
    /\ LET has == who[c] \in DOMAIN local
           m   == IF op[c] = "login" \/ (op[c] = "refresh" /\ has) THEN "password" ELSE "oauth"
       IN  \/ /\ op[c] = "login" => has
              /\ method' = [method EXCEPT ![c] = m]
              /\ opened' = [opened EXCEPT ![c] = IF op[c] = "refresh" THEN @ ELSE m]
              /\ Goto(c, "ok")
           \/ /\ op[c] = "login"
              /\ Goto(c, "invalid")
              /\ UNCHANGED <<method, opened>>
    /\ UNCHANGED <<tables, sessions, op, email, name, ident, who, active, history>>

-----------------------------------------------------------------------------
(***************************************************************************)
(* The statements that write outside a transaction.                        *)
(***************************************************************************)
\* Mutant of CreateFromOAuth: users.email is not unique.
CreateDuplicate(c, u) ==
    /\ stage[c] = "create"
    /\ Fresh(u)
    /\ users' = With(users, u, [email |-> email[c], active |-> TRUE])
    /\ who'    = [who    EXCEPT ![c] = u]
    /\ active' = [active EXCEPT ![c] = TRUE]
    /\ bare'   = bare \cup {u}
    /\ Goto(c, "link")
    /\ UNCHANGED <<local, links, sessions, op, email, name, ident, opened, method,
                   off, claimed, landed>>

CreateFromOAuth(c, u) ==
    /\ stage[c] = "create"
    /\ \A d \in Clients : ~HoldsEmail(d, email[c])
    /\ IF EmailUsed(email[c])
       THEN /\ Goto(c, "email_taken")
            /\ UNCHANGED <<users, who, active, bare>>
       ELSE /\ Fresh(u)
            /\ users' = With(users, u, [email |-> email[c], active |-> TRUE])
            /\ who'    = [who    EXCEPT ![c] = u]
            /\ active' = [active EXCEPT ![c] = TRUE]
            /\ bare'   = bare \cup {u}
            /\ Goto(c, "link")
    /\ UNCHANGED <<local, links, sessions, op, email, name, ident, opened, method,
                   off, claimed, landed>>

\* Mutant of Link: ON CONFLICT DO UPDATE SET user_id.
LinkUpserts(c) ==
    /\ stage[c] = "link"
    /\ links' = With(links, ident[c], who[c])
    /\ Goto(c, Admitted(active[c]))
    /\ UNCHANGED <<users, local, sessions, op, email, name, ident, who, active, opened,
                   method, history>>

\* Mutant of Link: only accounts found by their identity are checked.
LinkUnchecked(c) ==
    /\ stage[c] = "link"
    /\ links' = IF ident[c] \in DOMAIN links THEN links ELSE With(links, ident[c], who[c])
    /\ Goto(c, "find_local")
    /\ UNCHANGED <<users, local, sessions, op, email, name, ident, who, active, opened,
                   method, history>>

\* link_oauth_account, ON CONFLICT DO NOTHING; then the check of is_active.
Link(c) ==
    /\ stage[c] = "link"
    /\ links' = IF ident[c] \in DOMAIN links THEN links ELSE With(links, ident[c], who[c])
    /\ Goto(c, Admitted(active[c]))
    /\ UNCHANGED <<users, local, sessions, op, email, name, ident, who, active, opened,
                   method, history>>

\* DELETE ... WHERE user_id = $1 AND provider = $2: every identity of the provider.
DeleteLinks(c) ==
    /\ stage[c] = "delete"
    /\ LET gone == {i \in DOMAIN links : links[i] = who[c]
                                      /\ ProviderOf[i] = ident[c]}
       IN  /\ links' = [i \in DOMAIN links \ gone |-> links[i]]
           /\ Goto(c, IF gone = {} THEN "not_found" ELSE "ok")
    /\ UNCHANGED <<users, local, sessions, op, email, name, ident, who, active, opened,
                   method, history>>

SetInactive(c) ==
    /\ stage[c] = "update"
    /\ users' = [users EXCEPT ![who[c]].active = FALSE]
    /\ Goto(c, "ok")
    /\ UNCHANGED <<local, links, sessions, op, email, name, ident, who, active, opened,
                   method, history>>

-----------------------------------------------------------------------------
(***************************************************************************)
(* The end of a request: its answer, or an abort (an error of the          *)
(* database, a client that hung up), which rolls a transaction back.       *)
(***************************************************************************)
Close(c) ==
    /\ stage'  = [stage  EXCEPT ![c] = "idle"]
    /\ op'     = [op     EXCEPT ![c] = "none"]
    /\ email'  = [email  EXCEPT ![c] = None]
    /\ name'   = [name   EXCEPT ![c] = None]
    /\ ident'  = [ident  EXCEPT ![c] = None]
    /\ who'    = [who    EXCEPT ![c] = None]
    /\ active' = [active EXCEPT ![c] = FALSE]
    /\ opened' = [opened EXCEPT ![c] = "password"]
    /\ method' = [method EXCEPT ![c] = "password"]
    /\ off'    = [off    EXCEPT ![c] = {}]
    /\ UNCHANGED <<tables, bare, claimed>>

OpensSession(c) == stage[c] = "ok" /\ op[c] \in {"register", "login", "oauth", "refresh"}

Reply(c) ==
    /\ stage[c] \in Answers
    /\ sessions' = IF OpensSession(c)
                   THEN sessions \cup {[user |-> who[c], method |-> method[c],
                                        opened |-> opened[c]]}
                   ELSE sessions
    /\ landed' = IF OpensSession(c) /\ op[c] = "oauth"
                 THEN [landed EXCEPT ![ident[c]] = @ \cup {who[c]}]
                 ELSE landed
    /\ Close(c)

Drop(c) ==
    /\ stage[c] # "idle"
    /\ Close(c)
    /\ UNCHANGED <<sessions, landed>>

-----------------------------------------------------------------------------
Request(c) ==
    \/ \E e \in Emails : Login(c, e) \/ (\E n \in Usernames : Register(c, e, n))
    \/ \E i \in Identities, e \in Emails : OAuthLogin(c, i, e)
    \/ \E s \in sessions :
          \/ Refresh(c, s)
          \/ Deactivate(c, s)
          \/ \E p \in Providers : Unlink(c, s, p)

Progress(c) ==
    \/ \E u \in Users : InsertUser(c, u) \/ CreateFromOAuth(c, u)
    \/ NameTaken(c)
    \/ InsertLocal(c)
    \/ Commit(c)
    \/ FindIdentity(c)
    \/ FindEmail(c)
    \/ FindId(c)
    \/ FindLocal(c)
    \/ Link(c)
    \/ DeleteLinks(c)
    \/ SetInactive(c)

AccountsNext == \E c \in Clients : Request(c) \/ Progress(c) \/ Reply(c) \/ Drop(c)

AccountsSpec == AccountsInit /\ [][AccountsNext]_accountVars

-----------------------------------------------------------------------------
\* Type correctness, with the foreign keys of the tables and the unique keys on what they
\* keep.
AccountsTypeOK ==
    /\ Existing \subseteq Users
    /\ users \in [Existing -> UserRow]
    /\ DOMAIN local \subseteq Existing
    /\ local \in [DOMAIN local -> Usernames]
    /\ DOMAIN links \subseteq Identities
    /\ links \in [DOMAIN links -> Existing]
    /\ sessions \subseteq Session
    /\ stage  \in [Clients -> Awaits \cup Answers \cup {"idle"}]
    /\ op     \in [Clients -> Operations \cup {"none"}]
    /\ email  \in [Clients -> Emails \cup {None}]
    /\ name   \in [Clients -> Usernames \cup {None}]
    /\ ident  \in [Clients -> Identities \cup Providers \cup {None}]
    /\ who    \in [Clients -> Users \cup {None}]
    /\ active \in [Clients -> BOOLEAN]
    /\ opened \in [Clients -> Methods]
    /\ method \in [Clients -> Methods]
    /\ bare \subseteq Existing
    /\ off \in [Clients -> SUBSET Existing]
    /\ claimed \in [Identities -> SUBSET Emails]
    /\ landed  \in [Identities -> SUBSET Existing]
    /\ \A u, v \in Existing : users[u].email = users[v].email => u = v
    /\ \A u, v \in DOMAIN local : local[u] = local[v] => u = v

\* An account that was registered has its credential from the moment it can be seen,
\* also when its username is refused or its request dies between the two INSERTs:
\* only accounts made by an OAuth login are without one (user.rs:104-156).
RegistrationIsWhole == Existing \subseteq bare \cup DOMAIN local

\* Someone whose email at the provider does not change always lands in the same
\* account, whatever overlaps or was left half done: two first logins at once, a
\* registration of that email, an aborted login, an unlinked provider
\* (auth.rs:166-184, user.rs:167-190, 312-331).
SameAccount ==
    \A i \in Identities : Cardinality(claimed[i]) = 1 => Cardinality(landed[i]) <= 1

\* Who had been deactivated when a request arrived gets no session from it, by
\* whichever way the account is found: by identity, by email or by refresh token
\* (auth.rs:80-82, 119-121, 186-188).
DisabledGetsNoSession ==
    \A c \in Clients : OpensSession(c) => who[c] \notin off[c]

\* A linked identity stays with its account until that account unlinks its provider:
\* a login that has found nothing, and comes to link when another has linked, changes
\* nothing (user.rs:303-331, 372-395).
LinkStep ==
    \A i \in DOMAIN links :
        \/ i \in DOMAIN links' /\ links'[i] = links[i]
        \/ \E c \in Clients :
              /\ stage[c] = "delete"
              /\ who[c] = links[i]
              /\ i \notin DOMAIN links'

LinksNeverMove == [][LinkStep]_accountVars

\* What the description of the users table claims (models.rs:130-131 "the only
\* invariant enforced at the application level is that at least one credential
\* exists"): no account that is left alone is without a credential.
AtLeastOneCredential ==
    \A u \in Existing :
        \/ u \in DOMAIN local
        \/ \E i \in DOMAIN links : links[i] = u
        \/ \E c \in Clients : who[c] = u

\* A session that claims to be opened at a provider was, also after any number of
\* refreshes, which derive the claim anew from the credentials the account has by then
\* (models.rs:26-34; auth.rs:124-129): a password session never claims it.  The converse
\* does not hold: a refresh turns an OAuth session of an account with a password into a
\* password session.
OAuthClaimIsTrue == \A s \in sessions : s.method = "oauth" => s.opened = "oauth"

\* The tables keep the promises of AccountRegistry: although a registration is three
\* statements, and others read and write between them, its account appears with its
\* password in one step, and nothing activates an account again or takes its password
\* away (user.rs:104-156, 167-190, 397-406).
Registry == INSTANCE AccountRegistry WITH
    status  <- [u \in Users |-> IF u \notin Existing THEN "none"
                                ELSE IF users[u].active THEN "active" ELSE "inactive"],
    secured <- DOMAIN local

TablesKeepRegistry == Registry!RegistrySpec
=============================================================================
