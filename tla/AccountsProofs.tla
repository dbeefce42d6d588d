--------------------------- MODULE AccountsProofs ---------------------------
(***************************************************************************)
(* Theorems about Accounts, for every number of accounts, emails,          *)
(* usernames, identities, providers and requests.  The inductive invariant *)
(* has these parts, each proved with the help of those before it:          *)
(*                                                                         *)
(*   Typed    the types and keys, and what the stage of a request says of  *)
(*            its fields                                                   *)
(*   Held     what an open transaction has reserved is free, and its own   *)
(*   Locked   who had been deactivated when a request arrived still is,    *)
(*            and a request that has passed the check works for another    *)
(*   Proven   a session opened with a password is of an account with one   *)
(*   Landing  an identity leads to accounts with an email it has come with *)
(*                                                                         *)
(* and RegistrationIsWhole, which is inductive as it stands.               *)
(***************************************************************************)
EXTENDS Accounts, FiniteSetTheorems, TLAPS

InTransaction(c) == stage[c] \in {"insert_local", "commit"}

\* What a request knows at each of its awaits.
Knows(c) ==
    /\ stage[c] \in {"insert_user", "insert_local", "commit"} =>
          /\ op[c] = "register"
          /\ email[c] \in Emails
          /\ name[c] \in Usernames
    /\ InTransaction(c) => who[c] \in Users
    /\ stage[c] = "find_email" => op[c] \in {"login", "oauth"} /\ email[c] \in Emails
    /\ stage[c] \in {"find_identity", "create", "link"} =>
          op[c] = "oauth" /\ email[c] \in Emails
    /\ stage[c] = "find_local" => op[c] \in {"login", "oauth", "refresh"}
    /\ stage[c] = "find_id" => op[c] = "refresh"
    /\ stage[c] = "delete" => op[c] = "unlink"
    /\ stage[c] = "update" => op[c] = "deactivate"
    /\ op[c] = "oauth" => ident[c] \in Identities
    /\ stage[c] \in {"find_id", "find_local", "link", "delete", "update"} \/ OpensSession(c)
          => who[c] \in Existing

Typed ==
    /\ AccountsTypeOK
    /\ \A c \in Clients : Knows(c)
    /\ \A s \in sessions : s.user \in Existing

HeldBy(c) ==
    /\ InTransaction(c) =>
          /\ who[c] \notin Existing
          /\ \A u \in Existing : users[u].email # email[c]
          /\ \A d \in Clients \ {c} : who[d] # who[c] /\ ~HoldsEmail(d, email[c])
    /\ stage[c] = "commit" =>
          /\ \A u \in DOMAIN local : local[u] # name[c]
          /\ \A d \in Clients \ {c} : ~HoldsUsername(d, name[c])

Held == \A c \in Clients : HeldBy(c)

Locked ==
    \A c \in Clients :
        /\ \A u \in off[c] : ~users[u].active
        /\ stage[c] = "link" /\ active[c] => who[c] \notin off[c]
        /\ stage[c] = "find_local" \/ OpensSession(c) => who[c] \notin off[c]

Proven ==
    /\ \A s \in sessions : s.opened = "password" => s.user \in DOMAIN local
    /\ \A c \in Clients :
          /\ stage[c] \in {"find_id", "find_local"} /\ op[c] = "refresh" /\ opened[c] = "password"
                => who[c] \in DOMAIN local
          /\ OpensSession(c) /\ opened[c] = "password" => who[c] \in DOMAIN local
          /\ OpensSession(c) /\ method[c] = "oauth" => opened[c] = "oauth"
    /\ OAuthClaimIsTrue

Landing ==
    /\ \A i \in Identities : IsFiniteSet(claimed[i])
    /\ \A i \in Identities : \A u \in landed[i] : users[u].email \in claimed[i]
    /\ \A i \in DOMAIN links : users[links[i]].email \in claimed[i]
    /\ \A c \in Clients :
          /\ stage[c] \in {"find_identity", "find_email", "create"} /\ op[c] = "oauth"
                => email[c] \in claimed[ident[c]]
          /\ op[c] = "oauth" /\ (stage[c] \in {"link", "find_local"} \/ OpensSession(c))
                => users[who[c]].email \in claimed[ident[c]]

-----------------------------------------------------------------------------
(***************************************************************************)
(* Types, and what no step undoes.                                         *)
(***************************************************************************)
LEMMA TypedInit == AccountsInit => Typed
BY AccountConstants
   DEF AccountsInit, Typed, AccountsTypeOK, Knows, Existing, OpensSession, InTransaction,
       Methods, Awaits, Answers

LEMMA TypedStep == Typed /\ Held /\ [AccountsNext]_accountVars => Typed'
<1> SUFFICES ASSUME Typed, Held, [AccountsNext]_accountVars PROVE Typed'
  OBVIOUS
<1> USE AccountConstants DEF Typed, AccountsTypeOK, Knows, Existing, OpensSession, InTransaction
<1>1. ASSUME NEW c \in Clients, NEW e \in Emails, Login(c, e) PROVE Typed'
  BY <1>1 DEF Login, Arrive, Inactive, tables, Awaits, Answers, Operations, Session, Methods
<1>2. ASSUME NEW c \in Clients, NEW e \in Emails, NEW n \in Usernames, Register(c, e, n)
      PROVE  Typed'
  BY <1>2 DEF Register, Arrive, Inactive, tables, Awaits, Answers, Operations, Session, Methods
<1>3. ASSUME NEW c \in Clients, NEW i \in Identities, NEW e \in Emails, OAuthLogin(c, i, e)
      PROVE  Typed'
  BY <1>3 DEF OAuthLogin, Arrive, Inactive, tables, Awaits, Answers, Operations, Session, Methods
<1>4. ASSUME NEW c \in Clients, NEW s \in sessions, Refresh(c, s) PROVE Typed'
  BY <1>4 DEF Refresh, Arrive, Inactive, tables, Awaits, Answers, Operations, Session, Methods
<1>5. ASSUME NEW c \in Clients, NEW s \in sessions, NEW p \in Providers, Unlink(c, s, p)
      PROVE  Typed'
  BY <1>5 DEF Unlink, Arrive, Inactive, tables, Awaits, Answers, Operations, Session, Methods
<1>6. ASSUME NEW c \in Clients, NEW s \in sessions, Deactivate(c, s) PROVE Typed'
  BY <1>6 DEF Deactivate, Arrive, Inactive, tables, Awaits, Answers, Operations, Session, Methods
<1>7. ASSUME NEW c \in Clients, NEW u \in Users, InsertUser(c, u) PROVE Typed'
  BY <1>7 DEF InsertUser, Goto, tables, history, Awaits, Answers
<1>8. ASSUME NEW c \in Clients, InsertLocal(c) PROVE Typed'
  BY <1>8 DEF InsertLocal, Goto, tables, history, Awaits, Answers
<1>9. ASSUME NEW c \in Clients, Commit(c) PROVE Typed'
  BY <1>9 DEF Commit, With, Goto, history, Awaits, Answers, Methods, UserRow, Held, HeldBy
<1>10. ASSUME NEW c \in Clients, FindIdentity(c) PROVE Typed'
  <2>1. CASE ident[c] \in DOMAIN links
    <3>1. links[ident[c]] \in Existing /\ users[links[ident[c]]].active \in BOOLEAN
      BY <2>1 DEF UserRow
    <3>2. /\ who' = [who EXCEPT ![c] = links[ident[c]]]
          /\ active' = [active EXCEPT ![c] = users[links[ident[c]]].active]
          /\ \E s \in {"find_local", "disabled"} : stage' = [stage EXCEPT ![c] = s]
          /\ UNCHANGED <<users, local, links, sessions, op, email, name, ident, opened, method,
                         bare, off, claimed, landed>>
          /\ op[c] = "oauth"
      BY <1>10, <2>1 DEF FindIdentity, Found, Admitted, Goto, tables, history
    <3>3. AccountsTypeOK'
      BY <3>1, <3>2 DEF Awaits, Answers
    <3>4. ASSUME NEW d \in Clients PROVE Knows(d)'
      BY <3>1, <3>2
    <3> QED BY <3>2, <3>3, <3>4
  <2>2. CASE ident[c] \notin DOMAIN links
    BY <1>10, <2>2 DEF FindIdentity, Goto, tables, history, Awaits, Answers
  <2> QED BY <2>1, <2>2
<1>11. ASSUME NEW c \in Clients, FindEmail(c) PROVE Typed'
  <2>1. ASSUME NEW u \in Existing, Found(c, u),
               Goto(c, IF op[c] = "oauth" THEN "link" ELSE Admitted(users[u].active))
        PROVE  Typed'
    <3>1. users[u].active \in BOOLEAN
      BY DEF UserRow
    <3> QED BY <1>11, <2>1, <3>1
            DEF FindEmail, Found, Admitted, Goto, tables, history, Awaits, Answers
  <2>2. CASE UNCHANGED <<who, active>>
                /\ Goto(c, IF op[c] = "oauth" THEN "create" ELSE "invalid")
    BY <1>11, <2>2 DEF FindEmail, Goto, tables, history, Awaits, Answers
  <2> QED BY <1>11, <2>1, <2>2 DEF FindEmail
<1>12. ASSUME NEW c \in Clients, FindId(c) PROVE Typed'
  BY <1>12 DEF FindId, Found, Admitted, Goto, tables, history, Awaits, Answers, UserRow
<1>13. ASSUME NEW c \in Clients, FindLocal(c) PROVE Typed'
  BY <1>13 DEF FindLocal, Goto, tables, history, Awaits, Answers, Methods
<1>14. ASSUME NEW c \in Clients, NEW u \in Users, CreateFromOAuth(c, u) PROVE Typed'
  <2>1. CASE EmailUsed(email[c])
    BY <1>14, <2>1 DEF CreateFromOAuth, Goto, Awaits, Answers
  <2>2. CASE ~EmailUsed(email[c])
    <3>1. /\ Fresh(u) /\ email[c] \in Emails
          /\ users' = With(users, u, [email |-> email[c], active |-> TRUE])
      BY <1>14, <2>2 DEF CreateFromOAuth
    <3>2. /\ Existing' = Existing \cup {u}
          /\ users' \in [Existing' -> UserRow]
          /\ \A v, w \in Existing' : users'[v].email = users'[w].email => v = w
      BY <2>2, <3>1 DEF With, UserRow, EmailUsed, Fresh
    <3>3. /\ stage' = [stage EXCEPT ![c] = "link"]
          /\ who' = [who EXCEPT ![c] = u]
          /\ active' = [active EXCEPT ![c] = TRUE]
          /\ bare' = bare \cup {u}
          /\ UNCHANGED <<local, links, sessions, op, email, name, ident, opened, method,
                         off, claimed, landed>>
      BY <1>14, <2>2 DEF CreateFromOAuth, Goto
    <3>4. AccountsTypeOK'
      BY <3>2, <3>3 DEF Awaits
    <3>5. ASSUME NEW d \in Clients PROVE Knows(d)'
      <4>1. CASE d = c
        BY <1>14, <3>2, <3>3, <4>1 DEF CreateFromOAuth
      <4>2. CASE d # c
        <5>1. stage'[d] = stage[d] /\ who'[d] = who[d] /\ Existing \subseteq Existing'
          BY <3>2, <3>3, <4>2
        <5> QED BY <3>3, <5>1
      <4> QED BY <4>1, <4>2
    <3> QED BY <3>2, <3>3, <3>4, <3>5
  <2> QED BY <2>1, <2>2
<1>15. ASSUME NEW c \in Clients, Link(c) PROVE Typed'
  BY <1>15 DEF Link, With, Admitted, Goto, history, Awaits, Answers
<1>16. ASSUME NEW c \in Clients, DeleteLinks(c) PROVE Typed'
  BY <1>16 DEF DeleteLinks, Goto, history, Awaits, Answers
<1>17. ASSUME NEW c \in Clients, SetInactive(c) PROVE Typed'
  <2>1. users' = [users EXCEPT ![who[c]].active = FALSE] /\ who[c] \in Existing
    BY <1>17 DEF SetInactive
  <2>2. /\ Existing' = Existing
        /\ users' \in [Existing -> UserRow]
        /\ \A v \in Existing : users'[v].email = users[v].email
    <3>1. users' = [users EXCEPT ![who[c]] = [users[who[c]] EXCEPT !.active = FALSE]]
      BY <2>1
    <3>2. users[who[c]] \in [email : Emails, active : BOOLEAN]
      BY <2>1 DEF UserRow
    <3>3. /\ [users[who[c]] EXCEPT !.active = FALSE] \in UserRow
          /\ [users[who[c]] EXCEPT !.active = FALSE].email = users[who[c]].email
      BY <3>2 DEF UserRow
    <3> QED BY <2>1, <3>1, <3>3
  <2> QED BY <1>17, <2>2 DEF SetInactive, Goto, history, Awaits, Answers
<1>18. ASSUME NEW c \in Clients, Reply(c) PROVE Typed'
  BY <1>18 DEF Reply, Close, tables, Session, Methods
<1>19. ASSUME NEW c \in Clients, Drop(c) PROVE Typed'
  BY <1>19 DEF Drop, Close, tables, Methods
<1>20. ASSUME NEW c \in Clients, NameTaken(c) PROVE Typed'
  BY <1>20 DEF NameTaken, Goto, tables, history, Awaits, Answers
<1>21. CASE UNCHANGED accountVars
  BY <1>21 DEF accountVars, tables, request, history
<1> QED BY <1>1, <1>2, <1>3, <1>4, <1>5, <1>6, <1>7, <1>8, <1>9, <1>10, <1>11, <1>12, <1>13,
           <1>14, <1>15, <1>16, <1>17, <1>18, <1>19, <1>20, <1>21
        DEF AccountsNext, Request, Progress

\* What a step of c does to the request d of another.
Untouched(d) ==
    /\ stage'[d] = stage[d] /\ op'[d] = op[d]
    /\ email'[d] = email[d] /\ name'[d] = name[d] /\ ident'[d] = ident[d]
    /\ who'[d] = who[d] /\ active'[d] = active[d]
    /\ opened'[d] = opened[d] /\ method'[d] = method[d] /\ off'[d] = off[d]

Step(c) == Request(c) \/ Progress(c) \/ Reply(c) \/ Drop(c)

LEMMA OthersUntouched ==
    ASSUME Typed, NEW c \in Clients, Step(c), NEW d \in Clients \ {c}
    PROVE  Untouched(d)
<1> USE DEF Typed, AccountsTypeOK, Untouched
<1>1. CASE Request(c)
  BY <1>1 DEF Request, Login, Register, OAuthLogin, Refresh, Unlink, Deactivate, Arrive
<1>2. ASSUME NEW u \in Users, InsertUser(c, u) \/ CreateFromOAuth(c, u) PROVE Untouched(d)
  BY <1>2 DEF InsertUser, CreateFromOAuth, Goto, history
<1>3. CASE \/ NameTaken(c) \/ InsertLocal(c) \/ Commit(c) \/ Link(c) \/ DeleteLinks(c)
           \/ SetInactive(c)
  BY <1>3 DEF NameTaken, InsertLocal, Commit, Link, DeleteLinks, SetInactive, Goto, history
<1>4. CASE FindIdentity(c) \/ FindEmail(c) \/ FindId(c) \/ FindLocal(c)
  BY <1>4 DEF FindIdentity, FindEmail, FindId, FindLocal, Found, Goto, history
<1>5. CASE Reply(c) \/ Drop(c)
  BY <1>5 DEF Reply, Drop, Close
<1> QED BY <1>1, <1>2, <1>3, <1>4, <1>5 DEF Step, Progress

\* Users and credentials are only ever added, by Commit and CreateFromOAuth, under a key
\* nobody else has reserved; an email stays, and who is deactivated stays so.
Keeps ==
    /\ \A u \in Existing :
          /\ u \in Existing'
          /\ users'[u].email = users[u].email
          /\ ~users[u].active => ~users'[u].active
    /\ \A u \in DOMAIN local : u \in DOMAIN local' /\ local'[u] = local[u]

LEMMA RowsKept ==
    ASSUME Typed, Held, NEW c \in Clients, Step(c)
    PROVE  Keeps
<1> USE DEF Typed, AccountsTypeOK, Existing, Keeps
<1>1. CASE UNCHANGED <<users, local>>
  BY <1>1
<1>2. ASSUME NEW u \in Users, CreateFromOAuth(c, u) PROVE Keeps
  BY <1>2 DEF CreateFromOAuth, Fresh, With
<1>3. CASE Commit(c)
  BY <1>3 DEF Commit, With, Held, HeldBy, InTransaction
<1>4. CASE SetInactive(c)
  <2>1. who[c] \in Existing
    BY <1>4 DEF SetInactive, Knows
  <2>2. users[who[c]] \in [email : Emails, active : BOOLEAN]
    BY <2>1 DEF UserRow
  <2> QED BY <1>4, <2>1, <2>2 DEF SetInactive
<1>5. CASE Request(c) \/ NameTaken(c) \/ InsertLocal(c) \/ Link(c) \/ DeleteLinks(c)
  BY <1>1, <1>5 DEF Request, Login, Register, OAuthLogin, Refresh, Unlink, Deactivate, Arrive,
       NameTaken, InsertLocal, Link, DeleteLinks, tables
<1>6. ASSUME NEW u \in Users, InsertUser(c, u) PROVE Keeps
  BY <1>1, <1>6 DEF InsertUser, tables
<1>7. CASE FindIdentity(c) \/ FindEmail(c) \/ FindId(c) \/ FindLocal(c)
  BY <1>1, <1>7 DEF FindIdentity, FindEmail, FindId, FindLocal, tables
<1>8. CASE Reply(c) \/ Drop(c)
  BY <1>1, <1>8 DEF Reply, Drop, Close, tables
<1> QED BY <1>2, <1>3, <1>4, <1>5, <1>6, <1>7, <1>8 DEF Step, Progress

\* Where a new user comes from, and who a request can be about.
LEMMA UsersAdded ==
    ASSUME Typed, Held, NEW c \in Clients, Step(c)
    PROVE  /\ \A u \in Existing' \ Existing :
                 /\ users'[u].email = email[c]
                 /\ \A d \in Clients \ {c} : who[d] # u /\ ~HoldsEmail(d, email[c])
                 /\ u = who'[c]
           /\ \A u \in DOMAIN local' \ DOMAIN local :
                 /\ local'[u] = name[c]
                 /\ \A d \in Clients \ {c} : ~HoldsUsername(d, name[c])
           /\ \/ who'[c] = who[c]
              \/ who'[c] \in Existing \cup {None}
              \/ Fresh(who'[c])
<1> DEFINE Goal == /\ \A u \in Existing' \ Existing :
                         /\ users'[u].email = email[c]
                         /\ \A d \in Clients \ {c} : who[d] # u /\ ~HoldsEmail(d, email[c])
                         /\ u = who'[c]
                   /\ \A u \in DOMAIN local' \ DOMAIN local :
                         /\ local'[u] = name[c]
                         /\ \A d \in Clients \ {c} : ~HoldsUsername(d, name[c])
                   /\ \/ who'[c] = who[c]
                      \/ who'[c] \in Existing \cup {None}
                      \/ Fresh(who'[c])
<1> SUFFICES Goal
  OBVIOUS
<1> USE DEF Typed, AccountsTypeOK, Existing
<1>1. CASE Request(c)
  BY <1>1 DEF Request, Login, Register, OAuthLogin, Refresh, Unlink, Deactivate, Arrive, tables
<1>2. ASSUME NEW u \in Users, InsertUser(c, u) PROVE Goal
  BY <1>2 DEF InsertUser, tables
<1>3. ASSUME NEW u \in Users, CreateFromOAuth(c, u) PROVE Goal
  BY <1>3 DEF CreateFromOAuth, Fresh, With
<1>4. CASE Commit(c)
  BY <1>4 DEF Commit, With, Held, HeldBy, InTransaction
<1>5. CASE NameTaken(c) \/ InsertLocal(c) \/ Link(c) \/ DeleteLinks(c) \/ SetInactive(c)
  BY <1>5 DEF NameTaken, InsertLocal, Link, DeleteLinks, SetInactive, tables
<1>6. CASE FindIdentity(c) \/ FindEmail(c) \/ FindId(c) \/ FindLocal(c)
  BY <1>6 DEF FindIdentity, FindEmail, FindId, FindLocal, Found, Knows, tables
<1>7. CASE Reply(c) \/ Drop(c)
  BY <1>7 DEF Reply, Drop, Close, tables
<1> QED BY <1>1, <1>2, <1>3, <1>4, <1>5, <1>6, <1>7 DEF Step, Progress

\* How a request comes to hold an email or a username: by the guard of an INSERT.
LEMMA EntersTransaction ==
    ASSUME Typed, Held, NEW c \in Clients, Step(c)
    PROVE  /\ InTransaction(c)' =>
                 \/ InTransaction(c) /\ who'[c] = who[c] /\ email'[c] = email[c]
                 \/ /\ stage'[c] = "insert_local"
                    /\ email'[c] = email[c]
                    /\ ~EmailUsed(email[c])
                    /\ \A d \in Clients : ~HoldsEmail(d, email[c])
                    /\ who'[c] \in Users /\ Fresh(who'[c])
           /\ stage'[c] = "commit" =>
                 /\ name'[c] = name[c]
                 /\ \A d \in Clients : ~HoldsUsername(d, name[c])
                 /\ \A u \in DOMAIN local : local[u] # name[c]
           /\ InTransaction(c)' => UNCHANGED <<users, local>>
<1> DEFINE Entry == /\ stage'[c] = "insert_local"
                    /\ email'[c] = email[c]
                    /\ ~EmailUsed(email[c])
                    /\ \A d \in Clients : ~HoldsEmail(d, email[c])
                    /\ who'[c] \in Users /\ Fresh(who'[c])
           Goal == /\ InTransaction(c)' =>
                         \/ InTransaction(c) /\ who'[c] = who[c] /\ email'[c] = email[c]
                         \/ Entry
                   /\ stage'[c] = "commit" =>
                         /\ name'[c] = name[c]
                         /\ \A d \in Clients : ~HoldsUsername(d, name[c])
                         /\ \A u \in DOMAIN local : local[u] # name[c]
                   /\ InTransaction(c)' => UNCHANGED <<users, local>>
<1> SUFFICES Goal
  OBVIOUS
<1> USE DEF Typed, AccountsTypeOK, Existing, InTransaction
<1>1. CASE Request(c)
  BY <1>1 DEF Request, Login, Register, OAuthLogin, Refresh, Unlink, Deactivate, Arrive
<1>2. ASSUME NEW u \in Users, InsertUser(c, u) PROVE Goal
  BY <1>2 DEF InsertUser, Goto, tables
<1>3. ASSUME NEW u \in Users, CreateFromOAuth(c, u) PROVE Goal
  BY <1>3 DEF CreateFromOAuth, Goto
<1>4. CASE NameTaken(c) \/ InsertLocal(c)
  BY <1>4 DEF NameTaken, InsertLocal, Goto, tables
<1>5. CASE Commit(c) \/ Link(c) \/ DeleteLinks(c) \/ SetInactive(c)
  BY <1>5 DEF Commit, Link, DeleteLinks, SetInactive, Goto, Admitted
<1>6. CASE FindIdentity(c) \/ FindEmail(c) \/ FindId(c) \/ FindLocal(c)
  BY <1>6 DEF FindIdentity, FindEmail, FindId, FindLocal, Goto, Admitted
<1>7. CASE Reply(c) \/ Drop(c)
  BY <1>7 DEF Reply, Drop, Close
<1> QED BY <1>1, <1>2, <1>3, <1>4, <1>5, <1>6, <1>7 DEF Step, Progress

LEMMA HeldInit == AccountsInit => Held
BY DEF AccountsInit, Held, HeldBy, InTransaction

LEMMA HeldStep == Typed /\ Held /\ [AccountsNext]_accountVars => Held'
<1> SUFFICES ASSUME Typed, Held, [AccountsNext]_accountVars, NEW d \in Clients
             PROVE  HeldBy(d)'
  BY DEF Held
<1> USE AccountConstants DEF Typed, AccountsTypeOK, Existing, InTransaction
<1>1. ASSUME NEW c \in Clients, Step(c), c # d PROVE HeldBy(d)'
  <2>1. Untouched(d)
    BY <1>1, OthersUntouched
  <2>2. HeldBy(d) /\ Keeps
    BY <1>1, RowsKept DEF Held
  <2>3. ASSUME InTransaction(d)
        PROVE  /\ who[d] \notin Existing'
               /\ \A u \in Existing' : users'[u].email # email[d]
               /\ who'[c] # who[d]
    <3>1. /\ who[d] \in Users
          /\ who[d] \notin Existing
          /\ \A u \in Existing : users[u].email # email[d]
          /\ who[c] # who[d]
      BY <1>1, <2>2, <2>3 DEF HeldBy, Knows
    <3>2. \A u \in Existing' \ Existing : u # who[d] /\ users'[u].email # email[d]
      BY <1>1, <2>3, UsersAdded DEF HoldsEmail
    <3>3. who'[c] # who[d]
      BY <1>1, <3>1, UsersAdded DEF Fresh
    <3> QED BY <2>2, <3>1, <3>2, <3>3 DEF Keeps
  <2>4. ASSUME stage[d] = "commit" PROVE \A u \in DOMAIN local' : local'[u] # name[d]
    BY <1>1, <2>2, <2>4, UsersAdded DEF Keeps, HeldBy, HoldsUsername
  <2>5. /\ InTransaction(d) => ~HoldsEmail(c, email[d])'
        /\ stage[d] = "commit" => ~HoldsUsername(c, name[d])'
    BY <1>1, <2>1, <2>2, EntersTransaction DEF HoldsEmail, HoldsUsername, HeldBy, Untouched
  <2>6. \A e \in Clients \ {c, d} : Untouched(e)
    BY <1>1, OthersUntouched
  <2> QED BY <2>1, <2>2, <2>3, <2>4, <2>5, <2>6
          DEF Untouched, HeldBy, HoldsEmail, HoldsUsername
<1>2. CASE Step(d)
  <2>1. HeldBy(d) /\ \A e \in Clients \ {d} : Untouched(e)
    BY <1>2, OthersUntouched DEF Held
  <2>2. ASSUME InTransaction(d)'
        PROVE  /\ who'[d] \notin Existing'
               /\ \A u \in Existing' : users'[u].email # email'[d]
               /\ \A e \in Clients \ {d} : who'[e] # who'[d] /\ ~HoldsEmail(e, email[d])'
    BY <1>2, <2>1, <2>2, EntersTransaction DEF HeldBy, EmailUsed, Fresh, HoldsEmail, Untouched
  <2>3. ASSUME stage'[d] = "commit"
        PROVE  /\ \A u \in DOMAIN local' : local'[u] # name'[d]
               /\ \A e \in Clients \ {d} : ~HoldsUsername(e, name[d])'
    BY <1>2, <2>1, <2>3, EntersTransaction DEF HoldsUsername, Untouched
  <2> QED BY <2>2, <2>3 DEF HeldBy
<1>3. CASE UNCHANGED accountVars
  BY <1>3 DEF accountVars, tables, request, Held, HeldBy, HoldsEmail, HoldsUsername
<1> QED BY <1>1, <1>2, <1>3 DEF AccountsNext, Step

-----------------------------------------------------------------------------
(***************************************************************************)
(* Deactivated accounts.                                                   *)
(***************************************************************************)
LEMMA LockedInit == AccountsInit => Locked
BY DEF AccountsInit, Locked, OpensSession

LEMMA LockedStep == Typed /\ Held /\ Locked /\ [AccountsNext]_accountVars => Locked'
<1> DEFINE LockedBy(c) == /\ \A u \in off[c] : ~users[u].active
                          /\ stage[c] = "link" /\ active[c] => who[c] \notin off[c]
                          /\ stage[c] = "find_local" \/ OpensSession(c) => who[c] \notin off[c]
<1> SUFFICES ASSUME Typed, Held, Locked, [AccountsNext]_accountVars, NEW d \in Clients
             PROVE  LockedBy(d)'
  BY DEF Locked
<1> USE AccountConstants DEF Typed, AccountsTypeOK, Existing, OpensSession
<1>1. ASSUME NEW c \in Clients, Step(c), c # d PROVE LockedBy(d)'
  BY <1>1, OthersUntouched, RowsKept DEF Untouched, Keeps, Locked
<1>2. CASE Step(d)
  <2> USE DEF Locked
  <2>1. CASE Request(d)
    BY <2>1 DEF Request, Login, Register, OAuthLogin, Refresh, Unlink, Deactivate, Arrive, tables,
         Inactive
  <2>2. ASSUME NEW u \in Users, InsertUser(d, u) PROVE LockedBy(d)'
    BY <2>2 DEF InsertUser, Goto, tables, history
  <2>3. ASSUME NEW u \in Users, CreateFromOAuth(d, u) PROVE LockedBy(d)'
    BY <1>2, <2>3, RowsKept DEF CreateFromOAuth, Goto, Fresh, Keeps
  <2>4. CASE NameTaken(d) \/ InsertLocal(d)
    BY <2>4 DEF NameTaken, InsertLocal, Goto, tables, history
  <2>5. CASE Commit(d)
    BY <1>2, <2>5, RowsKept DEF Commit, Goto, history, Keeps, Held, HeldBy, InTransaction
  <2>6. CASE FindIdentity(d) \/ FindEmail(d) \/ FindId(d)
    BY <2>6 DEF FindIdentity, FindEmail, FindId, Found, Goto, Admitted, tables, history, Knows
  <2>7. CASE FindLocal(d)
    BY <2>7 DEF FindLocal, Goto, tables, history
  <2>8. CASE Link(d)
    BY <2>8 DEF Link, Goto, Admitted, history
  <2>9. CASE DeleteLinks(d) \/ SetInactive(d)
    BY <1>2, <2>9, RowsKept DEF DeleteLinks, SetInactive, Goto, history, Keeps, Knows
  <2>10. CASE Reply(d) \/ Drop(d)
    BY <2>10 DEF Reply, Drop, Close, tables
  <2> QED BY <1>2, <2>1, <2>2, <2>3, <2>4, <2>5, <2>6, <2>7, <2>8, <2>9, <2>10
          DEF Step, Progress
<1>3. CASE UNCHANGED accountVars
  BY <1>3 DEF accountVars, tables, request, history, Locked
<1> QED BY <1>1, <1>2, <1>3 DEF AccountsNext, Step

-----------------------------------------------------------------------------
(***************************************************************************)
(* What a session claims about how it was opened.                          *)
(***************************************************************************)
LEMMA ProvenInit == AccountsInit => Proven
BY DEF AccountsInit, Proven, OpensSession, OAuthClaimIsTrue

LEMMA ProvenStep == Typed /\ Held /\ Proven /\ [AccountsNext]_accountVars => Proven'
<1> DEFINE Told(c) ==
              /\ stage[c] \in {"find_id", "find_local"} /\ op[c] = "refresh"
                 /\ opened[c] = "password" => who[c] \in DOMAIN local
              /\ OpensSession(c) /\ opened[c] = "password" => who[c] \in DOMAIN local
              /\ OpensSession(c) /\ method[c] = "oauth" => opened[c] = "oauth"
           Sessions == \A s \in sessions :
              /\ s.opened = "password" => s.user \in DOMAIN local
              /\ s.method = "oauth" => s.opened = "oauth"
<1>0. Proven <=> Sessions /\ \A d \in Clients : Told(d)
  BY DEF Proven, OAuthClaimIsTrue
<1>1. Proven' <=> Sessions' /\ \A d \in Clients : Told(d)'
  BY DEF Proven, OAuthClaimIsTrue
<1> SUFFICES ASSUME Typed, Held, Sessions, \A d \in Clients : Told(d), [AccountsNext]_accountVars
             PROVE  Sessions' /\ \A d \in Clients : Told(d)'
  BY <1>0, <1>1
<1> USE AccountConstants DEF Typed, AccountsTypeOK, Existing, OpensSession
<1>2. ASSUME NEW c \in Clients, Step(c) PROVE Sessions' /\ \A d \in Clients : Told(d)'
  <2>1. Keeps
    BY <1>2, RowsKept
  <2>2. ASSUME NEW d \in Clients \ {c} PROVE Told(d)'
    <3>1. Untouched(d) /\ Told(d)
      BY <1>2, OthersUntouched
    <3> QED BY <2>1, <3>1 DEF Untouched, Keeps
  <2>3. Told(c)
    OBVIOUS
  <2>4. ASSUME UNCHANGED sessions, Told(c)' PROVE Sessions' /\ \A d \in Clients : Told(d)'
    BY <2>1, <2>2, <2>4 DEF Keeps
  <2>5. CASE Request(c)
    BY <2>3, <2>4, <2>5 DEF Request, Login, Register, OAuthLogin, Refresh, Unlink, Deactivate,
         Arrive, tables
  <2>6. ASSUME NEW u \in Users, InsertUser(c, u)
        PROVE  Sessions' /\ \A d \in Clients : Told(d)'
    BY <2>3, <2>4, <2>6 DEF InsertUser, Goto, tables
  <2>7. ASSUME NEW u \in Users, CreateFromOAuth(c, u)
        PROVE  Sessions' /\ \A d \in Clients : Told(d)'
    BY <2>3, <2>4, <2>7 DEF CreateFromOAuth, Goto
  <2>8. CASE NameTaken(c) \/ InsertLocal(c) \/ Commit(c)
    BY <2>3, <2>4, <2>8 DEF NameTaken, InsertLocal, Commit, Goto, tables, With
  <2>9. CASE FindIdentity(c) \/ FindEmail(c) \/ FindId(c)
    BY <2>3, <2>4, <2>9 DEF FindIdentity, FindEmail, FindId, Found, Goto, Admitted, tables, Knows
  <2>10. CASE FindLocal(c)
    BY <2>3, <2>4, <2>10 DEF FindLocal, Goto, tables, Knows, Methods
  <2>11. CASE Link(c) \/ DeleteLinks(c) \/ SetInactive(c)
    BY <2>3, <2>4, <2>11 DEF Link, DeleteLinks, SetInactive, Goto, Admitted, Knows
  <2>12. CASE Reply(c)
    <3>1. Told(c)' /\ UNCHANGED local
      BY <2>12 DEF Reply, Close, tables
    <3>2. Sessions'
      BY <2>3, <2>12, <3>1 DEF Reply
    <3> QED BY <2>2, <3>1, <3>2
  <2>13. CASE Drop(c)
    BY <2>3, <2>4, <2>13 DEF Drop, Close
  <2> QED BY <1>2, <2>5, <2>6, <2>7, <2>8, <2>9, <2>10, <2>11, <2>12, <2>13 DEF Step, Progress
<1>3. CASE UNCHANGED accountVars
  BY <1>3 DEF accountVars, tables, request, history
<1> QED BY <1>2, <1>3 DEF AccountsNext, Step

-----------------------------------------------------------------------------
(***************************************************************************)
(* Registrations, identities and links.                                    *)
(***************************************************************************)
LEMMA WholeStep ==
    Typed /\ Held /\ RegistrationIsWhole /\ [AccountsNext]_accountVars => RegistrationIsWhole'
<1> SUFFICES ASSUME Typed, Held, RegistrationIsWhole, [AccountsNext]_accountVars
             PROVE  RegistrationIsWhole'
  OBVIOUS
<1> USE DEF RegistrationIsWhole, Existing
<1>1. ASSUME NEW c \in Clients, Step(c) PROVE RegistrationIsWhole'
  <2>1. CASE UNCHANGED <<users, local, bare>>
    BY <2>1
  <2>2. CASE Request(c)
    BY <2>1, <2>2 DEF Request, Login, Register, OAuthLogin, Refresh, Unlink, Deactivate, Arrive,
         tables
  <2>3. ASSUME NEW u \in Users, InsertUser(c, u) PROVE RegistrationIsWhole'
    BY <2>1, <2>3 DEF InsertUser, tables, history
  <2>4. ASSUME NEW u \in Users, CreateFromOAuth(c, u) PROVE RegistrationIsWhole'
    BY <2>4 DEF CreateFromOAuth, With
  <2>5. CASE Commit(c)
    BY <2>5 DEF Commit, With, history
  <2>6. CASE SetInactive(c)
    BY <2>6 DEF SetInactive, history, Typed, AccountsTypeOK
  <2>7. CASE \/ NameTaken(c) \/ InsertLocal(c)
             \/ FindIdentity(c) \/ FindEmail(c) \/ FindId(c) \/ FindLocal(c)
    BY <2>1, <2>7 DEF NameTaken, InsertLocal, FindIdentity, FindEmail, FindId, FindLocal, tables,
         history
  <2>8. CASE Link(c) \/ DeleteLinks(c)
    BY <2>1, <2>8 DEF Link, DeleteLinks, history
  <2>9. CASE Reply(c) \/ Drop(c)
    BY <2>1, <2>9 DEF Reply, Drop, Close, tables
  <2> QED BY <1>1, <2>2, <2>3, <2>4, <2>5, <2>6, <2>7, <2>8, <2>9 DEF Step, Progress
<1>2. CASE UNCHANGED accountVars
  BY <1>2 DEF accountVars, tables, history
<1> QED BY <1>1, <1>2 DEF AccountsNext, Step

LEMMA LandingInit == AccountsInit => Landing
BY FS_EmptySet DEF AccountsInit, Landing, OpensSession

LEMMA LandingStep == Typed /\ Held /\ Landing /\ [AccountsNext]_accountVars => Landing'
<1> DEFINE Tables == /\ \A i \in Identities : IsFiniteSet(claimed[i])
                     /\ \A i \in Identities : \A u \in landed[i] : users[u].email \in claimed[i]
                     /\ \A i \in DOMAIN links : users[links[i]].email \in claimed[i]
           Comes(c) == /\ stage[c] \in {"find_identity", "find_email", "create"} /\ op[c] = "oauth"
                             => email[c] \in claimed[ident[c]]
                       /\ op[c] = "oauth"
                          /\ (stage[c] \in {"link", "find_local"} \/ OpensSession(c))
                             => users[who[c]].email \in claimed[ident[c]]
<1>0. /\ Landing <=> Tables /\ \A d \in Clients : Comes(d)
      /\ Landing' <=> Tables' /\ \A d \in Clients : Comes(d)'
  BY DEF Landing
<1> SUFFICES ASSUME Typed, Held, Tables, \A d \in Clients : Comes(d), [AccountsNext]_accountVars
             PROVE  Tables' /\ \A d \in Clients : Comes(d)'
  BY <1>0
<1> USE AccountConstants DEF Typed, AccountsTypeOK, Existing, OpensSession
<1>1. ASSUME NEW c \in Clients, Step(c) PROVE Tables' /\ \A d \in Clients : Comes(d)'
  <2>1. Keeps
    BY <1>1, RowsKept
  <2>2. \A i \in Identities : claimed[i] \subseteq claimed'[i] /\ IsFiniteSet(claimed'[i])
    <3>1. CASE Request(c)
      <4>1. CASE UNCHANGED claimed
        BY <4>1
      <4>2. ASSUME NEW i \in Identities, NEW e \in Emails, OAuthLogin(c, i, e)
            PROVE  \A j \in Identities :
                      claimed[j] \subseteq claimed'[j] /\ IsFiniteSet(claimed'[j])
        <5>1. IsFiniteSet(claimed[i] \cup {e})
          BY FS_AddElement
        <5>2. claimed' = [claimed EXCEPT ![i] = claimed[i] \cup {e}]
          BY <4>2 DEF OAuthLogin
        <5> QED BY <5>1, <5>2
      <4> QED BY <3>1, <4>1, <4>2 DEF Request, Login, Register, Refresh, Unlink, Deactivate
    <3>2. CASE UNCHANGED claimed
      BY <3>2
    <3>3. ASSUME NEW u \in Users, InsertUser(c, u) \/ CreateFromOAuth(c, u)
          PROVE  UNCHANGED claimed
      BY <3>3 DEF InsertUser, CreateFromOAuth, history
    <3>4. CASE \/ NameTaken(c) \/ InsertLocal(c) \/ Commit(c)
               \/ Link(c) \/ DeleteLinks(c) \/ SetInactive(c)
               \/ FindIdentity(c) \/ FindEmail(c) \/ FindId(c) \/ FindLocal(c)
      BY <3>2, <3>4 DEF NameTaken, InsertLocal, Commit, Link, DeleteLinks, SetInactive,
           FindIdentity, FindEmail, FindId, FindLocal, history
    <3>5. CASE Reply(c) \/ Drop(c)
      BY <3>2, <3>5 DEF Reply, Drop, Close
    <3> QED BY <1>1, <3>1, <3>2, <3>3, <3>4, <3>5 DEF Step, Progress
  <2>3. ASSUME NEW d \in Clients \ {c} PROVE Comes(d)'
    <3>1. Untouched(d) /\ Comes(d) /\ Knows(d)
      BY <1>1, OthersUntouched
    <3> QED BY <2>1, <2>2, <3>1 DEF Untouched, Keeps, Knows
  <2>4. ASSUME UNCHANGED landed, UNCHANGED links, Comes(c)'
        PROVE  Tables' /\ \A d \in Clients : Comes(d)'
    BY <2>1, <2>2, <2>3, <2>4 DEF Keeps
  <2>5. Comes(c) /\ Knows(c)
    OBVIOUS
  <2>6. CASE Request(c)
    <3>1. Comes(c)'
      BY <2>6 DEF Request, Login, Register, OAuthLogin, Refresh, Unlink, Deactivate, Arrive
    <3>2. UNCHANGED <<landed, links>>
      BY <2>6 DEF Request, Login, Register, OAuthLogin, Refresh, Unlink, Deactivate, Arrive, tables
    <3> QED BY <2>4, <3>1, <3>2
  <2>7. ASSUME NEW u \in Users, InsertUser(c, u) PROVE Tables' /\ \A d \in Clients : Comes(d)'
    BY <2>4, <2>7 DEF InsertUser, Goto, tables, history, Knows
  <2>8. ASSUME NEW u \in Users, CreateFromOAuth(c, u)
        PROVE  Tables' /\ \A d \in Clients : Comes(d)'
    BY <2>4, <2>5, <2>8 DEF CreateFromOAuth, Goto, With, Knows
  <2>9. CASE NameTaken(c) \/ InsertLocal(c) \/ Commit(c)
    BY <2>4, <2>5, <2>9 DEF NameTaken, InsertLocal, Commit, Goto, tables, history, Knows
  <2>10. CASE FindIdentity(c)
    BY <2>4, <2>5, <2>10 DEF FindIdentity, Found, Goto, Admitted, tables, history, Knows
  <2>11. CASE FindEmail(c)
    BY <2>4, <2>5, <2>11 DEF FindEmail, Found, Goto, Admitted, tables, history, Knows
  <2>12. CASE FindId(c) \/ FindLocal(c)
    BY <2>4, <2>5, <2>12 DEF FindId, FindLocal, Found, Goto, Admitted, tables, history, Knows
  <2>13. CASE Link(c)
    <3>1. Comes(c)'
      BY <2>5, <2>13 DEF Link, Goto, Admitted, history, Knows
    <3>2. Tables'
      BY <2>5, <2>13 DEF Link, With, history, Knows
    <3> QED BY <2>3, <3>1, <3>2
  <2>14. CASE DeleteLinks(c)
    <3>1. Comes(c)'
      BY <2>5, <2>14 DEF DeleteLinks, Goto, history, Knows
    <3>2. Tables'
      BY <2>5, <2>14 DEF DeleteLinks, history
    <3> QED BY <2>3, <3>1, <3>2
  <2>15. CASE SetInactive(c)
    BY <2>4, <2>5, <2>15 DEF SetInactive, Goto, history, Knows
  <2>16. CASE Reply(c)
    <3>1. Comes(c)' /\ UNCHANGED tables /\ UNCHANGED claimed
      BY <2>5, <2>16 DEF Reply, Close
    <3>2. Tables'
      BY <2>5, <2>16, <3>1 DEF Reply, Knows, tables
    <3> QED BY <2>3, <3>1, <3>2
  <2>17. CASE Drop(c)
    BY <2>4, <2>17 DEF Drop, Close, tables
  <2> QED BY <1>1, <2>6, <2>7, <2>8, <2>9, <2>10, <2>11, <2>12, <2>13, <2>14, <2>15, <2>16, <2>17
          DEF Step, Progress
<1>2. CASE UNCHANGED accountVars
  BY <1>2 DEF accountVars, tables, request, history
<1> QED BY <1>1, <1>2 DEF AccountsNext, Step

LEMMA LandingGivesSameAccount == Typed /\ Landing => SameAccount
<1> SUFFICES ASSUME Typed, Landing, NEW i \in Identities, Cardinality(claimed[i]) = 1
             PROVE  Cardinality(landed[i]) <= 1
  BY DEF SameAccount
<1>1. PICK e : claimed[i] = {e}
  BY FS_Singleton DEF Landing
<1>2. \A u, v \in landed[i] : u = v
  BY <1>1 DEF Landing, Typed, AccountsTypeOK
<1>3. CASE landed[i] = {}
  BY <1>3, FS_EmptySet
<1>4. ASSUME NEW u \in landed[i] PROVE Cardinality(landed[i]) <= 1
  <2>1. landed[i] = {u}
    BY <1>2
  <2> QED BY <2>1, FS_Singleton
<1> QED BY <1>3, <1>4

LEMMA LinksStep == Typed /\ [AccountsNext]_accountVars => [LinkStep]_accountVars
<1> SUFFICES ASSUME Typed, NEW c \in Clients, Step(c) PROVE LinkStep
  BY DEF AccountsNext, Step
<1> USE DEF LinkStep
<1>1. CASE UNCHANGED links
  BY <1>1
<1>2. CASE Link(c)
  BY <1>2 DEF Link, With
<1>3. CASE DeleteLinks(c)
  BY <1>3 DEF DeleteLinks
<1>4. CASE Request(c)
  BY <1>1, <1>4 DEF Request, Login, Register, OAuthLogin, Refresh, Unlink, Deactivate, Arrive,
       tables
<1>5. ASSUME NEW u \in Users, InsertUser(c, u) \/ CreateFromOAuth(c, u) PROVE LinkStep
  BY <1>1, <1>5 DEF InsertUser, CreateFromOAuth, tables
<1>6. CASE \/ NameTaken(c) \/ InsertLocal(c) \/ Commit(c) \/ SetInactive(c)
           \/ FindIdentity(c) \/ FindEmail(c) \/ FindId(c) \/ FindLocal(c)
  BY <1>1, <1>6 DEF NameTaken, InsertLocal, Commit, SetInactive, FindIdentity, FindEmail, FindId,
       FindLocal, tables
<1>7. CASE Reply(c) \/ Drop(c)
  BY <1>1, <1>7 DEF Reply, Drop, Close, tables
<1> QED BY <1>2, <1>3, <1>4, <1>5, <1>6, <1>7 DEF Step, Progress

-----------------------------------------------------------------------------
(***************************************************************************)
(* The theorems.                                                           *)
(***************************************************************************)
AccountsInv == Typed /\ Held /\ Locked /\ Proven /\ Landing /\ RegistrationIsWhole

LEMMA AccountsInvariant == AccountsSpec => []AccountsInv
<1>1. AccountsInit => AccountsInv
  BY TypedInit, HeldInit, LockedInit, ProvenInit, LandingInit
     DEF AccountsInv, AccountsInit, RegistrationIsWhole, Existing
<1>2. AccountsInv /\ [AccountsNext]_accountVars => AccountsInv'
  BY TypedStep, HeldStep, LockedStep, ProvenStep, LandingStep, WholeStep DEF AccountsInv
<1> QED BY <1>1, <1>2, PTL DEF AccountsSpec

\* The rows have the types of the schema, their references are met and emails and usernames
\* are unique, whatever the requests interleave (the tables users, local_credentials and
\* oauth_credentials behind services/user.rs).
THEOREM AccountsTypeCorrect == AccountsSpec => []AccountsTypeOK
<1>1. AccountsInv => AccountsTypeOK
  BY DEF AccountsInv, Typed
<1> QED BY <1>1, AccountsInvariant, PTL

\* create is all or nothing: an account without a credential was made by an OAuth login
\* (user.rs:104-156).
THEOREM RegistrationsAreWhole == AccountsSpec => []RegistrationIsWhole
<1>1. AccountsInv => RegistrationIsWhole
  BY DEF AccountsInv
<1> QED BY <1>1, AccountsInvariant, PTL

\* A request that finds an account which was deactivated before it arrived does not end in
\* a session, whichever way it finds it (auth.rs:80-82, 119-121, 186-188).
THEOREM DisabledGetNoSession == AccountsSpec => []DisabledGetsNoSession
<1>1. AccountsInv => DisabledGetsNoSession
  BY DEF AccountsInv, Locked, DisabledGetsNoSession
<1> QED BY <1>1, AccountsInvariant, PTL

\* The auth_method a refresh derives anew never turns a password session into an OAuth one
\* (auth.rs:124-129): that needs the account to have kept its local credential.
THEOREM OAuthClaimsAreTrue == AccountsSpec => []OAuthClaimIsTrue
<1>1. AccountsInv => OAuthClaimIsTrue
  BY DEF AccountsInv, Proven
<1> QED BY <1>1, AccountsInvariant, PTL

\* An identity that always comes with one email is answered with one account
\* (auth.rs:166-184, user.rs:167-190).
THEOREM IdentitiesKeepAccount == AccountsSpec => []SameAccount
<1>1. AccountsInv => SameAccount
  BY LandingGivesSameAccount DEF AccountsInv
<1> QED BY <1>1, AccountsInvariant, PTL

\* A login never moves an identity that is linked, and only its account unlinks it
\* (user.rs:303-331, 372-395).
THEOREM LinksStay == AccountsSpec => LinksNeverMove
<1>1. AccountsInv /\ [AccountsNext]_accountVars => [LinkStep]_accountVars
  BY LinksStep DEF AccountsInv
<1> QED BY <1>1, AccountsInvariant, PTL DEF AccountsSpec, LinksNeverMove

-----------------------------------------------------------------------------
(***************************************************************************)
(* The tables keep what AccountRegistry promises.                          *)
(***************************************************************************)
\* Only a commit, an OAuth login and a deactivation write to the two tables the registry
\* looks at.
LEMMA WritersOfAccounts ==
    ASSUME NEW c \in Clients, Step(c)
    PROVE  \/ UNCHANGED <<users, local>>
           \/ Commit(c)
           \/ SetInactive(c)
           \/ \E u \in Users : CreateFromOAuth(c, u) /\ ~EmailUsed(email[c])
<1> DEFINE Goal == \/ UNCHANGED <<users, local>>
                   \/ Commit(c)
                   \/ SetInactive(c)
                   \/ \E u \in Users : CreateFromOAuth(c, u) /\ ~EmailUsed(email[c])
<1> SUFFICES Goal
  OBVIOUS
<1>1. CASE Request(c)
  BY <1>1 DEF Request, Login, Register, OAuthLogin, Refresh, Unlink, Deactivate, Arrive, tables
<1>2. ASSUME NEW u \in Users, InsertUser(c, u) PROVE Goal
  BY <1>2 DEF InsertUser, tables
<1>3. ASSUME NEW u \in Users, CreateFromOAuth(c, u) PROVE Goal
  BY <1>3 DEF CreateFromOAuth
<1>4. CASE NameTaken(c) \/ InsertLocal(c) \/ Link(c) \/ DeleteLinks(c)
  BY <1>4 DEF NameTaken, InsertLocal, Link, DeleteLinks, tables
<1>5. CASE FindIdentity(c) \/ FindEmail(c) \/ FindId(c) \/ FindLocal(c)
  BY <1>5 DEF FindIdentity, FindEmail, FindId, FindLocal, tables
<1>6. CASE Reply(c) \/ Drop(c)
  BY <1>6 DEF Reply, Drop, Close, tables
<1> QED BY <1>1, <1>2, <1>3, <1>4, <1>5, <1>6 DEF Step, Progress

LEMMA RegistryStepMaps ==
    Typed /\ Held /\ [AccountsNext]_accountVars
        => [Registry!RegistryNext]_(Registry!registry)
<1> DEFINE status == [u \in Users |-> IF u \notin Existing THEN "none"
                                      ELSE IF users[u].active THEN "active" ELSE "inactive"]
<1> SUFFICES ASSUME Typed, Held, [AccountsNext]_accountVars
             PROVE  \/ status' = status /\ DOMAIN local' = DOMAIN local
                    \/ \E u \in Users :
                          /\ status[u] = "none"
                          /\ status' = [status EXCEPT ![u] = "active"]
                          /\ \/ DOMAIN local' = DOMAIN local \cup {u}
                             \/ DOMAIN local' = DOMAIN local
                    \/ \E u \in Users :
                          /\ status[u] # "none"
                          /\ status' = [status EXCEPT ![u] = "inactive"]
                          /\ DOMAIN local' = DOMAIN local
  BY DEF Registry!RegistryNext, Registry!Enrol, Registry!Import, Registry!Retire,
         Registry!Make, Registry!registry
<1> USE DEF Existing
<1>1. ASSUME UNCHANGED <<users, local>> PROVE status' = status /\ DOMAIN local' = DOMAIN local
  BY <1>1
<1>2. ASSUME NEW c \in Clients, Commit(c)
      PROVE  /\ who[c] \in Users /\ status[who[c]] = "none"
             /\ status' = [status EXCEPT ![who[c]] = "active"]
             /\ DOMAIN local' = DOMAIN local \cup {who[c]}
  <2>1. who[c] \in Users /\ who[c] \notin Existing
    BY <1>2 DEF Commit, Typed, Knows, Held, HeldBy, InTransaction
  <2>2. /\ users' = With(users, who[c], [email |-> email[c], active |-> TRUE])
        /\ local' = With(local, who[c], name[c])
    BY <1>2 DEF Commit
  <2> QED BY <2>1, <2>2 DEF With
<1>3. ASSUME NEW c \in Clients, NEW u \in Users, CreateFromOAuth(c, u), ~EmailUsed(email[c])
      PROVE  /\ status[u] = "none"
             /\ status' = [status EXCEPT ![u] = "active"]
             /\ DOMAIN local' = DOMAIN local
  <2>1. /\ u \notin Existing
        /\ users' = With(users, u, [email |-> email[c], active |-> TRUE])
        /\ local' = local
    BY <1>3 DEF CreateFromOAuth, Fresh
  <2> QED BY <2>1 DEF With
<1>4. ASSUME NEW c \in Clients, SetInactive(c)
      PROVE  /\ who[c] \in Users /\ status[who[c]] # "none"
             /\ status' = [status EXCEPT ![who[c]] = "inactive"]
             /\ DOMAIN local' = DOMAIN local
  <2>1. /\ who[c] \in Existing
        /\ Existing \subseteq Users
        /\ users \in [Existing -> [email : Emails, active : BOOLEAN]]
    BY <1>4 DEF SetInactive, Typed, Knows, AccountsTypeOK, UserRow
  <2>2. /\ users' = [users EXCEPT ![who[c]] = [users[who[c]] EXCEPT !.active = FALSE]]
        /\ local' = local
    BY <1>4 DEF SetInactive
  <2>3. /\ DOMAIN users' = DOMAIN users
        /\ users'[who[c]].active = FALSE
        /\ \A u \in Existing \ {who[c]} : users'[u] = users[u]
    BY <2>1, <2>2
  <2> QED BY <2>1, <2>2, <2>3
<1>5. ASSUME UNCHANGED accountVars PROVE UNCHANGED <<users, local>>
  BY <1>5 DEF accountVars, tables
<1> HIDE DEF status
<1> QED BY <1>1, <1>2, <1>3, <1>4, <1>5, WritersOfAccounts DEF AccountsNext, Step

\* A registration of three statements, with the statements of others in between, is one step
\* of the registry; no account is activated again and no password goes away
\* (user.rs:104-156, 167-190, 397-406).
THEOREM TablesImplementRegistry == AccountsSpec => TablesKeepRegistry
<1>1. AccountsInit => Registry!RegistryInit
  BY DEF AccountsInit, Existing, Registry!RegistryInit
<1>2. AccountsInv => Typed /\ Held
  BY DEF AccountsInv
<1> QED BY <1>1, <1>2, RegistryStepMaps, AccountsInvariant, PTL
        DEF AccountsSpec, TablesKeepRegistry, Registry!RegistrySpec
=============================================================================
