------------------------ MODULE AccessControlProofs ------------------------
(***************************************************************************)
(* Theorems about AccessControl, for every number of accounts and requests *)
(* and every lifetime of a token.                                          *)
(***************************************************************************)
EXTENDS AccessControl, TLAPS

\* No administrator is about to change his own role.
OtherThanOwn == \A c \in Clients : stage[c] = "update" => target[c] # actor[c]

\* A user who signs in has an account.
SignsIn == \A c \in Clients : stage[c] = "read" => actor[c] \in Users

AccessInv == AccessTypeOK /\ OtherThanOwn /\ SignsIn

LEMMA AccessInitial == AccessInit => AccessInv
BY AccessConstants DEF AccessInit, AccessInv, AccessTypeOK, OtherThanOwn, SignsIn, Roles, Claims

LEMMA AccessInductive == AccessInv /\ [AccessNext]_accessVars => AccessInv'
<1> SUFFICES ASSUME AccessInv, [AccessNext]_accessVars PROVE AccessInv'
  OBVIOUS
<1> USE AccessConstants DEF AccessInv, AccessTypeOK, OtherThanOwn, SignsIn, Goto
<1>1. ASSUME NEW c \in Clients, NEW u \in Users, SignIn(c, u) PROVE AccessInv'
  BY <1>1 DEF SignIn, Arrive
<1>2. ASSUME NEW c \in Clients, NEW t \in Claims, NEW u \in Users \cup {Nobody}, NEW r \in Roles,
             UpdateRole(c, t, u, r)
      PROVE  AccessInv'
  BY <1>2 DEF UpdateRole, Arrive, Claims
<1>3. ASSUME NEW c \in Clients, ReadUser(c) PROVE AccessInv'
  BY <1>3 DEF ReadUser
<1>4. ASSUME NEW c \in Clients, ChangeRole(c) PROVE AccessInv'
  BY <1>4 DEF ChangeRole, Close, Roles
<1>5. ASSUME NEW c \in Clients, SignedIn(c) PROVE AccessInv'
  BY <1>5 DEF SignedIn, Minted, Close, Roles
<1>6. ASSUME NEW c \in Clients, Fail(c) PROVE AccessInv'
  BY <1>6 DEF Fail, Close, Roles
<1>7. CASE Tick
  BY <1>7 DEF Tick, request
<1>8. CASE UNCHANGED accessVars
  BY <1>8 DEF accessVars, request
<1> QED BY <1>1, <1>2, <1>3, <1>4, <1>5, <1>6, <1>7, <1>8 DEF AccessNext, AccessRequest, AccessStep

LEMMA AccessInvariant == AccessSpec => []AccessInv
BY AccessInitial, AccessInductive, PTL DEF AccessSpec

\* Every variable keeps its type: no token outlasts its lifetime (token.rs:43-94).
THEOREM AccessTypeCorrect == AccessSpec => []AccessTypeOK
<1>1. AccessInv => AccessTypeOK
  BY DEF AccessInv
<1> QED BY <1>1, AccessInvariant, PTL

\* The last administrator loses the role only to one who is none any more (admin.rs:28-40):
\* a change needs a target other than its actor, and an actor who still is an administrator
\* is one that remains.
THEOREM LastAdministratorIsKept == AccessSpec => LastAdministratorStays
<1>1. AccessInv /\ [AccessNext]_accessVars => [LastStep]_accessVars
  <2> SUFFICES ASSUME AccessInv, AccessNext, Administrators # {}, Administrators' = {}
               PROVE  \E c \in Clients : stage[c] = "update" /\ actor[c] \notin Administrators
    BY DEF LastStep
  <2>1. ASSUME NEW c \in Clients, ChangeRole(c)
        PROVE  actor[c] \notin Administrators
    <3> SUFFICES ASSUME actor[c] \in Administrators PROVE FALSE
      OBVIOUS
    <3>1. actor[c] \in Users /\ role[actor[c]] = "admin"
      BY DEF Administrators
    <3>2. role'[actor[c]] = role[actor[c]]
      BY <2>1, <3>1 DEF ChangeRole, AccessInv, AccessTypeOK, OtherThanOwn
    <3> QED BY <3>1, <3>2 DEF Administrators
  <2>2. ASSUME role' = role PROVE FALSE
    BY <2>2 DEF Administrators
  <2>3. \E c \in Clients : ChangeRole(c)
    BY <2>2 DEF AccessNext, AccessRequest, AccessStep, SignIn, UpdateRole, Arrive, ReadUser,
                SignedIn, Fail, Tick
  <2> QED BY <2>1, <2>3 DEF ChangeRole
<1> QED BY <1>1, AccessInvariant, PTL DEF AccessSpec, LastAdministratorStays

\* What is left of a power that was taken away only runs out, until it is given back: a
\* sign-in signs the role it has read, and while the table says less than the claim no
\* request can have read as much (models.rs:59-61, auth.rs:118-131).
THEOREM StalePowerRunsOut == AccessSpec => OutdatedRunsOut
<1>1. AccessInv /\ [AccessNext]_accessVars => [OutdatedStep]_accessVars
  <2> SUFFICES ASSUME AccessInv, AccessNext, NEW t \in Claims, Outdated(t),
                      ~IsAtLeast(role[t.sub], t.role)'
               PROVE  Outdated(t)' /\ tokens'[t] <= tokens[t]
    BY DEF OutdatedStep
  <2> USE AccessConstants DEF AccessInv, AccessTypeOK
  <2>1. /\ t.sub \in Users /\ t.role \in Roles
        /\ tokens[t] \in Nat
        /\ \A r \in Roles : Level[r] \in Nat
        /\ \A c \in Clients : ~(stage[c] = "mint" /\ actor[c] = t.sub /\ next[c] = t.role)
        /\ ~IsAtLeast(role[t.sub], t.role)
    <3>1. t.sub \in Users /\ t.role \in Roles
      BY DEF Claims
    <3>2. tokens[t] \in Nat
      OBVIOUS
    <3>3. \A r \in Roles : Level[r] \in Nat
      BY DEF Roles, Level
    <3> QED BY <3>1, <3>2, <3>3 DEF Outdated
  <2> DEFINE Signs(c) == stage[c] = "mint" /\ actor[c] = t.sub /\ next[c] = t.role
  <2> SUFFICES tokens'[t] <= tokens[t] /\ \A d \in Clients : ~Signs(d)'
    BY <2>1 DEF Outdated
  <2>2. ASSUME NEW c \in Clients, NEW u \in Users, SignIn(c, u)
        PROVE  tokens'[t] <= tokens[t] /\ \A d \in Clients : ~Signs(d)'
    BY <2>1, <2>2 DEF SignIn, Arrive, Goto
  <2>3. ASSUME NEW c \in Clients, NEW s \in Claims, NEW u \in Users \cup {Nobody},
               NEW r \in Roles, UpdateRole(c, s, u, r)
        PROVE  tokens'[t] <= tokens[t] /\ \A d \in Clients : ~Signs(d)'
    BY <2>1, <2>3 DEF UpdateRole, Arrive, Goto
  <2>4. ASSUME NEW c \in Clients, ReadUser(c)
        PROVE  tokens'[t] <= tokens[t] /\ \A d \in Clients : ~Signs(d)'
    <3>1. UNCHANGED <<tokens, role, actor>>
      BY <2>4 DEF ReadUser
    <3>2. \A r \in Roles : Level[r] >= Level[r]
      BY <2>1
    <3>3. IsAtLeast(t.role, t.role)
      BY <2>1, <3>2 DEF IsAtLeast
    <3>4. next'[c] = role[actor[c]]
      BY <2>4 DEF ReadUser
    <3>5. ~Signs(c)'
      BY <2>1, <3>1, <3>3, <3>4
    <3>6. ASSUME NEW d \in Clients, d # c PROVE ~Signs(d)'
      BY <2>1, <2>4, <3>6 DEF ReadUser, Goto
    <3> QED BY <2>1, <3>1, <3>5, <3>6
  <2>5. ASSUME NEW c \in Clients, ChangeRole(c)
        PROVE  tokens'[t] <= tokens[t] /\ \A d \in Clients : ~Signs(d)'
    BY <2>1, <2>5 DEF ChangeRole, Close, Goto
  <2>6. ASSUME NEW c \in Clients, SignedIn(c)
        PROVE  tokens'[t] <= tokens[t] /\ \A d \in Clients : ~Signs(d)'
    <3>1. t # [sub |-> actor[c], role |-> next[c]]
      BY <2>1, <2>6 DEF SignedIn
    <3>2. tokens'[t] = tokens[t]
      BY <2>6, <3>1 DEF SignedIn, Minted
    <3>3. \A d \in Clients : ~Signs(d)'
      BY <2>1, <2>6 DEF SignedIn, Close, Goto
    <3> QED BY <2>1, <3>2, <3>3
  <2>7. ASSUME NEW c \in Clients, Fail(c)
        PROVE  tokens'[t] <= tokens[t] /\ \A d \in Clients : ~Signs(d)'
    BY <2>1, <2>7 DEF Fail, Close, Goto
  <2>8. CASE Tick
    BY <2>1, <2>8 DEF Tick, request
  <2> HIDE DEF AccessInv
  <2> QED BY <2>2, <2>3, <2>4, <2>5, <2>6, <2>7, <2>8 DEF AccessNext, AccessRequest, AccessStep
<1> QED BY <1>1, AccessInvariant, PTL DEF AccessSpec, OutdatedRunsOut
=============================================================================
