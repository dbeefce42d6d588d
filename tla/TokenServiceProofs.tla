------------------------- MODULE TokenServiceProofs -------------------------
(***************************************************************************)
(* Proofs about TokenService, for every number of tokens, users and        *)
(* clients and every lifetime.                                             *)
(*                                                                         *)
(* The properties are not inductive: they speak of stored rows, and a      *)
(* rotation carries what it learnt from its SELECT across two awaits       *)
(* before it stores one.  TokenInv adds what each request between two      *)
(* statements still knows to be true of the table.                         *)
(***************************************************************************)
EXTENDS TokenService, TLAPS

\* What a rotation of tok[c] that has passed the checks can rely on.
RotationKnows(c) ==
    /\ tok[c] \in Stored
    /\ table[tok[c]].user = usr[c]
    /\ pc[c] \in {"create", "insert"} => table[tok[c]].revoked
    /\ pc[c] = "insert" => table[tok[c]].expires <= exp[c]
    /\ \A n \in Stored : table[n].parent = tok[c] => table[n].client # c

\* The arguments of the statement a request awaits.
RequestKnows(c) ==
    /\ pc[c] \in {"revoke", "create", "insert", "revoke_all"} => usr[c] \in Users
    /\ pc[c] = "revoke" => tok[c] # NoToken
    /\ pc[c] = "insert" => exp[c] <= now + RefreshTtl
    /\ pc[c] \in {"revoke", "create", "insert"} /\ tok[c] # NoToken
          => RotationKnows(c)

\* No row outlives a token issued now.
ExpiryBounded == \A t \in Stored : table[t].expires <= now + RefreshTtl

Requests == \A c \in Clients : RequestKnows(c)

TokenInv ==
    /\ TokenTypeOK
    /\ SuccessorOfRevoked
    /\ OneSuccessorPerClient
    /\ RotationExtends
    /\ ExpiryBounded
    /\ Requests

-----------------------------------------------------------------------------
(***************************************************************************)
(* The table.  TableInv is the part of TokenInv that speaks of rows only.  *)
(***************************************************************************)
TableInv ==
    /\ Stored \subseteq Tokens
    /\ table \in [Stored -> Row]
    /\ SuccessorOfRevoked
    /\ OneSuccessorPerClient
    /\ RotationExtends
    /\ ExpiryBounded

\* Setting flags and nothing else keeps TableInv: `revoked' holds of more rows.
\* This is what the two UPDATE statements do (token.rs:164-169, 180-188).
LEMMA RevokingKeepsTable ==
    ASSUME TableInv,
           now' = now,
           Stored' = Stored,
           \A t \in Stored :
               /\ table'[t] \in Row
               /\ table'[t].user = table[t].user
               /\ table'[t].expires = table[t].expires
               /\ table'[t].parent = table[t].parent
               /\ table'[t].client = table[t].client
               /\ table[t].revoked => table'[t].revoked,
           table' \in [Stored -> Row]
    PROVE  TableInv'
<1>1. Stored' \subseteq Tokens /\ (table \in [Stored -> Row])'
  BY DEF TableInv
<1>2. SuccessorOfRevoked'
  BY DEF TableInv, SuccessorOfRevoked
<1>3. OneSuccessorPerClient'
  BY DEF TableInv, OneSuccessorPerClient
<1>4. RotationExtends'
  <2> SUFFICES ASSUME NEW n \in Stored', (table[n].parent # NoToken)'
               PROVE  (table[table[n].parent].expires <= table[n].expires)'
    BY DEF RotationExtends
  <2>1. table[n].parent \in Stored
    BY DEF TableInv, SuccessorOfRevoked
  <2> QED BY <2>1 DEF TableInv, RotationExtends
<1>5. ExpiryBounded'
  BY DEF TableInv, ExpiryBounded
<1> QED BY <1>1, <1>2, <1>3, <1>4, <1>5 DEF TableInv

\* An action that leaves the table and does not turn the clock back keeps TableInv.
LEMMA SameTable ==
    ASSUME TableInv, TokenTypeOK, TokenTypeOK', table' = table, now' >= now
    PROVE  TableInv'
<1>1. ExpiryBounded'
  <2> SUFFICES ASSUME NEW t \in Stored
               PROVE  table[t].expires <= now' + RefreshTtl
    BY DEF ExpiryBounded, Stored
  <2>1. table[t].expires \in Nat /\ now \in Nat /\ now' \in Nat /\ RefreshTtl \in Nat
    BY TokenConstants DEF TokenTypeOK, Row, Expiries
  <2> QED BY <2>1 DEF TableInv, ExpiryBounded
<1>2. Stored' \subseteq Tokens /\ (table \in [Stored -> Row])'
  BY DEF TableInv, Stored
<1>3. SuccessorOfRevoked' /\ OneSuccessorPerClient' /\ RotationExtends'
  BY DEF TableInv, Stored, SuccessorOfRevoked, OneSuccessorPerClient, RotationExtends
<1> QED BY <1>1, <1>2, <1>3 DEF TableInv

LEMMA InvParts == TokenInv <=> TokenTypeOK /\ TableInv /\ Requests
BY DEF TokenInv, TableInv, TokenTypeOK
-----------------------------------------------------------------------------
(***************************************************************************)
(* Type correctness.                                                       *)
(***************************************************************************)
LEMMA NewRowType ==
    ASSUME TokenInv, NEW c \in Clients, pc[c] = "insert"
    PROVE  NewRow(c) \in Row
BY DEF TokenInv, TokenTypeOK, Requests, RequestKnows, NewRow, Row

LEMMA TypeStep == TokenInv /\ [TokenNext]_tokenVars => TokenTypeOK'
<1> SUFFICES ASSUME TokenInv, [TokenNext]_tokenVars PROVE TokenTypeOK'
  OBVIOUS
<1> USE TokenConstants DEF TokenInv, TokenTypeOK
<1>1. ASSUME NEW c \in Clients, Call(c) PROVE TokenTypeOK'
  BY <1>1 DEF Call, CallCreate, CallRotate, CallRevokeAll, Begin, Stored, Statements
<1>2. ASSUME NEW c \in Clients, SelectUnknown(c) PROVE TokenTypeOK'
  BY <1>2 DEF SelectUnknown, Stored
<1>3. ASSUME NEW c \in Clients, SelectRefused(c) PROVE TokenTypeOK'
  BY <1>3 DEF SelectRefused, Stored, Statements, Row
<1>4. ASSUME NEW c \in Clients, SelectValid(c) PROVE TokenTypeOK'
  BY <1>4 DEF SelectValid, Stored, Statements, Row
<1>5. ASSUME NEW c \in Clients, RotateRevoke(c) PROVE TokenTypeOK'
  <2>1. table' = [table EXCEPT ![tok[c]].revoked = TRUE]
    BY <1>5 DEF RotateRevoke
  <2>2. Stored' = Stored /\ table' \in [Stored -> Row]
    BY <2>1 DEF Stored, Row
  <2> QED BY <1>5, <2>2 DEF RotateRevoke, Statements
<1>6. ASSUME NEW c \in Clients, PrepareToken(c) PROVE TokenTypeOK'
  BY <1>6 DEF PrepareToken, Stored, Statements, Expiries
<1>7. ASSUME NEW c \in Clients, NEW t \in Tokens, InsertToken(c, t) PROVE TokenTypeOK'
  <2>1. NewRow(c) \in Row
    BY <1>7, NewRowType DEF InsertToken
  <2> QED BY <1>7, <2>1 DEF InsertToken, Stored
<1>8. ASSUME NEW c \in Clients, RevokeAll(c) PROVE TokenTypeOK'
  <2>1. Stored' = Stored /\ table' \in [Stored -> Row]
    BY <1>8 DEF RevokeAll, Stored, Row
  <2> QED BY <1>8, <2>1 DEF RevokeAll
<1>9. ASSUME NEW c \in Clients, Forget(c) PROVE TokenTypeOK'
  BY <1>9 DEF Forget, Stored, Expiries
<1>10. ASSUME Tick PROVE TokenTypeOK'
  BY <1>10 DEF Tick, call, Stored
<1>11. CASE UNCHANGED tokenVars
  BY <1>11 DEF tokenVars, Stored
<1> QED
  BY <1>1, <1>2, <1>3, <1>4, <1>5, <1>6, <1>7, <1>8, <1>9, <1>10, <1>11
     DEF TokenNext, Statement, Return, Abort
-----------------------------------------------------------------------------
(***************************************************************************)
(* Preservation of the rows' invariant.                                    *)
(***************************************************************************)
\* The three statements that write the table, the flag updates in one formula.
FlagsOnly ==
    /\ Stored' = Stored
    /\ \A t \in Stored :
          /\ table'[t].user = table[t].user
          /\ table'[t].expires = table[t].expires
          /\ table'[t].parent = table[t].parent
          /\ table'[t].client = table[t].client
          /\ table[t].revoked => table'[t].revoked

LEMMA UpdatesSetFlagsOnly ==
    ASSUME TokenInv, NEW c \in Clients, RotateRevoke(c) \/ RevokeAll(c)
    PROVE  FlagsOnly
<1>1. CASE RotateRevoke(c)
  BY <1>1 DEF RotateRevoke, FlagsOnly, Stored, TokenInv, TokenTypeOK, Row
<1>2. CASE RevokeAll(c)
  BY <1>2 DEF RevokeAll, FlagsOnly, Stored, TokenInv, TokenTypeOK, Row
<1> QED BY <1>1, <1>2

LEMMA UpdatesKeepTable ==
    ASSUME TokenInv, TokenTypeOK', NEW c \in Clients, RotateRevoke(c) \/ RevokeAll(c)
    PROVE  TableInv'
<1>1. FlagsOnly
  BY UpdatesSetFlagsOnly
<1>2. table' \in [Stored -> Row] /\ now' = now
  BY <1>1 DEF FlagsOnly, TokenTypeOK, RotateRevoke, RevokeAll
<1>3. TableInv
  BY InvParts
<1> QED BY <1>1, <1>2, <1>3, RevokingKeepsTable DEF FlagsOnly

LEMMA InsertKeepsTable ==
    ASSUME TokenInv, TokenTypeOK', NEW c \in Clients, NEW t \in Tokens, InsertToken(c, t)
    PROVE  TableInv'
<1> DEFINE row == NewRow(c)
<1>1. /\ Stored' = Stored \cup {t}
      /\ t \notin Stored
      /\ \A x \in Stored : table'[x] = table[x]
      /\ table'[t] = row
      /\ now' = now
  BY DEF InsertToken, Stored
<1>2. /\ row.user = usr[c]
      /\ row.expires = exp[c]
      /\ row.revoked = FALSE
      /\ row.parent = tok[c]
      /\ row.client = c
      /\ pc[c] = "insert"
  BY DEF NewRow, InsertToken
<1>3. RequestKnows(c)
  BY DEF TokenInv, Requests
<1>4. ASSUME tok[c] # NoToken PROVE RotationKnows(c)
  BY <1>2, <1>3, <1>4 DEF RequestKnows
<1>5. t # NoToken
  BY TokenConstants
<1> HIDE DEF row
<1>6. \A n \in Stored : table[n].parent # t
  BY <1>1, <1>5 DEF TokenInv, SuccessorOfRevoked
<1>7. SuccessorOfRevoked'
  BY <1>1, <1>2, <1>4, <1>6 DEF SuccessorOfRevoked, TokenInv, RotationKnows
<1>8. OneSuccessorPerClient'
  BY <1>1, <1>2, <1>4, <1>6 DEF OneSuccessorPerClient, TokenInv, RotationKnows
<1>9. RotationExtends'
  <2> SUFFICES ASSUME NEW n \in Stored', table'[n].parent # NoToken
               PROVE  table'[table'[n].parent].expires <= table'[n].expires
    BY DEF RotationExtends
  <2>1. CASE n = t
    BY <1>1, <1>2, <1>4, <2>1 DEF RotationKnows
  <2>2. CASE n # t
    <3>1. n \in Stored /\ table[n].parent \in Stored
      BY <1>1, <2>2 DEF TokenInv, SuccessorOfRevoked
    <3> QED BY <1>1, <3>1 DEF TokenInv, RotationExtends
  <2> QED BY <2>1, <2>2
<1>10. ExpiryBounded'
  BY <1>1, <1>2, <1>3 DEF ExpiryBounded, TokenInv, RequestKnows
<1> QED BY <1>7, <1>8, <1>9, <1>10 DEF TableInv, TokenTypeOK

LEMMA TableStep == TokenInv /\ TokenTypeOK' /\ [TokenNext]_tokenVars => TableInv'
<1> SUFFICES ASSUME TokenInv, TokenTypeOK', [TokenNext]_tokenVars PROVE TableInv'
  OBVIOUS
<1>1. ASSUME table' = table, now' >= now PROVE TableInv'
  BY <1>1, SameTable, InvParts
<1>2. now \in Nat
  BY TokenConstants DEF TokenInv, TokenTypeOK
<1>3. ASSUME NEW c \in Clients, Call(c) PROVE TableInv'
  BY <1>1, <1>2, <1>3 DEF Call, CallCreate, CallRotate, CallRevokeAll, Begin
<1>4. ASSUME NEW c \in Clients,
             SelectUnknown(c) \/ SelectRefused(c) \/ SelectValid(c) \/ PrepareToken(c)
      PROVE TableInv'
  BY <1>1, <1>2, <1>4 DEF SelectUnknown, SelectRefused, SelectValid, PrepareToken
<1>5. ASSUME NEW c \in Clients, RotateRevoke(c) \/ RevokeAll(c) PROVE TableInv'
  BY <1>5, UpdatesKeepTable
<1>6. ASSUME NEW c \in Clients, NEW t \in Tokens, InsertToken(c, t) PROVE TableInv'
  BY <1>6, InsertKeepsTable
<1>7. ASSUME NEW c \in Clients, Forget(c) PROVE TableInv'
  BY <1>1, <1>2, <1>7 DEF Forget
<1>8. ASSUME Tick PROVE TableInv'
  BY <1>1, <1>2, <1>8 DEF Tick
<1>9. CASE UNCHANGED tokenVars
  BY <1>1, <1>2, <1>9 DEF tokenVars
<1> QED
  BY <1>3, <1>4, <1>5, <1>6, <1>7, <1>8, <1>9 DEF TokenNext, Statement, Return, Abort

-----------------------------------------------------------------------------
(***************************************************************************)
(* What other requests know stays true.  First the step of another client  *)
(* d: rows stay, flags and the clock only grow, and a new row carries d's  *)
(* name and not c's.                                                       *)
(***************************************************************************)
TableGrows(c) ==
    /\ Stored \subseteq Stored'
    /\ \A t \in Stored :
          /\ table'[t].user = table[t].user
          /\ table'[t].expires = table[t].expires
          /\ table'[t].parent = table[t].parent
          /\ table'[t].client = table[t].client
          /\ table[t].revoked => table'[t].revoked
    /\ \A t \in Stored' \ Stored : table'[t].client # c
    /\ now \in Nat /\ now' \in Nat /\ now <= now'

LEMMA OthersKnow ==
    ASSUME TokenInv, NEW c \in Clients, TableGrows(c),
           pc'[c] = pc[c], tok'[c] = tok[c], usr'[c] = usr[c], exp'[c] = exp[c]
    PROVE  RequestKnows(c)'
<1>1. RequestKnows(c) /\ exp[c] \in Nat /\ RefreshTtl \in Nat
  BY TokenConstants DEF TokenInv, TokenTypeOK, Requests, Expiries
<1>2. ASSUME RotationKnows(c) PROVE RotationKnows(c)'
  BY <1>2 DEF RotationKnows, TableGrows
<1>3. pc'[c] = "insert" => exp'[c] <= now' + RefreshTtl
  BY <1>1 DEF RequestKnows, TableGrows
<1> QED BY <1>1, <1>2, <1>3 DEF RequestKnows
\* Every step makes the table grow as seen by a client it is not of.
LEMMA StepGrows ==
    ASSUME TokenInv, TokenTypeOK', NEW c \in Clients, NEW d \in Clients, d # c,
           Call(d) \/ Statement(d) \/ Forget(d)
    PROVE  TableGrows(c) /\ pc'[c] = pc[c] /\ tok'[c] = tok[c]
               /\ usr'[c] = usr[c] /\ exp'[c] = exp[c]
<1>1. now \in Nat /\ now' \in Nat
  BY TokenConstants DEF TokenInv, TokenTypeOK
<1>2. CASE Call(d)
  BY <1>1, <1>2 DEF Call, CallCreate, CallRotate, CallRevokeAll, Begin, TableGrows,
     Stored, TokenInv, TokenTypeOK
<1>3. CASE SelectUnknown(d) \/ SelectRefused(d) \/ SelectValid(d) \/ PrepareToken(d)
  BY <1>1, <1>3 DEF SelectUnknown, SelectRefused, SelectValid, PrepareToken, TableGrows,
     Stored, TokenInv, TokenTypeOK
<1>4. CASE RotateRevoke(d) \/ RevokeAll(d)
  <2>1. FlagsOnly
    BY <1>4, UpdatesSetFlagsOnly
  <2> QED BY <1>1, <1>4, <2>1 DEF FlagsOnly, TableGrows, RotateRevoke, RevokeAll,
          TokenInv, TokenTypeOK
<1>5. ASSUME NEW t \in Tokens, InsertToken(d, t)
      PROVE  TableGrows(c) /\ pc'[c] = pc[c] /\ tok'[c] = tok[c]
                 /\ usr'[c] = usr[c] /\ exp'[c] = exp[c]
  BY <1>1, <1>5 DEF InsertToken, NewRow, TableGrows, Stored, TokenInv, TokenTypeOK
<1>6. CASE Forget(d)
  BY <1>1, <1>6 DEF Forget, TableGrows, Stored, TokenInv, TokenTypeOK
<1> QED BY <1>2, <1>3, <1>4, <1>5, <1>6 DEF Statement

\* The step of c itself: each statement hands on what the next one relies on.
LEMMA OwnStep ==
    ASSUME TokenInv, TokenTypeOK', NEW c \in Clients, Call(c) \/ Statement(c) \/ Forget(c)
    PROVE  RequestKnows(c)'
<1> USE DEF TokenInv, TokenTypeOK
<1>1. RequestKnows(c)
  BY DEF Requests
<1>2. CASE Call(c)
  BY <1>2 DEF Call, CallCreate, CallRotate, CallRevokeAll, Begin, RequestKnows
<1>3. CASE SelectUnknown(c)
  BY <1>3 DEF SelectUnknown, RequestKnows
<1>4. CASE SelectRefused(c)
  BY <1>4 DEF SelectRefused, RequestKnows, Row
<1>5. CASE SelectValid(c)
  <2>1. ~table[tok[c]].revoked /\ tok[c] \in Stored
    BY <1>5 DEF SelectValid, Refused
  <2>2. \A n \in Stored : table[n].parent # tok[c]
    BY <2>1, TokenConstants DEF SuccessorOfRevoked
  <2> QED BY <1>5, <2>1, <2>2, TokenConstants
          DEF SelectValid, RequestKnows, RotationKnows, Row, Stored
<1>6. CASE RotateRevoke(c)
  <2>1. FlagsOnly
    BY <1>6, UpdatesSetFlagsOnly
  <2>2. RotationKnows(c) /\ usr[c] \in Users
    BY <1>1, <1>6 DEF RequestKnows, RotateRevoke
  <2>3. table'[tok[c]].revoked
    BY <1>6, <2>2 DEF RotateRevoke, RotationKnows, Stored, Row
  <2>4. pc'[c] = "create" /\ tok'[c] = tok[c] /\ usr'[c] = usr[c]
    BY <1>6 DEF RotateRevoke
  <2> QED BY <2>1, <2>2, <2>3, <2>4 DEF RequestKnows, RotationKnows, FlagsOnly
<1>7. CASE PrepareToken(c)
  <2>1. exp'[c] = now + RefreshTtl /\ pc'[c] = "insert" /\ pc[c] = "create"
        /\ table' = table /\ tok'[c] = tok[c] /\ usr'[c] = usr[c] /\ now' = now
    BY <1>7 DEF PrepareToken
  <2>2. \A t \in Stored : table[t].expires <= exp'[c]
    BY <2>1 DEF ExpiryBounded
  <2>3. exp'[c] <= now' + RefreshTtl
    BY <2>1, TokenConstants
  <2> QED BY <1>1, <2>1, <2>2, <2>3 DEF RequestKnows, RotationKnows, Stored
<1>8. ASSUME NEW t \in Tokens, InsertToken(c, t) PROVE RequestKnows(c)'
  BY <1>8 DEF InsertToken, RequestKnows
<1>9. CASE RevokeAll(c)
  BY <1>9 DEF RevokeAll, RequestKnows
<1>10. CASE Forget(c)
  BY <1>10 DEF Forget, RequestKnows
<1> QED BY <1>2, <1>3, <1>4, <1>5, <1>6, <1>7, <1>8, <1>9, <1>10 DEF Statement

LEMMA RequestsStep == TokenInv /\ TokenTypeOK' /\ [TokenNext]_tokenVars => Requests'
<1> SUFFICES ASSUME TokenInv, TokenTypeOK', [TokenNext]_tokenVars, NEW c \in Clients
             PROVE  RequestKnows(c)'
  BY DEF Requests
<1>1. ASSUME NEW d \in Clients, Call(d) \/ Statement(d) \/ Forget(d)
      PROVE  RequestKnows(c)'
  <2>1. CASE d = c
    BY <1>1, <2>1, OwnStep
  <2>2. CASE d # c
    BY <1>1, <2>2, StepGrows, OthersKnow
  <2> QED BY <2>1, <2>2
<1>2. ASSUME Tick \/ UNCHANGED tokenVars PROVE RequestKnows(c)'
  <2>1. TableGrows(c) /\ pc' = pc /\ tok' = tok /\ usr' = usr /\ exp' = exp
    BY <1>2, TokenConstants
       DEF Tick, call, tokenVars, TableGrows, Stored, TokenInv, TokenTypeOK
  <2> QED BY <2>1, OthersKnow
<1> QED BY <1>1, <1>2 DEF TokenNext, Return, Abort

-----------------------------------------------------------------------------
(***************************************************************************)
(* The theorems.                                                           *)
(***************************************************************************)
LEMMA InitInv == TokenInit => TokenInv
<1> SUFFICES ASSUME TokenInit PROVE TokenInv
  OBVIOUS
<1>1. Stored = {} /\ table \in [Stored -> Row]
  BY DEF TokenInit, Stored
<1>2. TokenTypeOK
  BY <1>1, TokenConstants DEF TokenInit, TokenTypeOK, Expiries
<1> QED
  BY <1>1, <1>2 DEF TokenInit, TokenInv, Requests, RequestKnows, ExpiryBounded,
     SuccessorOfRevoked, OneSuccessorPerClient, RotationExtends

LEMMA InvStep == TokenInv /\ [TokenNext]_tokenVars => TokenInv'
<1> SUFFICES ASSUME TokenInv, [TokenNext]_tokenVars PROVE TokenInv'
  OBVIOUS
<1>1. TokenTypeOK'
  BY TypeStep
<1>2. TableInv' /\ Requests'
  BY <1>1, TableStep, RequestsStep
<1> QED BY <1>1, <1>2 DEF TokenInv, TableInv

\* The inductive invariant holds in every reachable state.
THEOREM Invariance == TokenSpec => []TokenInv
BY InitInv, InvStep, PTL DEF TokenSpec

\* Every variable keeps its type, whatever requests run at once.
THEOREM TypeCorrect == TokenSpec => []TokenTypeOK
<1>1. TokenInv => TokenTypeOK
  BY DEF TokenInv
<1> QED BY <1>1, Invariance, PTL

\* A successor is only ever stored for a revoked token of the same user: no
\* interleaving of rotations prolongs a session whose last token still works.
THEOREM SuccessorsOfRevokedOnly == TokenSpec => []SuccessorOfRevoked
<1>1. TokenInv => SuccessorOfRevoked
  BY DEF TokenInv
<1> QED BY <1>1, Invariance, PTL

\* Single use for every client that waits for its answers, with any number of
\* other clients, aborts and repeated requests.
THEOREM SequentialSingleUse == TokenSpec => []OneSuccessorPerClient
<1>1. TokenInv => OneSuccessorPerClient
  BY DEF TokenInv
<1> QED BY <1>1, Invariance, PTL

\* Rotation never shortens a session.
THEOREM RotationNeverShortens == TokenSpec => []RotationExtends
<1>1. TokenInv => RotationExtends
  BY DEF TokenInv
<1> QED BY <1>1, Invariance, PTL
-----------------------------------------------------------------------------
\* A request that does not hold t before a step, with t revoked, does not after.
LEMMA NoNewHolder ==
    ASSUME TokenInv, [TokenNext]_tokenVars, NEW t \in Stored, table[t].revoked
    PROVE  table'[t].revoked /\ Holders(t)' \subseteq Holders(t)
<1> USE DEF Holders, TokenInv, TokenTypeOK
<1>1. t # NoToken
  BY TokenConstants
<1>2. ASSUME NEW d \in Clients, Call(d)
      PROVE  table'[t].revoked /\ Holders(t)' \subseteq Holders(t)
  BY <1>1, <1>2 DEF Call, CallCreate, CallRotate, CallRevokeAll, Begin
<1>3. ASSUME NEW d \in Clients, SelectValid(d)
      PROVE  table'[t].revoked /\ Holders(t)' \subseteq Holders(t)
  <2>1. tok[d] # t
    BY <1>3 DEF SelectValid, Refused
  <2> QED BY <1>3, <2>1 DEF SelectValid
<1>4. ASSUME NEW d \in Clients, SelectUnknown(d) \/ SelectRefused(d) \/ PrepareToken(d)
      PROVE  table'[t].revoked /\ Holders(t)' \subseteq Holders(t)
  BY <1>4 DEF SelectUnknown, SelectRefused, PrepareToken
<1>5. ASSUME NEW d \in Clients, RotateRevoke(d) \/ RevokeAll(d)
      PROVE  table'[t].revoked /\ Holders(t)' \subseteq Holders(t)
  <2>1. table'[t].revoked
    BY <1>5, UpdatesSetFlagsOnly DEF FlagsOnly
  <2> QED BY <1>5, <2>1 DEF RotateRevoke, RevokeAll
<1>6. ASSUME NEW d \in Clients, NEW x \in Tokens, InsertToken(d, x)
      PROVE  table'[t].revoked /\ Holders(t)' \subseteq Holders(t)
  BY <1>6 DEF InsertToken
<1>7. ASSUME NEW d \in Clients, Forget(d)
      PROVE  table'[t].revoked /\ Holders(t)' \subseteq Holders(t)
  BY <1>7 DEF Forget
<1>8. ASSUME Tick \/ UNCHANGED tokenVars
      PROVE  table'[t].revoked /\ Holders(t)' \subseteq Holders(t)
  BY <1>8 DEF Tick, call, tokenVars
<1> QED
  BY <1>2, <1>3, <1>4, <1>5, <1>6, <1>7, <1>8 DEF TokenNext, Statement, Return, Abort

\* A revoked token stays revoked and no further rotation of it passes the checks.
THEOREM RevocationIsFinal == TokenSpec => RevokedIsFinal
<1>1. TokenInv /\ [TokenNext]_tokenVars
        => [RevokedStep]_tokenVars
  BY NoNewHolder DEF RevokedStep
<1> QED BY <1>1, Invariance, PTL DEF TokenSpec, RevokedIsFinal

-----------------------------------------------------------------------------
(***************************************************************************)
(* TokenService implements TokenLedger: INSERT is Issue, the UPDATE of     *)
(* rotation is Retire, the UPDATE of revoke_all_user_tokens is RevokeUser, *)
(* and every other step leaves the ledger as it is.                        *)
(***************************************************************************)
Projection == [t \in Stored |-> [ user    |-> table[t].user,
                                  expires |-> table[t].expires,
                                  revoked |-> table[t].revoked,
                                  parent  |-> table[t].parent ]]

LEMMA InsertIsLedgerStep ==
    ASSUME TokenInv, NEW c \in Clients, NEW t \in Tokens, InsertToken(c, t)
    PROVE  Ledger!LedgerNext
<1>1. RequestKnows(c) /\ pc[c] = "insert" /\ usr[c] \in Users /\ exp[c] \in Expiries
  BY DEF TokenInv, TokenTypeOK, Requests, RequestKnows, InsertToken
<1>2. Ledger!Stored = Stored /\ t \notin Stored
  BY DEF Ledger!Stored, Stored, InsertToken
<1>3. Projection' = Ledger!WithRow(t, Ledger!LiveRow(usr[c], exp[c], tok[c]))
  BY <1>2 DEF Projection, Ledger!WithRow, Ledger!LiveRow, InsertToken, NewRow, Stored
<1>4. CASE tok[c] = NoToken
  <2>1. Ledger!Issue(t, usr[c], exp[c])
    BY <1>2, <1>3, <1>4 DEF Ledger!Issue, Projection
  <2> QED BY <1>1, <2>1 DEF Ledger!LedgerNext, Ledger!Issue
<1>5. CASE tok[c] # NoToken
  <2>1. /\ tok[c] \in Stored
        /\ Projection[tok[c]].revoked
        /\ Projection[tok[c]].expires <= exp[c]
        /\ Projection[tok[c]].user = usr[c]
    BY <1>1, <1>5 DEF RequestKnows, RotationKnows, Projection
  <2>2. Ledger!Succeed(t, tok[c], exp[c])
    BY <1>2, <1>3, <2>1 DEF Ledger!Succeed, Projection
  <2> QED BY <1>1, <1>2, <2>1, <2>2 DEF Ledger!LedgerNext, Ledger!Succeed
<1> QED BY <1>4, <1>5

LEMMA RotateIsRetire ==
    ASSUME TokenInv, NEW c \in Clients, RotateRevoke(c)
    PROVE  Ledger!LedgerNext
<1>1. tok[c] \in Stored /\ tok[c] \in Tokens
  BY DEF TokenInv, TokenTypeOK, Requests, RequestKnows, RotationKnows, RotateRevoke
<1>2. table' = [table EXCEPT ![tok[c]].revoked = TRUE]
  BY DEF RotateRevoke
<1>3. /\ Stored' = Stored
      /\ \A t \in Stored : /\ table'[t].user = table[t].user
                           /\ table'[t].expires = table[t].expires
                           /\ table'[t].parent = table[t].parent
                           /\ t # tok[c] => table'[t].revoked = table[t].revoked
      /\ table'[tok[c]].revoked = TRUE
  BY <1>1, <1>2 DEF Stored, TokenInv, TokenTypeOK, Row
<1>4. Projection' = [Projection EXCEPT ![tok[c]].revoked = TRUE]
  BY <1>1, <1>3 DEF Projection
<1>5. Ledger!Retire(tok[c])
  BY <1>1, <1>4 DEF Ledger!Retire, Ledger!Stored, Projection
<1> QED BY <1>1, <1>5 DEF Ledger!LedgerNext, Ledger!Retire

LEMMA RevokeAllIsRevokeUser ==
    ASSUME TokenInv, NEW c \in Clients, RevokeAll(c)
    PROVE  Ledger!LedgerNext
<1>1. usr[c] \in Users
  BY DEF TokenInv, Requests, RequestKnows, RevokeAll
<1>2. table' = [t \in Stored |->
                   [table[t] EXCEPT !.revoked = @ \/ table[t].user = usr[c]]]
  BY DEF RevokeAll
<1>3. /\ Stored' = Stored
      /\ \A t \in Stored : /\ table'[t].user = table[t].user
                           /\ table'[t].expires = table[t].expires
                           /\ table'[t].parent = table[t].parent
                           /\ table'[t].revoked = (table[t].revoked \/ table[t].user = usr[c])
  BY <1>2 DEF Stored, TokenInv, TokenTypeOK, Row
<1>4. Projection' = [t \in Stored |->
         [Projection[t] EXCEPT !.revoked = @ \/ Projection[t].user = usr[c]]]
  BY <1>3 DEF Projection
<1>5. Ledger!RevokeUser(usr[c])
  BY <1>4 DEF Ledger!RevokeUser, Ledger!Stored, Projection
<1> QED BY <1>1, <1>5 DEF Ledger!LedgerNext, Ledger!RevokeUser

\* The statements of services/token.rs, interleaved in any way, keep the promises
\* of TokenLedger.
THEOREM ImplementsLedger == TokenSpec => LedgerSpec
<1>1. TokenInit => Ledger!LedgerInit
  BY DEF TokenInit, Ledger!LedgerInit, Stored
<1>2. TokenInv /\ TokenTypeOK' /\ [TokenNext]_tokenVars
        => [Ledger!LedgerNext]_Projection
  <2> SUFFICES ASSUME TokenInv, TokenTypeOK', [TokenNext]_tokenVars
               PROVE  [Ledger!LedgerNext]_Projection
    OBVIOUS
  <2>1. ASSUME NEW c \in Clients, NEW t \in Tokens, InsertToken(c, t)
        PROVE  Ledger!LedgerNext
    BY <2>1, InsertIsLedgerStep
  <2>2. ASSUME NEW c \in Clients, RotateRevoke(c) PROVE Ledger!LedgerNext
    BY <2>2, RotateIsRetire
  <2>3. ASSUME NEW c \in Clients, RevokeAll(c) PROVE Ledger!LedgerNext
    BY <2>3, RevokeAllIsRevokeUser
  <2>4. ASSUME table' = table PROVE UNCHANGED Projection
    BY <2>4 DEF Projection, Stored
  <2> QED
    BY <2>1, <2>2, <2>3, <2>4
       DEF TokenNext, Call, CallCreate, CallRotate, CallRevokeAll, Begin, Statement,
           SelectUnknown, SelectRefused, SelectValid, PrepareToken, Return, Abort, Forget,
           Tick, tokenVars
<1> QED
  BY <1>1, <1>2, Invariance, TypeCorrect, PTL
     DEF TokenSpec, LedgerSpec, Ledger!LedgerSpec, Projection
=============================================================================
