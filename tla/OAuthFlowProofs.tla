-------------------------- MODULE OAuthFlowProofs --------------------------
(***************************************************************************)
(* Theorems about OAuthFlow, for every number of flows, codes, clients and *)
(* slugs and all lifetimes.  The inductive invariant has seven parts, each *)
(* proved with the help of those before it:                                *)
(*                                                                         *)
(*   Typed     the types, and what the stage of a request says of the flow *)
(*             or the code it carries                                      *)
(*   OnePlace  a consent is in one place at a time: its entry, a callback, *)
(*             a parked answer, a request that redeems it, or opened       *)
(*   OneFlow   an exchange code belongs to one flow, wherever it appears   *)
(*   InTime    an entry's time left is what its age leaves of its lifetime *)
(*   NotEarly  a name that left the server is of an entry that was stored, *)
(*             and is only missing when it was consumed or its time was up *)
(*   Consumed  a flow whose callback came with a code and a state and      *)
(*             failed for good has no entry                                *)
(*   Born      a flow is stored once, by the authorize that generated it   *)
(*                                                                         *)
(* With them the flow is shown to implement OneConsent.                    *)
(***************************************************************************)
EXTENDS OAuthFlow, TLAPS

Stages ==
    /\ \A f \in sent : asked[f] # None
    /\ \A c \in Clients : stage[c] \in {"insert", "redirect"} =>
          /\ flow[c] \in Flows \ sent
          /\ asked[flow[c]] # None
          /\ \A d \in Clients \ {c} : stage[d] \in {"insert", "redirect"} => flow[d] # flow[c]
    /\ \A c \in Clients : stage[c] = "take" => flow[c] \in sent
    /\ \A c \in Clients : stage[c] \in Working => flow[c] \in taken
    /\ \A c \in Clients : stage[c] \in {"park", "success"} => flow[c] \in Flows /\ code[c] \in used
    /\ \A c \in Clients : code[c] \in used \cup {None}
    /\ \A c \in Clients : stage[c] = "get" => <<flow[c], code[c]>> \in holds
    /\ \A c \in Clients : stage[c] = "session" => load[c] \in Flows

Typed == OAuthTypeOK /\ Stages

\* Request c carries the consent of flow f; answer k does.
Carries(c, f) == \/ stage[c] \in Working /\ flow[c] = f
                 \/ stage[c] = "session" /\ load[c] = f

Parks(k, f) == k \in DOMAIN parked /\ parked[k].flow = f

Nowhere(f) == /\ \A c \in Clients : ~Carries(c, f)
              /\ \A k \in Codes : ~Parks(k, f)

OnePlace ==
    /\ \A f \in DOMAIN pending : f \notin taken
    /\ \A f \in Flows : f \notin taken => Nowhere(f) /\ opened[f] = 0
    /\ \A f \in Flows : opened[f] # 0 => Nowhere(f) /\ opened[f] = 1
    /\ \A c, d \in Clients : \A f \in Flows : Carries(c, f) /\ Carries(d, f) => c = d
    /\ \A k, l \in Codes : \A f \in Flows : Parks(k, f) /\ Parks(l, f) => k = l
    /\ \A c \in Clients : \A k \in Codes : \A f \in Flows : ~(Carries(c, f) /\ Parks(k, f))

Bound(k, f) == \/ \E c \in Clients : /\ stage[c] \in {"park", "success"}
                                     /\ code[c] = k
                                     /\ flow[c] = f
               \/ Parks(k, f)
               \/ <<f, k>> \in holds

OneFlow ==
    /\ \A k \in Codes : \A f, g \in Flows : Bound(k, f) /\ Bound(k, g) => f = g
    /\ SessionIsOfConsent

InTime ==
    /\ \A f \in DOMAIN pending : waited[f] = StateTtl - pending[f].left
    /\ \A k \in DOMAIN parked  : kept[k] = ExchangeTtl - parked[k].left

\* A flow whose state has left the server has been stored, and has not vanished early.
Stored(f) == f \in DOMAIN pending \/ f \in taken \/ waited[f] = StateTtl

Given(k) == k \in DOMAIN parked \/ k \in redeemed \/ kept[k] = ExchangeTtl

SentIsStored == \A f \in sent : Stored(f)

HeldIsGiven == \A f \in Flows, k \in Codes : <<f, k>> \in holds => Given(k)

AnswerIsTrue ==
    \A c \in Clients : /\ stage[c] = "redirect" => Stored(flow[c])
                       /\ stage[c] = "success" => Given(code[c])

RefusalIsOfKnown ==
    \A c \in Clients :
        /\ stage[c] = "InvalidState" /\ route[c] # None => flow[c] \in sent
        /\ stage[c] = "ExchangeCodeInvalid" => <<flow[c], code[c]>> \in holds

ParksFresh ==
    \A c \in Clients : stage[c] = "park" =>
        /\ \A d \in Clients \ {c} : code[d] # code[c]
        /\ \A f \in Flows : <<f, code[c]>> \notin holds

NotEarly == SentIsStored /\ HeldIsGiven /\ AnswerIsTrue /\ RefusalIsOfKnown
            /\ ParksFresh /\ RefusedOnlyWhenSpent

\* The errors after which a callback may be tried again.
Passing == {"ProviderDenied", "UnknownProvider", "ProviderNotConfigured", "StateStore",
            "StateStoreRedis"}

Consumed ==
    /\ \A c \in Clients : stage[c] \in ErrorAnswers \ Passing /\ route[c] # None =>
          flow[c] \in sent \ DOMAIN pending
    /\ \A c \in Clients : stage[c] = "success" => flow[c] \in taken
    /\ \A f \in Flows, k \in Codes : <<f, k>> \in holds => f \in taken

\* A flow is stored when it was asked for and has not been stored before, and nothing is
\* made of it earlier.
Born ==
    /\ \A f \in Flows : asked[f] = None => waited[f] = -1
    /\ \A c \in Clients : stage[c] = "insert" => waited[flow[c]] = -1
    /\ \A f \in taken \cup DOMAIN pending : waited[f] # -1

-----------------------------------------------------------------------------
LEMMA ErrorNames ==
    /\ {"InvalidRedirectUri", "StateStore", "StateStoreRedis", "ProviderDenied", "InvalidState",
        "UnknownProvider", "ProviderNotConfigured", "ProviderMismatch", "TokenExchange",
        "ProviderUnreachable", "IncompleteProfile", "AccountDisabled", "EmailTaken", "Database",
        "ExchangeCodeInvalid"} \subseteq ErrorAnswers
    /\ ErrorAnswers \cap {"idle", "insert", "take", "exchange", "profile", "emails", "login",
                         "park", "success", "get", "session", "redirect"} = {}
<1>1. ErrorAnswers = DOMAIN AppStatus \cup DOMAIN OAuthStatus
  BY DEF ErrorAnswers, Status
<1> QED BY <1>1 DEF AppStatus, OAuthStatus

-----------------------------------------------------------------------------
LEMMA Resolved ==
    ASSUME NEW s \in Slugs, Unavailable(s) = None
    PROVE  FromSlug(s) \in Providers
<1>1. FromSlug(s) # None
  BY OAuthConstants, ErrorNames DEF Unavailable
<1>2. \E p \in Providers : Slug[p] = s
  BY <1>1 DEF FromSlug
<1>3. FromSlug(s) = CHOOSE p \in Providers : Slug[p] = s
  BY <1>2 DEF FromSlug
<1> QED BY <1>2, <1>3

LEMMA TypedInit == OAuthInit => Typed
BY OAuthConstants, ErrorNames DEF OAuthInit, Typed, OAuthTypeOK, Stages, Answers, Working

LEMMA TypedStep == Typed /\ [OAuthNext]_vars => Typed'
<1> SUFFICES ASSUME Typed, [OAuthNext]_vars PROVE Typed'
  OBVIOUS
<1> USE OAuthConstants, ErrorNames DEF Typed, OAuthTypeOK, Stages, Answers, Working
<1>1. ASSUME NEW c \in Clients, NEW s \in Slugs, AuthorizeRefused(c, s) PROVE Typed'
  BY <1>1 DEF AuthorizeRefused, Arrive, Goto, Unavailable, valkey, history
<1>2. ASSUME NEW c \in Clients, NEW s \in Slugs, NEW f \in Flows, Authorize(c, s, f) PROVE Typed'
  <2>1. FromSlug(s) \in Providers
    BY <1>2, Resolved DEF Authorize
  <2>2. FromSlug(s) # None
    BY <2>1, OAuthConstants
  <2> QED BY <1>2, <2>1, <2>2 DEF Authorize, Arrive, Goto, valkey, history
<1>3. ASSUME NEW c \in Clients, NEW s \in Slugs, NEW f \in Flows, Callback(c, f, s) PROVE Typed'
  BY <1>3 DEF Callback, Arrive, Goto, Unavailable, valkey, history
<1>4. ASSUME NEW c \in Clients, NEW s \in Slugs, NEW f \in Flows \cup {None},
             CallbackRefused(c, f, s)
      PROVE  Typed'
  BY <1>4 DEF CallbackRefused, Arrive, Goto, Unavailable, valkey, history
<1>5. ASSUME NEW c \in Clients, NEW f \in Flows, NEW k \in Codes, Session(c, f, k) PROVE Typed'
  BY <1>5 DEF Session, Arrive, Goto, Unavailable, valkey, history
<1>6. ASSUME NEW c \in Clients, PoolFails(c) PROVE Typed'
  BY <1>6 DEF PoolFails, Goto, valkey, history, outside
<1>7. ASSUME NEW c \in Clients, InsertState(c) PROVE Typed'
  BY <1>7 DEF InsertState, Goto, With, Slug, Providers, outside
<1>8. ASSUME NEW c \in Clients, Take(c) PROVE Typed'
  <2>1. PICK s \in {"InvalidState", "ProviderMismatch", "exchange", "StateStoreRedis"} :
           stage' = [stage EXCEPT ![c] = s] /\ (s = "exchange" => flow[c] \in DOMAIN pending)
    BY <1>8 DEF Take, Goto, Accepts
  <2>2. OAuthTypeOK'
    BY <1>8, <2>1 DEF Take, Without, outside
  <2>3. Stages'
    BY <1>8, <2>1 DEF Take, outside
  <2> QED BY <2>2, <2>3
<1>9. ASSUME NEW c \in Clients, Exchange(c) PROVE Typed'
  BY <1>9 DEF Exchange, Goto, valkey, history
<1>10. ASSUME NEW c \in Clients, FetchProfile(c) PROVE Typed'
  <2>1. PICK s \in {"login", "emails", "IncompleteProfile", "ProviderUnreachable"} :
           stage' = [stage EXCEPT ![c] = s]
    BY <1>10 DEF FetchProfile, Goto
  <2>2. stage[c] \in {"profile", "emails"}
        /\ UNCHANGED <<config, pending, parked, flow, route, code, load, outside, history>>
    BY <1>10 DEF FetchProfile, valkey
  <2> QED BY <2>1, <2>2 DEF history, outside
<1>11. ASSUME NEW c \in Clients, NEW k \in Codes, Login(c, k) PROVE Typed'
  <2>1. OAuthTypeOK'
    BY <1>11 DEF Login, Goto, valkey, outside
  <2>2. CASE k \notin used /\ code' = [code EXCEPT ![c] = k] /\ used' = used \cup {k}
             /\ Goto(c, "park")
    <3>1. Stages'
      BY <1>11, <2>2 DEF Login, Goto, valkey, outside
    <3> QED BY <2>1, <3>1
  <2>3. CASE (\E s \in {"AccountDisabled", "EmailTaken", "Database"} : Goto(c, s))
             /\ UNCHANGED <<code, used>>
    <3>1. Stages'
      BY <1>11, <2>3 DEF Login, Goto, valkey, outside
    <3> QED BY <2>1, <3>1
  <2> QED BY <1>11, <2>2, <2>3 DEF Login
<1>12. ASSUME NEW c \in Clients, Park(c) PROVE Typed'
  BY <1>12 DEF Park, Goto, With, outside
<1>13. ASSUME NEW c \in Clients, TakeExchange(c) PROVE Typed'
  <2>1. OAuthTypeOK'
    BY <1>13 DEF TakeExchange, Goto, Without, outside
  <2>2. Stages'
    BY <1>13 DEF TakeExchange, Goto, Without, outside
  <2> QED BY <2>1, <2>2
<1>14. ASSUME NEW c \in Clients, Reply(c) PROVE Typed'
  BY <1>14 DEF Reply, Close, Goto, valkey
<1>15. ASSUME NEW c \in Clients, Drop(c) PROVE Typed'
  BY <1>15 DEF Drop, Close, Goto, valkey
<1>16. CASE Tick
  <2>1. DOMAIN pending' \subseteq Flows /\ DOMAIN parked' \subseteq used
    BY <1>16 DEF Tick, Older
  <2>2. pending' \in [DOMAIN pending' -> [slug : {Slug[p] : p \in Providers}, left : 1 .. StateTtl]]
    <3> SUFFICES ASSUME NEW f \in DOMAIN pending'
                 PROVE  pending'[f] \in [slug : {Slug[p] : p \in Providers}, left : 1 .. StateTtl]
      BY <1>16 DEF Tick, Older
    <3>1. f \in DOMAIN pending /\ pending[f].left > 1
          /\ pending'[f] = [pending[f] EXCEPT !.left = @ - 1]
      BY <1>16 DEF Tick, Older
    <3>2. pending[f] \in [slug : {Slug[p] : p \in Providers}, left : 1 .. StateTtl]
      BY <3>1
    <3>3. pending[f].left \in 1 .. StateTtl
      BY <3>2
    <3>4. pending[f].left - 1 \in 1 .. StateTtl
      BY <3>1, <3>3
    <3> HIDE DEF Typed, OAuthTypeOK
    <3> QED BY <3>1, <3>2, <3>4, Zenon
  <2>3. parked' \in [DOMAIN parked' -> [flow : Flows, left : 1 .. ExchangeTtl]]
    <3> SUFFICES ASSUME NEW k \in DOMAIN parked'
                 PROVE  parked'[k] \in [flow : Flows, left : 1 .. ExchangeTtl]
      BY <1>16 DEF Tick, Older
    <3>1. k \in DOMAIN parked /\ parked[k].left > 1
          /\ parked'[k] = [parked[k] EXCEPT !.left = @ - 1]
      BY <1>16 DEF Tick, Older
    <3>2. parked[k] \in [flow : Flows, left : 1 .. ExchangeTtl]
      BY <3>1
    <3>3. parked[k].left \in 1 .. ExchangeTtl
      BY <3>2
    <3>4. parked[k].left - 1 \in 1 .. ExchangeTtl
      BY <3>1, <3>3
    <3> HIDE DEF Typed, OAuthTypeOK
    <3> QED BY <3>1, <3>2, <3>4, Zenon
  <2>4. waited' \in [Flows -> -1 .. StateTtl] /\ kept' \in [Codes -> -1 .. ExchangeTtl]
    BY <1>16 DEF Tick, Later
  <2>5. OAuthTypeOK'
    BY <1>16, <2>1, <2>2, <2>3, <2>4 DEF Tick, request, outside
  <2>6. Stages'
    BY <1>16 DEF Tick, request, outside
  <2> QED BY <2>5, <2>6
<1>17. CASE UNCHANGED vars
  BY <1>17 DEF vars, valkey, request, outside, history
<1> QED
  BY <1>1, <1>2, <1>3, <1>4, <1>5, <1>6, <1>7, <1>8, <1>9, <1>10, <1>11, <1>12, <1>13, <1>14,
     <1>15, <1>16, <1>17 DEF OAuthNext, OAuthRequest, OAuthStep
LEMMA UsedCodes ==
    ASSUME Typed, NEW c \in Clients, stage[c] \in {"park", "success", "get"}
    PROVE  code[c] \in Codes
<1>1. used \subseteq Codes
  BY DEF Typed, OAuthTypeOK
<1>2. CASE stage[c] \in {"park", "success"}
  <2>1. code[c] \in used
    BY <1>2 DEF Typed, Stages
  <2> QED BY <1>1, <2>1
<1>3. CASE stage[c] = "get"
  <2>1. <<flow[c], code[c]>> \in holds
    BY <1>3 DEF Typed, Stages
  <2>2. holds \subseteq Flows \X used
    BY DEF Typed, OAuthTypeOK
  <2> QED BY <1>1, <2>1, <2>2
<1> QED BY <1>2, <1>3

LEMMA OnePlaceInit == OAuthInit => OnePlace
BY DEF OAuthInit, OnePlace, Nowhere, Carries, Parks, Working

LEMMA OnePlaceStep == Typed /\ OnePlace /\ [OAuthNext]_vars => OnePlace'
<1> SUFFICES ASSUME Typed, OnePlace, [OAuthNext]_vars PROVE OnePlace'
  OBVIOUS
<1> USE OAuthConstants, ErrorNames
       DEF Typed, OAuthTypeOK, Stages, Answers, Working, OnePlace, Nowhere, Carries, Parks
<1>1. ASSUME NEW c \in Clients, NEW s \in Slugs, AuthorizeRefused(c, s) PROVE OnePlace'
  BY <1>1 DEF AuthorizeRefused, Arrive, Goto, Unavailable, valkey, history
<1>2. ASSUME NEW c \in Clients, NEW s \in Slugs, NEW f \in Flows, Authorize(c, s, f)
      PROVE  OnePlace'
  BY <1>2 DEF Authorize, Arrive, Goto, valkey, history
<1>3. ASSUME NEW c \in Clients, NEW s \in Slugs, NEW f \in Flows, Callback(c, f, s)
      PROVE  OnePlace'
  BY <1>3 DEF Callback, Arrive, Goto, valkey, history
<1>4. ASSUME NEW c \in Clients, NEW s \in Slugs, NEW f \in Flows \cup {None},
             CallbackRefused(c, f, s)
      PROVE  OnePlace'
  BY <1>4 DEF CallbackRefused, Arrive, Goto, Unavailable, valkey, history
<1>5. ASSUME NEW c \in Clients, NEW f \in Flows, NEW k \in Codes, Session(c, f, k)
      PROVE  OnePlace'
  BY <1>5 DEF Session, Arrive, Goto, valkey, history
<1>6. ASSUME NEW c \in Clients, PoolFails(c) PROVE OnePlace'
  BY <1>6 DEF PoolFails, Goto, valkey, history, outside
<1>7. ASSUME NEW c \in Clients, InsertState(c) PROVE OnePlace'
  BY <1>7 DEF InsertState, Goto, With, outside
<1>8. ASSUME NEW c \in Clients, Take(c) PROVE OnePlace'
  <2>1. \A d \in Clients, g \in Flows :
           Carries(d, g)' => Carries(d, g) \/ (d = c /\ g = flow[c] /\ g \in DOMAIN pending)
    BY <1>8 DEF Take, Goto, Accepts
  <2>2. /\ \A k \in Codes, g \in Flows : Parks(k, g)' <=> Parks(k, g)
        /\ DOMAIN pending' = DOMAIN pending \ {flow[c]}
        /\ taken' = taken \cup (DOMAIN pending \cap {flow[c]})
        /\ opened' = opened
    BY <1>8 DEF Take, Without
  <2>3. DOMAIN pending \subseteq Flows
    OBVIOUS
  <2> HIDE DEF Typed, OAuthTypeOK, Stages, Working, Answers, Carries, Parks
  <2> QED BY <2>1, <2>2, <2>3
<1>9. ASSUME NEW c \in Clients, Exchange(c) PROVE OnePlace'
  BY <1>9 DEF Exchange, Goto, valkey, history
<1>10. ASSUME NEW c \in Clients, FetchProfile(c) PROVE OnePlace'
  BY <1>10 DEF FetchProfile, Goto, valkey, history, outside
<1>11. ASSUME NEW c \in Clients, NEW k \in Codes, Login(c, k) PROVE OnePlace'
  <2>1. \A d \in Clients, g \in Flows : Carries(d, g)' => Carries(d, g)
    BY <1>11 DEF Login, Goto, valkey
  <2>2. /\ \A j \in Codes, g \in Flows : Parks(j, g)' <=> Parks(j, g)
        /\ UNCHANGED <<pending, taken, opened>>
    BY <1>11 DEF Login, valkey
  <2> HIDE DEF Typed, OAuthTypeOK, Stages, Working, Answers, Carries, Parks
  <2> QED BY <2>1, <2>2
<1>12. ASSUME NEW c \in Clients, Park(c) PROVE OnePlace'
  <2>1. flow[c] \in Flows /\ code[c] \in Codes /\ Carries(c, flow[c])
    BY <1>12, UsedCodes DEF Park
  <2>2. \A d \in Clients, g \in Flows : Carries(d, g)' => Carries(d, g) /\ d # c
    BY <1>12 DEF Park, Goto
  <2>3. \A j \in Codes, g \in Flows : Parks(j, g)' =>
           \/ Parks(j, g)
           \/ j = code[c] /\ g = flow[c]
    BY <1>12 DEF Park, With
  <2>4. UNCHANGED <<pending, taken, opened>>
    BY <1>12 DEF Park
  <2> HIDE DEF Typed, OAuthTypeOK, Stages, Working, Answers, Carries, Parks
  <2> QED BY <2>1, <2>2, <2>3, <2>4
<1>13. ASSUME NEW c \in Clients, TakeExchange(c) PROVE OnePlace'
  <2>1. code[c] \in Codes
    BY <1>13, UsedCodes DEF TakeExchange
  <2>2. \A d \in Clients, g \in Flows :
           Carries(d, g)' => Carries(d, g) \/ (d = c /\ Parks(code[c], g))
    BY <1>13 DEF TakeExchange, Goto
  <2>3. \A j \in Codes, g \in Flows : Parks(j, g)' => Parks(j, g) /\ j # code[c]
    BY <1>13 DEF TakeExchange, Without
  <2>4. UNCHANGED <<pending, taken, opened>>
    BY <1>13 DEF TakeExchange
  <2> HIDE DEF Typed, OAuthTypeOK, Stages, Working, Answers, Carries, Parks
  <2> QED BY <2>1, <2>2, <2>3, <2>4
<1>14. ASSUME NEW c \in Clients, Reply(c) PROVE OnePlace'
  <2>1. \A d \in Clients, g \in Flows : Carries(d, g)' => Carries(d, g) /\ d # c
    BY <1>14 DEF Reply, Close, Goto
  <2>2. /\ \A j \in Codes, g \in Flows : Parks(j, g)' <=> Parks(j, g)
        /\ UNCHANGED <<pending, taken>>
    BY <1>14 DEF Reply, Close, valkey
  <2>3. \/ opened' = opened
        \/ /\ load[c] \in Flows /\ Carries(c, load[c])
           /\ opened' = [opened EXCEPT ![load[c]] = @ + 1]
    BY <1>14 DEF Reply
  <2>4. opened \in [Flows -> Nat]
    OBVIOUS
  <2> HIDE DEF Typed, OAuthTypeOK, Stages, Working, Answers, Carries, Parks
  <2> QED BY <2>1, <2>2, <2>3, <2>4
<1>15. ASSUME NEW c \in Clients, Drop(c) PROVE OnePlace'
  BY <1>15 DEF Drop, Close, Goto, valkey
<1>16. CASE Tick
  BY <1>16 DEF Tick, Older, Later, request, outside
<1>17. CASE UNCHANGED vars
  BY <1>17 DEF vars, valkey, request, outside, history
<1> QED
  BY <1>1, <1>2, <1>3, <1>4, <1>5, <1>6, <1>7, <1>8, <1>9, <1>10, <1>11, <1>12, <1>13, <1>14,
     <1>15, <1>16, <1>17 DEF OAuthNext, OAuthRequest, OAuthStep

LEMMA OneFlowInit == OAuthInit => OneFlow
BY DEF OAuthInit, OneFlow, Bound, Parks, SessionIsOfConsent

LEMMA OneFlowStep == Typed /\ OneFlow /\ [OAuthNext]_vars => OneFlow'
<1> SUFFICES ASSUME Typed, OneFlow, [OAuthNext]_vars PROVE OneFlow'
  OBVIOUS
<1> USE OAuthConstants, ErrorNames
       DEF Typed, OAuthTypeOK, Stages, Answers, Working, OneFlow, Bound, Parks, SessionIsOfConsent
<1>1. ASSUME NEW c \in Clients, NEW s \in Slugs, AuthorizeRefused(c, s) PROVE OneFlow'
  BY <1>1 DEF AuthorizeRefused, Arrive, Goto, Unavailable, valkey, history
<1>2. ASSUME NEW c \in Clients, NEW s \in Slugs, NEW f \in Flows, Authorize(c, s, f)
      PROVE  OneFlow'
  BY <1>2 DEF Authorize, Arrive, Goto, valkey, history
<1>3. ASSUME NEW c \in Clients, NEW s \in Slugs, NEW f \in Flows, Callback(c, f, s)
      PROVE  OneFlow'
  BY <1>3 DEF Callback, Arrive, Goto, valkey, history
<1>4. ASSUME NEW c \in Clients, NEW s \in Slugs, NEW f \in Flows \cup {None},
             CallbackRefused(c, f, s)
      PROVE  OneFlow'
  BY <1>4 DEF CallbackRefused, Arrive, Goto, Unavailable, valkey, history
<1>5. ASSUME NEW c \in Clients, NEW f \in Flows, NEW k \in Codes, Session(c, f, k)
      PROVE  OneFlow'
  BY <1>5 DEF Session, Arrive, Goto, valkey, history
<1>6. ASSUME NEW c \in Clients, PoolFails(c) PROVE OneFlow'
  BY <1>6 DEF PoolFails, Goto, valkey, history, outside
<1>7. ASSUME NEW c \in Clients, InsertState(c) PROVE OneFlow'
  BY <1>7 DEF InsertState, Goto, With, outside
<1>8. ASSUME NEW c \in Clients, Take(c) PROVE OneFlow'
  BY <1>8 DEF Take, Goto, Without, Accepts, outside
<1>9. ASSUME NEW c \in Clients, Exchange(c) PROVE OneFlow'
  BY <1>9 DEF Exchange, Goto, valkey, history
<1>10. ASSUME NEW c \in Clients, FetchProfile(c) PROVE OneFlow'
  BY <1>10 DEF FetchProfile, Goto, valkey, history, outside
<1>11. ASSUME NEW c \in Clients, NEW k \in Codes, Login(c, k) PROVE OneFlow'
  BY <1>11 DEF Login, Goto, valkey, outside
<1>12. ASSUME NEW c \in Clients, Park(c) PROVE OneFlow'
  BY <1>12 DEF Park, Goto, With, outside
<1>13. ASSUME NEW c \in Clients, TakeExchange(c) PROVE OneFlow'
  <2>1. \A j \in Codes, g \in Flows : Bound(j, g)' => Bound(j, g)
    <3>1. \A j \in Codes, g \in Flows : Parks(j, g)' => Parks(j, g)
      BY <1>13 DEF TakeExchange, Without
    <3>2. /\ \A d \in Clients : stage'[d] \in {"park", "success"} => stage'[d] = stage[d]
          /\ UNCHANGED <<flow, code, holds>>
      BY <1>13 DEF TakeExchange, Goto, outside
    <3> HIDE DEF Parks, Typed, OneFlow
    <3> QED BY <3>1, <3>2
  <2>2. SessionIsOfConsent'
    <3> SUFFICES ASSUME NEW d \in Clients, stage'[d] = "session" PROVE load'[d] = flow'[d]
      OBVIOUS
    <3>1. CASE d # c
      BY <1>13, <3>1 DEF TakeExchange, Goto
    <3>2. CASE d = c
      <4>0. stage'[c] = "session"
        BY <3>2
      <4>1. /\ code[c] \in DOMAIN parked /\ load'[c] = parked[code[c]].flow /\ flow' = flow
            /\ code[c] \in Codes /\ flow[c] \in Flows /\ load'[c] \in Flows
        <5>1. code[c] \in DOMAIN parked /\ load' = [load EXCEPT ![c] = parked[code[c]].flow]
          BY <1>13, <4>0 DEF TakeExchange, Goto
        <5>2. code[c] \in Codes /\ <<flow[c], code[c]>> \in holds /\ flow' = flow
          BY <1>13, UsedCodes DEF TakeExchange
        <5> QED BY <5>1, <5>2
      <4>2. Bound(code[c], load'[c])
        BY <4>1
      <4>3. Bound(code[c], flow[c])
        BY <1>13 DEF TakeExchange
      <4> HIDE DEF Bound, Typed, OAuthTypeOK, Stages
      <4> QED BY <3>2, <4>1, <4>2, <4>3
    <3> QED BY <3>1, <3>2
  <2> HIDE DEF Bound, SessionIsOfConsent, Typed
  <2> QED BY <2>1, <2>2
<1>14. ASSUME NEW c \in Clients, Reply(c) PROVE OneFlow'
  BY <1>14 DEF Reply, Close, Goto, valkey
<1>15. ASSUME NEW c \in Clients, Drop(c) PROVE OneFlow'
  BY <1>15 DEF Drop, Close, Goto, valkey
<1>16. CASE Tick
  BY <1>16 DEF Tick, Older, Later, request, outside
<1>17. CASE UNCHANGED vars
  BY <1>17 DEF vars, valkey, request, outside, history
<1> QED
  BY <1>1, <1>2, <1>3, <1>4, <1>5, <1>6, <1>7, <1>8, <1>9, <1>10, <1>11, <1>12, <1>13, <1>14,
     <1>15, <1>16, <1>17 DEF OAuthNext, OAuthRequest, OAuthStep

LEMMA InTimeInit == OAuthInit => InTime
BY DEF OAuthInit, InTime

LEMMA InTimeStep == Typed /\ InTime /\ [OAuthNext]_vars => InTime'
<1> SUFFICES ASSUME Typed, InTime, [OAuthNext]_vars PROVE InTime'
  OBVIOUS
<1> USE OAuthConstants
       DEF Typed, OAuthTypeOK, Stages, InTime
<1>1. ASSUME NEW c \in Clients, NEW s \in Slugs, AuthorizeRefused(c, s) PROVE InTime'
  BY <1>1 DEF AuthorizeRefused, Arrive, Goto, valkey, history
<1>2. ASSUME NEW c \in Clients, NEW s \in Slugs, NEW f \in Flows, Authorize(c, s, f)
      PROVE  InTime'
  BY <1>2 DEF Authorize, Arrive, Goto, valkey, history
<1>3. ASSUME NEW c \in Clients, NEW s \in Slugs, NEW f \in Flows, Callback(c, f, s)
      PROVE  InTime'
  BY <1>3 DEF Callback, Arrive, Goto, valkey, history
<1>4. ASSUME NEW c \in Clients, NEW s \in Slugs, NEW f \in Flows \cup {None},
             CallbackRefused(c, f, s)
      PROVE  InTime'
  BY <1>4 DEF CallbackRefused, Arrive, Goto, valkey, history
<1>5. ASSUME NEW c \in Clients, NEW f \in Flows, NEW k \in Codes, Session(c, f, k)
      PROVE  InTime'
  BY <1>5 DEF Session, Arrive, Goto, valkey, history
<1>6. ASSUME NEW c \in Clients, PoolFails(c) PROVE InTime'
  BY <1>6 DEF PoolFails, Goto, valkey, history, outside
<1>7. ASSUME NEW c \in Clients, InsertState(c) PROVE InTime'
  BY <1>7 DEF InsertState, Goto, With, outside
<1>8. ASSUME NEW c \in Clients, Take(c) PROVE InTime'
  BY <1>8 DEF Take, Goto, Without, Accepts, outside
<1>9. ASSUME NEW c \in Clients, Exchange(c) PROVE InTime'
  BY <1>9 DEF Exchange, Goto, valkey, history
<1>10. ASSUME NEW c \in Clients, FetchProfile(c) PROVE InTime'
  BY <1>10 DEF FetchProfile, Goto, valkey, history, outside
<1>11. ASSUME NEW c \in Clients, NEW k \in Codes, Login(c, k) PROVE InTime'
  BY <1>11 DEF Login, Goto, valkey, outside
<1>12. ASSUME NEW c \in Clients, Park(c) PROVE InTime'
  BY <1>12 DEF Park, Goto, With, outside
<1>13. ASSUME NEW c \in Clients, TakeExchange(c) PROVE InTime'
  BY <1>13 DEF TakeExchange, Goto, Without, outside
<1>14. ASSUME NEW c \in Clients, Reply(c) PROVE InTime'
  BY <1>14 DEF Reply, Close, Goto, valkey
<1>15. ASSUME NEW c \in Clients, Drop(c) PROVE InTime'
  BY <1>15 DEF Drop, Close, Goto, valkey
<1>16. CASE Tick
  BY <1>16 DEF Tick, Older, Later, request, outside
<1>17. CASE UNCHANGED vars
  BY <1>17 DEF vars, valkey, request, outside, history
<1> QED
  BY <1>1, <1>2, <1>3, <1>4, <1>5, <1>6, <1>7, <1>8, <1>9, <1>10, <1>11, <1>12, <1>13, <1>14,
     <1>15, <1>16, <1>17 DEF OAuthNext, OAuthRequest, OAuthStep

LEMMA NotEarlyInit == OAuthInit => NotEarly
BY DEF OAuthInit, NotEarly, SentIsStored, HeldIsGiven, AnswerIsTrue, RefusalIsOfKnown,
   ParksFresh, RefusedOnlyWhenSpent

LEMMA CarriedNames ==
    ASSUME Typed, NotEarly
    PROVE  /\ sent \subseteq Flows
           /\ \A d \in Clients :
                 /\ flow[d] \in Flows \cup {None}
                 /\ stage[d] = "redirect" => flow[d] \in Flows
                 /\ stage[d] \in {"success", "ExchangeCodeInvalid", "park"} => code[d] \in Codes
<1>1. /\ sent \subseteq Flows
      /\ \A d \in Clients :
            /\ flow[d] \in Flows \cup {None}
            /\ stage[d] = "redirect" => flow[d] \in Flows
            /\ stage[d] \in {"success", "park"} => code[d] \in Codes
  BY UsedCodes DEF Typed, OAuthTypeOK, Stages
<1>2. \A d \in Clients : stage[d] = "ExchangeCodeInvalid" => code[d] \in Codes
  BY DEF NotEarly, RefusalIsOfKnown, Typed, OAuthTypeOK
<1> QED BY <1>1, <1>2

LEMMA NotEarlyStep == Typed /\ InTime /\ NotEarly /\ [OAuthNext]_vars => NotEarly'
<1> SUFFICES ASSUME Typed, InTime, NotEarly, [OAuthNext]_vars PROVE NotEarly'
  OBVIOUS
<1> USE OAuthConstants, ErrorNames
       DEF Typed, OAuthTypeOK, Stages, Answers, InTime, NotEarly, SentIsStored, HeldIsGiven,
           AnswerIsTrue, RefusalIsOfKnown,
           ParksFresh, RefusedOnlyWhenSpent, Stored, Given
<1>1. ASSUME NEW c \in Clients, NEW s \in Slugs, AuthorizeRefused(c, s) PROVE NotEarly'
  BY <1>1 DEF AuthorizeRefused, Arrive, Goto, Unavailable, valkey, history
<1>2. ASSUME NEW c \in Clients, NEW s \in Slugs, NEW f \in Flows, Authorize(c, s, f)
      PROVE  NotEarly'
  BY <1>2 DEF Authorize, Arrive, Goto, valkey, history
<1>3. ASSUME NEW c \in Clients, NEW s \in Slugs, NEW f \in Flows, Callback(c, f, s)
      PROVE  NotEarly'
  BY <1>3 DEF Callback, Arrive, Goto, valkey, history
<1>4. ASSUME NEW c \in Clients, NEW s \in Slugs, NEW f \in Flows \cup {None},
             CallbackRefused(c, f, s)
      PROVE  NotEarly'
  BY <1>4 DEF CallbackRefused, Arrive, Goto, Unavailable, valkey, history
<1>5. ASSUME NEW c \in Clients, NEW f \in Flows, NEW k \in Codes, Session(c, f, k)
      PROVE  NotEarly'
  BY <1>5 DEF Session, Arrive, Goto, valkey, history
<1>6. ASSUME NEW c \in Clients, PoolFails(c) PROVE NotEarly'
  BY <1>6 DEF PoolFails, Goto, valkey, history, outside
<1>7. ASSUME NEW c \in Clients, InsertState(c) PROVE NotEarly'
  <2>1. /\ flow[c] \in Flows \ sent
        /\ \A d \in Clients \ {c} : stage[d] = "redirect" => flow[d] # flow[c]
    BY <1>7 DEF InsertState
  <2>2. /\ Stored(flow[c])'
        /\ \A g \in Flows \ {flow[c]} : Stored(g) => Stored(g)'
        /\ \A k \in Codes : Given(k) => Given(k)'
    BY <1>7, <2>1 DEF InsertState, With
  <2>3. /\ \A d \in Clients \ {c} : stage'[d] = stage[d]
        /\ stage'[c] \in {"redirect", "StateStoreRedis"}
        /\ \A g \in Flows \ {flow[c]} : waited'[g] = waited[g]
        /\ UNCHANGED <<flow, route, code, sent, holds, taken, redeemed, kept>>
    BY <1>7, <2>1 DEF InsertState, Goto, outside
  <2>9. /\ sent \subseteq Flows
        /\ \A d \in Clients :
              /\ flow[d] \in Flows \cup {None}
              /\ stage[d] = "redirect" => flow[d] \in Flows
              /\ stage[d] \in {"success", "ExchangeCodeInvalid", "park"} => code[d] \in Codes
    BY CarriedNames
  <2> HIDE DEF Stored, Given, Typed, OAuthTypeOK, Stages, InTime
  <2>10. SentIsStored'
    BY <2>9, <2>1, <2>2, <2>3
  <2>11. HeldIsGiven'
    BY <2>9, <2>1, <2>2, <2>3
  <2>12. AnswerIsTrue'
    BY <2>9, <2>1, <2>2, <2>3
  <2>13. RefusalIsOfKnown'
    BY <2>9, <2>1, <2>2, <2>3
  <2>14. ParksFresh'
    BY <2>9, <2>1, <2>2, <2>3
  <2>15. RefusedOnlyWhenSpent'
    BY <2>9, <2>1, <2>2, <2>3
  <2> HIDE DEF SentIsStored, HeldIsGiven, AnswerIsTrue, RefusalIsOfKnown, ParksFresh,
           RefusedOnlyWhenSpent
  <2> QED BY <2>10, <2>11, <2>12, <2>13, <2>14, <2>15
<1>8. ASSUME NEW c \in Clients, Take(c) PROVE NotEarly'
  BY <1>8 DEF Take, Goto, Without, Accepts, outside
<1>9. ASSUME NEW c \in Clients, Exchange(c) PROVE NotEarly'
  <2>1. /\ \A d \in Clients \ {c} : stage'[d] = stage[d]
        /\ stage'[c] \in {"profile", "TokenExchange"}
    BY <1>9 DEF Exchange, Goto
  <2>2. /\ UNCHANGED <<flow, route, code, sent, holds, taken, redeemed, waited, kept>>
        /\ \A g \in Flows : Stored(g) <=> Stored(g)'
        /\ \A k \in Codes : Given(k) <=> Given(k)'
    BY <1>9 DEF Exchange, valkey, history
  <2>9. /\ sent \subseteq Flows
        /\ \A d \in Clients :
              /\ flow[d] \in Flows \cup {None}
              /\ stage[d] = "redirect" => flow[d] \in Flows
              /\ stage[d] \in {"success", "ExchangeCodeInvalid", "park"} => code[d] \in Codes
    BY CarriedNames
  <2> HIDE DEF Stored, Given, Typed, OAuthTypeOK, Stages, InTime
  <2> QED BY <2>1, <2>2, <2>9
<1>10. ASSUME NEW c \in Clients, FetchProfile(c) PROVE NotEarly'
  BY <1>10 DEF FetchProfile, Goto, valkey, history, outside
<1>11. ASSUME NEW c \in Clients, NEW k \in Codes, Login(c, k) PROVE NotEarly'
  <2>1. /\ \A d \in Clients \ {c} : stage'[d] = stage[d] /\ code'[d] = code[d]
        /\ stage'[c] \in {"park", "AccountDisabled", "EmailTaken", "Database"}
    BY <1>11 DEF Login, Goto
  <2>2. /\ UNCHANGED <<flow, route, sent, holds, taken, redeemed, waited, kept>>
        /\ \A g \in Flows : Stored(g) <=> Stored(g)'
        /\ \A l \in Codes : Given(l) <=> Given(l)'
    BY <1>11 DEF Login, valkey, outside
  <2>3. stage'[c] = "park" =>
           /\ code'[c] = k
           /\ \A d \in Clients \ {c} : code[d] # k
           /\ \A f \in Flows : <<f, k>> \notin holds
    BY <1>11, UsedCodes DEF Login, Goto
  <2>4. \A d \in Clients \ {c} : stage[d] = "park" => code'[c] # code[d]
    BY <1>11, UsedCodes DEF Login
  <2>9. /\ sent \subseteq Flows
        /\ \A d \in Clients :
              /\ flow[d] \in Flows \cup {None}
              /\ stage[d] = "redirect" => flow[d] \in Flows
              /\ stage[d] \in {"success", "ExchangeCodeInvalid", "park"} => code[d] \in Codes
    BY CarriedNames
  <2> HIDE DEF Stored, Given, Typed, OAuthTypeOK, Stages, InTime
  <2> QED BY <2>1, <2>2, <2>3, <2>4, <2>9
<1>12. ASSUME NEW c \in Clients, Park(c) PROVE NotEarly'
  <2>1. code[c] \in Codes
    BY <1>12, UsedCodes DEF Park
  <2>2. /\ Given(code[c])'
        /\ \A k \in Codes \ {code[c]} : Given(k) => Given(k)'
        /\ \A g \in Flows : Stored(g) => Stored(g)'
    BY <1>12, <2>1 DEF Park, With
  <2>3. /\ \A d \in Clients \ {c} : stage'[d] = stage[d]
        /\ stage'[c] \in {"success", "StateStoreRedis"}
        /\ \A k \in Codes \ {code[c]} : kept'[k] = kept[k]
        /\ UNCHANGED <<flow, route, code, sent, holds, taken, redeemed, waited>>
    BY <1>12, <2>1 DEF Park, Goto, outside
  <2>4. /\ \A d \in Clients \ {c} : code[d] # code[c]
        /\ \A f \in Flows : <<f, code[c]>> \notin holds
    BY <1>12 DEF Park
  <2>9. /\ sent \subseteq Flows
        /\ \A d \in Clients :
              /\ flow[d] \in Flows \cup {None}
              /\ stage[d] = "redirect" => flow[d] \in Flows
              /\ stage[d] \in {"success", "ExchangeCodeInvalid", "park"} => code[d] \in Codes
    BY CarriedNames
  <2> HIDE DEF Stored, Given, Typed, OAuthTypeOK, Stages, InTime
  <2> QED BY <2>9, <1>12, <2>1, <2>2, <2>3, <2>4
<1>13. ASSUME NEW c \in Clients, TakeExchange(c) PROVE NotEarly'
  <2>1. code[c] \in Codes /\ <<flow[c], code[c]>> \in holds
    BY <1>13, UsedCodes DEF TakeExchange
  <2>2. /\ \A k \in Codes : Given(k) => Given(k)'
        /\ \A g \in Flows : Stored(g) => Stored(g)'
    BY <1>13, <2>1 DEF TakeExchange, Without
  <2>3. /\ \A d \in Clients \ {c} : stage'[d] = stage[d]
        /\ stage'[c] \in {"session", "ExchangeCodeInvalid", "StateStoreRedis"}
        /\ redeemed \subseteq redeemed'
        /\ UNCHANGED <<flow, route, code, sent, holds, taken, waited, kept>>
    BY <1>13 DEF TakeExchange, Goto, outside
  <2>4. stage'[c] = "ExchangeCodeInvalid" => code[c] \notin DOMAIN parked
    BY <1>13 DEF TakeExchange, Goto
  <2>5. stage'[c] = "ExchangeCodeInvalid" => (code[c] \in redeemed' \/ kept[code[c]] = ExchangeTtl)
    BY <2>1, <2>3, <2>4
  <2>9. /\ sent \subseteq Flows
        /\ \A d \in Clients :
              /\ flow[d] \in Flows \cup {None}
              /\ stage[d] = "redirect" => flow[d] \in Flows
              /\ stage[d] \in {"success", "ExchangeCodeInvalid", "park"} => code[d] \in Codes
    BY CarriedNames
  <2> HIDE DEF Stored, Given, Typed, OAuthTypeOK, Stages, InTime
  <2> QED BY <2>9, <2>1, <2>2, <2>3, <2>5
<1>14. ASSUME NEW c \in Clients, Reply(c) PROVE NotEarly'
  <2>1. /\ \A k \in Codes : Given(k) => Given(k)'
        /\ \A g \in Flows : Stored(g) => Stored(g)'
        /\ UNCHANGED <<taken, redeemed, waited, kept>>
    BY <1>14 DEF Reply, Close, valkey
  <2>2. /\ \A d \in Clients \ {c} : /\ stage'[d] = stage[d] /\ flow'[d] = flow[d]
                                  /\ route'[d] = route[d] /\ code'[d] = code[d]
        /\ stage'[c] = "idle" /\ code'[c] = None
    BY <1>14 DEF Reply, Close, Goto
  <2>3. /\ \A f \in sent' : Stored(f)
        /\ sent \subseteq sent' /\ sent' \subseteq Flows
    <3>1. CASE stage[c] = "redirect"
      BY <1>14, <3>1 DEF Reply
    <3>2. CASE stage[c] # "redirect"
      BY <1>14, <3>2 DEF Reply
    <3> QED BY <3>1, <3>2
  <2>4. /\ holds \subseteq holds'
        /\ \A f \in Flows, k \in Codes : <<f, k>> \in holds' =>
              \/ <<f, k>> \in holds
              \/ stage[c] = "success" /\ k = code[c]
    <3>1. CASE stage[c] = "success"
      <4>1. holds' = holds \cup {<<flow[c], code[c]>>}
        BY <1>14, <3>1 DEF Reply
      <4> HIDE DEF Typed, NotEarly
      <4> QED BY <3>1, <4>1
    <3>2. CASE stage[c] # "success"
      <4>1. holds' = holds
        BY <1>14, <3>2 DEF Reply
      <4> QED BY <4>1
    <3> QED BY <3>1, <3>2
  <2>5. \A d \in Clients \ {c} : stage[d] = "park" =>
           /\ code[d] # None
           /\ \A f \in Flows : <<f, code[d]>> \notin holds'
    <3> SUFFICES ASSUME NEW d \in Clients \ {c}, stage[d] = "park"
                 PROVE  code[d] # None /\ \A f \in Flows : <<f, code[d]>> \notin holds'
      OBVIOUS
    <3>1. code[d] \in Codes /\ code[d] # code[c]
      BY UsedCodes
    <3> HIDE DEF Typed, OAuthTypeOK, Stages, InTime, Given, Stored
    <3> QED BY <2>4, <3>1, OAuthConstants
  <2>9. /\ sent \subseteq Flows
        /\ \A d \in Clients :
              /\ flow[d] \in Flows \cup {None}
              /\ stage[d] = "redirect" => flow[d] \in Flows
              /\ stage[d] \in {"success", "ExchangeCodeInvalid", "park"} => code[d] \in Codes
    BY CarriedNames
  <2> HIDE DEF Stored, Given, Typed, OAuthTypeOK, Stages, InTime
  <2>10. SentIsStored'
    BY <2>9, <2>1, <2>2, <2>3, <2>4, <2>5
  <2>11. HeldIsGiven'
    BY <2>9, <2>1, <2>2, <2>3, <2>4, <2>5
  <2>12. AnswerIsTrue'
    BY <2>9, <2>1, <2>2, <2>3, <2>4, <2>5
  <2>13. RefusalIsOfKnown'
    BY <2>9, <2>1, <2>2, <2>3, <2>4, <2>5
  <2>14. ParksFresh'
    <3> SUFFICES ASSUME NEW d \in Clients, stage'[d] = "park"
                 PROVE  /\ \A e \in Clients \ {d} : code'[e] # code'[d]
                        /\ \A f \in Flows : <<f, code'[d]>> \notin holds'
      OBVIOUS
    <3>1. d # c /\ stage[d] = "park" /\ code'[d] = code[d]
      BY <2>2
    <3> QED BY <2>2, <2>5, <3>1
  <2>15. RefusedOnlyWhenSpent'
    BY <2>9, <2>1, <2>2, <2>3, <2>4, <2>5
  <2> HIDE DEF SentIsStored, HeldIsGiven, AnswerIsTrue, RefusalIsOfKnown, ParksFresh,
           RefusedOnlyWhenSpent
  <2> QED BY <2>10, <2>11, <2>12, <2>13, <2>14, <2>15
<1>15. ASSUME NEW c \in Clients, Drop(c) PROVE NotEarly'
  BY <1>15 DEF Drop, Close, Goto, valkey
<1>16. CASE Tick
  <2>1. \A g \in Flows : waited[g] = StateTtl => waited'[g] = StateTtl
    BY <1>16 DEF Tick, Later
  <2>2. \A k \in Codes : kept[k] = ExchangeTtl => kept'[k] = ExchangeTtl
    BY <1>16 DEF Tick, Later
  <2>3. \A g \in DOMAIN pending : g \in DOMAIN pending' \/ waited'[g] = StateTtl
    <3> SUFFICES ASSUME NEW g \in DOMAIN pending, g \notin DOMAIN pending'
                 PROVE  waited'[g] = StateTtl
      OBVIOUS
    <3>1. pending[g].left \in 1 .. StateTtl /\ ~(pending[g].left > 1)
      BY <1>16 DEF Tick, Older
    <3>2. waited[g] = StateTtl - 1
      BY <3>1
    <3> QED BY <1>16, <3>2 DEF Tick, Later
  <2>4. \A k \in DOMAIN parked : k \in DOMAIN parked' \/ kept'[k] = ExchangeTtl
    <3> SUFFICES ASSUME NEW k \in DOMAIN parked, k \notin DOMAIN parked'
                 PROVE  kept'[k] = ExchangeTtl
      OBVIOUS
    <3>1. parked[k].left \in 1 .. ExchangeTtl /\ ~(parked[k].left > 1)
      BY <1>16 DEF Tick, Older
    <3>2. kept[k] = ExchangeTtl - 1
      BY <3>1
    <3> QED BY <1>16, <3>2 DEF Tick, Later
  <2>5. UNCHANGED <<stage, flow, route, code, sent, holds, taken, redeemed>>
    BY <1>16 DEF Tick, request, outside
  <2>6. /\ \A k \in Codes : Given(k) => Given(k)'
        /\ \A g \in Flows : Stored(g) => Stored(g)'
    BY <2>1, <2>2, <2>3, <2>4, <2>5
  <2>9. /\ sent \subseteq Flows
        /\ \A d \in Clients :
              /\ flow[d] \in Flows \cup {None}
              /\ stage[d] = "redirect" => flow[d] \in Flows
              /\ stage[d] \in {"success", "ExchangeCodeInvalid", "park"} => code[d] \in Codes
    BY CarriedNames
  <2> HIDE DEF Stored, Given, Typed, OAuthTypeOK, Stages, InTime
  <2> QED BY <2>9, <2>1, <2>2, <2>5, <2>6
<1>17. CASE UNCHANGED vars
  BY <1>17 DEF vars, valkey, request, outside, history
<1> QED
  BY <1>1, <1>2, <1>3, <1>4, <1>5, <1>6, <1>7, <1>8, <1>9, <1>10, <1>11, <1>12, <1>13, <1>14,
     <1>15, <1>16, <1>17 DEF OAuthNext, OAuthRequest, OAuthStep

LEMMA PassingErrors ==
    \A e \in ErrorAnswers : Status[e] \in {401, 403, 409, 500, 502} => e \notin Passing
<1>1. /\ Status["ProviderDenied"] = 400 /\ Status["UnknownProvider"] = 404
      /\ Status["ProviderNotConfigured"] = 503
      /\ Status["StateStore"] = 503 /\ Status["StateStoreRedis"] = 503
  BY DEF Status, AppStatus, OAuthStatus
<1> QED BY <1>1 DEF Passing

LEMMA ConsumedInit == OAuthInit => Consumed
BY ErrorNames DEF OAuthInit, Consumed

LEMMA ConsumedStep == Typed /\ OnePlace /\ Consumed /\ [OAuthNext]_vars => Consumed'
<1> SUFFICES ASSUME Typed, OnePlace, Consumed, [OAuthNext]_vars PROVE Consumed'
  OBVIOUS
<1> USE OAuthConstants, ErrorNames
       DEF Typed, OAuthTypeOK, Stages, Answers, Working, Passing, Consumed
<1>1. ASSUME NEW c \in Clients, NEW s \in Slugs, AuthorizeRefused(c, s) PROVE Consumed'
  BY <1>1 DEF AuthorizeRefused, Arrive, Goto, Unavailable, valkey, history
<1>2. ASSUME NEW c \in Clients, NEW s \in Slugs, NEW f \in Flows, Authorize(c, s, f)
      PROVE  Consumed'
  BY <1>2 DEF Authorize, Arrive, Goto, valkey, history
<1>3. ASSUME NEW c \in Clients, NEW s \in Slugs, NEW f \in Flows, Callback(c, f, s)
      PROVE  Consumed'
  BY <1>3 DEF Callback, Arrive, Goto, valkey, history
<1>4. ASSUME NEW c \in Clients, NEW s \in Slugs, NEW f \in Flows \cup {None},
             CallbackRefused(c, f, s)
      PROVE  Consumed'
  BY <1>4 DEF CallbackRefused, Arrive, Goto, Unavailable, valkey, history
<1>5. ASSUME NEW c \in Clients, NEW f \in Flows, NEW k \in Codes, Session(c, f, k)
      PROVE  Consumed'
  BY <1>5 DEF Session, Arrive, Goto, valkey, history
<1>6. ASSUME NEW c \in Clients, PoolFails(c) PROVE Consumed'
  BY <1>6 DEF PoolFails, Goto, valkey, history, outside
<1>7. ASSUME NEW c \in Clients, InsertState(c) PROVE Consumed'
  <2>1. flow[c] \in Flows \ sent
    BY <1>7 DEF InsertState
  <2>2. /\ \A d \in Clients \ {c} : stage'[d] = stage[d]
        /\ stage'[c] \in {"redirect", "StateStoreRedis"}
    BY <1>7 DEF InsertState, Goto
  <2>3. /\ DOMAIN pending' = DOMAIN pending \cup {flow[c]}
        /\ UNCHANGED <<flow, route, sent, holds, taken>>
    BY <1>7 DEF InsertState, With, outside
  <2>4. "redirect" \notin ErrorAnswers /\ "StateStoreRedis" \in Passing
    OBVIOUS
  <2> HIDE DEF Typed, OAuthTypeOK, Stages, Working, Passing, Answers
  <2> QED BY <2>1, <2>2, <2>3, <2>4
<1>8. ASSUME NEW c \in Clients, Take(c) PROVE Consumed'
  <2>1. flow[c] \in sent
    BY <1>8 DEF Take
  <2>2. \A d \in Clients \ {c} : stage'[d] = stage[d]
    BY <1>8 DEF Take, Goto
  <2>3. stage'[c] # "success"
    BY <1>8 DEF Take, Goto, Accepts
  <2>4. /\ DOMAIN pending' = DOMAIN pending \ {flow[c]}
        /\ taken \subseteq taken'
        /\ UNCHANGED <<flow, route, sent, holds>>
    BY <1>8 DEF Take, Without, outside
  <2> HIDE DEF Typed, OAuthTypeOK, Stages, Working, Passing, Answers
  <2> QED BY <2>1, <2>2, <2>3, <2>4
<1>9. ASSUME NEW c \in Clients, Exchange(c) PROVE Consumed'
  <2>1. flow[c] \in taken
    BY <1>9 DEF Exchange
  <2>2. flow[c] \in sent \ DOMAIN pending
    BY <2>1 DEF OnePlace
  <2>3. \A d \in Clients \ {c} : stage'[d] = stage[d]
    BY <1>9 DEF Exchange, Goto
  <2>4. stage'[c] # "success"
    BY <1>9 DEF Exchange, Goto
  <2>5. DOMAIN pending' = DOMAIN pending /\ UNCHANGED <<flow, route, sent, holds, taken>>
    BY <1>9 DEF Exchange, valkey, history
  <2> HIDE DEF Typed, OAuthTypeOK, Stages, Working, Passing, Answers
  <2> QED BY <2>2, <2>3, <2>4, <2>5
<1>10. ASSUME NEW c \in Clients, FetchProfile(c) PROVE Consumed'
  <2>1. flow[c] \in taken
    BY <1>10 DEF FetchProfile
  <2>2. flow[c] \in sent \ DOMAIN pending
    BY <2>1 DEF OnePlace
  <2>3. \A d \in Clients \ {c} : stage'[d] = stage[d]
    BY <1>10 DEF FetchProfile, Goto
  <2>4. stage'[c] # "success"
    BY <1>10 DEF FetchProfile, Goto
  <2>5. DOMAIN pending' = DOMAIN pending /\ UNCHANGED <<flow, route, sent, holds, taken>>
    BY <1>10 DEF FetchProfile, valkey, history, outside
  <2> HIDE DEF Typed, OAuthTypeOK, Stages, Working, Passing, Answers
  <2> QED BY <2>2, <2>3, <2>4, <2>5
<1>11. ASSUME NEW c \in Clients, NEW k \in Codes, Login(c, k) PROVE Consumed'
  <2>1. flow[c] \in taken
    BY <1>11 DEF Login
  <2>2. flow[c] \in sent \ DOMAIN pending
    BY <2>1 DEF OnePlace
  <2>3. \A d \in Clients \ {c} : stage'[d] = stage[d]
    BY <1>11 DEF Login, Goto
  <2>4. stage'[c] # "success"
    BY <1>11 DEF Login, Goto
  <2>5. DOMAIN pending' = DOMAIN pending /\ UNCHANGED <<flow, route, sent, holds, taken>>
    BY <1>11 DEF Login, valkey, outside
  <2> HIDE DEF Typed, OAuthTypeOK, Stages, Working, Passing, Answers
  <2> QED BY <2>2, <2>3, <2>4, <2>5
<1>12. ASSUME NEW c \in Clients, Park(c) PROVE Consumed'
  <2>1. flow[c] \in taken
    BY <1>12 DEF Park
  <2>2. /\ \A d \in Clients \ {c} : stage'[d] = stage[d]
        /\ stage'[c] \in {"success", "StateStoreRedis"}
    BY <1>12 DEF Park, Goto
  <2>3. DOMAIN pending' = DOMAIN pending /\ UNCHANGED <<flow, route, sent, holds, taken>>
    BY <1>12 DEF Park, outside
  <2>4. "success" \notin ErrorAnswers /\ "StateStoreRedis" \in Passing
    OBVIOUS
  <2> HIDE DEF Typed, OAuthTypeOK, Stages, Working, Passing, Answers
  <2> QED BY <2>1, <2>2, <2>3, <2>4
<1>13. ASSUME NEW c \in Clients, TakeExchange(c) PROVE Consumed'
  <2>1. flow[c] \in taken
    <3>1. <<flow[c], code[c]>> \in holds /\ code[c] \in Codes
      BY <1>13, UsedCodes DEF TakeExchange
    <3>2. flow[c] \in Flows
      BY <3>1
    <3> QED BY <3>1, <3>2
  <2>2. flow[c] \in sent \ DOMAIN pending
    BY <2>1 DEF OnePlace
  <2>3. \A d \in Clients \ {c} : stage'[d] = stage[d]
    BY <1>13 DEF TakeExchange, Goto
  <2>4. stage'[c] # "success"
    BY <1>13 DEF TakeExchange, Goto
  <2>5. DOMAIN pending' = DOMAIN pending /\ UNCHANGED <<flow, route, sent, holds, taken>>
    BY <1>13 DEF TakeExchange, outside
  <2> HIDE DEF Typed, OAuthTypeOK, Stages, Working, Passing, Answers
  <2> QED BY <2>2, <2>3, <2>4, <2>5
<1>14. ASSUME NEW c \in Clients, Reply(c) PROVE Consumed'
  BY <1>14 DEF Reply, Close, Goto, valkey
<1>15. ASSUME NEW c \in Clients, Drop(c) PROVE Consumed'
  BY <1>15 DEF Drop, Close, Goto, valkey
<1>16. CASE Tick
  BY <1>16 DEF Tick, Older, Later, request, outside
<1>17. CASE UNCHANGED vars
  BY <1>17 DEF vars, valkey, request, outside, history
<1> QED
  BY <1>1, <1>2, <1>3, <1>4, <1>5, <1>6, <1>7, <1>8, <1>9, <1>10, <1>11, <1>12, <1>13, <1>14,
     <1>15, <1>16, <1>17 DEF OAuthNext, OAuthRequest, OAuthStep

LEMMA BornInit == OAuthInit => Born
BY DEF OAuthInit, Born

LEMMA BornStep == Typed /\ Born /\ [OAuthNext]_vars => Born'
<1> SUFFICES ASSUME Typed, Born, [OAuthNext]_vars PROVE Born'
  OBVIOUS
<1> USE OAuthConstants, ErrorNames DEF Typed, OAuthTypeOK, Stages, Answers, Born
<1>1. ASSUME NEW c \in Clients, NEW s \in Slugs, NEW f \in Flows, Authorize(c, s, f) PROVE Born'
  BY <1>1 DEF Authorize, Arrive, Goto, valkey, history
<1>2. ASSUME NEW c \in Clients,
             \/ \E s \in Slugs : AuthorizeRefused(c, s)
             \/ \E s \in Slugs, f \in Flows : Callback(c, f, s)
             \/ \E s \in Slugs, f \in Flows \cup {None} : CallbackRefused(c, f, s)
             \/ \E f \in Flows, k \in Codes : Session(c, f, k)
      PROVE  Born'
  <2>1. PICK f \in Flows \cup {None}, s \in Slugs \cup {None}, k \in Codes \cup {None} :
           Arrive(c, f, s, k)
    BY <1>2 DEF AuthorizeRefused, Callback, CallbackRefused, Session
  <2>2. UNCHANGED asked
    BY <1>2 DEF AuthorizeRefused, Callback, CallbackRefused, Session
  <2>3. \E e \in ErrorAnswers \cup {"take", "get"} : Goto(c, e)
    BY <1>2 DEF AuthorizeRefused, Callback, CallbackRefused, Session, Unavailable
  <2>4. /\ stage'[c] # "insert"
        /\ \A d \in Clients \ {c} : stage'[d] = stage[d] /\ flow'[d] = flow[d]
        /\ UNCHANGED <<pending, asked, waited, taken>>
    BY <2>1, <2>2, <2>3 DEF Arrive, Goto, valkey, history
  <2> QED BY <2>4
<1>3. ASSUME NEW c \in Clients, InsertState(c) PROVE Born'
  <2>1. /\ flow[c] \in Flows /\ asked[flow[c]] # None
        /\ \A d \in Clients \ {c} : stage[d] = "insert" => flow[d] # flow[c]
    BY <1>3 DEF InsertState
  <2>2. /\ waited' = [waited EXCEPT ![flow[c]] = 0]
        /\ DOMAIN pending' = DOMAIN pending \cup {flow[c]}
        /\ stage'[c] # "insert" /\ \A d \in Clients \ {c} : stage'[d] = stage[d]
        /\ UNCHANGED <<asked, flow, taken>>
    BY <1>3 DEF InsertState, Goto, With, outside
  <2> QED BY <2>1, <2>2
<1>4. ASSUME NEW c \in Clients, Take(c) PROVE Born'
  <2>1. /\ stage'[c] # "insert" /\ \A d \in Clients \ {c} : stage'[d] = stage[d]
        /\ taken' \subseteq taken \cup DOMAIN pending
        /\ DOMAIN pending' \subseteq DOMAIN pending
        /\ UNCHANGED <<asked, flow, waited>>
    BY <1>4 DEF Take, Goto, Accepts, Without, outside
  <2> QED BY <2>1
<1>5. ASSUME NEW c \in Clients,
             \/ PoolFails(c) \/ Exchange(c) \/ FetchProfile(c) \/ Park(c) \/ TakeExchange(c)
             \/ \E k \in Codes : Login(c, k)
      PROVE  Born'
  <2>1. /\ stage'[c] # "insert" /\ \A d \in Clients \ {c} : stage'[d] = stage[d]
        /\ UNCHANGED <<pending, asked, flow, waited, taken>>
    BY <1>5 DEF PoolFails, Exchange, FetchProfile, Park, TakeExchange, Login, Goto, valkey,
                outside, history
  <2> QED BY <2>1
<1>6. ASSUME NEW c \in Clients, Reply(c) \/ Drop(c) PROVE Born'
  BY <1>6 DEF Reply, Drop, Close, Goto, valkey
<1>7. CASE Tick
  BY <1>7 DEF Tick, Older, Later, request, outside
<1>8. CASE UNCHANGED vars
  BY <1>8 DEF vars, valkey, request, outside, history
<1> QED
  BY <1>1, <1>2, <1>3, <1>4, <1>5, <1>6, <1>7, <1>8 DEF OAuthNext, OAuthRequest, OAuthStep

-----------------------------------------------------------------------------
Inv == Typed /\ OnePlace /\ OneFlow /\ InTime /\ NotEarly /\ Consumed /\ Born

LEMMA OAuthInvariant == OAuthSpec => []Inv
<1>1. OAuthInit => Inv
  BY TypedInit, OnePlaceInit, OneFlowInit, InTimeInit, NotEarlyInit, ConsumedInit,
     BornInit DEF Inv
<1>2. Inv /\ [OAuthNext]_vars => Inv'
  BY TypedStep, OnePlaceStep, OneFlowStep, InTimeStep, NotEarlyStep, ConsumedStep,
     BornStep DEF Inv
<1> QED BY <1>1, <1>2, PTL DEF OAuthSpec

\* Every variable keeps its type (oauth.rs:31-172, routes/auth.rs:219-379).
THEOREM OAuthTypeCorrect == OAuthSpec => []OAuthTypeOK
<1>1. Inv => OAuthTypeOK
  BY DEF Inv, Typed
<1> QED BY <1>1, OAuthInvariant, PTL

\* One callback at most uses the PKCE verifier of a flow (oauth.rs:103-107): the request
\* that carries a consent is the only one, and its entry is gone.
THEOREM StatesAreUsedOnce == OAuthSpec => []StateUsedOnce
<1>1. Inv => StateUsedOnce
  <2> SUFFICES ASSUME Inv, NEW c \in Clients, stage[c] \in Working
               PROVE  /\ flow[c] \notin DOMAIN pending
                      /\ \A d \in Clients \ {c} : stage[d] \in Working => flow[d] # flow[c]
    BY DEF StateUsedOnce
  <2>1. flow[c] \in taken /\ flow[c] \in Flows
    BY DEF Inv, Typed, OAuthTypeOK, Stages
  <2>2. flow[c] \notin DOMAIN pending
    BY <2>1 DEF Inv, OnePlace
  <2>3. ASSUME NEW d \in Clients, stage[d] \in Working, flow[d] = flow[c] PROVE d = c
    BY <2>1, <2>3 DEF Inv, OnePlace, Carries
  <2> QED BY <2>2, <2>3
<1> QED BY <1>1, OAuthInvariant, PTL

\* One consent opens one session at most (oauth.rs:103-107, 138-142; routes/auth.rs:350).
THEOREM ConsentsOpenOneSession == OAuthSpec => []OneSessionPerConsent
<1>1. Inv => OneSessionPerConsent
  BY DEF Inv, Typed, OAuthTypeOK, OnePlace, OneSessionPerConsent
<1> QED BY <1>1, OAuthInvariant, PTL

\* A browser gets the session of its own consent (routes/auth.rs:326-339, 365-379).
THEOREM SessionsAreOfConsent == OAuthSpec => []SessionIsOfConsent
<1>1. Inv => SessionIsOfConsent
  BY DEF Inv, OneFlow
<1> QED BY <1>1, OAuthInvariant, PTL

\* A callback with a code and a state is not told that the state is invalid, nor a session
\* that its exchange code is, before the entry was consumed or its time was up
\* (oauth.rs:267-270; routes/auth.rs:303-304, 326-340).
THEOREM RefusalsAreDue == OAuthSpec => []RefusedOnlyWhenSpent
<1>1. Inv => RefusedOnlyWhenSpent
  BY DEF Inv, NotEarly
<1> QED BY <1>1, OAuthInvariant, PTL

\* A callback with a code and a state that failed for good cannot be repeated: its entry is
\* gone (oauth.rs:113-136, 290-298).
THEOREM FailuresAreFinal == OAuthSpec => []FailureIsFinal
<1>1. Inv => FailureIsFinal
  BY PassingErrors DEF Inv, Consumed, FailureIsFinal
<1> QED BY <1>1, OAuthInvariant, PTL

\* No entry outlives its time, whatever the two lifetimes are (oauth.rs:31-33, 138-142).
THEOREM EntriesAlwaysLapse == OAuthSpec => []EntriesLapse
<1>1. Inv => EntriesLapse
  <2> SUFFICES ASSUME Inv
               PROVE  /\ \A f \in DOMAIN pending : waited[f] < StateTtl
                      /\ \A k \in DOMAIN parked : kept[k] < ExchangeTtl
    BY DEF EntriesLapse
  <2>1. /\ \A f \in DOMAIN pending : pending[f].left \in 1 .. StateTtl
        /\ \A k \in DOMAIN parked : parked[k].left \in 1 .. ExchangeTtl
    BY DEF Inv, Typed, OAuthTypeOK
  <2> QED BY <2>1, OAuthConstants DEF Inv, InTime
<1> QED BY <1>1, OAuthInvariant, PTL

-----------------------------------------------------------------------------
(***************************************************************************)
(* The flow implements OneConsent.                                         *)
(***************************************************************************)
Answered(f) == \E c \in Clients : stage[c] \in Working /\ flow[c] = f
ParkedFor(f) == \E k \in DOMAIN parked : parked[k].flow = f
Claimed(f) == \E c \in Clients : stage[c] = "session" /\ load[c] = f

\* What Place looks at, and a step that leaves it alone.
Still(f) ==
    /\ waited'[f] = waited[f] \/ (waited[f] # -1 /\ waited'[f] # -1)
    /\ f \in DOMAIN pending' <=> f \in DOMAIN pending
    /\ Answered(f)' <=> Answered(f)
    /\ ParkedFor(f)' <=> ParkedFor(f)
    /\ Claimed(f)' <=> Claimed(f)
    /\ opened'[f] = opened[f]

LEMMA StillInPlace == \A f \in Flows : Still(f) => Place(f)' = Place(f)
BY DEF Still, Place, Answered, ParkedFor, Claimed

\* The consent of a flow is gone.
Gone(f) == /\ waited[f] # -1 /\ f \notin DOMAIN pending
           /\ ~Answered(f) /\ ~ParkedFor(f) /\ ~Claimed(f) /\ opened[f] = 0

\* Each place excludes the others.
Told(f) ==
    /\ opened[f] \in Nat
    /\ waited[f] = -1 => /\ f \notin DOMAIN pending /\ ~Answered(f) /\ ~ParkedFor(f)
                         /\ ~Claimed(f) /\ opened[f] = 0
    /\ f \in DOMAIN pending => ~Answered(f) /\ ~ParkedFor(f) /\ ~Claimed(f) /\ opened[f] = 0
    /\ Answered(f) => ~ParkedFor(f) /\ ~Claimed(f) /\ opened[f] = 0
    /\ ParkedFor(f) => ~Claimed(f) /\ opened[f] = 0
    /\ Claimed(f) => opened[f] = 0

LEMMA PlacesTold ==
    ASSUME Inv, NEW f \in Flows
    PROVE  Told(f)
<1>1. /\ opened[f] \in Nat
      /\ DOMAIN parked \subseteq Codes
      /\ \A c \in Clients : stage[c] \in Working => stage[c] # "session"
  BY DEF Inv, Typed, OAuthTypeOK, Working
<1>2. /\ waited[f] = -1 => f \notin taken \cup DOMAIN pending
      /\ f \in DOMAIN pending => f \notin taken
      /\ f \notin taken => Nowhere(f) /\ opened[f] = 0
      /\ opened[f] # 0 => Nowhere(f)
      /\ \A c, d \in Clients : Carries(c, f) /\ Carries(d, f) => c = d
      /\ \A c \in Clients : \A k \in Codes : ~(Carries(c, f) /\ Parks(k, f))
  BY DEF Inv, Born, OnePlace
<1>3. /\ Answered(f) <=> \E c \in Clients : Carries(c, f) /\ stage[c] # "session"
      /\ Claimed(f) <=> \E c \in Clients : Carries(c, f) /\ stage[c] = "session"
      /\ ParkedFor(f) <=> \E k \in Codes : Parks(k, f)
  BY <1>1 DEF Answered, Claimed, ParkedFor, Carries, Parks
<1>4. Nowhere(f) => ~Answered(f) /\ ~Claimed(f) /\ ~ParkedFor(f)
  BY <1>3 DEF Nowhere
<1>5. Answered(f) => ~ParkedFor(f) /\ ~Claimed(f)
  BY <1>2, <1>3
<1>6. ParkedFor(f) => ~Claimed(f)
  BY <1>2, <1>3
<1> QED BY <1>1, <1>2, <1>4, <1>5, <1>6 DEF Told

\* So it is enough to know one thing of a flow to know its place.
Placed(f) ==
    /\ waited[f] = -1 <=> Place(f) = "unborn"
    /\ f \in DOMAIN pending <=> Place(f) = "asked"
    /\ Answered(f) <=> Place(f) = "answered"
    /\ ParkedFor(f) <=> Place(f) = "parked"
    /\ Claimed(f) <=> Place(f) = "claimed"
    /\ opened[f] # 0 <=> Place(f) = "opened"
    /\ Gone(f) <=> Place(f) = "lost"
    /\ opened[f] \in {0, 1}

AllPlaced == \A f \in Flows : Placed(f)

LEMMA InvPlaces == Inv => AllPlaced
<1> SUFFICES ASSUME Inv, NEW f \in Flows PROVE Placed(f)
  BY DEF AllPlaced
<1>1. Told(f)
  BY PlacesTold
<1>2. Place(f) = IF waited[f] = -1 THEN "unborn"
                 ELSE IF f \in DOMAIN pending THEN "asked"
                 ELSE IF Answered(f) THEN "answered"
                 ELSE IF ParkedFor(f) THEN "parked"
                 ELSE IF Claimed(f) THEN "claimed"
                 ELSE IF opened[f] > 0 THEN "opened" ELSE "lost"
  BY DEF Place, Answered, ParkedFor, Claimed
<1>3. opened[f] \in {0, 1}
  BY <1>1 DEF Told, Inv, OnePlace
<1> HIDE DEF Answered, ParkedFor, Claimed
<1> QED BY <1>1, <1>2, <1>3 DEF Placed, Told, Gone

LEMMA NextPlaces == Inv /\ [OAuthNext]_vars => AllPlaced /\ AllPlaced'
<1>1. Inv /\ [OAuthNext]_vars => Inv'
  BY TypedStep, OnePlaceStep, OneFlowStep, InTimeStep, NotEarlyStep, ConsumedStep,
     BornStep DEF Inv
<1>2. Inv' => AllPlaced'
  BY InvPlaces, PTL
<1> QED BY <1>1, <1>2, InvPlaces

\* What a step makes of the places, flow by flow.
UnderWay == {"asked", "answered", "parked", "claimed"}

NextPlace == {<<"unborn", "asked">>, <<"asked", "answered">>, <<"answered", "parked">>,
              <<"parked", "claimed">>}

SomeLost ==
    /\ opened' = opened
    /\ \A f \in Flows : Place(f)' = Place(f) \/ (Place(f) \in UnderWay /\ Place(f)' = "lost")

OneAdvances ==
    /\ opened' = opened
    /\ \E g \in Flows : /\ \A f \in Flows \ {g} : Place(f)' = Place(f)
                        /\ <<Place(g), Place(g)'>> \in NextPlace

OneOpens ==
    \E g \in Flows : /\ \A f \in Flows \ {g} : Place(f)' = Place(f)
                     /\ Place(g) = "claimed" /\ Place(g)' = "opened"
                     /\ opened' = [opened EXCEPT ![g] = @ + 1]

ConsentStep == SomeLost \/ OneAdvances \/ OneOpens

LEMMA ConsentStepMaps == ConsentStep => [Consent!ConsentNext]_(Consent!consent)
<1> DEFINE place == [f \in Flows |-> Place(f)]
<1>1. ASSUME SomeLost PROVE Consent!ConsentNext
  <2> DEFINE F == {f \in Flows : Place(f)' # Place(f)}
  <2>1. /\ \A f \in F : place[f] \in {"asked", "answered", "parked", "claimed"}
        /\ place' = [f \in Flows |-> IF f \in F THEN "lost" ELSE place[f]]
        /\ opened' = opened
    BY <1>1 DEF SomeLost, UnderWay
  <2>2. Consent!Lose(F)
    BY <2>1 DEF Consent!Lose
  <2>3. F \in SUBSET Flows
    OBVIOUS
  <2> QED BY <2>2, <2>3 DEF Consent!ConsentNext
<1>2. ASSUME OneAdvances PROVE Consent!ConsentNext
  <2>1. PICK g \in Flows : /\ \A f \in Flows \ {g} : Place(f)' = Place(f)
                           /\ <<Place(g), Place(g)'>> \in NextPlace
    BY <1>2 DEF OneAdvances
  <2>2. /\ opened' = opened
        /\ place' = [place EXCEPT ![g] = Place(g)']
        /\ \/ place[g] = "unborn" /\ Place(g)' = "asked"
           \/ place[g] = "asked" /\ Place(g)' = "answered"
           \/ place[g] = "answered" /\ Place(g)' = "parked"
           \/ place[g] = "parked" /\ Place(g)' = "claimed"
    BY <1>2, <2>1 DEF OneAdvances, NextPlace
  <2>3. Consent!Advance(g)
    BY <2>2 DEF Consent!Advance, Consent!Move
  <2> QED BY <2>3 DEF Consent!ConsentNext
<1>3. ASSUME OneOpens PROVE Consent!ConsentNext
  <2>1. PICK g \in Flows : /\ \A f \in Flows \ {g} : Place(f)' = Place(f)
                           /\ Place(g) = "claimed" /\ Place(g)' = "opened"
                           /\ opened' = [opened EXCEPT ![g] = @ + 1]
    BY <1>3 DEF OneOpens
  <2>2. place' = [place EXCEPT ![g] = "opened"] /\ place[g] = "claimed"
    BY <2>1
  <2>3. Consent!Open(g)
    BY <2>1, <2>2 DEF Consent!Open, Consent!Move
  <2> QED BY <2>3 DEF Consent!ConsentNext
<1> QED BY <1>1, <1>2, <1>3 DEF ConsentStep

\* A step of c that leaves the entries alone, and the requests of others.
Quiet(c) ==
    /\ UNCHANGED <<pending, parked, waited, opened>>
    /\ \A d \in Clients \ {c} : stage'[d] = stage[d] /\ flow'[d] = flow[d] /\ load'[d] = load[d]

\* If c carries nothing afterwards, what it carried is lost.
LEMMA CarrierEnds ==
    ASSUME Inv, AllPlaced, AllPlaced', NEW c \in Clients, Quiet(c),
           stage'[c] \notin Working \cup {"session"}
    PROVE  SomeLost
<1> SUFFICES ASSUME NEW f \in Flows
             PROVE  Place(f)' = Place(f) \/ (Place(f) \in UnderWay /\ Place(f)' = "lost")
  BY DEF SomeLost, Quiet
<1>1. CASE ~Carries(c, f)
  <2>1. Still(f)
    BY <1>1 DEF Quiet, Still, Answered, ParkedFor, Claimed, Carries
  <2> QED BY <2>1, StillInPlace
<1>2. CASE Carries(c, f)
  <2>1. Placed(f) /\ Placed(f)'
    BY DEF AllPlaced
  <2>2. \A d \in Clients \ {c} : ~Carries(d, f)
    BY <1>2 DEF Inv, OnePlace
  <2>3. ~Answered(f)' /\ ~Claimed(f)'
    BY <2>2 DEF Quiet, Answered, Claimed, Carries
  <2>4. Answered(f) \/ Claimed(f)
    BY <1>2 DEF Carries, Answered, Claimed
  <2>5. Place(f) \in UnderWay
    BY <2>1, <2>4 DEF Placed, UnderWay
  <2>6. /\ waited'[f] = waited[f] /\ opened'[f] = opened[f]
        /\ f \in DOMAIN pending' <=> f \in DOMAIN pending
        /\ ParkedFor(f)' <=> ParkedFor(f)
    BY DEF Quiet, ParkedFor
  <2>7. /\ waited[f] # -1 /\ f \notin DOMAIN pending /\ ~ParkedFor(f) /\ opened[f] = 0
    BY <2>1, <2>4 DEF Placed
  <2>8. Gone(f)'
    BY <2>3, <2>6, <2>7 DEF Gone
  <2> QED BY <2>1, <2>5, <2>8 DEF Placed
<1> QED BY <1>1, <1>2

\* If it carries the same as before, nothing moves.
LEMMA CarrierGoesOn ==
    ASSUME NEW c \in Clients, Quiet(c), stage[c] \in Working, stage'[c] \in Working,
           flow'[c] = flow[c]
    PROVE  SomeLost
<1> SUFFICES ASSUME NEW f \in Flows PROVE Still(f)
  BY StillInPlace DEF SomeLost, Quiet
<1>1. stage[c] # "session" /\ stage'[c] # "session"
  BY DEF Working
<1> QED BY <1>1 DEF Quiet, Still, Answered, ParkedFor, Claimed

LEMMA InsertMoves ==
    ASSUME Inv, AllPlaced, AllPlaced', NEW c \in Clients, InsertState(c)
    PROVE  OneAdvances
<1>1. PICK g \in Flows : g = flow[c] /\ waited[g] = -1
  BY DEF InsertState, Inv, Typed, OAuthTypeOK, Stages, Born
<1>2. stage[c] = "insert" /\ stage'[c] \in {"redirect", "StateStoreRedis"}
  BY DEF InsertState, Goto, Inv, Typed, OAuthTypeOK
<1>3. /\ waited' = [waited EXCEPT ![g] = 0]
      /\ DOMAIN pending' = DOMAIN pending \cup {g}
      /\ UNCHANGED <<parked, flow, load, opened>>
      /\ \A d \in Clients \ {c} : stage'[d] = stage[d]
  BY <1>1 DEF InsertState, With, Goto, Inv, Typed, OAuthTypeOK
<1>4. ASSUME NEW f \in Flows \ {g} PROVE Place(f)' = Place(f)
  <2>1. waited'[f] = waited[f]
    BY <1>3 DEF Inv, Typed, OAuthTypeOK
  <2>2. Still(f)
    BY <1>2, <1>3, <2>1 DEF Still, Answered, ParkedFor, Claimed, Working
  <2> QED BY <2>2, StillInPlace
<1>5. Place(g) = "unborn" /\ Place(g)' = "asked"
  BY <1>1, <1>3 DEF AllPlaced, Placed
<1> QED BY <1>1, <1>3, <1>4, <1>5 DEF OneAdvances, NextPlace

LEMMA TakeMoves ==
    ASSUME Inv, AllPlaced, AllPlaced', NEW c \in Clients, Take(c)
    PROVE  SomeLost \/ OneAdvances
<1>0. PICK g \in Flows : g = flow[c]
  BY DEF Take, Inv, Typed, OAuthTypeOK, Stages
<1>1. /\ stage[c] = "take"
      /\ stage'[c] \in {"InvalidState", "ProviderMismatch", "exchange", "StateStoreRedis"}
      /\ stage'[c] = "exchange" => g \in DOMAIN pending
  BY <1>0 DEF Take, Goto, Accepts, Inv, Typed, OAuthTypeOK, Stages
<1>2. /\ DOMAIN pending' = DOMAIN pending \ {g}
      /\ g \notin DOMAIN pending => pending' = pending
      /\ UNCHANGED <<parked, waited, flow, load, opened>>
      /\ \A d \in Clients \ {c} : stage'[d] = stage[d]
  BY <1>0 DEF Take, Without, Goto, Inv, Typed, OAuthTypeOK
<1>3. CASE g \notin DOMAIN pending
  <2>1. stage'[c] \notin Working \cup {"session"}
    BY <1>1, <1>3 DEF Working
  <2>2. Quiet(c)
    BY <1>2, <1>3 DEF Quiet
  <2> QED BY <2>1, <2>2, CarrierEnds
<1>4. CASE g \in DOMAIN pending
  <2>1. ASSUME NEW f \in Flows \ {g} PROVE Place(f)' = Place(f)
    <3>1. Still(f)
      BY <1>0, <1>1, <1>2 DEF Still, Answered, ParkedFor, Claimed, Working
    <3> QED BY <3>1, StillInPlace
  <2>2. Placed(g) /\ Placed(g)'
    BY <1>1 DEF AllPlaced
  <2>3. Place(g) = "asked"
    BY <1>4, <2>2 DEF Placed
  <2>4. CASE stage'[c] = "exchange"
    <3>1. Answered(g)'
      BY <1>0, <1>2, <2>4 DEF Answered, Working
    <3>2. Place(g)' = "answered"
      BY <2>2, <3>1 DEF Placed
    <3> QED BY <1>1, <1>2, <2>1, <2>3, <3>2 DEF OneAdvances, NextPlace
  <2>5. CASE stage'[c] # "exchange"
    <3>1. ~Answered(g) /\ ~ParkedFor(g) /\ ~Claimed(g) /\ opened[g] = 0 /\ waited[g] # -1
      BY <2>2, <2>3 DEF Placed
    <3>2. ~Answered(g)' /\ ~ParkedFor(g)' /\ ~Claimed(g)'
      BY <1>1, <1>2, <2>5, <3>1 DEF Answered, ParkedFor, Claimed, Working
    <3>3. Gone(g)'
      BY <1>2, <3>1, <3>2 DEF Gone
    <3>4. Place(g)' = "lost"
      BY <2>2, <3>3 DEF Placed
    <3> QED BY <1>2, <2>1, <2>3, <3>4 DEF SomeLost, UnderWay
  <2> QED BY <2>4, <2>5
<1> QED BY <1>3, <1>4

LEMMA ParkMoves ==
    ASSUME Inv, AllPlaced, AllPlaced', NEW c \in Clients, Park(c)
    PROVE  OneAdvances
<1>0. PICK g \in Flows, k \in Codes : g = flow[c] /\ k = code[c]
  BY UsedCodes DEF Park, Inv, Typed, OAuthTypeOK, Stages
<1>1. /\ stage[c] = "park" /\ stage'[c] \in {"success", "StateStoreRedis"}
      /\ k \notin DOMAIN parked
  <2>1. stage[c] = "park" /\ stage'[c] \in {"success", "StateStoreRedis"}
    BY DEF Park, Goto, Inv, Typed, OAuthTypeOK
  <2>2. ASSUME k \in DOMAIN parked PROVE FALSE
    <3>1. PICK f \in Flows : Parks(k, f)
      BY <2>2 DEF Parks, Inv, Typed, OAuthTypeOK
    <3>2. Bound(k, f) /\ Bound(k, g)
      BY <1>0, <2>1, <3>1 DEF Bound
    <3>3. f = g
      BY <3>2 DEF Inv, OneFlow
    <3>4. Carries(c, g)
      BY <1>0, <2>1 DEF Carries, Working
    <3> QED BY <3>1, <3>3, <3>4 DEF Inv, OnePlace
  <2> QED BY <2>1, <2>2
<1>2. /\ DOMAIN parked' = DOMAIN parked \cup {k} /\ parked'[k].flow = g
      /\ \A l \in DOMAIN parked \ {k} : parked'[l] = parked[l]
      /\ UNCHANGED <<pending, waited, flow, load, opened>>
      /\ \A d \in Clients \ {c} : stage'[d] = stage[d]
  BY <1>0 DEF Park, With, Goto, Inv, Typed, OAuthTypeOK
<1>3. ASSUME NEW f \in Flows \ {g} PROVE Place(f)' = Place(f)
  <2>1. Answered(f)' <=> Answered(f)
    BY <1>0, <1>1, <1>2 DEF Answered, Working
  <2>2. ParkedFor(f)' <=> ParkedFor(f)
    BY <1>1, <1>2 DEF ParkedFor
  <2>3. Claimed(f)' <=> Claimed(f)
    BY <1>1, <1>2 DEF Claimed
  <2>4. Still(f)
    BY <1>2, <2>1, <2>2, <2>3 DEF Still
  <2> QED BY <2>4, StillInPlace
<1>4. Answered(g) /\ ParkedFor(g)'
  BY <1>0, <1>1, <1>2 DEF Answered, ParkedFor, Working
<1>5. Place(g) = "answered" /\ Place(g)' = "parked"
  BY <1>1, <1>4 DEF AllPlaced, Placed
<1> QED BY <1>1, <1>2, <1>3, <1>5 DEF OneAdvances, NextPlace

LEMMA TakeExchangeMoves ==
    ASSUME Inv, AllPlaced, AllPlaced', NEW c \in Clients, TakeExchange(c)
    PROVE  SomeLost \/ OneAdvances
<1>0. PICK k \in Codes : k = code[c]
  BY UsedCodes DEF TakeExchange, Inv
<1>1. /\ stage[c] = "get"
      /\ stage'[c] \in {"session", "ExchangeCodeInvalid", "StateStoreRedis"}
      /\ stage'[c] = "session" => k \in DOMAIN parked /\ load'[c] = parked[k].flow
      /\ DOMAIN parked' = DOMAIN parked \ {k}
      /\ \A l \in DOMAIN parked' : parked'[l] = parked[l]
      /\ k \notin DOMAIN parked => parked' = parked
      /\ UNCHANGED <<pending, waited, flow, opened>>
      /\ \A d \in Clients \ {c} : stage'[d] = stage[d] /\ load'[d] = load[d]
  BY <1>0 DEF TakeExchange, Without, Goto, Inv, Typed, OAuthTypeOK
<1>2. CASE k \notin DOMAIN parked
  <2>1. stage'[c] \notin Working \cup {"session"}
    BY <1>1, <1>2, ErrorNames DEF Working
  <2>2. Quiet(c)
    BY <1>1, <1>2 DEF Quiet
  <2> QED BY <2>1, <2>2, CarrierEnds
<1>3. CASE k \in DOMAIN parked
  <2>1. PICK g \in Flows : g = parked[k].flow
    BY <1>3 DEF Inv, Typed, OAuthTypeOK
  <2>2. ASSUME NEW f \in Flows \ {g} PROVE Place(f)' = Place(f)
    <3>1. Answered(f)' <=> Answered(f)
      BY <1>1 DEF Answered, Working
    <3>2. ParkedFor(f)' <=> ParkedFor(f)
      BY <1>1, <2>1 DEF ParkedFor
    <3>3. Claimed(f)' <=> Claimed(f)
      BY <1>1, <2>1 DEF Claimed
    <3>4. Still(f)
      BY <1>1, <3>1, <3>2, <3>3 DEF Still
    <3> QED BY <3>4, StillInPlace
  <2>3. Placed(g) /\ Placed(g)'
    BY DEF AllPlaced
  <2>4. ParkedFor(g)
    BY <1>3, <2>1 DEF ParkedFor
  <2>5. Place(g) = "parked"
    BY <2>3, <2>4 DEF Placed
  <2>6. CASE stage'[c] = "session"
    <3>1. Claimed(g)'
      BY <1>1, <2>1, <2>6 DEF Claimed
    <3>2. Place(g)' = "claimed"
      BY <2>3, <3>1 DEF Placed
    <3> QED BY <1>1, <2>2, <2>5, <3>2 DEF OneAdvances, NextPlace
  <2>7. CASE stage'[c] # "session"
    <3>1. /\ waited[g] # -1 /\ g \notin DOMAIN pending
          /\ ~Answered(g) /\ ~Claimed(g) /\ opened[g] = 0
      BY <2>3, <2>5 DEF Placed
    <3>2. ~Answered(g)' /\ ~Claimed(g)'
      BY <1>1, <2>7, <3>1 DEF Answered, Claimed, Working
    <3>3. ~ParkedFor(g)'
      <4>1. \A l \in DOMAIN parked : l \in Codes
        BY DEF Inv, Typed, OAuthTypeOK
      <4>2. \A l \in DOMAIN parked \ {k} : parked[l].flow # g
        BY <1>3, <2>1, <4>1 DEF Inv, OnePlace, Parks
      <4> QED BY <1>1, <4>2 DEF ParkedFor
    <3>4. Gone(g)'
      BY <1>1, <3>1, <3>2, <3>3 DEF Gone
    <3>5. Place(g)' = "lost"
      BY <2>3, <3>4 DEF Placed
    <3> QED BY <1>1, <2>2, <2>5, <3>5 DEF SomeLost, UnderWay
  <2> QED BY <2>6, <2>7
<1> QED BY <1>2, <1>3

LEMMA ReplyMoves ==
    ASSUME Inv, AllPlaced, AllPlaced', NEW c \in Clients, Reply(c)
    PROVE  SomeLost \/ OneOpens
<1>1. /\ stage'[c] = "idle"
      /\ UNCHANGED <<pending, parked, waited>>
      /\ \A d \in Clients \ {c} : stage'[d] = stage[d] /\ flow'[d] = flow[d] /\ load'[d] = load[d]
  BY DEF Reply, Close, Goto, valkey, Inv, Typed, OAuthTypeOK
<1>2. CASE stage[c] # "session"
  <2>1. Quiet(c)
    BY <1>1, <1>2 DEF Reply, Quiet
  <2> QED BY <1>1, <2>1, CarrierEnds DEF Working
<1>3. CASE stage[c] = "session"
  <2>1. PICK g \in Flows : g = load[c]
    BY <1>3 DEF Inv, Typed, Stages
  <2>2. opened' = [opened EXCEPT ![g] = @ + 1] /\ opened \in [Flows -> Nat]
    BY <1>3, <2>1 DEF Reply, Inv, Typed, OAuthTypeOK
  <2>3. ASSUME NEW f \in Flows \ {g} PROVE Place(f)' = Place(f)
    <3>1. Still(f)
      BY <1>1, <1>3, <2>1, <2>2 DEF Still, Answered, ParkedFor, Claimed, Working
    <3> QED BY <3>1, StillInPlace
  <2>4. Claimed(g) /\ opened'[g] # 0
    BY <1>3, <2>1, <2>2 DEF Claimed
  <2>5. Place(g) = "claimed" /\ Place(g)' = "opened"
    BY <2>4 DEF AllPlaced, Placed
  <2> QED BY <2>2, <2>3, <2>5 DEF OneOpens
<1> QED BY <1>2, <1>3

LEMMA TickMoves ==
    ASSUME Inv, AllPlaced, AllPlaced', Tick
    PROVE  SomeLost
<1> SUFFICES ASSUME NEW f \in Flows
             PROVE  Place(f)' = Place(f) \/ (Place(f) \in UnderWay /\ Place(f)' = "lost")
  BY DEF SomeLost, Tick
<1>1. /\ waited'[f] = -1 <=> waited[f] = -1
      /\ UNCHANGED <<stage, flow, load, opened>>
  BY OAuthConstants DEF Tick, Later, request, Inv, Typed, OAuthTypeOK
<1>2. f \in DOMAIN pending' => f \in DOMAIN pending
  BY DEF Tick, Older
<1>3. /\ ParkedFor(f)' => ParkedFor(f)
      /\ Answered(f)' <=> Answered(f)
      /\ Claimed(f)' <=> Claimed(f)
  <2>1. \A k \in DOMAIN parked' : k \in DOMAIN parked /\ parked'[k].flow = parked[k].flow
    BY DEF Tick, Older, Inv, Typed, OAuthTypeOK
  <2> QED BY <1>1, <2>1 DEF ParkedFor, Answered, Claimed
<1>4. Placed(f) /\ Placed(f)'
  BY DEF AllPlaced
<1>5. CASE \/ f \in DOMAIN pending /\ f \notin DOMAIN pending'
           \/ ParkedFor(f) /\ ~ParkedFor(f)'
  <2>1. Place(f) \in UnderWay
    BY <1>4, <1>5 DEF Placed, UnderWay
  <2>2. Gone(f)'
    BY <1>1, <1>2, <1>3, <1>4, <1>5 DEF Placed, Gone
  <2> QED BY <1>4, <2>1, <2>2 DEF Placed
<1>6. CASE /\ f \in DOMAIN pending' <=> f \in DOMAIN pending
           /\ ParkedFor(f)' <=> ParkedFor(f)
  <2>1. Still(f)
    BY <1>1, <1>3, <1>6 DEF Still
  <2> QED BY <2>1, StillInPlace
<1> QED BY <1>2, <1>3, <1>5, <1>6

\* The other steps only move a request.
LEMMA RequestMoves ==
    ASSUME Inv, AllPlaced, AllPlaced', NEW c \in Clients,
           \/ OAuthRequest(c) \/ PoolFails(c) \/ Exchange(c) \/ FetchProfile(c)
           \/ Drop(c) \/ \E k \in Codes : Login(c, k)
    PROVE  SomeLost
<1>1. CASE OAuthRequest(c)
  <2>1. PICK f \in Flows \cup {None}, p \in Slugs \cup {None}, k \in Codes \cup {None} :
           Arrive(c, f, p, k)
    BY <1>1 DEF OAuthRequest, AuthorizeRefused, Authorize, Callback, CallbackRefused, Session
  <2>2. PICK s \in ErrorAnswers \cup {"insert", "take", "get"} : Goto(c, s)
    BY <1>1, ErrorNames, OAuthConstants
    DEF OAuthRequest, AuthorizeRefused, Authorize, Callback, CallbackRefused, Session, Unavailable
  <2>3. Quiet(c) /\ stage'[c] = s
    BY <2>1, <2>2 DEF Arrive, Goto, Quiet, valkey, history, Inv, Typed, OAuthTypeOK
  <2> QED BY <2>3, CarrierEnds, ErrorNames DEF Working
<1>2. CASE PoolFails(c) \/ Drop(c)
  <2>1. Quiet(c) /\ stage'[c] \in {"StateStore", "StateStoreRedis", "idle"}
    BY <1>2 DEF PoolFails, Drop, Close, Goto, Quiet, valkey, history, Inv, Typed, OAuthTypeOK
  <2> QED BY <2>1, CarrierEnds DEF Working
<1>3. CASE Exchange(c) \/ FetchProfile(c) \/ \E k \in Codes : Login(c, k)
  <2>1. Quiet(c) /\ stage[c] \in Working /\ flow'[c] = flow[c]
    BY <1>3 DEF Exchange, FetchProfile, Login, Goto, Quiet, Working, valkey, history, Inv, Typed,
                OAuthTypeOK
  <2>2. stage'[c] \in Working \cup ErrorAnswers
    BY <1>3, ErrorNames DEF Exchange, FetchProfile, Login, Goto, Working, Inv, Typed, OAuthTypeOK
  <2>3. stage'[c] \in Working \/ stage'[c] \notin Working \cup {"session"}
    BY <2>2, ErrorNames DEF Working
  <2> QED BY <2>1, <2>3, CarrierEnds, CarrierGoesOn
<1> QED BY <1>1, <1>2, <1>3

LEMMA ConsentSteps == Inv /\ [OAuthNext]_vars => ConsentStep
<1> SUFFICES ASSUME Inv, [OAuthNext]_vars PROVE ConsentStep
  OBVIOUS
<1>1. AllPlaced /\ AllPlaced'
  BY NextPlaces
<1>2. ASSUME NEW c \in Clients, OAuthRequest(c) \/ OAuthStep(c) PROVE ConsentStep
  BY <1>1, <1>2, RequestMoves, InsertMoves, TakeMoves, ParkMoves, TakeExchangeMoves, ReplyMoves
  DEF OAuthStep, ConsentStep
<1>3. CASE Tick
  BY <1>1, <1>3, TickMoves DEF ConsentStep
<1>4. CASE UNCHANGED vars
  <2>1. ASSUME NEW f \in Flows PROVE Place(f)' = Place(f)
    <3>1. Still(f)
      BY <1>4 DEF vars, valkey, request, history, Still, Answered, ParkedFor, Claimed
    <3> QED BY <3>1, StillInPlace
  <2> QED BY <1>4, <2>1 DEF SomeLost, ConsentStep, vars, history
<1> QED BY <1>2, <1>3, <1>4 DEF OAuthNext

\* Through every interleaving of callbacks, retries, lost replies and expiring entries, the
\* consent of a flow moves forward from place to place and opens its session at the last one
\* (oauth.rs:80-102, 113-136, 146-188; routes/auth.rs:290-379): OAuthFlow implements
\* OneConsent.
THEOREM FlowsKeepConsent == OAuthSpec => KeepsConsent
<1>1. OAuthInit => Consent!ConsentInit
  BY DEF OAuthInit, Consent!ConsentInit, Place
<1>2. Inv /\ [OAuthNext]_vars => [Consent!ConsentNext]_(Consent!consent)
  BY ConsentSteps, ConsentStepMaps
<1> QED BY <1>1, <1>2, OAuthInvariant, PTL DEF OAuthSpec, KeepsConsent, Consent!ConsentSpec
=============================================================================
