----------------------------- MODULE OAuthFlow -----------------------------
(***************************************************************************)
(* The OAuth flow: authorize, callback and session of routes/auth.rs over  *)
(* the two kinds of one-time entries that services/oauth.rs keeps in       *)
(* Valkey, and the provider and the browser between them.                  *)
(*                                                                         *)
(*   authorize  insert -> redirect                                         *)
(*   (browser)  consent at the provider, or a refusal                      *)
(*   callback   take -> exchange -> profile [-> emails] -> login -> park   *)
(*                -> success                                               *)
(*   session    get -> session                                             *)
(*                                                                         *)
(* A flow is named by its `state', generated by authorize.  `stage' is the *)
(* call the handler awaits, or its answer.  A browser may load the URL of  *)
(* the callback or redeem its exchange code again, also while the first    *)
(* attempt is running; a command to Valkey or to the provider may fail     *)
(* before or after it took effect; a handler may be dropped at any await.  *)
(* login_or_register_oauth is in Accounts, its tokens are in AuthService.  *)
(***************************************************************************)
EXTENDS Integers, Errors

CONSTANTS
    Flows,        \* the values of `state' that are ever generated
    Codes,        \* the exchange codes that are ever generated
    Clients,      \* request slots
    Slugs,        \* path segments a route is called with
    Configs,      \* the configurations the server may start with
    StateTtl,     \* STATE_TTL_SECS
    ExchangeTtl,  \* EXCHANGE_TTL_SECS
    None          \* no flow, slug, code or provider

Providers == {"Google", "GitHub"}

Slug == [Google |-> "google", GitHub |-> "github"]

ASSUME OAuthConstants ==
    /\ StateTtl \in Nat \ {0}
    /\ ExchangeTtl \in Nat \ {0}
    /\ Configs \subseteq [Providers -> {"none", "malformed", "ready"}]
    /\ None \notin Flows \cup Codes \cup Slugs \cup Providers \cup ErrorAnswers

VARIABLES
    config,     \* OAuthConfig: per provider, absent, with a bad URI, or usable
    pending,    \* oauth_state:<flow> -> the provider's slug and the time left
    parked,     \* oauth_exchange:<code> -> the flow it answers and the time left
    stage,
    flow,       \* authorize, callback: its state; session: the flow of the browser
    route,      \* the slug in the path, of a request that gets as far as Valkey by it:
                \* so a callback has one if it came with a code and a state
    code,       \* the exchange code
    load,       \* session: the flow whose answer it carries
    \* The provider and the browsers:
    asked,      \* the provider a flow was begun with
    sent,       \* flows whose browser was sent to the provider
    spent,      \* flows whose authorization code has been exchanged
    holds,      \* exchange codes in the hands of browsers
    \* History, read by the properties only (`used' also for freshness):
    used,       \* exchange codes generated so far
    taken,      \* flows whose entry a callback has consumed
    redeemed,   \* codes whose entry a session has consumed
    waited,     \* time since the entry of a flow was stored, -1 before
    kept,       \* time since an answer was parked, -1 before
    opened      \* sessions given to browsers, per flow that consented

valkey  == <<pending, parked>>
request == <<stage, flow, route, code, load>>
outside == <<asked, sent, spent, holds>>
history == <<used, taken, redeemed, waited, kept, opened>>
vars == <<config, valkey, request, outside, history>>

OAuthInit ==
    /\ config \in Configs
    /\ pending = [f \in {} |-> None]
    /\ parked  = [k \in {} |-> None]
    /\ stage = [c \in Clients |-> "idle"]
    /\ flow  = [c \in Clients |-> None]
    /\ route = [c \in Clients |-> None]
    /\ code  = [c \in Clients |-> None]
    /\ load  = [c \in Clients |-> None]
    /\ asked = [f \in Flows |-> None]
    /\ sent = {} /\ spent = {} /\ holds = {}
    /\ used = {} /\ taken = {} /\ redeemed = {}
    /\ waited = [f \in Flows |-> -1]
    /\ kept   = [k \in Codes |-> -1]
    /\ opened = [f \in Flows |-> 0]

-----------------------------------------------------------------------------
With(store, x, entry) ==
    [y \in DOMAIN store \cup {x} |-> IF y = x THEN entry ELSE store[y]]

Without(store, x) == [y \in DOMAIN store \ {x} |-> store[y]]

\* from_slug: a provider, or None.
FromSlug(s) == IF \E p \in Providers : Slug[p] = s
               THEN CHOOSE p \in Providers : Slug[p] = s
               ELSE None

\* What resolve_provider and the look-up of the configuration refuse, if anything.
Unavailable(s) ==
    IF FromSlug(s) = None THEN "UnknownProvider"
    ELSE IF config[FromSlug(s)] = "none" THEN "ProviderNotConfigured"
    ELSE None

Goto(c, s) == stage' = [stage EXCEPT ![c] = s]

\* A request with flow f in its query or its browser's memory.
Arrive(c, f, s, k) ==
    /\ stage[c] = "idle"
    /\ flow'  = [flow  EXCEPT ![c] = f]
    /\ route' = [route EXCEPT ![c] = s]
    /\ code'  = [code  EXCEPT ![c] = k]
    /\ UNCHANGED <<config, valkey, load, sent, spent, holds, history>>

\* The pool has no connection for a command to Valkey, or the command fails before it
\* takes effect.
PoolFails(c) ==
    /\ stage[c] \in {"insert", "take", "park", "get"}
    /\ Goto(c, "StateStore") \/ Goto(c, "StateStoreRedis")
    /\ UNCHANGED <<config, valkey, flow, route, code, load, outside, history>>

-----------------------------------------------------------------------------
(***************************************************************************)
(* authorize                                                               *)
(***************************************************************************)
AuthorizeRefused(c, s) ==
    /\ \/ Unavailable(s) # None /\ Goto(c, Unavailable(s))
       \/ /\ Unavailable(s) = None
          /\ config[FromSlug(s)] = "malformed"
          /\ Goto(c, "InvalidRedirectUri")
    /\ Arrive(c, None, None, None)
    /\ UNCHANGED asked

Authorize(c, s, f) ==
    /\ Unavailable(s) = None
    /\ config[FromSlug(s)] = "ready"
    /\ asked[f] = None
    /\ asked' = [asked EXCEPT ![f] = FromSlug(s)]
    /\ Goto(c, "insert")
    /\ Arrive(c, f, s, None)

\* Mutant of InsertState: the outcome of SET EX is not awaited.
InsertUnchecked(c) ==
    /\ stage[c] = "insert"
    /\ \/ /\ pending' = With(pending, flow[c],
                             [slug |-> Slug[asked[flow[c]]], left |-> StateTtl])
          /\ waited' = [waited EXCEPT ![flow[c]] = 0]
       \/ UNCHANGED <<pending, waited>>
    /\ Goto(c, "redirect")
    /\ UNCHANGED <<config, parked, flow, route, code, load, outside, used, taken,
                   redeemed, kept, opened>>

\* SET EX; the reply may be an error although the entry is stored.
InsertState(c) ==
    /\ stage[c] = "insert"
    /\ pending' = With(pending, flow[c],
                       [slug |-> Slug[asked[flow[c]]], left |-> StateTtl])
    /\ waited' = [waited EXCEPT ![flow[c]] = 0]
    /\ Goto(c, "redirect") \/ Goto(c, "StateStoreRedis")
    /\ UNCHANGED <<config, parked, flow, route, code, load, outside, used, taken,
                   redeemed, kept, opened>>

-----------------------------------------------------------------------------
(***************************************************************************)
(* callback                                                                *)
(***************************************************************************)
\* An `error' parameter ends the callback before anything is read; so does a missing
\* `code', with a `state' that may be alive or without, and a missing `state'; so does a
\* provider that is unknown or not set up.  The entry in Valkey is left alone.
CallbackRefused(c, f, s) ==
    /\ f \in sent \cup {None}
    /\ \/ Goto(c, "ProviderDenied")
       \/ Goto(c, "InvalidState")
       \/ f # None /\ Unavailable(s) # None /\ Goto(c, Unavailable(s))
    /\ Arrive(c, f, None, None)
    /\ UNCHANGED asked

\* The user has consented at the provider, which sent the browser back with a code.  The
\* route is the one the redirect URI names: the wrong provider's if it is misconfigured.
Callback(c, f, s) ==
    /\ f \in sent
    /\ Unavailable(s) = None
    /\ Goto(c, "take")
    /\ Arrive(c, f, s, None)
    /\ UNCHANGED asked

\* What take makes of the value GETDEL returns.
Accepts(c) ==
    IF flow[c] \notin DOMAIN pending THEN "InvalidState"
    ELSE IF FromSlug(pending[flow[c]].slug) # FromSlug(route[c]) THEN "ProviderMismatch"
    ELSE "exchange"

\* Mutant of Take: GET instead of GETDEL.
TakeReads(c) ==
    /\ stage[c] = "take"
    /\ taken' = taken \cup (DOMAIN pending \cap {flow[c]})
    /\ Goto(c, Accepts(c))
    /\ UNCHANGED <<config, valkey, flow, route, code, load, outside, used, redeemed,
                   waited, kept, opened>>

\* Mutant of Take: the provider is compared before the entry is deleted.
TakeCompares(c) ==
    /\ stage[c] = "take"
    /\ IF Accepts(c) = "exchange"
       THEN pending' = Without(pending, flow[c]) /\ taken' = taken \cup {flow[c]}
       ELSE UNCHANGED <<pending, taken>>
    /\ Goto(c, Accepts(c))
    /\ UNCHANGED <<config, parked, flow, route, code, load, outside, used, redeemed,
                   waited, kept, opened>>

\* GETDEL, and the comparison of the provider with what it returned.
Take(c) ==
    /\ stage[c] = "take"
    /\ taken' = taken \cup (DOMAIN pending \cap {flow[c]})
    /\ pending' = Without(pending, flow[c])
    /\ Goto(c, Accepts(c)) \/ Goto(c, "StateStoreRedis")
    /\ UNCHANGED <<config, parked, flow, route, code, load, outside, used, redeemed,
                   waited, kept, opened>>

\* The provider takes an authorization code once, and only its own.
Exchange(c) ==
    /\ stage[c] = "exchange"
    /\ \/ /\ flow[c] \notin spent
          /\ FromSlug(route[c]) = asked[flow[c]]
          /\ spent' = spent \cup {flow[c]}
          /\ Goto(c, "profile") \/ Goto(c, "TokenExchange")
       \/ Goto(c, "TokenExchange") /\ UNCHANGED spent
    /\ UNCHANGED <<config, valkey, flow, route, code, load, asked, sent, holds,
                   history>>

\* GitHub may leave out the email: then its list of emails is asked for the primary one.
FetchProfile(c) ==
    /\ \/ /\ stage[c] = "profile"
          /\ \/ Goto(c, "login")
             \/ FromSlug(route[c]) = "GitHub" /\ Goto(c, "emails")
             \/ Goto(c, "ProviderUnreachable")
       \/ /\ stage[c] = "emails"
          /\ \E s \in {"login", "IncompleteProfile", "ProviderUnreachable"} : Goto(c, s)
    /\ UNCHANGED <<config, valkey, flow, route, code, load, outside, history>>

\* Mutant of Login: the exchange code is not fresh.
LoginReuses(c, k) ==
    /\ stage[c] = "login"
    /\ code' = [code EXCEPT ![c] = k]
    /\ Goto(c, "park")
    /\ UNCHANGED <<config, valkey, flow, route, load, outside, history>>

\* login_or_register_oauth, then a fresh exchange code.
Login(c, k) ==
    /\ stage[c] = "login"
    /\ \/ /\ k \notin used
          /\ code' = [code EXCEPT ![c] = k]
          /\ used' = used \cup {k}
          /\ Goto(c, "park")
       \/ /\ \E s \in {"AccountDisabled", "EmailTaken", "Database"} : Goto(c, s)
          /\ UNCHANGED <<code, used>>
    /\ UNCHANGED <<config, valkey, flow, route, load, outside, taken, redeemed, waited,
                   kept, opened>>

\* Mutant of Park: SET without EX.
ParkForever(c) ==
    /\ stage[c] = "park"
    /\ parked' = With(parked, code[c], [flow |-> flow[c], left |-> 1000])
    /\ kept' = [kept EXCEPT ![code[c]] = 0]
    /\ Goto(c, "success")
    /\ UNCHANGED <<config, pending, flow, route, code, load, outside, used, taken,
                   redeemed, waited, opened>>

\* store_exchange: SET EX.
Park(c) ==
    /\ stage[c] = "park"
    /\ parked' = With(parked, code[c], [flow |-> flow[c], left |-> ExchangeTtl])
    /\ kept' = [kept EXCEPT ![code[c]] = 0]
    /\ Goto(c, "success") \/ Goto(c, "StateStoreRedis")
    /\ UNCHANGED <<config, pending, flow, route, code, load, outside, used, taken,
                   redeemed, waited, opened>>

-----------------------------------------------------------------------------
(***************************************************************************)
(* session                                                                 *)
(***************************************************************************)
Session(c, f, k) ==
    /\ <<f, k>> \in holds
    /\ Goto(c, "get")
    /\ Arrive(c, f, None, k)
    /\ UNCHANGED asked

\* Mutant of TakeExchange: GET instead of GETDEL.
ReadExchange(c) ==
    /\ stage[c] = "get"
    /\ \/ /\ code[c] \in DOMAIN parked
          /\ load' = [load EXCEPT ![c] = parked[code[c]].flow]
          /\ redeemed' = redeemed \cup {code[c]}
          /\ Goto(c, "session")
       \/ /\ code[c] \notin DOMAIN parked
          /\ Goto(c, "ExchangeCodeInvalid")
          /\ UNCHANGED <<load, redeemed>>
    /\ UNCHANGED <<config, valkey, flow, route, code, outside, used, taken, waited, kept,
                   opened>>

TakeExchange(c) ==
    /\ stage[c] = "get"
    /\ parked' = Without(parked, code[c])
    /\ redeemed' = redeemed \cup (DOMAIN parked \cap {code[c]})
    /\ \/ /\ code[c] \in DOMAIN parked
          /\ load' = [load EXCEPT ![c] = parked[code[c]].flow]
          /\ Goto(c, "session")
       \/ /\ code[c] \notin DOMAIN parked
          /\ Goto(c, "ExchangeCodeInvalid")
          /\ UNCHANGED load
       \/ Goto(c, "StateStoreRedis") /\ UNCHANGED load
    /\ UNCHANGED <<config, pending, flow, route, code, outside, used, taken, waited, kept,
                   opened>>

-----------------------------------------------------------------------------
(***************************************************************************)
(* The end of a request, and time.                                         *)
(***************************************************************************)
Answers == ErrorAnswers \cup {"redirect", "success", "session"}

Close(c) ==
    /\ Goto(c, "idle")
    /\ flow'  = [flow  EXCEPT ![c] = None]
    /\ route' = [route EXCEPT ![c] = None]
    /\ code'  = [code  EXCEPT ![c] = None]
    /\ load'  = [load  EXCEPT ![c] = None]
    /\ UNCHANGED <<config, valkey, asked, spent, used, taken, redeemed, waited,
                   kept>>

Reply(c) ==
    /\ stage[c] \in Answers
    /\ sent'  = IF stage[c] = "redirect" THEN sent \cup {flow[c]} ELSE sent
    /\ holds' = IF stage[c] = "success" THEN holds \cup {<<flow[c], code[c]>>} ELSE holds
    /\ opened' = IF stage[c] = "session" THEN [opened EXCEPT ![load[c]] = @ + 1] ELSE opened
    /\ Close(c)

Drop(c) ==
    /\ stage[c] # "idle"
    /\ Close(c)
    /\ UNCHANGED <<sent, holds, opened>>

\* Valkey drops an entry when its time is up.
Older(store) ==
    [x \in {y \in DOMAIN store : store[y].left > 1} |-> [store[x] EXCEPT !.left = @ - 1]]

Later(since, x, bound) ==
    IF since[x] \in 0 .. bound - 1 THEN since[x] + 1 ELSE since[x]

Tick ==
    /\ pending' = Older(pending)
    /\ parked'  = Older(parked)
    /\ waited' = [f \in Flows |-> Later(waited, f, StateTtl)]
    /\ kept'   = [k \in Codes |-> Later(kept, k, ExchangeTtl)]
    /\ UNCHANGED <<config, request, outside, used, taken, redeemed, opened>>

-----------------------------------------------------------------------------
OAuthRequest(c) ==
    \/ \E s \in Slugs :
          \/ AuthorizeRefused(c, s)
          \/ \E f \in Flows : Authorize(c, s, f) \/ Callback(c, f, s)
          \/ \E f \in Flows \cup {None} : CallbackRefused(c, f, s)
    \/ \E f \in Flows, k \in Codes : Session(c, f, k)

OAuthStep(c) ==
    \/ PoolFails(c)
    \/ InsertState(c)
    \/ Take(c)
    \/ Exchange(c)
    \/ FetchProfile(c)
    \/ \E k \in Codes : Login(c, k)
    \/ Park(c)
    \/ TakeExchange(c)
    \/ Reply(c)
    \/ Drop(c)

OAuthNext ==
    \/ \E c \in Clients : OAuthRequest(c) \/ OAuthStep(c)
    \/ Tick

OAuthSpec == OAuthInit /\ [][OAuthNext]_vars

-----------------------------------------------------------------------------
Working == {"exchange", "profile", "emails", "login", "park"}

OAuthTypeOK ==
    /\ config \in Configs
    /\ DOMAIN pending \subseteq Flows
    /\ pending \in [DOMAIN pending -> [slug : {Slug[p] : p \in Providers}, left : 1 .. StateTtl]]
    /\ DOMAIN parked \subseteq used
    /\ parked \in [DOMAIN parked -> [flow : Flows, left : 1 .. ExchangeTtl]]
    /\ stage \in [Clients -> {"idle", "insert", "take", "get"} \cup Working \cup Answers]
    /\ flow  \in [Clients -> Flows \cup {None}]
    /\ route \in [Clients -> Slugs \cup {None}]
    /\ code  \in [Clients -> Codes \cup {None}]
    /\ load  \in [Clients -> Flows \cup {None}]
    /\ asked \in [Flows -> Providers \cup {None}]
    /\ sent \subseteq Flows
    /\ spent \subseteq taken
    /\ holds \subseteq Flows \X used
    /\ used \subseteq Codes
    /\ taken \subseteq sent
    /\ redeemed \subseteq used
    /\ waited \in [Flows -> -1 .. StateTtl]
    /\ kept   \in [Codes -> -1 .. ExchangeTtl]
    /\ opened \in [Flows -> Nat]

\* The entry of a flow lets one callback through: however often and however fast the
\* browser loads the URL again, the PKCE verifier is used by one request at most
\* (oauth.rs:103-107, "consumed atomically on retrieval").
StateUsedOnce ==
    \A c \in Clients : stage[c] \in Working =>
        /\ flow[c] \notin DOMAIN pending
        /\ \A d \in Clients \ {c} : stage[d] \in Working => flow[d] # flow[c]

\* One consent opens at most one session, through both one-time entries and whatever
\* is repeated, lost or dropped on the way (oauth.rs:103-107, 138-142; routes/auth.rs:350).
OneSessionPerConsent == \A f \in Flows : opened[f] <= 1

\* The browser that redeems a code gets the session of the consent it gave, not that of
\* a flow that ran at the same time (routes/auth.rs:326-339, 365-379).
SessionIsOfConsent ==
    \A c \in Clients : stage[c] = "session" => load[c] = flow[c]

\* Nobody who comes with a code and a state is told that the state is invalid before it was
\* consumed or its time was up, and nobody who comes with an exchange code is told so of the
\* code: an entry is stored before its name leaves the server (oauth.rs:267-270;
\* routes/auth.rs:303-304, 326-340).  A callback without a code is told the same of a state
\* that is alive, and leaves it alone (CallbackRefused).
RefusedOnlyWhenSpent ==
    \A c \in Clients :
        /\ stage[c] = "InvalidState" /\ route[c] # None =>
              flow[c] \in taken \/ waited[flow[c]] = StateTtl
        /\ stage[c] = "ExchangeCodeInvalid" =>
              code[c] \in redeemed \/ kept[code[c]] = ExchangeTtl

\* A callback with a code and a state that ends with 401, 403, 409, 500 or 502 has
\* consumed its state: loading its URL again never works, and the user has to begin anew
\* (oauth.rs:113-136, 290-298).
FailureIsFinal ==
    \A c \in Clients :
        /\ stage[c] \in ErrorAnswers
        /\ route[c] # None
        /\ Status[stage[c]] \in {401, 403, 409, 500, 502}
        => flow[c] \notin DOMAIN pending

\* Whatever a browser or a handler leaves behind in Valkey is gone when its time is up,
\* so an answer is never redeemed later than that (oauth.rs:31-33, 138-142).
EntriesLapse ==
    /\ \A f \in DOMAIN pending : waited[f] < StateTtl
    /\ \A k \in DOMAIN parked : kept[k] < ExchangeTtl

\* Where the consent of flow f is.
Place(f) ==
    IF waited[f] = -1 THEN "unborn"
    ELSE IF f \in DOMAIN pending THEN "asked"
    ELSE IF \E c \in Clients : stage[c] \in Working /\ flow[c] = f THEN "answered"
    ELSE IF \E k \in DOMAIN parked : parked[k].flow = f THEN "parked"
    ELSE IF \E c \in Clients : stage[c] = "session" /\ load[c] = f THEN "claimed"
    ELSE IF opened[f] > 0 THEN "opened"
    ELSE "lost"

\* A flow keeps the promises of OneConsent, from its state in Valkey over the callback and
\* the parked answer to the request that redeems it (oauth.rs:80-102, 113-136, 146-188;
\* routes/auth.rs:290-379).
Consent == INSTANCE OneConsent WITH
    place    <- [f \in Flows |-> Place(f)],
    sessions <- opened

KeepsConsent == Consent!ConsentSpec
=============================================================================
