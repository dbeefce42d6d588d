# Verification of yaima

yaima is an authentication service: accounts with passwords or OAuth identities,
signed access tokens, rotating refresh tokens, a rate limiter, and the life of the
process that serves them. This directory holds TLA+ models of its parts, the TLC
configurations that check them, and proofs checked by TLAPS. `src/...` is the
repository root, so the Rust sources are in `src/src/`. Line numbers in the
comments of the modules are those of the files under `src/src/`.

## The system

| Part | State | Operations | Code |
|---|---|---|---|
| Refresh tokens | table `refresh_tokens` | create, rotate, revoke all of a user | `services/token.rs` |
| Sessions | `users.is_active`, the password, access tokens in the hands of clients | register, login, refresh, logout, change password, deactivate | `services/auth.rs`, `routes/auth.rs`, `routes/users.rs` |
| Accounts and credentials | tables `users`, `local_credentials`, `oauth_credentials` | create, find-or-create from an OAuth profile, link, unlink, change password, role, deactivate | `services/user.rs`, `services/auth.rs` |
| OAuth flow | Valkey keys `oauth_state:*` (10 minutes), `oauth_exchange:*` (2 minutes) | authorize, callback, redeem | `services/oauth.rs`, `routes/auth.rs` |
| Rate limiter | Valkey counters `rl:<endpoint>:<ip>:<window>` | check | `rate_limit.rs` |
| Access control | signed claims, `users.role` | extract claims, require a role, change a role | `middleware.rs`, `services/admin.rs`, `models.rs` |
| Server | the process, its Postgres pool, running handlers | serve, drain on a signal, time out, close, stop | `main.rs`, `shutdown.rs` |
| Errors, configuration | none | map an error to a status; read the environment | `errors.rs`, `config.rs` |

How they interact. An axum handler runs as a task; many run at once. It calls
`AuthService`, which calls `UserService` and `TokenService`. Each of their methods
is a chain of single SQL statements with an `.await` at each; only
`UserService::create` uses a transaction. No lock is held between two statements,
so what a handler has read may be stale when it acts on it. Nothing is shared in
memory: the tables, Valkey and the tokens that clients hold are the shared state.
The rate limiter stands before the auth routes; the server decides when handlers
get connections and when they die.

### What is hard, and what correctness means

* Interleaving of statements: two rotations of one token; a logout, a password
  change or a deactivation during a refresh or a login; two first logins with one
  OAuth identity; an unlink during a login. Right means that a revoked token never
  works again, that revocation reaches everything stored before it, that nobody who
  was locked out gets a session, that an identity stays with one account.
* Handlers that stop half-way: a database error, a client that hangs up and a
  shutdown all end a handler at an `.await`, and what its earlier statements did
  stays. Right means that a request that is sent again is safe: one client gets at
  most one successor of a token, an account left without a link is found again.
* One-time entries in Valkey: a browser loads the URL of a callback again, redeems an
  exchange code twice, or comes too late; a reply is lost after the command took effect.
  Right means that one consent opens at most one session and the right one, and that
  nobody is refused early.
* Trust in claims: the role in an access token may be out of date. Right means that a
  power that was taken away ends, and that administrators who take turns cannot remove
  the last of them.
* Time: expiry, the boundary of a rate limiter window, commands to Valkey that
  arrive late, keys that outlive or do not outlive their window, the shutdown timer.
* Order within a handler: `refresh` rotates before it looks at the account;
  `change_password` and `deactivate` write first and revoke afterwards;
  `rotate_refresh_token` revokes before it inserts.
* Resources: ten connections of the pool, transactions that hold one, a pool that
  waits for its connections when it closes.

`PROJECT.json` lists these hazards one by one, at their lines.

## The modules

### TokenLedger, TokenService, TokenServiceProofs

`TokenService` models `services/token.rs`. `table` is `refresh_tokens`; `pc[c]` is
the statement that client `c`'s call awaits; `tok`, `usr`, `exp` and `out` are the
locals of that call. One action per SQL statement: `SelectUnknown`,
`SelectRefused` and `SelectValid` are the three outcomes of the SELECT and the
checks behind it; `RotateRevoke`, `InsertToken` and `RevokeAll` write;
`PrepareToken` is the local code that fixes `expires_at` before the INSERT is sent
(the clock may tick in between). `Abort` may end a call before any statement. Two
fields of a row are not columns: `parent` (the token it replaced) and `client`
(whose request stored it) record the history that the properties speak about.
A token is a model value. Hashing is abstracted by what it does: the look-up key of
a token finds the row of that token, and argon2 verifies it. A string that is no
stored token is `NoToken`.

`TokenLedger` is the abstract specification: a set of rows to which a live row is
added for a new session (`Issue`), or as the successor of a revoked row of the same
user that does not expire later (`Succeed`), and in which rows are revoked one at a
time (`Retire`) or all of a user at once (`RevokeUser`), and never unrevoked.
`TokenService` implements it under the mapping `Ledger` (drop the locals and the
field `client`).

### AuthService, AuthServiceProofs, AuthSessionProofs

EXTENDS `TokenService` and adds the handlers. `stage[c]` is the call that the
handler awaits; in stages `tokens`, `rotate` and `revoke` it is inside
`TokenService`, whose `pc[c]` says at which statement (`TokenStatement` runs the
same actions). `account` holds what these handlers see of an account: that it
exists, `is_active`, its password. `access` and `delivered` are the access and
refresh tokens that clients have been given; a refresh presents one of those, or a
string that is no token. `AuthUser` is the check of an access token: signature and
expiry (with the leeway of the JWT library), no look-up. `seen`, `barred` and
`swept` are history: the tokens stored when a request arrived, whether it was due a
session then, and whether its user's tokens were swept since.
`UserService::create` is one action here and three in `Accounts`.

### Accounts, AccountsProofs

`services/user.rs` over its three tables. `register` is a transaction of two INSERTs
and a COMMIT: its rows are seen by others at the COMMIT, and an INSERT of a key that
an open transaction holds waits (`HoldsEmail`, `HoldsUsername`; this is PostgreSQL's
behaviour and marked external). `users.display_name` is unique as well; the model does not
keep it, and lets the INSERT of a user collide with the name of any row there is, which is
answered as a database error (`NameTaken`). `oauth` is `login_or_register_oauth`: identity, then
email, then creation, then a link with ON CONFLICT DO NOTHING, each a statement of
its own, with `active[c]` the copy of `is_active` that the last check looks at.
`refresh` is there for the `auth_method` it derives. Sessions are records of account,
`auth_method` claim and, as history, how they were opened.

### AccountRegistry

What the tables of the accounts promise, whoever writes to them: an account is made once
(`Enrol` with its password in the same step, `Import` without one), is never removed, may
be deactivated (`Retire`) and is never activated again; a password does not go away. Two
modules have a view of `services/user.rs`: `Accounts` its single statements, `AuthService`
one action per method. Both implement `AccountRegistry` (`TablesKeepRegistry`,
`HandlersKeepRegistry`), which is what ties the two views together.

### Errors

`errors.rs` as two functions from variants to statuses and `Status`, which joins them as
`AppError::OAuth` does. An error answer in `OAuthFlow` is the name of its variant, so
that a property may speak of what the client sees.

### OAuthFlow, OAuthFlowProofs

The flow over the two kinds of one-time entries of `services/oauth.rs`: `pending` is
`oauth_state:*`, `parked` is `oauth_exchange:*`, each with the time it has left; `config`
says per provider whether it is absent, has a redirect URI that does not parse, or is
usable. `stage[c]` is the call a handler awaits or its answer. `Authorize` is refused,
or generates a `state` (here the name of the flow), which `InsertState` stores before
the browser is redirected. `Callback` may be called for any flow whose browser was sent
to the provider, as often as one likes and on any route (a redirect URI of the wrong
provider); `CallbackRefused` is a callback with an `error`, without a `code` or a `state`, or
for a provider that is not set up, which leaves the entry alone although a missing `code` is
answered like a dead state; `Take` is GETDEL and the comparison behind it, `Exchange` the provider's
token endpoint, which takes an authorization code once, `FetchProfile` the look-ups of
the profile, `Login` is `login_or_register_oauth` (its inside is `Accounts`) and the
fresh exchange code, `Park` the SET EX. `Session` redeems a code that its browser holds.
Every command may fail without effect (`PoolFails`: no connection, `StateStore`, or an
error of Valkey, `StateStoreRedis`) or after it took effect (the reply is lost,
`StateStoreRedis`), and a handler may be dropped at every await (`Drop`).
History: `taken`, `redeemed`, `waited`, `kept`, `opened`.

### OneConsent

What a flow promises: the consent of a user is in one place at a time and moves
`unborn -> asked -> answered -> parked -> claimed -> opened`, forward only, opening its
session when it leaves `claimed`; it may be lost on the way (several at once, when their
time is up) and is not found again. `OAuthFlow` implements it (`KeepsConsent`) under the
mapping `Place`: asked is an entry in `pending`, answered a callback past its GETDEL,
parked an entry in `parked`, claimed a redemption past its own GETDEL.

### AccessControl, AccessControlProofs

`role` is the column of `users`; `tokens` says how long an access token with given
claims is still accepted by somebody (of those that claim the same, the last to
expire). A guest's claims open no gate and are left out. `Requires` is
`validate_access_token` and `require_role`: signature and expiry, no look-up.
`UpdateRole` refuses one's own id and then runs one UPDATE (`ChangeRole`); signing in
(a login or a refresh) reads the row (`ReadUser`) and signs the claims afterwards
(`SignedIn`), and the role may change in between. `AccessInit` is the table with one
administrator made in the database: no operation of the code makes the first one.

### RateLimiter, RateLimiterProofs

One bucket of `rate_limit.rs` (buckets share no state). `check` computes its window
when it begins; INCR and EXPIRE are separate commands; Valkey removes a key when it
expires. The limiter lets a request through on every error: `FailOpen` is one before the
INCR took effect, `FailOpenCounted` an INCR whose reply is lost, `ExpireFails` an error of
EXPIRE, before or after its effect. `Leave` is the answer or a handler that is dropped.
`counted` and `granted` are history per window: the requests that were counted, and those
of them that were let through, but for those that met an error when the quota was spent
(`Forgive`): these, and the requests that were never counted, come on top of it.

### Server, ServerProofs

`main()` and `shutdown.rs`. A handler is `Length` statements; outside a transaction
it has a connection only while a statement runs. The timer of the `select!` starts
with the server. Once it has fired, `main()` no longer holds the server's future,
but axum's connection tasks are spawned and run on: they take requests until the
process ends or a signal arrives. `pool.close()` refuses newcomers (`PoolClosed`)
and waits for the connections that are out (`Stop`).

## What each run checks

| Run | Bounds | What it shows |
|---|---|---|
| TokenSafety | 3 tokens, 2 users, 2 clients, lifetime 1, clock to 2 | type, `OneSuccessorPerClient`, `RevokedIsFinal`; refinement of TokenLedger: `LedgerSpec`, which has `SuccessorOfRevoked` and `RotationExtends` in it |
| SingleUse | the same | violated: two overlapping rotations of one token both store a successor |
| AuthSafety | 2 tokens, 1 user, 2 clients, 2 passwords, clock to 1 | type, `BarredGetsNoSession`, `SweepIsComplete`, `AnswerCarriesLiveToken`, `AnswerIsFresh`; `SignedOutStays`; refinement of AccountRegistry: `HandlersKeepRegistry` |
| AuthLiveness | 2 tokens, 1 user, 2 clients, 1 password | every request ends; the handlers implement `TokenSpec` (`UsesTokenService`) |
| LogoutRace | 3 tokens | violated: a refresh past its check survives a logout |
| AccountSafety | 2 emails (so 2 accounts), 2 usernames, 1 identity, 2 providers, 2 clients | type and keys, `RegistrationIsWhole`, `SameAccount`, `DisabledGetsNoSession`, `LinksNeverMove`, `OAuthClaimIsTrue`; refinement of AccountRegistry: `TablesKeepRegistry` |
| CredentialLost | the same | violated: an account ends up with no credential |
| RateLimiterSafety | 3 checks, quota 1, windows of 2, delay up to 2, clock to 4 | type, `WindowQuota`, `RejectedOnlyWhenFull`, `RetryReachesNextWindow` |
| ServerLifeCycle | 3 handlers of 2 statements, 2 connections, timeout 2 | type, `CutOnlyByTimer`, `TransactionsFinish`, `SignalStops` |
| StopsAlone | 2 handlers | violated: the server stops with no signal |
| OAuthSafety | 2 flows, 2 exchange codes, 2 requests, 3 slugs, 2 configurations; a state lives 1 tick, a parked answer 2 | type, `StateUsedOnce`, `OneSessionPerConsent`, `SessionIsOfConsent`, `RefusedOnlyWhenSpent`, `FailureIsFinal`, `EntriesLapse`; refinement of OneConsent: `KeepsConsent` |
| AccessSafety | 2 users, 2 requests, tokens last 2 ticks | type, `LastAdministratorStays`, `DemotionTakesEffect`, `OutdatedRunsOut` |

Why the bounds are enough. Two clients give every pair of operations that overlap; a
third request is the one that ran before (its rows are in the table). Three tokens are
an original, its successor and either a second successor or another session; in
AuthSafety two tokens are an original and its successor, or two sessions of the user. A
lifetime of 1 and a clock to 2 let a token be fresh, in its last second and expired; in
AuthSafety the lifetime is 0, so that one tick expires a refresh token and the access
token that came with it. A quota of 1 with three checks has one request under, one at
and one over the limit; four seconds are two windows and the start of a third. Emails
are unique and accounts are never deleted, so two emails bound the accounts by two. Two
flows are two users' or one user's second attempt, two requests are a callback and its
reload, or two redemptions, or one of each; a parked answer is new, in its last tick and
gone, and a state, which lives one tick, is there or gone. In AccessSafety two users are
the two administrators who demote each other, a token is new, in its last tick and gone.
Symmetry is used in the safety runs only, over sets whose members no definition tells
apart.

Every property of a passing run has a mutant in `PROJECT.json`: an operator of the
module that is wrong in the way a plausible change of the code would be, under which
TLC finds the property violated.

## Fairness

`FairAuthSpec` has weak fairness of each client's next step (progress, answer or
drop): tokio polls a task that is ready, and sqlx returns a row or an error. It does
not promise that a request succeeds. `FairServerSpec` has weak fairness of `main()`,
of the clock and of the statements under way (a statement ends); nothing obliges a
client to hang up, or an acquire to succeed or to time out. Without the promise that a statement
ends, a signalled server may hang in `pool.close()` for ever, also after its timer.

`AccessSpec` has weak fairness of the clock only: nobody has to make or to answer a
request, and a stale power ends all the same, because the tokens that carry it expire
and no renewal reads a role that is not in the table. `OAuthSpec` has none: its
properties are safety.

## What is proved

`TokenServiceProofs` proves, for every number of tokens, users and clients, every
lifetime and every bound of the clock (the assumption `TokenConstants` only says
that numbers are natural and that the null values are not members):

* `TypeCorrect`, `SuccessorsOfRevokedOnly`, `SequentialSingleUse` and
  `RotationNeverShortens`: the two invariants of TokenSafety, and the two that follow from
  its refinement (a successor is of a revoked row of the same user, and does not expire
  earlier);
* `RevocationIsFinal`: the action property `RevokedIsFinal`;
* `ImplementsLedger`: every behaviour is one of `TokenLedger`.

The inductive invariant is `TokenInv`. The properties are not inductive by
themselves. `SuccessorOfRevoked` survives an INSERT only if the row that the call
read at its SELECT is, by now, stored, revoked and of the user the call remembers:
so the invariant says this of every call past its UPDATE, and of every call past its
SELECT all of it but `revoked`. `OneSuccessorPerClient` survives only if a client
that is about to insert a successor has not stored one before: the invariant says
that the token such a call holds has no successor by that client, which holds since
each earlier rotation by that client that inserted had revoked the token first and a
revoked token is refused at the SELECT. `RotationExtends` needs the time at which
the row was read to be no later than now and the expiry prepared to be at least that
of the parent: a token that passes expires at some time at most `RefreshTtl` from
now, because all expiries are.

`AuthServiceProofs` proves, for every number of passwords and every access-token
lifetime and leeway as well:

* `AuthTypeCorrect`: the type invariant of the handlers;
* `HandlersImplementTokens`: `AuthSpec` implements `TokenSpec`, so that the theorems
  above hold of the handlers together with the token service;
* `HandlersKeepLedger`, `HandlersRotateSafely`: with that, the refinement of `TokenLedger`
  and the properties of TokenSafety, as theorems of `AuthSpec`;
* `AnswersAreFresh`: the invariant `AnswerIsFresh` of AuthSafety;
* `RequestsAdvance`: the action property `HandlersAdvance`. `StepsLeft` counts the steps a
  handler may still take, in its own stages and in the call of the token service it is in.
  Every step that is not of the clock and not an arrival lowers it for a handler, and
  none raises it for another. This is the half of
  `EveryRequestEnds` that can be proved here: what is left of it is weak fairness and that
  a number below twelve cannot decrease for ever.

Its inductive invariant is `AuthInv`: `TokenInv`, the types, `Handlers` and
`HeldAreFresh`. `Handlers` says of each handler where its call of the token service
may be (`pc[c]` is not idle exactly in the stages `tokens`, `rotate` and `revoke`),
that the user it works for is known when a statement needs one, and when it holds a
refresh token; without it a step of a handler need not be a step of the service: a
second call could start under way, or `create` be called for nobody. `HeldAreFresh`
says that the tokens in a handler's locals (`out[c]`, `new[c]`) are stored, not given
out, and in no other handler's; it is kept because an INSERT picks a token that is
not stored and a token moves from `out` to `new` to `delivered`, and is never in
two of them after a step.

`OAuthFlowProofs` proves every property of OAuthSafety, seven invariants and a
refinement, for every set of flows, codes, requests, slugs and configurations and all
lifetimes (`OAuthConstants`: lifetimes are positive and the null value is no member).
Its inductive invariant is `Inv`:

* `Typed`: the types, what a stage implies about the request that is in it (a callback
  past `take` has a flow that is `taken`, a code in `park` is `used` and nowhere else);
* `OnePlace`: the answer to a consent is in one place at a time: with one callback
  between `take` and `park`, in one parked entry, with one redemption, or opened. This
  is what makes `OneSessionPerConsent` and `StateUsedOnce` survive a step, and it holds
  because GETDEL removes what it returns;
* `OneFlow`: whoever holds a code, and the entry parked under it, name one flow;
* `InTime`, `NotEarly`: `waited` (`kept`) and the time an entry has left add up to its
  lifetime, and an entry that is not there was consumed or its time is up;
* `Consumed`: a callback that came with a code and a state and failed for good, or that
  succeeded, has no pending entry;
* `Born`: a flow is stored once, by the `authorize` that generated it, and nothing is made
  of it before.

`FlowsKeepConsent` is the refinement of OneConsent. `InvPlaces` says that the places exclude
each other in every state that satisfies `Inv`, so that one fact about a flow (its entry is
there, a callback carries it, an answer is parked for it, ...) tells its place, before a
step and after it. Each action then has a lemma of its own, which names the flow that
moves, shows for the others that nothing `Place` looks at has changed (`Still`), and reads
off the place that the flow has left and the one it has reached: `InsertMoves`, `TakeMoves`,
`ParkMoves`, `TakeExchangeMoves`, `ReplyMoves`, `TickMoves`, `RequestMoves`. A step is of
one of three forms: some consents are lost, one advances, one opens its session
(`ConsentSteps`); each form is a step of OneConsent (`ConsentStepMaps`). `OnePlace` is what
makes it work: a GETDEL that finds an entry cannot leave a second copy of the consent
behind, and one that finds none moves nothing.

`AccessControlProofs` proves the types, `LastAdministratorStays` and `OutdatedRunsOut`. A
step that empties the set of administrators is a `ChangeRole` whose target was in it; were
its actor in it too, target and actor would be the same, which `OtherThanOwn` excludes for
every change under way. `StalePowerRunsOut` is the safety half of `DemotionTakesEffect`: a claim that says
more than the table is signed by no request that has not read as much already, so that
only the clock touches the tokens that make it.

`RateLimiterProofs` proves the four invariants of RateLimiterSafety, for every quota,
window, delay up to a window and clock. The delay is from the reading of the clock to the
effect of the INCR. What was let through can be compared with a
counter only while the counter is complete: `LimiterInv` says that a check whose INCR
is on its way began no longer ago than the delay (`OnTheirWay`); that the key of a
window, until two windows after the window began, holds all that was counted, since no
expiry is set to an earlier time (`Complete`); that what was let through of a window,
with the one check that has yet to send its EXPIRE, is within the quota and within what
was counted (`Grants`); and what a rejected check has seen and computed (`Rejections`):
Retry-After is what is left of its window from the second it began in (`RestOfWindow`). The
client waits from the second of the answer, which is no earlier, so that it comes back in a
later window; if the answer came within the window, it came less than a window after the
beginning, and the client comes back in the very next one (`BackInTime`).

`ServerProofs` proves the three invariants of ServerLifeCycle. `ServerInv` says that
the connections out are finitely many, that the pool is closed only past the `select!`
and that the timer has fired or no handler is left from there on (`Orderly`), and that
a handler half-way through a transaction has its connection, and none that is through
has one (`Attached`): so `Stop`, which waits for every connection, ends no transaction.
`ClosedPoolDrains` is the safety half of `SignalStops`: from the moment the pool closes,
every step leaves it closed, gives out no connection and begins no transaction.

`AuthSessionProofs` proves the other three invariants of AuthSafety, so that every
property of TokenSafety and AuthSafety is proved: `BarredGetNoSession`,
`SweepsAreComplete` and `AnswersWork`. They rest on `SessionInv`, which adds to `AuthInv`
what a handler has learnt and the steps of others leave true:

* `CallIsFor`: a call of the token service is for the handler's own user, or for the user
  of the row it has read; the token a rotation was called with has been given out, so it is
  never one that another handler is about to answer with;
* `HasAccount`: whoever a token is stored for has an account. So the only way for a
  refresh to be told `invalid` is the refusal of its token, after the sweep;
* `Kept`: a request that is not due a session is at a look-up that will refuse it (its
  account is inactive, and stays so) or its token is revoked and it has not passed the
  SELECT;
* `Sweeps`: all of `seen` belongs to the user of the sweep, and is revoked once the
  UPDATE is through;
* `Works`: a token that is about to be answered with is revoked only by a sweep of its
  user, which `swept` records: a rotation revokes what it was called with, and that was
  given out before.

`SignedOutForGood` proves the action property `SignedOutStays` from the same invariant:
once all tokens of a user are revoked and none of his requests is past the SELECT of its
rotation or about to open a session, only a login or a registration of his ends that. It
shows what `LogoutRace` needs: a request that was past the SELECT already.

`SessionsKeepRegistry` is the refinement of AccountRegistry by the handlers. It needs
`RegistryInv`: an account has a password exactly when it exists (`AllSecured`), a token in
the hands of a client is of an account that exists (`BearersExist`, which `HasAccount`
gives for the refresh token of the same answer), and a handler that is about to write has
a password to write and, for a change or a deactivation, an account to write to
(`Equipped`). Without `BearersExist` a deactivation could make a row.

`AccountsProofs` proves all five invariants of AccountSafety, `LinksNeverMove` and the
refinement of AccountRegistry (`TablesImplementRegistry`), for any
number of accounts, emails, usernames, identities, providers and requests
(`AccountConstants`: an identity has a provider, the null value is no member). Its
inductive invariant `AccountsInv` has, besides `RegistrationIsWhole`:

* `Typed`: types and foreign keys, and what the stage of a request says of its fields;
* `Held`: what an open transaction has reserved is free, and no other transaction has
  reserved it. Keys stay unique at the COMMIT because of it;
* `Locked`: who was inactive when a request arrived is inactive still (no step activates an
  account), and a request that has passed the check of `is_active` works for another. The
  copy `active[c]` that a link leaves to be checked says what the row said at the look-up,
  which is after the arrival;
* `Proven`: a session opened with a password is of an account with a local credential,
  and credentials are never deleted: the refresh that derives `auth_method` finds one;
* `Landing`: an identity leads to accounts whose email it has come with, by its link, by
  the email, or by the account just created. With one such email there is one account,
  because emails are unique: this is where `SameAccount` comes from.

The refinement follows from `Typed` and `Held`. The three statements of a registration are
two stutters and, at the COMMIT, one `Enrol`: what the open transaction has reserved is in
no table, so the account is new when it appears, and its password appears with it.
`WritersOfAccounts` says that every other action but two (the creation from an identity, an
`Import`, and the deactivation, a `Retire`) leaves both tables alone.

Only model-checked: the refutations, and what is out of the prover's reach, liveness under
fairness (`EveryRequestEnds`, `SignalStops`, `DemotionTakesEffect`). Of each of these three
the part that is about steps is proved (`RequestsAdvance`, `ClosedPoolDrains`,
`StalePowerRunsOut`); that the steps are taken is left to TLC. `HandlersAdvance` and
`PoolOnlyDrains` are stated by their theorems only: the runs check the liveness they serve.
Every other property of a passing run is a theorem.

## Findings

Each is a run whose property is what a text of the repository says, and whose
counterexample is what the code does: `SingleUse` (token.rs:164 does not test
`revoked` in its UPDATE), `LogoutRace` (auth.rs:155),
`StopsAlone` (main.rs:139: the timer starts with the server), `CredentialLost`
(user.rs:380). `PROJECT.json` has the quotations.

Met while modelling, and plain from the text without a run:

* rate_limit.rs:10 says that keys expire; a check that ends between INCR and EXPIRE
  (rate_limit.rs:90-92) leaves one that never does. Its window is past soon, so it costs
  memory only.
* models.rs:26-34 says that `auth_method` is how the session was established; a refresh
  derives it from the table (auth.rs:125-129), and an OAuth session of an account that
  also has a password claims `password` afterwards. `OAuthClaimIsTrue` is the direction
  that holds.
* config.rs:73-74 says that the routes of a provider that is not set up return 404; they
  return 503 (errors.rs:207).
* routes/auth.rs:268 says 400 for missing parameters of a callback; the answer is 401
  (routes/auth.rs:303-304, errors.rs:210), and for a missing `code` it says of a `state`
  that is alive that it is invalid or expired; with the `code` the same `state` still works.
* users.display_name is unique (init.up.sql:6, renamed in normalise_user_credentials), and is
  the part of the email before the @ for a registration (auth.rs:46) and the provider's name
  for an OAuth login. Whoever comes second with such a name, under another email, is
  answered with 500 each time (user.rs:130, 189, 398-406); routes/auth.rs:106 lists 409 for
  what is taken.
* oauth.rs:233-236 says that there is no window between storing a state and redirecting;
  there is one, with an await in it. It is harmless: `RefusedOnlyWhenSpent` needs that
  the entry is there first, and `EntriesLapse` removes it if nobody comes.
* models.rs:254 says that `expires_in` is the seconds until the token expires; an answer
  that was parked says as much as when it was minted, up to two minutes before.

## Abstractions

* A statement takes effect at one instant; a handler that is dropped while a
  statement is under way is one that is dropped after its effect or before it.
* Display names are not kept: whether one collides is left open (`NameTaken`).
* Inputs that fail validation before any statement (a short password, a malformed
  header) are left out: such a request changes nothing.
* Database and network errors are `Abort`, `Drop`, `NameTaken`, `PoolFails`, `FailOpen` and
  its kind: the request ends.
* `MaxDelay <= WindowSecs` in `RateLimiter` is an assumption about the pool and the network,
  not about the code: `pool.get()` waits with no limit of its own (rate_limit.rs:85-89), and
  an INCR that takes effect more than a window after its check began can find its key gone
  and be counted from one again, beyond the quota. A window of zero seconds divides
  by zero and is excluded.
* Clocks: the server and Valkey share one clock.
* `Accounts` runs with one identity; identities meet only in an unlink, which deletes
  all of one provider. `AccountsProofs` is about any number of them.

## Plan

Built: all modules above, with the proofs about TokenService, AuthService, OAuthFlow,
Accounts, AccessControl, RateLimiter and Server, which state every invariant, action
property and refinement that a run checks. Left:

1. `OAuthFlow` over `Accounts`: `Login` with the inside of `login_or_register_oauth`, for
   what a callback that is dropped between creating and linking leaves behind.
2. The settings that are numbers, at their limits: the cast of a lifetime to a signed
   number (token.rs:108), a window of zero seconds (rate_limit.rs:60).

## Not modelled

* Operations that only read: `get_me`, `list_connections`, `GET /health`, and the
  look-ups that fill in an answer.
* The contents of a provider's profile (`Accounts` takes the identity and the email),
  the OpenAPI text, logging, the codes and messages of errors.
* The reading of the environment at start-up (its values are the constants of the
  modules) and migrations (they run before any request).
* The extraction of a client's address for the rate limiter: buckets share nothing.
* A redirect URI that does not parse met by a callback (oauth.rs:311): no flow of that
  provider was ever begun, so the comparison in `take` ends such a callback before.
* Clients of the Valkey pools when they close (main.rs:149-150): the process ends next.
