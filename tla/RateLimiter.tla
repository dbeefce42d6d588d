---------------------------- MODULE RateLimiter ----------------------------
(***************************************************************************)
(* The fixed-window rate limiter of rate_limit.rs, as the middleware of    *)
(* the auth routes runs it, over Valkey keys with a time to live.          *)
(*                                                                         *)
(* One bucket (endpoint and client address): buckets share nothing.  The   *)
(* key of a check is the window it computed when it began; the INCR and    *)
(* the EXPIRE are two commands on the network, and a check may end between *)
(* them: an error of Valkey makes it fail open, and a client that hangs up *)
(* drops the handler.                                                      *)
(***************************************************************************)
EXTENDS Integers, FiniteSets

CONSTANTS
    Checks,       \* requests that may be in the middleware at once
    MaxRequests,  \* config.auth_rate_limit_max
    WindowSecs,   \* config.auth_rate_limit_window_secs
    MaxDelay,     \* seconds from the reading of the clock to the effect of the INCR:
                  \* the wait for a connection of the pool, and the way to Valkey
    MaxTime,      \* bound on the clock
    MaxCount,     \* bound on the requests counted in one window
    Never         \* the expiry of a key that has none

\* WindowSecs = 0 divides by zero in the code.  The quota rests on the last
\* conjunct: the code sets no deadline of its own, neither for the pool nor for a command.
ASSUME LimiterConstants ==
    /\ MaxRequests \in Nat
    /\ WindowSecs \in Nat \ {0}
    /\ MaxTime \in Nat
    /\ MaxCount \in Nat
    /\ Never \notin Int
    /\ MaxDelay \in 0 .. WindowSecs

VARIABLES
    clock,    \* seconds since the epoch, of the server and of Valkey
    value,    \* Valkey: the counter of each window's key, 0 when there is none
    expiry,   \* Valkey: when the key expires
    phase,    \* the command a check awaits, or its result
    began,    \* `now' of the check
    count,    \* what INCR returned
    retry,    \* the Retry-After of a rejected check
    counted,  \* history: the requests counted for each window
    granted   \* history: those of them that were let through, but for those that an
              \* error let through when the quota was spent

valkey == <<value, expiry>>
check  == <<phase, began, count, retry>>
limiterVars == <<clock, valkey, check, counted, granted>>

Windows == 0 .. MaxTime \div WindowSecs

WindowOf(t) == t \div WindowSecs
Key(s) == WindowOf(began[s])

LimiterInit ==
    /\ clock = 0
    /\ value  = [w \in Windows |-> 0]
    /\ expiry = [w \in Windows |-> Never]
    /\ phase = [s \in Checks |-> "idle"]
    /\ began = [s \in Checks |-> 0]
    /\ count = [s \in Checks |-> 0]
    /\ retry = [s \in Checks |-> 0]
    /\ counted = [w \in Windows |-> 0]
    /\ granted = [w \in Windows |-> 0]

-----------------------------------------------------------------------------
Begin(s) ==
    /\ phase[s] = "idle"
    /\ phase' = [phase EXCEPT ![s] = "incr"]
    /\ began' = [began EXCEPT ![s] = clock]
    /\ UNCHANGED <<clock, valkey, count, retry, counted, granted>>

\* INCR takes effect: it creates a missing key, without an expiry.
Bump(w) ==
    /\ counted[w] < MaxCount
    /\ value'   = [value   EXCEPT ![w] = @ + 1]
    /\ counted' = [counted EXCEPT ![w] = @ + 1]

\* Mutant of RetryAfter: skips a window.
RetryTooLate(t) == (WindowOf(t) + 2) * WindowSecs - t

\* Mutant of RetryAfter: the part of the window that is over, not the part that is left.
RetryElapsed(t) == t % WindowSecs

\* Seconds to the start of the next window.
RetryAfter(t) == (WindowOf(t) + 1) * WindowSecs - t

\* Mutant of Exceeds: off by one.
Reaches(n) == n >= MaxRequests

Exceeds(n) == n > MaxRequests

\* The end of check() once the count is known.
Decide(s, n) ==
    IF Exceeds(n)
    THEN /\ phase' = [phase EXCEPT ![s] = "rejected"]
         /\ retry' = [retry EXCEPT ![s] = IF RetryAfter(began[s]) > 1
                                          THEN RetryAfter(began[s]) ELSE 1]
         /\ UNCHANGED granted
    ELSE /\ phase' = [phase EXCEPT ![s] = "allowed"]
         /\ granted' = [granted EXCEPT ![Key(s)] = @ + 1]
         /\ UNCHANGED retry

\* The end of check() on an error, for a request that was counted as the n-th of its window.
Forgive(s, n) ==
    /\ phase' = [phase EXCEPT ![s] = "open"]
    /\ granted' = [granted EXCEPT ![Key(s)] = IF n <= MaxRequests THEN @ + 1 ELSE @]

FirstIncr(s) ==
    /\ phase[s] = "incr"
    /\ value[Key(s)] = 0
    /\ Bump(Key(s))
    /\ count' = [count EXCEPT ![s] = 1]
    /\ phase' = [phase EXCEPT ![s] = "expire"]
    /\ UNCHANGED <<clock, expiry, began, retry, granted>>

NextIncr(s) ==
    /\ phase[s] = "incr"
    /\ value[Key(s)] > 0
    /\ Bump(Key(s))
    /\ count' = [count EXCEPT ![s] = value[Key(s)] + 1]
    /\ Decide(s, value[Key(s)] + 1)
    /\ UNCHANGED <<clock, expiry, began>>

\* Mutant of Lifetime: the key lives for one window.
ShortLifetime == WindowSecs

\* EXPIRE key 2 * window_secs; it does nothing to a key that is gone.
Lifetime == 2 * WindowSecs

SetExpiry(w) ==
    expiry' = [expiry EXCEPT ![w] = IF value[w] > 0 THEN clock + Lifetime ELSE @]

Expire(s) ==
    /\ phase[s] = "expire"
    /\ SetExpiry(Key(s))
    /\ Decide(s, count[s])
    /\ UNCHANGED <<clock, value, began, count, counted>>

\* An error of EXPIRE, before it took effect or after: counted, and let through all the same.
ExpireFails(s) ==
    /\ phase[s] = "expire"
    /\ SetExpiry(Key(s)) \/ UNCHANGED expiry
    /\ Forgive(s, count[s])
    /\ UNCHANGED <<clock, value, began, count, retry, counted>>

\* An error of the pool, or of INCR before it took effect: let through without being counted.
FailOpen(s) ==
    /\ phase[s] = "incr"
    /\ phase' = [phase EXCEPT ![s] = "open"]
    /\ UNCHANGED <<clock, valkey, began, count, retry, counted, granted>>

\* The reply of INCR is lost: counted, and let through all the same.
FailOpenCounted(s) ==
    /\ phase[s] = "incr"
    /\ Bump(Key(s))
    /\ Forgive(s, counted[Key(s)] + 1)
    /\ UNCHANGED <<clock, expiry, began, count, retry>>

\* The check is answered, or its handler is dropped while it awaits Valkey.
Leave(s) ==
    /\ phase[s] # "idle"
    /\ phase' = [phase EXCEPT ![s] = "idle"]
    /\ began' = [began EXCEPT ![s] = 0]
    /\ count' = [count EXCEPT ![s] = 0]
    /\ retry' = [retry EXCEPT ![s] = 0]
    /\ UNCHANGED <<clock, valkey, counted, granted>>

\* A second passes; Valkey removes the keys that expire.
Due(w, t) == expiry[w] # Never /\ expiry[w] <= t

Tick ==
    /\ clock < MaxTime
    /\ \A s \in Checks : phase[s] = "incr" => clock - began[s] < MaxDelay
    /\ clock' = clock + 1
    /\ value'  = [w \in Windows |-> IF Due(w, clock + 1) THEN 0 ELSE value[w]]
    /\ expiry' = [w \in Windows |-> IF Due(w, clock + 1) THEN Never ELSE expiry[w]]
    /\ UNCHANGED <<check, counted, granted>>

LimiterNext ==
    \/ \E s \in Checks :
          \/ Begin(s)
          \/ FirstIncr(s)
          \/ NextIncr(s)
          \/ Expire(s)
          \/ ExpireFails(s)
          \/ FailOpen(s)
          \/ FailOpenCounted(s)
          \/ Leave(s)
    \/ Tick

LimiterSpec == LimiterInit /\ [][LimiterNext]_limiterVars

-----------------------------------------------------------------------------
\* Type correctness.
LimiterTypeOK ==
    /\ clock \in 0 .. MaxTime
    /\ value   \in [Windows -> 0 .. MaxCount]
    /\ expiry  \in [Windows -> 0 .. MaxTime + Lifetime \cup {Never}]
    /\ phase \in [Checks -> {"idle", "incr", "expire", "allowed", "rejected", "open"}]
    /\ began \in [Checks -> 0 .. MaxTime]
    /\ count \in [Checks -> 0 .. MaxCount]
    /\ retry \in [Checks -> 0 .. WindowSecs]
    /\ counted \in [Windows -> 0 .. MaxCount]
    /\ granted \in [Windows -> 0 .. MaxCount]

\* The quota: of the requests counted for a window, max_requests at most are let
\* through, those included that an error let through after they were counted; only a
\* request that meets an error when the quota is spent already comes on top.  So no check
\* gets through by its lateness, although it may reach Valkey after its window has ended:
\* the counter outlives the last check of its window (rate_limit.rs:55-77, 85-93).
WindowQuota == \A w \in Windows : granted[w] <= MaxRequests

\* Nobody is rejected while the window has room: a rejected check has more than
\* max_requests requests of its own window before it or with it, whatever was lost,
\* dropped or left without an expiry (rate_limit.rs:70-72).
RejectedOnlyWhenFull ==
    \A s \in Checks : phase[s] = "rejected" => counted[Key(s)] > MaxRequests

\* Retry-After counts from the second in which the check began, the client waits from
\* the one in which it is answered, which may be any number of seconds later.  A client
\* that waits as told is nevertheless never again counted in the window that rejected it,
\* and if it was answered before that window ended, it comes back in the very next one
\* (rate_limit.rs:56-61, 71-73; routes/auth.rs:57).
RetryReachesNextWindow ==
    \A s \in Checks : phase[s] = "rejected" =>
        /\ WindowOf(clock + retry[s]) > Key(s)
        /\ WindowOf(clock) = Key(s) => WindowOf(clock + retry[s]) = Key(s) + 1
=============================================================================
