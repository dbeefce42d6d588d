------------------------- MODULE RateLimiterProofs -------------------------
(***************************************************************************)
(* Theorems about RateLimiter, for every quota, length of a window, delay  *)
(* of at most a window, number of checks and bound of the clock.           *)
(*                                                                         *)
(* The quota rests on the counter of a window being complete for as long   *)
(* as an INCR for it may arrive: a key never expires before End(w), two    *)
(* windows after w has begun, and no INCR arrives later than that.         *)
(***************************************************************************)
EXTENDS RateLimiter, TLAPS

End(w) == w * WindowSecs + 2 * WindowSecs

OnTheirWay ==
    \A s \in Checks : /\ began[s] <= clock
                      /\ phase[s] = "incr" => clock - began[s] <= MaxDelay

Complete ==
    \A w \in Windows : /\ value[w] <= counted[w]
                       /\ clock < End(w) => value[w] = counted[w]
                       /\ expiry[w] # Never => expiry[w] >= End(w)

\* A check that has created the key of its window, and has yet to be let through.
First(s, w) == phase[s] = "expire" /\ Key(s) = w

Grants ==
    /\ \A w \in Windows : granted[w] <= counted[w] /\ granted[w] <= MaxRequests
    /\ \A s \in Checks : \A w \in Windows : First(s, w) =>
          /\ count[s] = 1
          /\ granted[w] + 1 <= counted[w]
          /\ MaxRequests = 0 \/ granted[w] + 1 <= MaxRequests
    /\ \A s, r \in Checks : \A w \in Windows : First(s, w) /\ First(r, w) => s = r

\* What a rejected check has computed: the rest of its window, from the second it began in.
RestOfWindow ==
    \A s \in Checks : phase[s] = "rejected" =>
        began[s] + retry[s] = (Key(s) + 1) * WindowSecs

Rejections == RejectedOnlyWhenFull /\ RestOfWindow

LimiterInv == LimiterTypeOK /\ OnTheirWay /\ Complete /\ Grants /\ Rejections

-----------------------------------------------------------------------------
LEMMA WindowBounds ==
    ASSUME NEW t \in Nat
    PROVE  /\ WindowOf(t) \in Nat
           /\ WindowOf(t) * WindowSecs \in Nat
           /\ WindowOf(t) * WindowSecs <= t
           /\ t < WindowOf(t) * WindowSecs + WindowSecs
BY LimiterConstants DEF WindowOf

LEMMA NextWindow ==
    ASSUME NEW t \in Nat
    PROVE  /\ RetryAfter(t) \in 1 .. WindowSecs
           /\ t + RetryAfter(t) = (WindowOf(t) + 1) * WindowSecs
<1>1. (WindowOf(t) + 1) * WindowSecs = WindowOf(t) * WindowSecs + WindowSecs
  BY LimiterConstants, WindowBounds
<1>2. RetryAfter(t) = WindowOf(t) * WindowSecs + WindowSecs - t
  BY <1>1, LimiterConstants, WindowBounds DEF RetryAfter
<1> DEFINE start == WindowOf(t) * WindowSecs
<1>3. /\ start \in Nat /\ start <= t /\ t < start + WindowSecs
      /\ RetryAfter(t) = start + WindowSecs - t
      /\ (WindowOf(t) + 1) * WindowSecs = start + WindowSecs
  BY <1>1, <1>2, WindowBounds
<1> HIDE DEF start
<1> QED BY <1>3, LimiterConstants

LEMMA WindowsApart ==
    ASSUME NEW t \in Nat, NEW v \in Nat
    PROVE  /\ (v + 1) * WindowSecs <= t => WindowOf(t) > v
           /\ t < (v + 1) * WindowSecs => WindowOf(t) <= v
<1> DEFINE w == WindowOf(t)
           gap(a, b) == (a - b) * WindowSecs
<1>1. w \in Nat /\ WindowSecs \in Nat \ {0}
  BY WindowBounds, LimiterConstants
<1>2. w * WindowSecs <= t /\ t < w * WindowSecs + WindowSecs
  BY WindowBounds
<1>3. CASE w <= v
  <2>1. gap(v, w) \in Nat
    BY <1>1, <1>3
  <2>2. (v + 1) * WindowSecs = w * WindowSecs + gap(v, w) + WindowSecs
    BY <1>1
  <2>3. w * WindowSecs \in Nat /\ (v + 1) * WindowSecs \in Nat
    BY <1>1
  <2> HIDE DEF w, gap
  <2>4. t < (v + 1) * WindowSecs
    BY <1>1, <1>2, <2>1, <2>2, <2>3
  <2> QED BY <1>1, <1>3, <2>3, <2>4 DEF w
<1>4. CASE w > v
  <2>1. gap(w, v + 1) \in Nat
    BY <1>1, <1>4
  <2>2. w * WindowSecs = (v + 1) * WindowSecs + gap(w, v + 1)
    BY <1>1
  <2>3. w * WindowSecs \in Nat /\ (v + 1) * WindowSecs \in Nat
    BY <1>1
  <2> HIDE DEF w, gap
  <2>4. (v + 1) * WindowSecs <= t
    BY <1>1, <1>2, <2>1, <2>2, <2>3
  <2> QED BY <1>1, <1>4, <2>3, <2>4 DEF w
<1> QED BY <1>1, <1>3, <1>4

LEMMA InWindows == ASSUME NEW t \in 0 .. MaxTime PROVE WindowOf(t) \in Windows
BY LimiterConstants DEF WindowOf, Windows

LEMMA EndBounds ==
    ASSUME NEW t \in Nat
    PROVE  t + WindowSecs < End(WindowOf(t)) /\ End(WindowOf(t)) <= t + Lifetime
BY LimiterConstants, WindowBounds DEF End, Lifetime

LEMMA EndNat == \A w \in Windows : End(w) \in Nat /\ End(w) > 0
BY LimiterConstants DEF End, Windows

LEMMA LimiterInitial == LimiterInit => LimiterInv
<1> SUFFICES ASSUME LimiterInit PROVE LimiterInv
  OBVIOUS
<1> USE LimiterConstants DEF LimiterInit
<1>1. LimiterTypeOK
  BY DEF LimiterTypeOK, Lifetime
<1>2. OnTheirWay /\ Grants /\ Rejections
  BY DEF OnTheirWay, Grants, First, Rejections, RejectedOnlyWhenFull, RestOfWindow
<1>3. Complete
  BY DEF Complete
<1> QED BY <1>1, <1>2, <1>3 DEF LimiterInv

LEMMA LimiterTypeStep == LimiterInv /\ [LimiterNext]_limiterVars => LimiterTypeOK'
<1> SUFFICES ASSUME LimiterInv, [LimiterNext]_limiterVars PROVE LimiterTypeOK'
  OBVIOUS
<1> USE LimiterConstants DEF LimiterInv, LimiterTypeOK
<1>0. \A s \in Checks : began[s] \in 0 .. MaxTime /\ Key(s) \in Windows
                        /\ RetryAfter(began[s]) \in 1 .. WindowSecs
  BY InWindows, NextWindow DEF Key
<1>1. ASSUME NEW s \in Checks, Begin(s) PROVE LimiterTypeOK'
  BY <1>1 DEF Begin, valkey
<1>2. ASSUME NEW s \in Checks, FirstIncr(s) PROVE LimiterTypeOK'
  BY <1>0, <1>2 DEF FirstIncr, Bump, Complete
<1>3. ASSUME NEW s \in Checks, NextIncr(s) PROVE LimiterTypeOK'
  <2>1. /\ value[Key(s)] \in Nat /\ counted[Key(s)] \in Nat /\ granted[Key(s)] \in Nat
        /\ value[Key(s)] <= counted[Key(s)]
        /\ granted[Key(s)] <= counted[Key(s)]
        /\ counted[Key(s)] + 1 <= MaxCount
    BY <1>0, <1>3 DEF NextIncr, Bump, Complete, Grants
  <2>2. /\ value' \in [Windows -> 0 .. MaxCount]
        /\ counted' \in [Windows -> 0 .. MaxCount]
        /\ count' \in [Checks -> 0 .. MaxCount]
    BY <1>0, <1>3, <2>1 DEF NextIncr, Bump
  <2>3. /\ granted' \in [Windows -> 0 .. MaxCount]
        /\ retry' \in [Checks -> 0 .. WindowSecs]
    BY <1>0, <1>3, <2>1 DEF NextIncr, Decide
  <2>4. phase' \in [Checks -> {"idle", "incr", "expire", "allowed", "rejected", "open"}]
    BY <1>3 DEF NextIncr, Decide
  <2> QED BY <1>3, <2>2, <2>3, <2>4 DEF NextIncr
<1>4. ASSUME NEW s \in Checks, Expire(s) PROVE LimiterTypeOK'
  BY <1>0, <1>4 DEF Expire, SetExpiry, Decide, Grants, First, Lifetime
<1>5. ASSUME NEW s \in Checks, FailOpen(s) \/ ExpireFails(s) PROVE LimiterTypeOK'
  BY <1>0, <1>5 DEF FailOpen, ExpireFails, SetExpiry, Forgive, Grants, First, Lifetime, valkey
<1>6. ASSUME NEW s \in Checks, FailOpenCounted(s) PROVE LimiterTypeOK'
  BY <1>0, <1>6 DEF FailOpenCounted, Bump, Complete, Forgive, Grants
<1>7. ASSUME NEW s \in Checks, Leave(s) PROVE LimiterTypeOK'
  BY <1>7 DEF Leave, valkey
<1>8. CASE Tick
  BY <1>8 DEF Tick, check
<1>9. CASE UNCHANGED limiterVars
  BY <1>9 DEF limiterVars, valkey, check
<1> QED BY <1>1, <1>2, <1>3, <1>4, <1>5, <1>6, <1>7, <1>8, <1>9 DEF LimiterNext

LEMMA LimiterStep == LimiterInv /\ [LimiterNext]_limiterVars => LimiterInv'
<1> SUFFICES ASSUME LimiterInv, [LimiterNext]_limiterVars
             PROVE  OnTheirWay' /\ Complete' /\ Grants' /\ Rejections'
  BY LimiterTypeStep DEF LimiterInv
<1> DEFINE Rest == OnTheirWay /\ Complete /\ Grants /\ Rejections
<1> USE LimiterConstants DEF LimiterInv
<1>0. /\ LimiterTypeOK
      /\ \A s \in Checks : began[s] \in Nat /\ Key(s) \in Windows
  BY InWindows DEF LimiterTypeOK, Key
<1>1. ASSUME NEW s \in Checks, Begin(s) PROVE Rest'
  BY <1>0, <1>1
     DEF Begin, valkey, LimiterTypeOK, OnTheirWay, Complete, Grants, First, Key, Rejections,
         RejectedOnlyWhenFull, RestOfWindow
<1>2. ASSUME NEW s \in Checks, FirstIncr(s) PROVE Rest'
  <2> DEFINE w == Key(s)
  <2>0. w \in Windows /\ clock \in Nat /\ MaxRequests \in Nat
        /\ \A v \in Windows : value[v] \in Nat /\ counted[v] \in Nat /\ granted[v] \in Nat
    BY <1>0 DEF LimiterTypeOK
  <2>1. phase[s] = "incr" /\ value[w] = 0 /\ clock < End(w)
    <3>1. clock <= began[s] + WindowSecs
      BY <1>0, <1>2 DEF FirstIncr, OnTheirWay, LimiterTypeOK
    <3> QED BY <1>0, <1>2, <2>0, <3>1, EndBounds, EndNat DEF FirstIncr, Key
  <2>2. counted[w] = 0 /\ granted[w] = 0
    BY <2>0, <2>1 DEF Complete, Grants
  <2>3. /\ value' = [value EXCEPT ![w] = @ + 1]
        /\ counted' = [counted EXCEPT ![w] = @ + 1]
        /\ count' = [count EXCEPT ![s] = 1]
        /\ phase' = [phase EXCEPT ![s] = "expire"]
        /\ UNCHANGED <<clock, expiry, began, retry, granted>>
    BY <1>2 DEF FirstIncr, Bump
  <2>4. \A r \in Checks : Key(r)' = Key(r)
    BY <2>3 DEF Key
  <2>5. OnTheirWay'
    BY <1>0, <2>1, <2>3 DEF OnTheirWay, LimiterTypeOK
  <2>6. Complete'
    BY <1>0, <2>0, <2>3 DEF Complete, LimiterTypeOK
  <2>7. \A r \in Checks : ~First(r, w)
    BY <2>0, <2>2 DEF Grants
  <2>8. Grants'
    BY <1>0, <2>0, <2>2, <2>3, <2>4, <2>7 DEF Grants, First, LimiterTypeOK
  <2>9. Rejections'
    BY <1>0, <2>0, <2>3, <2>4
       DEF Rejections, RejectedOnlyWhenFull, RestOfWindow, LimiterTypeOK
  <2> QED BY <2>5, <2>6, <2>8, <2>9
<1>3. ASSUME NEW s \in Checks, NextIncr(s) PROVE Rest'
  <2> DEFINE w == Key(s)
  <2>0. w \in Windows /\ clock \in Nat /\ MaxRequests \in Nat
        /\ \A v \in Windows : value[v] \in Nat /\ counted[v] \in Nat /\ granted[v] \in Nat
    BY <1>0 DEF LimiterTypeOK
  <2>1. phase[s] = "incr" /\ value[w] > 0 /\ clock < End(w)
    <3>1. clock <= began[s] + WindowSecs
      BY <1>0, <1>3 DEF NextIncr, OnTheirWay, LimiterTypeOK
    <3> QED BY <1>0, <1>3, <2>0, <3>1, EndBounds, EndNat DEF NextIncr, Key
  <2>2. counted[w] = value[w]
    BY <2>0, <2>1 DEF Complete
  <2>3. /\ value' = [value EXCEPT ![w] = @ + 1]
        /\ counted' = [counted EXCEPT ![w] = @ + 1]
        /\ UNCHANGED <<clock, expiry, began>>
    BY <1>3 DEF NextIncr, Bump
  <2>4. \A r \in Checks : Key(r)' = Key(r)
    BY <2>3 DEF Key
  <2>5. \A r \in Checks \ {s} : phase'[r] = phase[r] /\ retry'[r] = retry[r] /\ count'[r] = count[r]
    BY <1>0, <1>3 DEF NextIncr, Decide, LimiterTypeOK
  <2>6. \/ /\ counted[w] + 1 > MaxRequests
           /\ phase'[s] = "rejected" /\ retry'[s] = RetryAfter(began[s])
           /\ granted' = granted
        \/ /\ counted[w] + 1 <= MaxRequests
           /\ phase'[s] = "allowed"
           /\ granted' = [granted EXCEPT ![w] = @ + 1]
    BY <1>0, <1>3, <2>0, <2>2, NextWindow DEF NextIncr, Decide, Exceeds, LimiterTypeOK
  <2>7. OnTheirWay'
    BY <1>0, <2>3, <2>5, <2>6 DEF OnTheirWay
  <2>8. Complete'
    BY <1>0, <2>0, <2>3 DEF Complete, LimiterTypeOK
  <2>9. Grants'
    BY <1>0, <2>0, <2>3, <2>4, <2>5, <2>6 DEF Grants, First, LimiterTypeOK
  <2>10. Rejections'
    BY <1>0, <2>0, <2>3, <2>4, <2>5, <2>6, NextWindow

       DEF Rejections, RejectedOnlyWhenFull, RestOfWindow, LimiterTypeOK, Key
  <2> QED BY <2>7, <2>8, <2>9, <2>10
<1>4. ASSUME NEW s \in Checks, Expire(s) \/ ExpireFails(s) PROVE Rest'
  <2> DEFINE w == Key(s)
  <2>0. w \in Windows /\ clock \in Nat /\ MaxRequests \in Nat
        /\ \A v \in Windows : value[v] \in Nat /\ counted[v] \in Nat /\ granted[v] \in Nat
    BY <1>0 DEF LimiterTypeOK
  <2>1. First(s, w) /\ count[s] = 1
    BY <1>4, <2>0 DEF Expire, ExpireFails, First, Grants
  <2>2. /\ \A v \in Windows : expiry'[v] = expiry[v] \/ (v = w /\ expiry'[v] = clock + Lifetime)
        /\ UNCHANGED <<clock, value, began, count, counted>>
    BY <1>0, <1>4 DEF Expire, ExpireFails, SetExpiry, LimiterTypeOK
  <2>3. clock + Lifetime >= End(w) /\ clock + Lifetime \in Nat
    BY <1>0, <2>0, EndBounds, EndNat DEF OnTheirWay, Key, Lifetime
  <2>4. \A r \in Checks : Key(r)' = Key(r)
    BY <2>2 DEF Key
  <2>5. \A r \in Checks \ {s} : phase'[r] = phase[r] /\ retry'[r] = retry[r]
    BY <1>0, <1>4 DEF Expire, ExpireFails, Decide, Forgive, LimiterTypeOK
  <2>6. \/ /\ 1 > MaxRequests
           /\ \/ phase'[s] = "rejected" /\ retry'[s] = RetryAfter(began[s])
              \/ phase'[s] = "open"
           /\ granted' = granted
        \/ /\ 1 <= MaxRequests
           /\ phase'[s] \in {"allowed", "open"}
           /\ granted' = [granted EXCEPT ![w] = @ + 1]
    BY <1>0, <1>4, <2>0, <2>1, NextWindow
       DEF Expire, ExpireFails, Decide, Forgive, Exceeds, LimiterTypeOK
  <2>7. OnTheirWay'
    BY <1>0, <2>2, <2>5, <2>6 DEF OnTheirWay
  <2>8. Complete'
    BY <1>0, <2>0, <2>2, <2>3 DEF Complete
  <2>9. /\ \A r \in Checks, v \in Windows : First(r, v)' => First(r, v) /\ v # w
        /\ granted[w] + 1 <= counted[w] /\ (MaxRequests = 0 \/ granted[w] + 1 <= MaxRequests)
    <3>1. \A r \in Checks : First(r, w) => r = s
      BY <2>0, <2>1 DEF Grants
    <3> QED BY <2>0, <2>1, <2>4, <2>5, <2>6, <3>1 DEF Grants, First
  <2>10. Grants'
    BY <1>0, <2>0, <2>2, <2>6, <2>9 DEF Grants, LimiterTypeOK
  <2>11. Rejections'
    BY <1>0, <2>0, <2>2, <2>4, <2>5, <2>6, <2>9, NextWindow
       DEF Rejections, RejectedOnlyWhenFull, RestOfWindow, Key
  <2> QED BY <2>7, <2>8, <2>10, <2>11
<1>5. ASSUME NEW s \in Checks, FailOpen(s) PROVE Rest'
  BY <1>0, <1>5
     DEF FailOpen, valkey, LimiterTypeOK, OnTheirWay, Complete, Grants, First, Key, Rejections,
         RejectedOnlyWhenFull, RestOfWindow
<1>6. ASSUME NEW s \in Checks, FailOpenCounted(s) PROVE Rest'
  <2> DEFINE w == Key(s)
  <2>0. w \in Windows /\ clock \in Nat /\ MaxRequests \in Nat
        /\ \A v \in Windows : value[v] \in Nat /\ counted[v] \in Nat /\ granted[v] \in Nat
    BY <1>0 DEF LimiterTypeOK
  <2>1. /\ value' = [value EXCEPT ![w] = @ + 1]
        /\ counted' = [counted EXCEPT ![w] = @ + 1]
        /\ phase' = [phase EXCEPT ![s] = "open"]
        /\ \/ granted' = granted
           \/ /\ counted[w] + 1 <= MaxRequests
              /\ granted' = [granted EXCEPT ![w] = @ + 1]
        /\ UNCHANGED <<clock, expiry, began, count, retry>>
    BY <1>0, <1>6, <2>0 DEF FailOpenCounted, Bump, Forgive, LimiterTypeOK
  <2>2. \A r \in Checks : Key(r)' = Key(r)
    BY <2>1 DEF Key
  <2>3. OnTheirWay' /\ Complete'
    BY <1>0, <2>0, <2>1 DEF OnTheirWay, Complete, LimiterTypeOK
  <2>4. Grants'
    BY <1>0, <2>0, <2>1, <2>2 DEF Grants, First, LimiterTypeOK
  <2>5. Rejections'
    BY <1>0, <2>0, <2>1, <2>2
       DEF Rejections, RejectedOnlyWhenFull, RestOfWindow, LimiterTypeOK
  <2> QED BY <2>3, <2>4, <2>5
<1>7. ASSUME NEW s \in Checks, Leave(s) PROVE Rest'
  BY <1>0, <1>7
     DEF Leave, valkey, LimiterTypeOK, OnTheirWay, Complete, Grants, First, Key, Rejections,
         RejectedOnlyWhenFull, RestOfWindow
<1>8. CASE Tick
  <2>0. /\ clock \in Nat /\ clock' = clock + 1
        /\ UNCHANGED <<phase, began, count, retry, counted, granted>>
        /\ \A r \in Checks : Key(r)' = Key(r)
    BY <1>0, <1>8 DEF Tick, check, LimiterTypeOK, Key
  <2>1. OnTheirWay'
    <3>1. ASSUME NEW r \in Checks
          PROVE  began'[r] <= clock' /\ (phase'[r] = "incr" => clock' - began'[r] <= MaxDelay)
      <4>1. /\ began[r] \in Nat /\ began[r] <= clock
            /\ phase[r] = "incr" => clock - began[r] < MaxDelay
        BY <1>0, <1>8 DEF Tick, OnTheirWay
      <4> QED BY <2>0, <4>1
    <3> QED BY <3>1 DEF OnTheirWay
  <2>2. ASSUME NEW w \in Windows
        PROVE  /\ value'[w] <= counted'[w]
               /\ clock' < End(w) => value'[w] = counted'[w]
               /\ expiry'[w] # Never => expiry'[w] >= End(w)
    <3>1. value[w] \in Nat /\ counted[w] \in Nat /\ End(w) \in Nat
          /\ (expiry[w] # Never => expiry[w] \in Nat)
      BY EndNat, <1>0 DEF LimiterTypeOK, Lifetime
    <3>2. CASE Due(w, clock + 1)
      <4>1. value'[w] = 0 /\ expiry'[w] = Never /\ End(w) <= clock + 1
        BY <1>8, <2>0, <3>1, <3>2 DEF Tick, Due, Complete
      <4> QED BY <2>0, <3>1, <4>1
    <3>3. CASE ~Due(w, clock + 1)
      <4>1. value'[w] = value[w] /\ expiry'[w] = expiry[w]
        BY <1>8, <3>3 DEF Tick
      <4> QED BY <2>0, <3>1, <4>1 DEF Complete
    <3> QED BY <3>2, <3>3
  <2>3. Complete'
    BY <2>2 DEF Complete, End, Windows
  <2>4. Grants' /\ Rejections'
    BY <2>0 DEF Grants, First, Rejections, RejectedOnlyWhenFull, RestOfWindow
  <2> QED BY <2>1, <2>3, <2>4
<1>9. CASE UNCHANGED limiterVars
  BY <1>9
     DEF limiterVars, valkey, check, OnTheirWay, Complete, Grants, First, Key, Rejections,
         RejectedOnlyWhenFull, RestOfWindow
<1> QED BY <1>1, <1>2, <1>3, <1>4, <1>5, <1>6, <1>7, <1>8, <1>9 DEF LimiterNext

LEMMA LimiterInvariant == LimiterSpec => []LimiterInv
BY LimiterInitial, LimiterStep, PTL DEF LimiterSpec

-----------------------------------------------------------------------------
\* Every variable keeps its type (rate_limit.rs:55-96).
THEOREM LimiterTypeCorrect == LimiterSpec => []LimiterTypeOK
<1>1. LimiterInv => LimiterTypeOK
  BY DEF LimiterInv
<1> QED BY <1>1, LimiterInvariant, PTL

\* Of the requests counted for a window no more than max_requests are let through, but for
\* those that meet an error when the quota is spent: for every quota and length of a window,
\* with checks that reach Valkey up to a window late (rate_limit.rs:55-77, 85-93).
THEOREM QuotaHolds == LimiterSpec => []WindowQuota
<1>1. LimiterInv => WindowQuota
  BY DEF LimiterInv, Grants, WindowQuota
<1> QED BY <1>1, LimiterInvariant, PTL

\* Nobody is rejected while there is room (rate_limit.rs:70-72).
THEOREM RejectionsAreDue == LimiterSpec => []RejectedOnlyWhenFull
<1>1. LimiterInv => RejectedOnlyWhenFull
  BY DEF LimiterInv, Rejections
<1> QED BY <1>1, LimiterInvariant, PTL

LEMMA BackInTime == LimiterInv => RetryReachesNextWindow
<1> SUFFICES ASSUME LimiterInv, NEW s \in Checks, phase[s] = "rejected"
             PROVE  /\ WindowOf(clock + retry[s]) > Key(s)
                    /\ WindowOf(clock) = Key(s) => WindowOf(clock + retry[s]) = Key(s) + 1
  BY DEF RetryReachesNextWindow
<1> DEFINE v == Key(s)
           start == (v + 1) * WindowSecs
<1>1. /\ clock \in Nat /\ began[s] \in Nat /\ retry[s] \in 0 .. WindowSecs
      /\ began[s] <= clock
      /\ began[s] + retry[s] = start
  BY LimiterConstants
     DEF LimiterInv, LimiterTypeOK, OnTheirWay, Rejections, RestOfWindow
<1>2. v \in Nat /\ v * WindowSecs <= began[s] /\ v * WindowSecs \in Nat
  BY <1>1, WindowBounds DEF Key
<1>3. start \in Nat /\ start = v * WindowSecs + WindowSecs
      /\ (v + 1 + 1) * WindowSecs = start + WindowSecs
  BY <1>2, LimiterConstants
<1> HIDE DEF v, start
<1>4. clock + retry[s] \in Nat /\ start <= clock + retry[s]
  BY <1>1, <1>3, LimiterConstants
<1>5. WindowOf(clock + retry[s]) > v /\ WindowOf(clock + retry[s]) \in Nat
  BY <1>2, <1>4, WindowsApart, WindowBounds DEF start
<1>6. ASSUME WindowOf(clock) = v PROVE WindowOf(clock + retry[s]) = v + 1
  <2>1. clock < start
    BY <1>1, <1>3, <1>6, WindowBounds
  <2>2. clock + retry[s] < (v + 1 + 1) * WindowSecs
    BY <1>1, <1>3, <2>1, LimiterConstants
  <2>3. WindowOf(clock + retry[s]) <= v + 1
    BY <1>2, <1>4, <2>2, WindowsApart
  <2> QED BY <1>2, <1>5, <2>3
<1> QED BY <1>5, <1>6 DEF v

\* A client that waits as told, from the second in which it is answered, comes back in a
\* later window than the one that rejected it, and in the very next one if it was answered
\* before that one ended (rate_limit.rs:56-61, 71-73).
THEOREM RetriesAreInTime == LimiterSpec => []RetryReachesNextWindow
BY BackInTime, LimiterInvariant, PTL
=============================================================================
