---------------------------- MODULE ServerProofs ----------------------------
(***************************************************************************)
(* Theorems about Server, for every number of connections of clients and   *)
(* of the pool, length of a handler and shutdown timeout.                  *)
(***************************************************************************)
EXTENDS Server, FiniteSetTheorems, TLAPS

\* Until the pool is closed main() has not got past its select!; unless the timer fired,
\* it gets past it when every handler has ended.
Orderly ==
    /\ ~poolOpen => phase \in {"closing", "stopped"}
    /\ phase \in {"closing", "stopped"} => forced \/ running = {}
    /\ CutOnlyByTimer

\* A handler in a transaction has its connection until its last statement, and none has
\* one after that.
Attached ==
    /\ \A c \in running \cap inTx : steps[c] \in 1 .. Length - 1 => c \in holds
    /\ \A c \in holds : steps[c] < Length
    /\ TransactionsFinish

ServerInv == ServerTypeOK /\ IsFiniteSet(holds) /\ Orderly /\ Attached

LEMMA ServerInitial == ServerInit => ServerInv
<1>1. IsFiniteSet({}) /\ Cardinality({}) = 0
  BY FS_EmptySet
<1>2. ServerInit => IsFiniteSet(holds) /\ Cardinality(holds) <= PoolSize
  BY <1>1, ServerConstants DEF ServerInit
<1>3. ServerInit => Orderly /\ Attached
  BY ServerConstants DEF ServerInit, Orderly, CutOnlyByTimer, Attached, TransactionsFinish
<1>4. ServerInit => /\ signalled \in BOOLEAN /\ forced \in BOOLEAN /\ poolOpen \in BOOLEAN
                    /\ phase = "serving" /\ running = {} /\ inTx = {} /\ holds = {} /\ cut = {}
  BY DEF ServerInit
<1>5. ServerInit => elapsed \in 0 .. ShutdownTimeout /\ steps \in [Clients -> 0 .. Length]
  BY ServerConstants DEF ServerInit
<1>6. ServerInit => ServerTypeOK
  BY <1>2, <1>4, <1>5 DEF ServerTypeOK
<1> QED BY <1>2, <1>3, <1>6 DEF ServerInv

LEMMA ServerStep == ServerInv /\ [ServerNext]_serverVars => ServerInv'
<1> SUFFICES ASSUME ServerInv, [ServerNext]_serverVars PROVE ServerInv'
  OBVIOUS
<1> USE ServerConstants
    DEF ServerInv, ServerTypeOK, Orderly, CutOnlyByTimer, Attached, TransactionsFinish
<1>0. \A c \in Clients : c \in holds =>
         IsFiniteSet(holds \ {c}) /\ Cardinality(holds \ {c}) <= PoolSize
  <2> SUFFICES ASSUME NEW c \in Clients, c \in holds
               PROVE  IsFiniteSet(holds \ {c}) /\ Cardinality(holds \ {c}) <= PoolSize
    OBVIOUS
  <2>1. IsFiniteSet(holds) /\ Cardinality(holds) \in Nat
    BY FS_CardinalityType
  <2>2. IsFiniteSet(holds \ {c}) /\ Cardinality(holds \ {c}) = Cardinality(holds) - 1
    BY <2>1, FS_RemoveElement, Zenon
  <2> QED BY <2>1, <2>2
<1>1. ASSUME NEW c \in Clients, Arrive(c, TRUE) \/ Arrive(c, FALSE) PROVE ServerInv'
  BY <1>1 DEF Arrive, process
<1>2. ASSUME NEW c \in Clients, Acquire(c) PROVE ServerInv'
  <2>1. IsFiniteSet(holds') /\ Cardinality(holds') <= PoolSize
    <3>1. IsFiniteSet(holds) /\ Cardinality(holds) \in Nat
      BY FS_CardinalityType
    <3>2. c \notin holds /\ holds' = holds \cup {c} /\ Cardinality(holds) < PoolSize
      BY <1>2 DEF Acquire, Waiting
    <3>3. IsFiniteSet(holds \cup {c}) /\ Cardinality(holds \cup {c}) = Cardinality(holds) + 1
      BY <3>1, <3>2, FS_AddElement, Zenon
    <3> QED BY <3>1, <3>2, <3>3
  <2> QED BY <1>2, <2>1 DEF Acquire, Waiting, process
<1>3. ASSUME NEW c \in Clients, Execute(c) PROVE ServerInv'
  <2>1. IsFiniteSet(holds') /\ Cardinality(holds') <= PoolSize
    BY <1>0, <1>3 DEF Execute
  <2> QED BY <1>3, <2>1 DEF Execute, process
<1>4. ASSUME NEW c \in Clients, Answer(c) PROVE ServerInv'
  BY <1>4 DEF Answer, process
<1>5. ASSUME NEW c \in Clients, PoolClosed(c) PROVE ServerInv'
  BY <1>5 DEF PoolClosed, Waiting, process
<1>6. ASSUME NEW c \in Clients, PoolTimedOut(c) PROVE ServerInv'
  BY <1>6 DEF PoolTimedOut, Waiting, process
<1>7. ASSUME NEW c \in Clients, HangUp(c) PROVE ServerInv'
  <2>1. IsFiniteSet(holds') /\ Cardinality(holds') <= PoolSize
    <3>1. CASE c \in holds
      BY <1>0, <1>7, <3>1 DEF HangUp
    <3>2. CASE c \notin holds
      <4>1. holds' = holds
        BY <1>7, <3>2 DEF HangUp
      <4> QED BY <4>1
    <3> QED BY <3>1, <3>2
  <2> QED BY <1>7, <2>1 DEF HangUp, process
<1>8. CASE Signal
  BY <1>8 DEF Signal, handlers
<1>9. CASE Drained
  BY <1>9 DEF Drained, handlers
<1>10. CASE TimedOut
  BY <1>10 DEF TimedOut, handlers
<1>11. CASE ClosePool
  BY <1>11 DEF ClosePool, handlers
<1>12. CASE Stop
  BY <1>12 DEF Stop, handlers
<1>13. CASE Tick
  BY <1>13 DEF Tick, handlers
<1>14. CASE UNCHANGED serverVars
  BY <1>14 DEF serverVars, process, handlers
<1> QED
  BY <1>1, <1>2, <1>3, <1>4, <1>5, <1>6, <1>7, <1>8, <1>9, <1>10, <1>11, <1>12, <1>13, <1>14
     DEF ServerNext, Work, Main

LEMMA ServerInvariant == ServerSpec => []ServerInv
BY ServerInitial, ServerStep, PTL DEF ServerSpec

\* Every variable keeps its type, and the pool its limit (main.rs:100-103).
THEOREM ServerTypeCorrect == ServerSpec => []ServerTypeOK
<1>1. ServerInv => ServerTypeOK
  BY DEF ServerInv
<1> QED BY <1>1, ServerInvariant, PTL

\* Handlers lose statements to a shutdown only if the timer has fired (main.rs:134-148).
THEOREM CutsAreForced == ServerSpec => []CutOnlyByTimer
<1>1. ServerInv => CutOnlyByTimer
  BY DEF ServerInv, Orderly
<1> QED BY <1>1, ServerInvariant, PTL

\* No transaction is cut, whatever the timer does (main.rs:148-154, user.rs:104-156).
THEOREM TransactionsAreKept == ServerSpec => []TransactionsFinish
<1>1. ServerInv => TransactionsFinish
  BY DEF ServerInv, Attached
<1> QED BY <1>1, ServerInvariant, PTL

\* Once pool.close() has begun, connections only come back (main.rs:148-154).
THEOREM ClosedPoolDrains == ServerSpec => PoolOnlyDrains
<1>1. ServerInv /\ [ServerNext]_serverVars => [ClosingStep]_serverVars
  <2> SUFFICES ASSUME ServerInv, ServerNext, ~poolOpen PROVE ClosingStep
    BY DEF ClosingStep
  <2>1. /\ phase \in {"closing", "stopped"}
        /\ holds \subseteq running /\ running \subseteq Clients
        /\ steps \in [Clients -> Nat]
    BY ServerConstants DEF ServerInv, ServerTypeOK, Orderly
  <2> USE DEF ClosingStep
  <2>2. ASSUME NEW c \in Clients, Arrive(c, TRUE) \/ Arrive(c, FALSE) PROVE ClosingStep
    BY <2>1, <2>2 DEF Arrive, process
  <2>3. ASSUME NEW c \in Clients, Acquire(c) \/ PoolTimedOut(c) PROVE ClosingStep
    BY <2>3 DEF Acquire, PoolTimedOut
  <2>4. ASSUME NEW c \in Clients, Execute(c) PROVE ClosingStep
    BY <2>1, <2>4 DEF Execute, process
  <2>5. ASSUME NEW c \in Clients, Answer(c) \/ PoolClosed(c) \/ HangUp(c) PROVE ClosingStep
    BY <2>1, <2>5 DEF Answer, PoolClosed, HangUp, process
  <2>6. CASE Signal \/ Main \/ Tick
    BY <2>1, <2>6 DEF Signal, Main, Drained, TimedOut, ClosePool, Stop, Tick, handlers
  <2>7. CASE UNCHANGED serverVars
    BY <2>1, <2>7 DEF serverVars, process, handlers
  <2> QED BY <2>2, <2>3, <2>4, <2>5, <2>6, <2>7 DEF ServerNext, Work
<1> QED BY <1>1, ServerInvariant, PTL DEF ServerSpec, PoolOnlyDrains
=============================================================================
