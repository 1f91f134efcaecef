----------------------- MODULE CoordinatorClock_proofs -----------------------
(***************************************************************************)
(* Theorems about CoordinatorClock, for tickers of any periods and any     *)
(* silence longer than the period of the snapshots.                        *)
(***************************************************************************)
EXTENDS CoordinatorClock, TLAPS

\* The steps of the loop that read or set the clock are steps of Coordinator.
LEMMA StepImplements == ClockType /\ [Next]_vars => [C!Next]_(C!vars)
<1> SUFFICES ASSUME ClockType, [Next]_vars
             PROVE  [C!Next]_(C!vars)
  OBVIOUS
<1>1. CASE Receive
  BY <1>1 DEF Receive, C!Next, C!CoordinatorStep
<1>2. CASE SilenceTick
  BY <1>2 DEF SilenceTick, C!Next, C!CoordinatorStep
<1>3. CASE EarlySilenceTick
  BY <1>3 DEF EarlySilenceTick, loop, C!vars, Silent
<1>4. CASE SnapshotTick
  BY <1>4 DEF SnapshotTick, C!Next, C!CoordinatorStep
<1>5. CASE IdleSnapshotTick
  BY <1>5 DEF IdleSnapshotTick, loop, C!vars, Silent
<1>6. CASE Untimed
  BY <1>6 DEF Untimed, C!Next, C!CoordinatorStep, C!Environment
<1>7. CASE Elapse
  <2>1. UNCHANGED loop /\ age' \in Nat /\ age' >= age
    BY <1>7, ClockAssumption DEF Elapse, ClockType, ClockAssumption, Oldest
  <2>2. Silent => Silent'
    BY <2>1, ClockAssumption DEF Silent, ClockType, ClockAssumption, Oldest
  <2>3. CASE Silent' <=> Silent
    <3>1. Silent' = Silent
      BY <2>3 DEF Silent
    <3> QED BY <2>1, <3>1 DEF loop, C!vars
  <2>4. CASE ~Silent /\ Silent'
    BY <2>1, <2>4 DEF loop, C!Next, C!Environment, C!Quiet
  <2> QED BY <2>2, <2>3, <2>4
<1>8. CASE UNCHANGED vars
  BY <1>8 DEF vars, loop, clock, C!vars, Silent
<1> QED
  BY <1>1, <1>2, <1>3, <1>4, <1>5, <1>6, <1>7, <1>8 DEF Next

\* The clock does what Coordinator allows a loop to do that knows no time, so
\* that what holds of Coordinator holds here.
THEOREM Implementation == Spec => ImplementsCoordinator
<1>1. Init => C!Init
  BY DEF Init
<1>2. ASSUME ClockType, [Next]_vars
      PROVE  ClockType'
  BY <1>2, ClockAssumption
  DEF ClockType, Oldest, Next, vars, clock, Receive, SilenceTick, EarlySilenceTick,
      SnapshotTick, IdleSnapshotTick, Untimed, Elapse, Countdown, ClockAssumption
<1>3. Init => ClockType
  BY ClockAssumption DEF Init, ClockType, Oldest, ClockAssumption
<1> QED BY <1>1, <1>2, <1>3, StepImplements, PTL DEF Spec, ImplementsCoordinator, C!Spec

-----------------------------------------------------------------------------
\* An update leaves a position a position, whatever it assigns.
LEMMA ApplyType ==
    ASSUME NEW u \in C!UpdateKind, NEW p \in C!Position
    PROVE  C!Apply(u, p) \in C!Position
  BY DEF C!Apply, C!UpdateKind, C!Position

\* Adding to a channel that is not full, and taking from one that is not
\* empty, keep what is in it and its capacity.
LEMMA ChannelAppend ==
    ASSUME NEW S, NEW s \in Seq(S), NEW e \in S, NEW n \in Nat, Len(s) < n
    PROVE  Append(s, e) \in Seq(S) /\ Len(Append(s, e)) <= n
  OBVIOUS

\* A channel that gives up its first element stays a channel within its capacity.
LEMMA ChannelTail ==
    ASSUME NEW S, NEW s \in Seq(S), NEW n \in Nat, Len(s) <= n, s # <<>>
    PROVE  /\ Head(s) \in S
           /\ Tail(s) \in Seq(S)
           /\ Len(Tail(s)) <= n
  OBVIOUS

-----------------------------------------------------------------------------
\* The loop starts within its types and no step leaves them.
LEMMA LoopTypeInit == C!Init => C!TypeOK
<1> SUFFICES ASSUME C!Init
             PROVE  C!TypeOK
  OBVIOUS
<1> USE ClockAssumption DEF ClockAssumption
<1>1. pos \in C!Position /\ offered \in C!Snapshot
  BY DEF C!Init, C!Position, C!Snapshot
<1>2. ctxDone \in BOOLEAN /\ live \in BOOLEAN /\ wasPaused \in BOOLEAN /\ Silent \in BOOLEAN
  BY DEF C!Init
<1>3. /\ updates \in Seq(C!UpdateKind) /\ Len(updates) <= UpdateBuffer
      /\ snapshots \in Seq(C!Snapshot) /\ Len(snapshots) <= SnapshotBuffer
      /\ pc \in {"select", "resubscribe", "offer", "done"}
  BY DEF C!Init
<1> QED BY <1>1, <1>2, <1>3 DEF C!TypeOK

\* Every step of the loop and of the goroutines around it keeps the types.
LEMMA LoopTypeStep == C!TypeOK /\ [C!Next]_C!vars => C!TypeOK'
<1> USE ClockAssumption DEF ClockAssumption
<1> SUFFICES ASSUME C!TypeOK, [C!Next]_C!vars
             PROVE  C!TypeOK'
  OBVIOUS
<1>1. CASE C!Stop
  BY <1>1 DEF C!Stop, C!TypeOK
<1>2. CASE C!Receive
  <2>1. /\ updates' \in Seq(C!UpdateKind)
        /\ Len(updates') <= UpdateBuffer
        /\ Head(updates) \in C!UpdateKind
    BY <1>2, ChannelTail DEF C!Receive, C!TypeOK
  <2>2. pos' \in C!Position
    BY <1>2, <2>1, ApplyType DEF C!Receive, C!TypeOK
  <2> QED BY <1>2, <2>1, <2>2 DEF C!Receive, C!TypeOK
<1>3. CASE C!SilenceTick
  BY <1>3 DEF C!SilenceTick, C!TypeOK
<1>4. CASE C!Resubscribed
  BY <1>4 DEF C!Resubscribed, C!TypeOK
<1>5. CASE C!SnapshotTick
  <2>1. offered' \in C!Snapshot /\ pos' \in C!Position
    BY <1>5 DEF C!SnapshotTick, C!TakenSnapshot, C!Flush, C!TypeOK, C!Snapshot, C!Position
  <2> QED BY <1>5, <2>1 DEF C!SnapshotTick, C!TypeOK, C!Position
<1>6. CASE C!HandOver
  <2>1. snapshots' \in Seq(C!Snapshot) /\ Len(snapshots') <= SnapshotBuffer
    BY <1>6, ChannelAppend DEF C!HandOver, C!SnapshotRoom, C!TypeOK
  <2> QED BY <1>6, <2>1 DEF C!HandOver, C!SnapshotRoom, C!TypeOK
<1>7. CASE C!Abandon
  BY <1>7 DEF C!Abandon, C!TypeOK
<1>8. ASSUME NEW u \in C!UpdateKind, C!Hear(u)
      PROVE  C!TypeOK'
  <2>1. updates' \in Seq(C!UpdateKind) /\ Len(updates') <= UpdateBuffer
    BY <1>8, ChannelAppend DEF C!Hear, C!TypeOK
  <2> QED BY <1>8, <2>1 DEF C!Hear, C!TypeOK
<1>9. CASE C!Drain
  <2>1. snapshots' \in Seq(C!Snapshot) /\ Len(snapshots') <= SnapshotBuffer
    BY <1>9, ChannelTail DEF C!Drain, C!TypeOK
  <2> QED BY <1>9, <2>1 DEF C!Drain, C!TypeOK
<1>10. CASE C!Quiet
  BY <1>10 DEF C!Quiet, C!TypeOK
<1>11. CASE C!Cancel
  BY <1>11 DEF C!Cancel, C!TypeOK
<1>12. CASE UNCHANGED C!vars
  BY <1>12 DEF C!vars, C!TypeOK
<1> QED
  BY <1>1, <1>2, <1>3, <1>4, <1>5, <1>6, <1>7, <1>8, <1>9, <1>10, <1>11, <1>12
  DEF C!Next, C!CoordinatorStep, C!Environment, C!Finished

\* Every variable keeps the type its declaration promises, for channels of any
\* capacity.
THEOREM LoopTypes == C!Spec => []C!TypeOK
  BY LoopTypeInit, LoopTypeStep, PTL DEF C!Spec

-----------------------------------------------------------------------------
\* What the loop remembers as wasPaused is what its latest snapshot said.
Remembered == wasPaused = offered.paused

\* wasPaused is the pause of the latest snapshot, in every reachable state.
LEMMA RememberedHolds == C!Spec => []Remembered
<1>1. ASSUME C!Init
      PROVE  Remembered
  BY <1>1 DEF C!Init, Remembered
<1>2. Remembered /\ [C!Next]_C!vars => Remembered'
  <2> SUFFICES ASSUME Remembered, [C!Next]_C!vars
               PROVE  Remembered'
    OBVIOUS
  <2>1. CASE C!SnapshotTick
    BY <2>1 DEF C!SnapshotTick, C!TakenSnapshot, Remembered
  <2>2. CASE UNCHANGED <<wasPaused, offered>>
    BY <2>2 DEF Remembered
  <2> QED
    BY <2>1, <2>2
    DEF C!Next, C!CoordinatorStep, C!Environment, C!Finished, C!vars, C!Stop, C!Receive,
        C!SilenceTick, C!Resubscribed, C!HandOver, C!Abandon, C!Hear, C!Drain, C!Quiet, C!Cancel
<1> QED BY <1>1, <1>2, PTL DEF C!Spec

\* Between two snapshots in a row a change of pause is flagged, and a paused
\* simulator adds nothing unless it crashed: the step that takes a snapshot
\* compares the position with what the latest snapshot said.
THEOREM LoopPauseEdges == C!Spec => C!PauseEdgesAreFlushed
<1>1. C!TypeOK /\ Remembered /\ [C!Next]_C!vars
      => [C!Taking => /\ offered'.paused # offered.paused => offered'.flush
                      /\ offered'.paused /\ offered.paused => offered'.crashed]_C!vars
  <2> SUFFICES ASSUME C!TypeOK, Remembered, C!Next, C!Taking
               PROVE  /\ offered'.paused # offered.paused => offered'.flush
                      /\ offered'.paused /\ offered.paused => offered'.crashed
    OBVIOUS
  <2>1. C!SnapshotTick
    BY DEF C!Taking, C!Next, C!CoordinatorStep, C!Environment, C!Finished, C!vars, C!Stop,
           C!Receive, C!SilenceTick, C!Resubscribed, C!HandOver, C!Abandon, C!Hear, C!Drain,
           C!Quiet, C!Cancel
  <2>2. offered' = C!TakenSnapshot /\ (pos.paused => C!Flush)
    BY <2>1 DEF C!SnapshotTick
  <2> QED BY <2>2 DEF C!TakenSnapshot, C!Flush, Remembered, C!TypeOK, C!Position
<1> QED BY <1>1, LoopTypes, RememberedHolds, PTL DEF C!Spec, C!PauseEdgesAreFlushed

-----------------------------------------------------------------------------
\* The clock starts within its types and no step leaves them.
LEMMA TypeInit == Init => TypeOK
<1> SUFFICES ASSUME Init
             PROVE  TypeOK
  OBVIOUS
<1>1. C!TypeOK
  BY LoopTypeInit DEF Init
<1>2. ClockType
  BY ClockAssumption DEF Init, ClockType, Oldest, ClockAssumption
<1>3. snapDue \in BOOLEAN /\ silDue \in BOOLEAN
  BY DEF Init
<1> QED BY <1>1, <1>2, <1>3 DEF TypeOK

\* A step by the clock keeps the types of the loop and of the tickers.
LEMMA TypeStep == TypeOK /\ [Next]_vars => TypeOK'
<1> SUFFICES ASSUME TypeOK, [Next]_vars
             PROVE  TypeOK'
  OBVIOUS
<1>1. C!TypeOK'
  BY StepImplements, LoopTypeStep DEF TypeOK
<1>2. ClockType'
  BY ClockAssumption
  DEF TypeOK, ClockType, Oldest, Next, vars, clock, Receive, SilenceTick,
      EarlySilenceTick, SnapshotTick, IdleSnapshotTick, Untimed, Elapse, Countdown,
      ClockAssumption
<1>3. snapDue' \in BOOLEAN /\ silDue' \in BOOLEAN
  BY DEF TypeOK, Next, vars, clock, Receive, SilenceTick, EarlySilenceTick,
         SnapshotTick, IdleSnapshotTick, Untimed, Elapse
<1> QED BY <1>1, <1>2, <1>3 DEF TypeOK

\* Every variable keeps its type, for tickers of any periods.
THEOREM TypeCorrect == Spec => []TypeOK
  BY TypeInit, TypeStep, PTL DEF Spec

\* A change between paused and running is flagged, and a paused simulator adds
\* nothing, whatever the tickers do: the loop by the clock is one of those
\* without (coordinator.go:86-90).
THEOREM PauseEdges == Spec => PauseEdgesAreFlushed
  BY Implementation, LoopPauseEdges, PTL DEF ImplementsCoordinator, PauseEdgesAreFlushed

-----------------------------------------------------------------------------
\* What is added to one term by at most one is made up for by the other.
LEMMA Sooner ==
    ASSUME NEW a \in Nat, NEW b \in Nat, NEW t \in Nat, NEW n \in Nat,
           t >= 1, b <= a + 1, a + t < n
    PROVE  b + (t - 1) < n
  OBVIOUS

\* A unit of time adds at most one to the age and takes one from each ticker.
LEMMA UnitOfTime ==
    ASSUME ClockType, Elapse, NEW n \in Nat
    PROVE  /\ age + snapIn <= n =>
                  age' <= n /\ (snapDue' \/ age' + snapIn' <= n)
           /\ age + silIn < n => silDue' \/ age' + silIn' < n
<1>1. /\ age \in Nat /\ age' \in Nat /\ age' <= age + 1
      /\ snapIn \in Nat /\ snapIn >= 1 /\ silIn \in Nat /\ silIn >= 1
  BY ClockAssumption DEF ClockType, Elapse, Oldest, ClockAssumption
<1>2. snapIn # 1 => snapIn' = snapIn - 1
  BY DEF Elapse, Countdown
<1>3. silIn # 1 => silIn' = silIn - 1
  BY DEF Elapse, Countdown
<1>4. (snapIn = 1 => snapDue') /\ (silIn = 1 => silDue')
  BY DEF Elapse
<1>5. ASSUME age + snapIn <= n
      PROVE  age' <= n /\ (snapIn # 1 => age' + snapIn' <= n)
  BY <1>1, <1>2, <1>5
<1>6. ASSUME age + silIn < n, silIn # 1
      PROVE  age' + silIn' < n
  <2>1. silIn' = silIn - 1
    BY <1>3, <1>6
  <2>2. age' + (silIn - 1) < n
    BY <1>1, <1>6, Sooner
  <2> QED BY <2>1, <2>2
<1> QED BY <1>4, <1>5, <1>6

\* A crash that is latched was received within one period of the snapshots,
\* and the tick that takes it along is due before that period is over: the
\* loop neither leaves its select nor lets the simulator fall silent first.
CrashIsFresh ==
    pos.crashed =>
        /\ live
        /\ pc \in {"select", "done"}
        /\ age <= SnapshotEvery
        /\ snapDue \/ age + snapIn <= SnapshotEvery

\* A step keeps a latched crash no older than the next tick for a snapshot.
LEMMA CrashIsFreshStep == TypeOK /\ CrashIsFresh /\ [Next]_vars => CrashIsFresh'
<1> SUFFICES ASSUME TypeOK, CrashIsFresh, [Next]_vars, pos'.crashed
             PROVE  /\ live'
                    /\ pc' \in {"select", "done"}
                    /\ age' <= SnapshotEvery
                    /\ snapDue' \/ age' + snapIn' <= SnapshotEvery
  BY DEF CrashIsFresh
<1> USE ClockAssumption DEF ClockAssumption, TypeOK, ClockType
<1>1. CASE Receive
  <2>1. live' /\ pc' \in {"select", "done"} /\ age' = 0 /\ snapIn' = snapIn
    BY <1>1 DEF Receive, C!Receive
  <2> QED BY <2>1
<1>2. CASE SnapshotTick
  <2>1. pos'.crashed = FALSE
    BY <1>2 DEF SnapshotTick, C!SnapshotTick, C!TypeOK, C!Position
  <2> QED BY <2>1
<1>3. CASE SilenceTick
  <2>1. age >= Silence /\ pos' = pos
    BY <1>3 DEF SilenceTick, C!SilenceTick, Silent
  <2> QED BY <2>1 DEF CrashIsFresh
<1>4. CASE IdleSnapshotTick
  <2>1. pos' = pos /\ (~live \/ ~pos.crashed)
    BY <1>4 DEF IdleSnapshotTick, loop, C!Flush
  <2> QED BY <2>1 DEF CrashIsFresh
<1>5. CASE EarlySilenceTick
  BY <1>5 DEF EarlySilenceTick, loop, CrashIsFresh
<1>6. CASE Untimed
  <2>1. UNCHANGED clock /\ pos' = pos /\ live' = live
    BY <1>6 DEF Untimed, C!Stop, C!Resubscribed, C!HandOver, C!Abandon, C!Hear,
                C!Drain, C!Cancel, C!Finished, C!vars
  <2>2. pc' \in {"select", "done"}
    BY <1>6, <2>1 DEF Untimed, C!Stop, C!Resubscribed, C!HandOver, C!Abandon, C!Hear,
                C!Drain, C!Cancel, C!Finished, C!vars, CrashIsFresh
  <2> QED BY <2>1, <2>2 DEF CrashIsFresh, clock
<1>7. CASE Elapse
  <2>1. UNCHANGED loop /\ ~snapDue
    BY <1>7 DEF Elapse, Ready, loop, CrashIsFresh
  <2>2. age + snapIn <= SnapshotEvery
    BY <2>1 DEF loop, CrashIsFresh
  <2>3. age' <= SnapshotEvery /\ (snapDue' \/ age' + snapIn' <= SnapshotEvery)
    BY <1>7, <2>2, UnitOfTime, SnapshotEvery \in Nat
  <2>4. live' /\ pc' \in {"select", "done"}
    BY <2>1 DEF loop, CrashIsFresh
  <2> QED BY <2>3, <2>4
<1>8. CASE UNCHANGED vars
  BY <1>8 DEF vars, loop, clock, CrashIsFresh
<1> QED
  BY <1>1, <1>2, <1>3, <1>4, <1>5, <1>6, <1>7, <1>8 DEF Next

\* No crash waits for a simulator that is taken for silent, as long as the
\* snapshots are more frequent than the silence is long.
THEOREM NoCrashWaits == Spec => []CrashBeforeSilence
<1>1. Init => CrashIsFresh
  BY DEF Init, C!Init, CrashIsFresh
<1>2. CrashIsFresh => CrashBeforeSilence
  BY DEF CrashIsFresh, CrashBeforeSilence
<1> QED BY <1>1, <1>2, CrashIsFreshStep, TypeCorrect, PTL DEF Spec

-----------------------------------------------------------------------------
\* While the loop says it is receiving and no silence tick waits for it, the
\* next one comes before the last packet is a silence and a period old.
LiveUntilTick == live /\ ~silDue => age + silIn < Silence + ResubscribeEvery

\* A step keeps the age of a live simulator within what the silence ticker has left.
LEMMA LiveUntilTickStep == TypeOK /\ LiveUntilTick /\ [Next]_vars => LiveUntilTick'
<1> SUFFICES ASSUME TypeOK, LiveUntilTick, [Next]_vars, live', ~silDue'
             PROVE  age' + silIn' < Silence + ResubscribeEvery
  BY DEF LiveUntilTick
<1> USE ClockAssumption DEF ClockAssumption, TypeOK, ClockType
<1>1. CASE Receive
  BY <1>1 DEF Receive
<1>2. CASE SnapshotTick
  <2>1. live' = live /\ silDue' = silDue /\ age' = age /\ silIn' = silIn
    BY <1>2 DEF SnapshotTick, C!SnapshotTick
  <2> QED BY <2>1 DEF LiveUntilTick
<1>3. CASE SilenceTick
  BY <1>3 DEF SilenceTick, C!SilenceTick
<1>4. CASE IdleSnapshotTick
  BY <1>4 DEF IdleSnapshotTick, loop, LiveUntilTick
<1>5. CASE EarlySilenceTick
  BY <1>5 DEF EarlySilenceTick, Silent
<1>6. CASE Untimed
  <2>1. UNCHANGED clock /\ live' = live
    BY <1>6 DEF Untimed, C!Stop, C!Resubscribed, C!HandOver, C!Abandon, C!Hear,
                C!Drain, C!Cancel, C!Finished, C!vars
  <2> QED BY <2>1 DEF LiveUntilTick, clock
<1>7. CASE Elapse
  <2>1. live /\ ~silDue
    BY <1>7 DEF Elapse, loop
  <2>2. age + silIn < Silence + ResubscribeEvery
    BY <2>1 DEF LiveUntilTick
  <2> QED BY <1>7, <2>2, UnitOfTime, Silence + ResubscribeEvery \in Nat
<1>8. CASE UNCHANGED vars
  BY <1>8 DEF vars, loop, clock, LiveUntilTick
<1> QED
  BY <1>1, <1>2, <1>3, <1>4, <1>5, <1>6, <1>7, <1>8 DEF Next

\* A loop that says it is receiving heard a packet within one silence and one
\* period of the silence ticker.
THEOREM LiveMeansFresh == Spec => []LiveIsFresh
<1>1. Init => LiveUntilTick
  BY DEF Init, C!Init, LiveUntilTick
<1>2. TypeOK /\ LiveUntilTick => LiveIsFresh
  BY ClockAssumption DEF TypeOK, ClockType, ClockAssumption, LiveUntilTick, LiveIsFresh
<1> QED BY <1>1, <1>2, LiveUntilTickStep, TypeCorrect, PTL DEF Spec
=============================================================================
