----------------------------- MODULE Flight_proofs -----------------------------
(***************************************************************************)
(* Proofs about Flight, for channels of any capacity and whatever the      *)
(* simulator has to tell: the goroutines of a flight treat its coordinator *)
(* and its sender as their own modules assume, and none of them returns    *)
(* from a flight that goes on.                                             *)
(***************************************************************************)
EXTENDS Flight, TLAPS

\* What is on its way from the simulator to the coordinator is an update.
OnItsWay ==
    /\ readerPc = "push" => heard \in Kinds
    /\ inner \in Seq(Kinds)
    /\ pumpPc = "forward" => carried \in Kinds

\* The inductive invariant.
IInv == ctxDone \in BOOLEAN /\ OnItsWay /\ NoneIsMissed

-----------------------------------------------------------------------------
\* What the steps of the coordinator and of the sender do to the context.
LEMMA CoordinatorEnds ==
    ASSUME C!CoordinatorStep
    PROVE  /\ ctxDone' = ctxDone
           /\ coordinatorPc' = "done" => ctxDone \/ coordinatorPc = "done"
  BY DEF C!CoordinatorStep, C!Stop, C!Receive, C!SilenceTick, C!Resubscribed,
    C!SnapshotTick, C!HandOver, C!Abandon

\* The sender may end it.
LEMMA SenderEnds ==
    ASSUME L!Step
    PROVE  /\ ctxDone' \in {ctxDone, TRUE}
           /\ senderPc' = "done" => ctxDone
  BY DEF L!Step, L!Stop, L!Collect, L!Call, L!Return

\* What the reader and the pump do: they pass updates on, or end.
LEMMA ReaderEnds ==
    ASSUME IInv, Reader
    PROVE  IInv'
  <1> USE DEF IInv, OnItsWay, NoneIsMissed, beyondReader, pump, fly, coordinator
  <1>1. CASE Read
    BY <1>1 DEF Read
  <1>2. CASE ReadNothing \/ PushGivenUp
    BY <1>2 DEF ReadNothing, PushGivenUp, Returning
  <1>3. CASE ReadFails
    BY <1>3 DEF ReadFails, Returning
  <1>4. CASE Push
    <2>1. inner' \in Seq(Kinds)
      BY <1>4 DEF Push
    <2> QED
      BY <1>4, <2>1 DEF Push
  <1> QED
    BY <1>1, <1>2, <1>3, <1>4 DEF Reader

\* The pump leaves it alone, or ends it.
LEMMA PumpEnds ==
    ASSUME IInv, Pump
    PROVE  IInv'
  <1> USE DEF IInv, OnItsWay, NoneIsMissed, beyondPump, reader, fly, coordinator
  <1>1. CASE Take
    <2>1. Head(inner) \in Kinds /\ Tail(inner) \in Seq(Kinds)
      BY <1>1 DEF Take
    <2> QED
      BY <1>1, <2>1 DEF Take
  <1>2. CASE Forward
    BY <1>2 DEF Forward
  <1>3. CASE ForwardGivenUp
    BY <1>3 DEF ForwardGivenUp
  <1>4. CASE RangeEnds
    BY <1>4 DEF RangeEnds
  <1> QED
    BY <1>1, <1>2, <1>3, <1>4 DEF Pump

\* So it is of every behaviour.
LEMMA Invariant == Spec => []IInv
  <1>1. Init => IInv
    <2> SUFFICES ASSUME Init PROVE IInv
      OBVIOUS
    <2>1. /\ ctxDone = FALSE /\ coordinatorPc = "select" /\ senderPc = "select"
          /\ readerPc = "read" /\ pumpPc \in {"range", "absent"} /\ inner = <<>>
      BY DEF Init, C!Init, L!Init
    <2>2. inner \in Seq(Kinds)
      BY <2>1
    <2>3. OnItsWay /\ NoneIsMissed
      BY <2>1, <2>2 DEF OnItsWay, NoneIsMissed
    <2> QED
      BY <2>1, <2>3 DEF IInv
  <1>2. IInv /\ [Next]_vars => IInv'
    <2> SUFFICES ASSUME IInv, [Next]_vars PROVE IInv'
      OBVIOUS
    <2> USE DEF IInv, OnItsWay, NoneIsMissed
    <2>1. CASE Open \/ OpenFails \/ Close \/ Wait \/ Finished \/ UNCHANGED vars
      BY <2>1 DEF Open, OpenFails, Close, Closes, Wait, Finished, vars, beyondFly, reader, pump,
        coordinator
    <2>2. CASE Reader
      BY <2>2, ReaderEnds
    <2>3. CASE Pump
      BY <2>3, PumpEnds
    <2>4. CASE CoordinatorGoroutine
      BY <2>4, CoordinatorEnds DEF CoordinatorGoroutine, reader, pump
    <2>5. CASE MakeWay
      BY <2>5 DEF MakeWay, C!Resubscribed, reader, pump
    <2>6. CASE Quiet
      BY <2>6 DEF Quiet, C!Quiet, reader, pump
    <2>7. CASE SenderGoroutine
      BY <2>7, SenderEnds DEF SenderGoroutine, reader, pump, coordinator
    <2>8. CASE SessionEnds
      BY <2>8 DEF SessionEnds, C!Cancel, reader, pump
    <2> QED
      BY <2>1, <2>2, <2>3, <2>4, <2>5, <2>6, <2>7, <2>8 DEF Next
  <1> QED
    BY <1>1, <1>2, PTL DEF Spec

\* A goroutine that has returned has left a flight that is over: none goes on
\* without its reader, pump, coordinator or sender (rref.go:138, msfs.go:205,
\* 243, autodetect.go:111-124, coordinator.go:55, session.go:155).
THEOREM GoesOnWhole == Spec => []NoneIsMissed
  <1>1. IInv => NoneIsMissed
    BY DEF IInv
  <1> QED
    BY <1>1, Invariant, PTL

-----------------------------------------------------------------------------
\* The rest of a flight treats the coordinator as Coordinator expects of those
\* around it, so that what is proved there holds in a flight (session.go:68-100).
THEOREM KeepsCoordinator == Spec => ImplementsCoordinator
  <1>1. Init => C!Init
    BY DEF Init
  <1>2. IInv /\ [Next]_vars => [C!Next]_C!vars
    <2> SUFFICES ASSUME IInv, [Next]_vars PROVE [C!Next]_C!vars
      OBVIOUS
    <2> USE DEF IInv, C!Next, C!Environment, C!vars, coordinator
    <2>1. CASE Open \/ OpenFails \/ Close \/ Wait \/ Finished \/ UNCHANGED vars
      BY <2>1 DEF Open, OpenFails, Close, Closes, Wait, Finished, vars, beyondFly
    <2>2. CASE Reader
      <3>1. CASE Read \/ ReadNothing \/ PushGivenUp
        BY <3>1 DEF Read, ReadNothing, PushGivenUp, Returning, beyondReader
      <3>2. CASE ReadFails
        BY <3>2 DEF ReadFails, Returning, beyondReader, C!Cancel
      <3>3. CASE Push /\ piped
        BY <3>3 DEF Push, beyondReader
      <3>4. CASE Push /\ ~piped
        <4>1. heard \in C!UpdateKind
          BY <3>4, FlightAssumption DEF Push, OnItsWay
        <4>2. C!Hear(heard)
          BY <3>4 DEF Push, Room, C!Hear, beyondReader
        <4> QED
          BY <4>1, <4>2
      <3> QED
        BY <2>2, <3>1, <3>2, <3>3, <3>4 DEF Reader
    <2>3. CASE Pump
      <3>1. CASE Forward
        <4>1. carried \in C!UpdateKind
          BY <3>1, FlightAssumption DEF Forward, OnItsWay
        <4>2. C!Hear(carried)
          BY <3>1 DEF Forward, Room, C!Hear, beyondPump
        <4> QED
          BY <4>1, <4>2
      <3>2. CASE Take \/ ForwardGivenUp \/ RangeEnds
        BY <3>2 DEF Take, ForwardGivenUp, RangeEnds, beyondPump
      <3> QED
        BY <2>3, <3>1, <3>2 DEF Pump
    <2>4. CASE CoordinatorGoroutine \/ MakeWay
      BY <2>4 DEF CoordinatorGoroutine, MakeWay, C!CoordinatorStep
    <2>5. CASE Quiet \/ SessionEnds
      BY <2>5 DEF Quiet, SessionEnds
    <2>6. CASE SenderGoroutine
      <3>1. UNCHANGED <<updates, coordinatorPc, pos, live, wasPaused, silent, offered>>
        BY <2>6 DEF SenderGoroutine
      <3>2. CASE L!Collect
        BY <3>1, <3>2 DEF L!Collect, C!Drain
      <3>3. CASE L!Stop \/ L!Call
        BY <3>1, <3>3 DEF L!Stop, L!Call
      <3>4. CASE L!Return
        BY <3>1, <3>4 DEF L!Return, C!Cancel
      <3> QED
        BY <2>6, <3>2, <3>3, <3>4 DEF SenderGoroutine, L!Step
    <2> QED
      BY <2>1, <2>2, <2>3, <2>4, <2>5, <2>6 DEF Next
  <1> QED
    BY <1>1, <1>2, Invariant, PTL DEF Spec, ImplementsCoordinator, C!Spec

\* What the coordinator hands over, and what waits in the channel.
HandsOver ==
    /\ snapshots \in Seq(C!Snapshot)
    /\ offered \in C!Snapshot
    /\ pos \in C!Position

\* The channel of a flight holds snapshots of its coordinator, and nothing else.
LEMMA ChannelOfSnapshots == Spec => []HandsOver
  <1>1. C!Init => HandsOver
    BY DEF C!Init, HandsOver, C!Snapshot, C!Position
  <1>2. HandsOver /\ [C!Next]_C!vars => HandsOver'
    <2> SUFFICES ASSUME HandsOver, [C!Next]_C!vars PROVE HandsOver'
      OBVIOUS
    <2> USE DEF HandsOver
    <2>1. CASE C!Receive
      BY <2>1 DEF C!Receive, C!Apply, C!Position
    <2>2. CASE C!SnapshotTick
      BY <2>2 DEF C!SnapshotTick, C!TakenSnapshot, C!Flush, C!Snapshot, C!Position
    <2>3. CASE C!HandOver
      BY <2>3 DEF C!HandOver
    <2>4. CASE C!Drain
      BY <2>4 DEF C!Drain
    <2>5. CASE UNCHANGED <<snapshots, offered, pos>>
      BY <2>5
    <2> QED
      BY <2>1, <2>2, <2>3, <2>4, <2>5 DEF C!Next, C!CoordinatorStep, C!Environment,
        C!Finished, C!vars, C!Stop, C!SilenceTick, C!Resubscribed, C!Abandon, C!Hear, C!Quiet,
        C!Cancel
  <1> QED
    BY <1>1, <1>2, KeepsCoordinator, PTL DEF ImplementsCoordinator, C!Spec

\* And it treats the sender as SendLoop expects, which Sender implements
\* (Composes of Sender_proofs): the two meet in SendLoop.
THEOREM KeepsSendLoop == Spec => ImplementsSendLoop
  <1>1. Init => L!Init
    BY DEF Init
  <1>2. HandsOver /\ IInv /\ [Next]_vars => [L!Next]_L!vars
    <2> SUFFICES ASSUME HandsOver, IInv, [Next]_vars PROVE [L!Next]_L!vars
      OBVIOUS
    <2> USE DEF L!Next, L!vars
    <2>1. CASE Open \/ OpenFails \/ Close \/ Wait \/ Finished \/ UNCHANGED vars
      BY <2>1 DEF Open, OpenFails, Close, Closes, Wait, Finished, vars, beyondFly
    <2>2. CASE Reader
      BY <2>2 DEF Reader, Read, ReadNothing, ReadFails, Push, PushGivenUp, Returning,
        beyondReader, L!Cancel
    <2>3. CASE Pump
      BY <2>3 DEF Pump, Take, Forward, ForwardGivenUp, RangeEnds, beyondPump
    <2>4. CASE CoordinatorGoroutine
      <3>1. CASE C!HandOver
        <4>1. /\ snapshots \in Seq(C!Snapshot) /\ offered \in C!Snapshot
              /\ Len(snapshots) < SnapshotBuffer
              /\ snapshots' = Append(snapshots, offered)
              /\ UNCHANGED <<ctxDone, senderPc>>
          BY <2>4, <3>1 DEF CoordinatorGoroutine, C!HandOver, C!SnapshotRoom, HandsOver
        <4>2. /\ Len(snapshots') = Len(snapshots) + 1
              /\ SubSeq(snapshots', 1, Len(snapshots)) = snapshots
          BY <4>1
        <4> QED
          BY <4>1, <4>2 DEF L!Offered
      <3>2. CASE ~C!HandOver
        BY <2>4, <3>2 DEF CoordinatorGoroutine, C!CoordinatorStep, C!Stop, C!Receive,
          C!SilenceTick, C!Resubscribed, C!SnapshotTick, C!Abandon
      <3> QED
        BY <3>1, <3>2
    <2>5. CASE MakeWay
      BY <2>5 DEF MakeWay, C!Resubscribed
    <2>6. CASE Quiet
      BY <2>6 DEF Quiet, C!Quiet
    <2>7. CASE SenderGoroutine
      BY <2>7 DEF SenderGoroutine
    <2>8. CASE SessionEnds
      BY <2>8 DEF SessionEnds, C!Cancel, L!Cancel
    <2> QED
      BY <2>1, <2>2, <2>3, <2>4, <2>5, <2>6, <2>7, <2>8 DEF Next
  <1> QED
    BY <1>1, <1>2, Invariant, ChannelOfSnapshots, PTL DEF Spec, ImplementsSendLoop, L!Spec
=============================================================================
