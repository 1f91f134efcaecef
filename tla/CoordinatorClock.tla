-------------------------- MODULE CoordinatorClock --------------------------
(***************************************************************************)
(* The loop of Coordinator with the clock it runs by: two tickers, one for *)
(* snapshots and one for silence, and the age of the last packet           *)
(* (internal/sim/coordinator.go). What Coordinator calls silent is here an *)
(* age of at least Silence units.                                          *)
(*                                                                         *)
(* A ticker is the units until its next tick and the one tick its channel  *)
(* can hold: a tick that finds the channel full is dropped, as in package  *)
(* time. A loop that stands at its select with a tick ready handles it     *)
(* before the next unit of time; a loop blocked in Resubscribe, or on a    *)
(* full channel of snapshots, is away for as long as that takes.           *)
(***************************************************************************)
EXTENDS Naturals, Sequences

CONSTANTS
    UpdateBuffer, SnapshotBuffer,    \* as in Coordinator
    SnapshotEvery,      \* Timings.Snapshot
    Silence,            \* Timings.Silence
    ResubscribeEvery    \* Timings.Resubscribe

\* DefaultTimings has 2, 5 and 5 seconds. The loop relies on the order of the
\* first two and nothing in the code says so.
ASSUME ClockAssumption ==
    /\ UpdateBuffer \in Nat \ {0}
    /\ SnapshotBuffer \in Nat \ {0}
    /\ SnapshotEvery \in Nat \ {0}
    /\ Silence \in Nat
    /\ ResubscribeEvery \in Nat \ {0}
    /\ SnapshotEvery < Silence

VARIABLES
    updates, snapshots, ctxDone, pc, pos, live, wasPaused, offered,
    age,       \* units since the last packet, Oldest standing for any longer
    snapIn,    \* units to the next tick of the snapshot ticker
    snapDue,   \* its channel holds a tick
    silIn,     \* the same for the silence ticker
    silDue

clock == <<age, snapIn, snapDue, silIn, silDue>>

loop == <<updates, snapshots, ctxDone, pc, pos, live, wasPaused, offered>>

vars == <<loop, clock>>

\* Bound: ages from here on are not told apart.
Oldest == Silence + ResubscribeEvery

\* Mutants of Silent: the wrong one of the Timings, or two of them.
SilentAtSnapshot == age >= SnapshotEvery
SilentAtOldest == age >= Oldest

Silent == age >= Silence

C == INSTANCE Coordinator WITH silent <- Silent

Init ==
    /\ age = Oldest
    /\ snapIn = SnapshotEvery
    /\ snapDue = FALSE
    /\ silIn = ResubscribeEvery
    /\ silDue = FALSE
    /\ C!Init

-----------------------------------------------------------------------------
Receive ==
    /\ age' = 0
    /\ UNCHANGED <<snapIn, snapDue, silIn, silDue>>
    /\ C!Receive

SilenceTick ==
    /\ silDue
    /\ silDue' = FALSE
    /\ UNCHANGED <<age, snapIn, snapDue, silIn>>
    /\ C!SilenceTick

\* Mutant of EarlySilenceTick: live is taken back before the age is looked at.
EarlySilenceTickEndsLive ==
    /\ pc = "select"
    /\ silDue
    /\ ~Silent
    /\ silDue' = FALSE
    /\ live' = FALSE
    /\ UNCHANGED <<updates, snapshots, ctxDone, pc, pos, wasPaused, offered, age,
                   snapIn, snapDue, silIn>>

\* "if time.Since(lastPacket) < c.Timings.Silence { continue }"
EarlySilenceTick ==
    /\ pc = "select"
    /\ silDue
    /\ ~Silent
    /\ silDue' = FALSE
    /\ UNCHANGED <<loop, age, snapIn, snapDue, silIn>>

SnapshotTick ==
    /\ snapDue
    /\ snapDue' = FALSE
    /\ UNCHANGED <<age, snapIn, silIn, silDue>>
    /\ C!SnapshotTick

\* Not live, or paused and told so already.
IdleSnapshotTick ==
    /\ pc = "select"
    /\ snapDue
    /\ ~live \/ (pos.paused /\ ~C!Flush)
    /\ snapDue' = FALSE
    /\ UNCHANGED <<loop, age, snapIn, silIn, silDue>>

\* The steps of the loop that look at no clock, and the goroutines around it.
Untimed ==
    /\ UNCHANGED clock
    /\ \/ C!Stop
       \/ C!Resubscribed
       \/ C!HandOver
       \/ C!Abandon
       \/ \E u \in C!UpdateKind : C!Hear(u)
       \/ C!Drain
       \/ C!Cancel
       \/ C!Finished

\* The loop has something to do now and is free to do it. Updates may wait:
\* there can be more of them than a unit of time holds.
Ready ==
    \/ pc = "select" /\ (snapDue \/ silDue \/ ctxDone)
    \/ pc = "offer" /\ (Len(snapshots) < SnapshotBuffer \/ ctxDone)

Countdown(left, period) == IF left = 1 THEN period ELSE left - 1

Elapse ==
    /\ ~Ready
    /\ pc # "done"
    /\ age' = IF age < Oldest THEN age + 1 ELSE age
    /\ snapIn' = Countdown(snapIn, SnapshotEvery)
    /\ snapDue' = (snapDue \/ snapIn = 1)
    /\ silIn' = Countdown(silIn, ResubscribeEvery)
    /\ silDue' = (silDue \/ silIn = 1)
    /\ UNCHANGED loop

Next ==
    \/ Receive
    \/ SilenceTick
    \/ EarlySilenceTick
    \/ SnapshotTick
    \/ IdleSnapshotTick
    \/ Untimed
    \/ Elapse

\* Time passes. A branch of the select that is ready whenever the loop comes
\* by is picked in the end, the choice being uniform: strong fairness.
\* Resubscribe returns and, until the flight ends, the sender empties its
\* channel. The simulator owes nothing: Hear and Cancel are not fair.
Fairness ==
    /\ WF_vars(Elapse)
    /\ SF_vars(Receive)
    /\ SF_vars(SilenceTick \/ EarlySilenceTick)
    /\ SF_vars(SnapshotTick \/ IdleSnapshotTick)
    /\ SF_vars(UNCHANGED clock /\ (C!Stop \/ C!Abandon))
    /\ WF_vars(UNCHANGED clock /\ C!HandOver)
    /\ WF_vars(UNCHANGED clock /\ C!Resubscribed)
    /\ WF_vars(UNCHANGED clock /\ ~ctxDone /\ C!Drain)

Spec == Init /\ [][Next]_vars

FairSpec == Spec /\ Fairness

-----------------------------------------------------------------------------
ClockType ==
    /\ age \in 0..Oldest
    /\ snapIn \in 1..SnapshotEvery
    /\ silIn \in 1..ResubscribeEvery

\* The tickers count down within their periods, the age within its bound,
\* and what the loop shares with Coordinator has its type there.
TypeOK ==
    /\ C!TypeOK
    /\ ClockType
    /\ snapDue \in BOOLEAN
    /\ silDue \in BOOLEAN

\* Between two snapshots in a row a change between paused and running is
\* flagged, and a paused simulator adds nothing unless it crashed
\* (coordinator.go:86-90); see Coordinator.
PauseEdgesAreFlushed == C!PauseEdgesAreFlushed

\* A crash is on its way to the sender before the simulator can be taken for
\* silent: ticks of a loop that is not live are skipped (coordinator.go:82),
\* so a crash still latched then would wait for the simulator to come back.
CrashBeforeSilence == pos.crashed => live

\* A simulator said to be receiving was heard within one silence and one
\* period of the ticker that notices it, unless that ticker's tick waits for
\* a loop that was away (coordinator.go:70-77).
LiveIsFresh == live /\ ~silDue => age < Silence + ResubscribeEvery

\* What the loop does by the clock is what Coordinator allows.
ImplementsCoordinator == C!Spec

\* A crash event the loop is handed reaches the channel of the sender,
\* flagged, unless the flight ends (coordinator.go:86, 96-103).
CrashIsOffered ==
    (\E i \in 1..Len(updates) : updates[i] = "crash")
        ~> (offered.crashed /\ offered.flush /\ pc # "offer") \/ ctxDone

\* A simulator that stays silent is asked again and again
\* (coordinator.go:70-79).
SilenceIsAnswered ==
    <>[](updates = <<>> /\ ~ctxDone) => []<>(pc = "resubscribe")
=============================================================================
