------------------------------- MODULE SimTimer -------------------------------
(***************************************************************************)
(* The timer that pauses the simulator: toggleTimer to stopTimer of        *)
(* internal/ui/ui.go.                                                      *)
(*                                                                         *)
(* Everything but the ticker runs on the main thread. Each start has a     *)
(* goroutine that queues the ticks for that thread, with the time of the   *)
(* tick; a tick may be handled late, when the timer is stopped already or  *)
(* is another one.                                                         *)
(*                                                                         *)
(* Times are relative to now: what is left until the end, and the age of a *)
(* tick. A computer that sleeps moves the clock and not the ticker.        *)
(***************************************************************************)
EXTENDS Integers, Sequences, SequencesExt, FiniteSetsExt

CONSTANTS
    PerSecond,      \* units of time in a second, the period of the ticker
    MaxSeconds,     \* bound: the time a player sets
    MaxLoops,       \* bound: goroutines of starts and stops in quick succession
    MaxLag          \* bound: how late a tick is handled

ASSUME SimTimerAssumption ==
    /\ PerSecond \in Nat \ {0}
    /\ {MaxSeconds, MaxLoops, MaxLag} \subseteq Nat

Loops == 1..MaxLoops
None == 0
Bad == -1           \* fields with a letter, a sign or too large a number
NoTick == -1

VARIABLES
    running,    \* timerEnd and timerDone: the goroutine of the timer, or None
    left,       \* timerEnd minus now; may be below zero
    fields,     \* what the three fields say, in seconds, or Bad
    editable,   \* the fields are enabled
    startable,  \* the button is enabled
    loop,       \* each goroutine: "free", "open", or "closed" with its done
    next,       \* time until its ticker ticks
    pending,    \* the age of the tick in the channel of its ticker, or NoTick
    queue,      \* the ages of the ticks queued for the main thread
    pauses      \* requests to pause the simulator, counted modulo 2

goroutines == <<loop, next, pending>>
form == <<fields, editable, startable>>
timerVars == <<running, left, form, goroutines, queue, pauses>>

-----------------------------------------------------------------------------
Ceil(t) == (t + PerSecond - 1) \div PerSecond

\* timerDuration without an error, and above zero.
Valid(v) == v > 0

TimerInit ==
    /\ running = None /\ left = 0
    /\ fields = 0 /\ editable = TRUE /\ startable = FALSE
    /\ queue = <<>> /\ pauses = 0
    /\ loop = [i \in Loops |-> "free"]
    /\ next = [i \in Loops |-> 0]
    /\ pending = [i \in Loops |-> NoTick]

\* The player types; OnChanged calls allowStart.
Type(v) ==
    /\ editable
    /\ fields' = v
    /\ startable' = IF running = None THEN Valid(v) ELSE startable
    /\ UNCHANGED <<running, left, editable, goroutines, queue, pauses>>

\* What the fields say is shown again as what is left.
StartTimer ==
    /\ Valid(fields)
    /\ fields <= MaxSeconds
    /\ \E i \in Loops :
          /\ loop[i] = "free"
          /\ loop' = [loop EXCEPT ![i] = "open"]
          /\ next' = [next EXCEPT ![i] = PerSecond]
          /\ pending' = [pending EXCEPT ![i] = NoTick]
          /\ running' = i
    /\ left' = fields * PerSecond
    /\ editable' = FALSE
    /\ UNCHANGED <<fields, startable, queue, pauses>>

TapStart == startable /\ running = None /\ StartTimer

\* Enter in a field.
Submit == editable /\ StartTimer

StopTimer ==
    /\ loop' = [loop EXCEPT ![running] = "closed"]
    /\ running' = None
    /\ left' = 0
    /\ editable' = TRUE

TapStop ==
    /\ startable
    /\ running # None
    /\ StopTimer
    /\ startable' = Valid(fields)
    /\ UNCHANGED <<fields, next, pending, queue, pauses>>

-----------------------------------------------------------------------------
\* The goroutine of a start; its select may take a tick with done closed.
Relay(i) ==
    /\ loop[i] # "free"
    /\ pending[i] # NoTick
    /\ queue' = Append(queue, pending[i])
    /\ pending' = [pending EXCEPT ![i] = NoTick]
    /\ UNCHANGED <<running, left, form, loop, next, pauses>>

LoopEnds(i) ==
    /\ loop[i] = "closed"
    /\ loop' = [loop EXCEPT ![i] = "free"]
    /\ next' = [next EXCEPT ![i] = 0]
    /\ pending' = [pending EXCEPT ![i] = NoTick]
    /\ UNCHANGED <<running, left, form, queue, pauses>>

\* tick, with the time of the tick.
LeftThen == left + Head(queue)

Take == queue # <<>> /\ queue' = Tail(queue)

TickStopped ==
    /\ Take
    /\ running = None
    /\ UNCHANGED <<running, left, form, goroutines, pauses>>

\* Mutant of Fires: the last second is not waited for.
FiresAtOnce == LeftThen < PerSecond

\* Mutant of Fires: a tick that comes late is none.
FiresExactly == LeftThen = 0

Fires == LeftThen <= 0

TickShows ==
    /\ Take
    /\ running # None /\ ~Fires
    /\ fields' = Ceil(LeftThen)
    /\ UNCHANGED <<running, left, editable, startable, goroutines, pauses>>

\* stopTimer, and then showLeft, which has allowStart look at the fields again.
TickFires ==
    /\ Take
    /\ running # None /\ Fires
    /\ StopTimer
    /\ fields' = 0
    /\ startable' = FALSE
    /\ pauses' = 1 - pauses
    /\ UNCHANGED <<next, pending>>

-----------------------------------------------------------------------------
Ages == ToSet(queue) \cup {pending[i] : i \in Loops}

\* So late that no tick can be from before the end: it gets no later.
Overdue == -(MaxLag + 1)

Older(d) ==
    /\ \A age \in Ages : age + d <= MaxLag
    /\ left' = IF running = None THEN 0 ELSE Max({left - d, Overdue})
    /\ queue' = [k \in DOMAIN queue |-> queue[k] + d]

AgeOf(i, d) == IF pending[i] = NoTick THEN NoTick ELSE pending[i] + d

\* A unit of time passes. A tick that finds the last one in the channel is dropped.
Pass ==
    /\ Older(1)
    /\ next' = [i \in Loops |->
                    IF loop[i] = "free" THEN 0
                    ELSE IF next[i] = 1 THEN PerSecond ELSE next[i] - 1]
    /\ pending' = [i \in Loops |->
                    IF loop[i] # "free" /\ next[i] = 1 /\ pending[i] = NoTick
                       THEN 0 ELSE AgeOf(i, 1)]
    /\ UNCHANGED <<running, form, loop, pauses>>

\* The computer sleeps for a second.
Sleep ==
    /\ Older(PerSecond)
    /\ pending' = [i \in Loops |-> AgeOf(i, PerSecond)]
    /\ UNCHANGED <<running, form, loop, next, pauses>>

HandleTick == TickStopped \/ TickShows \/ TickFires

TimerNext ==
    \/ \E v \in {Bad} \cup 0..MaxSeconds : Type(v)
    \/ TapStart
    \/ Submit
    \/ TapStop
    \/ \E i \in Loops : Relay(i) \/ LoopEnds(i)
    \/ HandleTick
    \/ Pass
    \/ Sleep

TimerSpec == TimerInit /\ [][TimerNext]_timerVars

\* Goroutines go on, the main thread comes by, and time passes.
TimerFairness ==
    /\ \A i \in Loops : WF_timerVars(Relay(i)) /\ WF_timerVars(LoopEnds(i))
    /\ WF_timerVars(HandleTick)
    /\ WF_timerVars(Pass)

FairTimer == TimerSpec /\ TimerFairness

-----------------------------------------------------------------------------
\* A tick may be as old as the lag allows, and was queued with the others that
\* came in that time, one a second from each goroutine.
TimerTypeOK ==
    /\ running \in Loops \cup {None}
    /\ left \in Overdue..(PerSecond * MaxSeconds)
    /\ fields \in {Bad} \cup 0..(MaxSeconds + MaxLag)
    /\ {editable, startable} \subseteq BOOLEAN
    /\ loop \in [Loops -> {"free", "open", "closed"}]
    /\ next \in [Loops -> 0..PerSecond]
    /\ pending \in [Loops -> {NoTick} \cup 0..MaxLag]
    /\ ToSet(queue) \subseteq 0..MaxLag
    /\ Len(queue) <= MaxLoops * (MaxLag + 1)
    /\ pauses \in 0..1

\* The goroutine of the timer that runs is the only one that was not told to
\* end, so that stopTimer never closes a channel again, which would end the
\* program, and no ticker goes on for good (ui.go:241-279, 348).
OneTicker == {i \in Loops : loop[i] = "open"} = {running} \ {None}

\* "a tick already queued when Stop ran must not fire" (ui_test.go:400): the
\* simulator is paused by a timer that runs, not before its end, and once.
PausesOnTime ==
    [][pauses' # pauses => running # None /\ left <= 0 /\ running' = None]_timerVars

\* "the last second reads 1, not 0" (ui_test.go:361): no less is shown than is
\* left, however late the ticks are handled, so that a timer that is stopped
\* and started again does not pause the simulator early.
ShowsEnough == running # None => fields * PerSecond >= left

\* The button can be pressed if and only if it does something: "0 h 0 m 0 s is
\* nothing to start" (ui_test.go:372), "the countdown rewrites the fields, Stop
\* must stay live" (ui_test.go:344).
ButtonTells == startable <=> (running # None \/ Valid(fields))

\* A timer that was started ends, stopped or by itself: also when no tick came
\* at the end, as in a sleep, or the ticks are late.
RunsOut == running # None ~> running = None
=============================================================================
