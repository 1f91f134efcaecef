----------------------------- MODULE TimedPause -----------------------------
(***************************************************************************)
(* The timer and the pause it ends in: SimTimer, the goroutine of          *)
(* cmd/atm-tracker/main.go that it pauses the simulator in, and            *)
(* XPlanePause, with an X-Plane that is not quit.                          *)
(***************************************************************************)
EXTENDS SimTimer

CONSTANTS
    Zeros,          \* as in XPlanePause
    MaxStale,       \* bound of XPlanePause
    MaxSamples      \* bound of XPlanePause

VARIABLES
    asked,          \* the goroutine that pauses was started
    obeys, paused, packets, watched, samples, pc, zeros, unpaused  \* of XPlanePause

Goroutine == "timer"

X == INSTANCE XPlanePause WITH Pausers <- {Goroutine}, inbox <- packets, subscribed <- watched

ASSUME TimedPauseAssumption == X!XPlanePauseAssumption

xplane == <<obeys, paused, packets, watched, samples, pc, zeros, unpaused>>
timedVars == <<timerVars, asked, xplane>>

TimedInit == TimerInit /\ asked = FALSE /\ X!Init

\* A step of the timer. When time is up it has the simulator paused. Bound: the
\* player starts the timer again after going on from the last pause.
Timer(step) ==
    /\ step
    /\ running = None /\ running' # None => ~asked
    /\ asked' = (asked \/ pauses' # pauses)
    /\ UNCHANGED xplane

Pausing ==
    /\ asked
    /\ X!Pause(Goroutine)
    /\ UNCHANGED <<timerVars, asked>>

GoesOn == X!GoesOn /\ asked' = FALSE /\ UNCHANGED timerVars

XPlane == X!Handle /\ UNCHANGED <<timerVars, asked>>

Samples == X!Sample /\ UNCHANGED <<timerVars, asked>>

TimedNext ==
    \/ Timer(TimerNext)
    \/ Pausing
    \/ GoesOn
    \/ XPlane
    \/ Samples

TimedSpec == TimedInit /\ [][TimedNext]_timedVars

\* As in SimTimer; the goroutine goes on, for its reads have a deadline, and
\* X-Plane handles the packets it gets, but owes no samples.
TimedFairness ==
    /\ \A i \in Loops : WF_timedVars(Timer(Relay(i)))
    /\ WF_timedVars(Timer(HandleTick))
    /\ WF_timedVars(Timer(Pass))
    /\ WF_timedVars(Pausing)
    /\ WF_timedVars(XPlane)

FairTimed == TimedSpec /\ TimedFairness

-----------------------------------------------------------------------------
\* A pause that does not fail leaves X-Plane paused, whichever version it is,
\* whether it was paused before, and whatever samples are lost or late, if those
\* that can be stale are fewer than make pause_on ignored (rref.go:66-80, 112).
PauseWorks == X!PauseWorks

\* When time is up X-Plane is paused in the end, unless the pause fails, which
\* the program logs and does not show: no goroutine waits for samples that do
\* not come (ui.go:323-327, main.go:63-72, rref.go:87-98).
TimeUpIsActedOn == asked ~> paused \/ pc[Goroutine] = "failed"
=============================================================================
