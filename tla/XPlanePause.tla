------------------------------ MODULE XPlanePause ------------------------------
(***************************************************************************)
(* Pausing X-Plane: pause and awaitPaused of internal/xplane/rref.go.      *)
(*                                                                         *)
(* X-Plane 12 obeys pause_on, X-Plane 11 knows only the toggle. So a pause *)
(* subscribes the state, sends pause_on, and sends the toggle if enough    *)
(* samples in a row say that nothing happened. The website and the timer   *)
(* each pause in a goroutine of their own, and nothing orders the two.     *)
(*                                                                         *)
(* X-Plane is external: it handles packets in order, and samples the state *)
(* for whoever subscribed it when none is left to handle.                  *)
(***************************************************************************)
EXTENDS Naturals, Sequences, SequencesExt

CONSTANTS
    Pausers,        \* pauses under way: the website's, the timer's
    Zeros,          \* samples that make pause_on ignored
    MaxStale,       \* bound: samples between the first packet and pause_on
    MaxSamples      \* bound: samples waiting in a socket

\* Assumed of its constants where it is instantiated (TimedPause).
XPlanePauseAssumption ==
    /\ Zeros \in Nat \ {0}
    /\ MaxStale \in Nat
    /\ MaxSamples \in Nat

VARIABLES
    obeys,      \* X-Plane knows pause_on
    paused,     \* it is paused
    inbox,      \* packets it has not handled
    subscribed, \* the pauses it sends samples to
    samples,    \* those waiting in each socket
    pc,         \* each pause: "idle", "subscribing", "waiting", "toggling",
                \* "paused", "toggled" or "failed"
    zeros,      \* samples it still needs
    unpaused    \* history: X-Plane was paused when a toggle came

sim == <<obeys, paused, subscribed, unpaused>>
vars == <<sim, inbox, samples, pc, zeros>>

Packet == [command : {"subscribe", "pause_on", "toggle", "unsubscribe"}, from : Pausers]

-----------------------------------------------------------------------------
Init ==
    /\ obeys \in BOOLEAN /\ paused \in BOOLEAN
    /\ subscribed = {} /\ unpaused = FALSE
    /\ inbox = <<>>
    /\ samples = [p \in Pausers |-> <<>>]
    /\ pc = [p \in Pausers |-> "idle"]
    /\ zeros = [p \in Pausers |-> Zeros]

Sent(p, commands) ==
    inbox' = inbox \o [i \in DOMAIN commands |-> [command |-> commands[i], from |-> p]]

Goes(p, from, to) ==
    /\ pc[p] = from
    /\ pc' = [pc EXCEPT ![p] = to]
    /\ UNCHANGED sim

Subscribe(p) ==
    /\ Goes(p, "idle", "subscribing")
    /\ Sent(p, <<"subscribe">>)
    /\ UNCHANGED <<samples, zeros>>

PauseOn(p) ==
    /\ Goes(p, "subscribing", "waiting")
    /\ Sent(p, <<"pause_on">>)
    /\ UNCHANGED <<samples, zeros>>

\* Mutant of Enough: the first zero is enough.
EnoughAtFirst(p) == zeros[p] <= Zeros

\* "if zeros--; zeros <= 0"
Enough(p) == zeros[p] - 1 <= 0

\* awaitPaused takes a sample.
Takes(p, sample) ==
    /\ samples[p] # <<>>
    /\ Head(samples[p]) = sample
    /\ samples' = [samples EXCEPT ![p] = Tail(@)]

SeesPaused(p) ==
    /\ Goes(p, "waiting", "paused")
    /\ Takes(p, TRUE)
    /\ Sent(p, <<"unsubscribe">>)
    /\ UNCHANGED zeros

SeesZero(p) ==
    /\ Goes(p, "waiting", IF Enough(p) THEN "toggling" ELSE "waiting")
    /\ Takes(p, FALSE)
    /\ zeros' = [zeros EXCEPT ![p] = @ - 1]
    /\ UNCHANGED inbox

\* Mutant of Toggle: pause_on is all that is sent.
ToggleNot(p) ==
    Goes(p, "toggling", "toggled") /\ Sent(p, <<"unsubscribe">>) /\ UNCHANGED <<samples, zeros>>

Toggle(p) ==
    /\ Goes(p, "toggling", "toggled")
    /\ Sent(p, <<"toggle", "unsubscribe">>)
    /\ UNCHANGED <<samples, zeros>>

\* "X-Plane went quiet before it paused", or it never answered.
GoesQuiet(p) ==
    /\ samples[p] = <<>>
    /\ Goes(p, "waiting", "failed")
    /\ Sent(p, <<"unsubscribe">>)
    /\ UNCHANGED <<samples, zeros>>

\* The socket is closed. Between two pauses the player unpauses or pauses by
\* hand; during one nobody does.
Over(p) == pc[p] \in {"paused", "toggled", "failed"}

GoesOn ==
    /\ \A p \in Pausers : pc[p] = "idle" \/ Over(p)
    /\ \E p \in Pausers : Over(p)
    /\ inbox = <<>>
    /\ paused' \in BOOLEAN
    /\ unpaused' = FALSE
    /\ samples' = [p \in Pausers |-> <<>>]
    /\ pc' = [p \in Pausers |-> "idle"]
    /\ zeros' = [p \in Pausers |-> Zeros]
    /\ UNCHANGED <<obeys, inbox, subscribed>>

-----------------------------------------------------------------------------
\* X-Plane handles a packet.
Handle ==
    /\ inbox # <<>>
    /\ inbox' = Tail(inbox)
    /\ LET command == Head(inbox).command
           from == Head(inbox).from IN
          /\ paused' = CASE command = "pause_on" -> paused \/ obeys
                         [] command = "toggle" -> ~paused
                         [] OTHER -> paused
          /\ unpaused' = (unpaused \/ (command = "toggle" /\ paused))
          /\ subscribed' = CASE command = "subscribe" -> subscribed \cup {from}
                             [] command = "unsubscribe" -> subscribed \ {from}
                             [] OTHER -> subscribed
    /\ UNCHANGED <<obeys, samples, pc, zeros>>

\* Ten times a second. A sample may be lost; the last one before pause_on, and
\* those of a pause that is held up before it, are stale.
Sample ==
    /\ inbox = <<>>
    /\ \E told \in (SUBSET subscribed) \ {{}} :
          /\ \A p \in told :
                Len(samples[p]) < IF pc[p] = "subscribing" THEN MaxStale ELSE MaxSamples
          /\ samples' = [p \in Pausers |->
                            IF p \in told THEN Append(samples[p], paused) ELSE samples[p]]
    /\ UNCHANGED <<obeys, paused, inbox, subscribed, pc, zeros, unpaused>>

Pause(p) ==
    \/ Subscribe(p)
    \/ PauseOn(p)
    \/ SeesPaused(p)
    \/ SeesZero(p)
    \/ Toggle(p)
    \/ GoesQuiet(p)

Next ==
    \/ \E p \in Pausers : Pause(p)
    \/ GoesOn
    \/ Handle
    \/ Sample

Spec == Init /\ [][Next]_vars

-----------------------------------------------------------------------------
\* Every variable holds what its declaration says; a pause that is over left
\* its samples behind, and has been counting down.
TypeOK ==
    /\ obeys \in BOOLEAN
    /\ paused \in BOOLEAN
    /\ inbox \in Seq(Packet)
    /\ subscribed \subseteq Pausers
    /\ \A p \in Pausers : ToSet(samples[p]) \subseteq BOOLEAN
    /\ \A p \in Pausers :
          pc[p] \in {"idle", "subscribing", "waiting", "toggling", "paused", "toggled",
                     "failed"}
    /\ zeros \in [Pausers -> 0..Zeros]
    /\ unpaused \in BOOLEAN

\* A pause that does not fail leaves X-Plane paused, whichever it is, if fewer
\* samples can be stale than make pause_on ignored.
PauseWorks ==
    inbox = <<>> /\ (\E p \in Pausers : pc[p] \in {"paused", "toggled"}) => paused

\* "a stalled XP12 has paused, toggling would unpause it" (rref_test.go:263):
\* no toggle comes to an X-Plane that is paused. So it is with one pause at a
\* time that is not held up between its first two packets.
TogglesOnlyToPause == ~unpaused
-----------------------------------------------------------------------------
\* "the stale 0 must not count" (rref_test.go:236): the toggle is for an
\* X-Plane that does not know pause_on. If the goroutine is held up before it
\* sends pause_on, the samples of that time count all the same.
TogglesNoXPlane12 == \A p \in Pausers : pc[p] = "toggled" => ~obeys
=============================================================================
