------------------------------- MODULE Session -------------------------------
(***************************************************************************)
(* A session and what it shows: run, poll and fly of                       *)
(* internal/tracker/session.go around the sender of each flight, and the   *)
(* pane of the flight of internal/ui/ui.go.                                *)
(*                                                                         *)
(* The loop asks for the flight to fly and flies it, one after the other.  *)
(* What is on the screen is written by the loop, by the sender and the     *)
(* coordinator of a flight and by whoever ends the session, in the order   *)
(* in which they call the display. The channel of presses outlives flights *)
(* and sessions. Logins that cross a session are the matter of Tracker:    *)
(* here the next session starts when the last one has returned.            *)
(***************************************************************************)
EXTENDS Sender

CONSTANT MaxFlights     \* bound: flights of the player in a behaviour

ASSUME SessionAssumption == MaxFlights \in Nat \ {0}

VARIABLES
    at,             \* the loop: "polling", "opening", "flying" or "returned"
    ended,          \* the session: "no", "stopped", or "shown" to be
    flight,         \* the flight asked for last, and that status is about
    coordinating,   \* the coordinator of the flight has not returned
    line,           \* "log_in", "looking", "none" or "flight"
    details,        \* the flight that the rows of the simulator, the event and
                    \* the load are of, or None: all but the newest are blank
    warning         \* the flight whose warning is shown in place of the note

loop == <<at, ended, flight, coordinating>>
pane == <<line, details, warning>>
sessionVars == <<vars, loop, pane>>

None == 0

-----------------------------------------------------------------------------
(***************************************************************************)
(* The pane. Button and note are the sender's.                             *)
(***************************************************************************)
ResetFlight == details' = None /\ button' = "hidden"

ResetNotes == note' = NoNote /\ warning' = None

\* SigningIn, SignedIn and SignedOut.
Reset(text) == line' = text /\ ResetFlight /\ ResetNotes

\* Mutant of NoFlightShown: the notes go with the flight.
NoFlightShownAlone == line' = "none" /\ ResetFlight /\ warning' = None

NoFlightShown == line' = "none" /\ ResetFlight /\ UNCHANGED warning

FlightShown(st) ==
    /\ line' = "flight"
    /\ button' = ButtonFor(st)
    /\ ResetNotes
    /\ UNCHANGED details    \* the row of the simulator stays

\* SetProgress, with or without events, and SetActual.
Told == Heard("positions", "ok") \/ Heard("deboard", "ok")

WarningAfter == {warning, flight}

Refusing == verdict' # verdict /\ verdict' \in Refusal

\* What a step of the sender shows but for the button and the note.
SenderShows ==
    IF Refusing
       THEN ended' = "shown" /\ line' = "log_in" /\ details' = None /\ warning' = None
       ELSE /\ details' \in IF Told THEN {details, flight}
                            ELSE IF collected' # collected THEN {flight} ELSE {details}
            /\ warning' \in IF Told THEN WarningAfter ELSE {warning}
            /\ UNCHANGED <<ended, line>>

-----------------------------------------------------------------------------
SessionInit ==
    /\ snapshots = <<>> /\ pending = <<>> /\ collected = 0
    /\ ctxDone = TRUE /\ pc = "done" /\ back = "select" /\ reply = NoReply
    /\ deboards = FALSE /\ button = "hidden" /\ note = NoNote
    /\ verdict = "none" /\ pausing = 0
    /\ stored = {} /\ status \in Status /\ access = "granted" /\ late = {}
    /\ at = "polling" /\ ended = "no" /\ flight = 1 /\ coordinating = FALSE
    /\ line = "looking" /\ details = None /\ warning = None

\* Between flights the sender has returned.
Resting ==
    UNCHANGED <<snapshots, ctxDone, pc, back, pending, collected, deboards, verdict,
                pausing, late>>

\* The snapshots of Sender that are special do sooner what others do too.
Plain == [paused |-> FALSE, flush |-> FALSE]

Polling == at = "polling" /\ ended = "no"

\* The call of poll is answered. The player may have started another flight
\* once the last one was over.
PollAnswered ==
    /\ Polling /\ reply = NoReply
    /\ \/ /\ \E outcome \in Outcomes([call |-> "look"]) : reply' = outcome.reply
          /\ UNCHANGED <<flight, stored, status>>
       \/ /\ access = "granted" /\ status \in Terminal /\ flight < MaxFlights
          /\ flight' = flight + 1
          /\ status' \in Status \ Terminal
          /\ stored' = {}
          /\ reply' = Ok(status', FALSE)
    /\ Resting
    /\ UNCHANGED <<access, screen, at, ended, coordinating, pane>>

PollLost ==
    /\ Polling /\ reply = NoReply
    /\ reply' = Unreachable
    /\ Resting
    /\ UNCHANGED <<stored, status, access, screen, loop, pane>>

\* The session was ended while the call was under way.
PollCancelled ==
    /\ at = "polling" /\ ended # "no" /\ reply # NoReply
    /\ reply' = NoReply
    /\ Resting
    /\ UNCHANGED <<stored, status, access, screen, loop, pane>>

Polled(kind) ==
    /\ Polling
    /\ reply.kind = kind
    /\ reply' = NoReply
    /\ Resting
    /\ UNCHANGED <<stored, status, access, flight, coordinating>>

\* Mutant of PollRefused: taken for an outage.
PollRefusedAsFailure ==
    /\ \E kind \in Refusal : Polled(kind)
    /\ note' = Saying("failed")
    /\ UNCHANGED <<button, at, ended, pane>>

\* onUnsupported or onSignedOut.
PollRefused ==
    /\ \E kind \in Refusal : Polled(kind)
    /\ ended' = "shown"
    /\ Reset("log_in")
    /\ UNCHANGED at

PollFailed ==
    /\ Polled("unreachable")
    /\ note' = Saying("failed")
    /\ UNCHANGED <<button, at, ended, pane>>

PollNone == Polled("gone") /\ NoFlightShown /\ note' = NoNote /\ UNCHANGED <<at, ended>>

\* fly: StartFlight.
PollFlight ==
    /\ Polled("ok")
    /\ FlightShown(reply.status)
    /\ at' = "opening"
    /\ UNCHANGED ended

\* The simulator does not open; fly returns.
OpenFails ==
    /\ at = "opening"
    /\ at' = "polling"
    /\ NoFlightShown
    /\ Resting
    /\ UNCHANGED <<reply, note, stored, status, access, ended, flight, coordinating>>

Opens ==
    /\ at = "opening"
    /\ at' = "flying"
    /\ coordinating' = TRUE
    /\ ctxDone' = (ended # "no")
    /\ pc' = "select" /\ back' = "select"
    /\ pending' = <<>> /\ snapshots' = <<>>
    /\ verdict' = "none"
    /\ UNCHANGED <<reply, collected, deboards, screen, pausing, api, ended, flight, pane>>

-----------------------------------------------------------------------------
InFlight(step) ==
    /\ at = "flying"
    /\ step
    /\ SenderShows
    /\ UNCHANGED <<at, flight, coordinating>>

\* SetLive.
CoordinatorTells ==
    /\ coordinating
    /\ details' = flight
    /\ UNCHANGED <<vars, loop, line, warning>>

CoordinatorReturns ==
    /\ coordinating /\ ctxDone
    /\ coordinating' = FALSE
    /\ UNCHANGED <<vars, at, ended, flight, pane>>

\* Mutant of AllReturned: the coordinator is not waited for.
AllReturnedButOne == pc = "done"

\* "wg.Wait()"
AllReturned == pc = "done" /\ ~coordinating

FlyReturns ==
    /\ at = "flying"
    /\ AllReturned
    /\ at' = "polling"
    /\ NoFlightShown
    /\ Resting
    /\ UNCHANGED <<reply, note, stored, status, access, ended, flight, coordinating>>

\* The select of run.
Leave ==
    /\ at = "polling" /\ reply = NoReply
    /\ ended # "no"
    /\ at' = "returned"
    /\ UNCHANGED <<vars, ended, flight, coordinating, pane>>

-----------------------------------------------------------------------------
\* Mutant of SignOut: the flight's context is not the session's.
SignOutSessionOnly ==
    /\ ended = "no"
    /\ ended' = "stopped"
    /\ UNCHANGED <<vars, at, flight, coordinating, pane>>

\* The player signs out: the contexts are cancelled, then the screen says so.
SignOut ==
    /\ ended = "no"
    /\ ended' = "stopped"
    /\ ctxDone' = TRUE
    /\ UNCHANGED <<snapshots, pc, back, reply, pending, collected, deboards, screen,
                   verdict, pausing, api, at, flight, coordinating, pane>>

SignedOut ==
    /\ ended = "stopped"
    /\ ended' = "shown"
    /\ Reset("log_in")
    /\ Resting
    /\ UNCHANGED <<reply, stored, status, access, at, flight, coordinating>>

\* The player logs in again, with a new token.
SignIn ==
    /\ at = "returned" /\ ended = "shown"
    /\ at' = "polling" /\ ended' = "no"
    /\ access' = "granted"
    /\ Reset("looking")
    /\ Resting
    /\ UNCHANGED <<reply, stored, status, flight, coordinating>>

\* The stream of snapshots has no end: while none is held or on its way, the next
\* one is the first again.
OfferAnew ==
    /\ pc = "select" /\ pending = <<>> /\ snapshots = <<>> /\ late = {}
    /\ snapshots' = <<Plain>>
    /\ collected' = 0
    /\ stored' = {}
    /\ UNCHANGED <<ctxDone, pc, back, reply, pending, deboards, screen, verdict,
                   pausing, status, access, late>>

\* The website, the network, the player and the other goroutines of a flight.
Around ==
    \/ Network
    \/ CallOff
    \/ Deny
    \/ Tap
    \/ Paused
    \/ at = "flying" /\ Cancel
    \/ at = "flying" /\ (Offer(Plain) \/ OfferAnew)

Poll ==
    \/ PollAnswered
    \/ PollLost
    \/ PollCancelled
    \/ PollRefused
    \/ PollFailed
    \/ PollNone
    \/ PollFlight

SessionLoop ==
    \/ Poll
    \/ OpenFails
    \/ Opens
    \/ FlyReturns
    \/ Leave

SessionNext ==
    \/ SessionLoop
    \/ InFlight(SenderStep)
    \/ CoordinatorTells
    \/ CoordinatorReturns
    \/ SignOut
    \/ SignedOut
    \/ SignIn
    \/ Around /\ UNCHANGED <<loop, pane>>

SessionSpec == SessionInit /\ [][SessionNext]_sessionVars

\* As in Sender. The calls, their answers and the loop never wait together, so
\* that one condition does for all; a coordinator whose context is cancelled
\* returns; and a call that is repeated is answered in the end.
Calling == Answer \/ LoseAnswer \/ LoseRequest \/ TimeOut

Moves ==
    \/ SessionLoop
    \/ InFlight(HandleReply \/ AfterPress)
    \/ (Calling /\ UNCHANGED <<loop, pane>>)

SessionFairness ==
    /\ WF_sessionVars(Moves)
    /\ WF_sessionVars(CoordinatorReturns)
    /\ WF_sessionVars(SignedOut)
    /\ SF_sessionVars(InFlight(Stop))
    /\ SF_sessionVars(InFlight(SendTick))
    /\ SF_sessionVars(InFlight(Press))
    /\ SF_sessionVars(PollAnswered \/ (Answer /\ UNCHANGED <<loop, pane>>))

FairSession == SessionSpec /\ SessionFairness

-----------------------------------------------------------------------------
\* Every variable of the session holds what its declaration says.
SessionTypeOK ==
    /\ at \in {"polling", "opening", "flying", "returned"}
    /\ ended \in {"no", "stopped", "shown"}
    /\ flight \in 1..MaxFlights
    /\ coordinating \in BOOLEAN
    /\ line \in {"log_in", "looking", "none", "flight"}
    /\ {details, warning} \subseteq 0..MaxFlights

\* What the pane says of a flight is about the one that is flown, and of none
\* between flights: whatever the goroutines of a flight still show while it
\* ends, and whichever ends it (session.go:63-64, 98-100, ui.go:411-425).
PaneIsOfTheFlight ==
    IF at \in {"opening", "flying"}
       THEN {details, warning} \subseteq {None, flight}
       ELSE details = None /\ button = "hidden"

\* "the flight ending is when the player reads it" (ui_test.go:234): in a session
\* that goes on, the start of another flight takes a warning away and nothing
\* else does (session.go:56-64, ui.go:488, 530-556).
WarningOutlivesFlight ==
    [][ended = "no" /\ ended' = "no" /\ at' # "opening" /\ warning # None
          => warning' # None]_sessionVars

\* A session whose token the API no longer takes, or whose version, ends, through
\* whatever outage and in whatever call it is (session.go:43-55, 230-239).
DeniedIsNoticed == access # "granted" ~> ended # "no"

\* The Deboard button disables itself when it is pressed. Whatever becomes of
\* the press - given up because positions could not be sent, refused, lost with
\* the flight or the session - it is offered again or taken away, unless the API
\* goes on finding no airport (session.go:132-136, 170-181, 193-205, ui.go:442-450).
ButtonComesBack ==
    button = "disabled" ~> button # "disabled" \/ note = Saying("no_airport")

\* A session that was ended returns, from a call, a flight or its pause between
\* polls, for Shutdown to wait no longer than for the slowest (session.go:34-43).
EndedSessionReturns == ended # "no" ~> at = "returned"
-----------------------------------------------------------------------------
\* "Log in to start tracking" says a tracker that is signed out (ui_test.go:40).
\* Not when a flight was under way: fly returns last, and says that there is no
\* flight to fly.
SignedOutSaysSo == at = "returned" /\ ended = "shown" => line = "log_in"

\* No press waits for a flight to start. The channel of presses outlives flights
\* and sessions (tracker.go:196), and the sender of a flight takes the press that
\* the one before did not.
StartsUnpressed == at = "opening" => ~deboards

\* "taxi closer to the apron and press Deboard again" (session.go:135, 203): the
\* player cannot. As long as the API stores positions and finds no airport under
\* them no answer shows a status, and only showStatus enables the button.
ButtonAlwaysComesBack == button = "disabled" ~> button # "disabled"
=============================================================================
