------------------------------- MODULE Sender -------------------------------
(***************************************************************************)
(* The sender of a flight, session.send of internal/tracker/session.go,    *)
(* with the API at the other end and the player's Deboard button. It       *)
(* collects snapshots into a window of pending positions, posts them at    *)
(* its own tick, at a flagged snapshot or before a deboard, and asks which *)
(* flight is to be flown when it has nothing to post.                      *)
(*                                                                         *)
(* A call to the API blocks the loop. It is answered; or the API acts on   *)
(* it and the answer is lost; or the call never arrives; or it times out   *)
(* on the tracker's side and arrives later (10 seconds, api.go:20).        *)
(***************************************************************************)
EXTENDS Naturals, Sequences, FiniteSets

CONSTANTS
    Window,             \* windowSize of session.go
    SnapshotBuffer,     \* capacity of the channel of snapshots, Window in fly
    MaxCollected,       \* bound: snapshots in a behaviour
    MaxLate,            \* bound: timed-out calls still on their way
    MaxPausing          \* bound: goroutines that pause the simulator

ASSUME SenderAssumption ==
    /\ Window \in Nat \ {0}
    /\ SnapshotBuffer \in Nat \ {0}
    /\ MaxCollected \in Nat
    /\ MaxLate \in Nat
    /\ MaxPausing \in Nat

VARIABLES
    snapshots,  \* the channel the coordinator fills
    ctxDone,    \* the context of the flight is cancelled
    pc,         \* where the loop stands, or the call it waits for
    back,       \* where flush returns to
    reply,      \* the answer to that call, or NoReply while there is none
    pending,    \* the positions held, oldest first
    collected,  \* history: positions taken from the channel so far
    deboards,   \* the channel of presses, of capacity one, holds a press
    button,     \* the Deboard button
    note,       \* the note under the flight
    verdict,    \* history: what the loop was told that ends the flight
    pausing,    \* goroutines of pauseSim that have not returned
    stored,     \* the API: positions stored
    status,     \* the API: status of the flight
    access,     \* the API: whether it still serves this tracker
    late        \* calls the tracker gave up on and the API has yet to see

api == <<stored, status, access, late>>
screen == <<button, note>>

vars == <<snapshots, ctxDone, pc, back, reply, pending, collected, deboards,
          screen, verdict, pausing, api>>

Terminal == {"completed"}           \* stands for the four terminalStatuses
Status == {"enroute", "taxi_to_gate"} \cup Terminal

\* The API refuses this tracker: tracker_unsupported, or its token is no good.
\* The two differ in the callback, onUnsupported or onSignedOut, alone.
Refusal == {"refused"}

Calls == {"positions", "look", "deboard"}

Snapshot == [paused : BOOLEAN, flush : BOOLEAN]
Position == [id : Nat, paused : BOOLEAN]

\* An answer that is no more than its kind.
Reply(kind) == [kind |-> kind, status |-> "none", pause |-> FALSE]
Ok(st, p) == [kind |-> "ok", status |-> st, pause |-> p]

NoReply == Reply("none")
Unreachable == Reply("unreachable")

ReplyKind == {"none", "ok", "unreachable", "not_active", "no_airport", "gone",
              "not_deboarding"} \cup Refusal

Ids(s) == {s[i].id : i \in 1..Len(s)}

\* A note is a text, and a number when it names one.
Saying(text) == <<text, 0>>
NoNote == Saying("")

\* "holding %d positions"
Holding(number) == <<"holding", number>>

Init ==
    /\ snapshots = <<>>
    /\ ctxDone = FALSE
    /\ pc = "select"
    /\ back = "select"
    /\ reply = NoReply
    /\ pending = <<>>
    /\ collected = 0
    /\ deboards \in BOOLEAN     \* a press of an earlier flight may be left over
    /\ verdict = "none"
    /\ pausing = 0
    /\ stored = {}
    /\ status \in Status \ Terminal
    /\ button = IF status = "taxi_to_gate" THEN "enabled" ELSE "hidden"
    /\ note = NoNote
    /\ access = "granted"
    /\ late = {}

-----------------------------------------------------------------------------
\* A call begins. A client whose context is cancelled sends nothing.
Begin(call) ==
    /\ pc' = call
    /\ reply' = IF ctxDone THEN Unreachable ELSE NoReply

\* flush: what is held, or whether the flight still is the one to fly.
Flush(held, returnTo) ==
    /\ back' = returnTo
    /\ Begin(IF held = <<>> THEN "look" ELSE "positions")

\* Mutant of Windowed: a window too small.
WindowedTooSoon(s) == IF Len(s) >= Window THEN Tail(s) ELSE s

\* "cap: drop oldest unsent"
Windowed(s) == IF Len(s) > Window THEN Tail(s) ELSE s

\* The loop returns, and what it still held goes with it.
Stop ==
    /\ pc = "select"
    /\ ctxDone
    /\ pc' = "done"
    /\ pending' = <<>>
    /\ UNCHANGED <<snapshots, ctxDone, back, reply, collected, deboards, screen,
                   verdict, pausing, api>>

\* Mutant of Urgent.
UrgentPause(snapshot) == snapshot.paused

Urgent(snapshot) == snapshot.flush

Collect ==
    /\ pc = "select"
    /\ snapshots # <<>>
    /\ snapshots' = Tail(snapshots)
    /\ collected' = collected + 1
    /\ pending' = Windowed(Append(pending,
                    [id |-> collected + 1, paused |-> Head(snapshots).paused]))
    /\ IF Urgent(Head(snapshots))
          THEN Flush(pending', "select")
          ELSE UNCHANGED <<pc, back, reply>>
    /\ UNCHANGED <<ctxDone, deboards, screen, verdict, pausing, api>>

SendTick ==
    /\ pc = "select"
    /\ Flush(pending, "select")
    /\ UNCHANGED <<snapshots, ctxDone, pending, collected, deboards, screen,
                   verdict, pausing, api>>

Press ==
    /\ pc = "select"
    /\ deboards
    /\ deboards' = FALSE
    /\ Flush(pending, "pressed")
    /\ UNCHANGED <<snapshots, ctxDone, pending, collected, screen, verdict,
                   pausing, api>>

Unsent == pending # <<>>

\* After the flush of a press: "if ctx.Err() != nil", "if len(pending) > 0".
AfterPress ==
    /\ pc = "pressed"
    /\ back' = "select"
    /\ \/ /\ ctxDone
          /\ pc' = "select"
          /\ UNCHANGED <<reply, note>>
       \/ /\ ~ctxDone
          /\ Unsent
          /\ note' = Saying("press_again")
          /\ pc' = "select"
          /\ UNCHANGED reply
       \/ /\ ~ctxDone
          /\ ~Unsent
          /\ Begin("deboard")
          /\ UNCHANGED note
    /\ UNCHANGED <<snapshots, ctxDone, pending, collected, deboards, button,
                   verdict, pausing, api>>
-----------------------------------------------------------------------------
(***************************************************************************)
(* The answer to the call, in the order in which the code looks at it: the *)
(* context first, a refusal of this tracker next, then what the call is    *)
(* about.                                                                  *)
(***************************************************************************)
Answered(call) ==
    /\ pc = call
    /\ reply # NoReply

Heard(call, kind) ==
    /\ Answered(call)
    /\ ~ctxDone
    /\ reply.kind = kind

\* Back to where the call was made from.
Return ==
    /\ pc' = back
    /\ reply' = NoReply

\* Mutant of EndFlight: the context is left alone.
EndFlightNot(why) ==
    /\ verdict' = why
    /\ UNCHANGED ctxDone

EndFlight(why) ==
    /\ ctxDone' = TRUE
    /\ verdict' = why

GoOn == UNCHANGED <<ctxDone, verdict>>

\* Mutant of ButtonFor: the button is shown and not enabled.
ButtonForShown(st) ==
    IF st # "taxi_to_gate" THEN "hidden"
    ELSE IF button = "disabled" THEN "disabled" ELSE "enabled"

\* The button of showStatus (ui.go).
ButtonFor(st) == IF st = "taxi_to_gate" THEN "enabled" ELSE "hidden"

\* Mutant of Progress: the note stays.
ProgressKeepsNote(st) ==
    /\ button' = ButtonFor(st)
    /\ IF st \in Terminal THEN EndFlight("over") ELSE GoOn
    /\ UNCHANGED note

\* SetProgress of the display, which also clears the note, and the end of a
\* flight whose status is terminal.
Progress(st) ==
    /\ button' = ButtonFor(st)
    /\ note' = NoNote
    /\ IF st \in Terminal THEN EndFlight("over") ELSE GoOn

Cancelled ==
    /\ \E call \in Calls : Answered(call)
    /\ ctxDone
    /\ Return
    /\ UNCHANGED <<snapshots, ctxDone, back, pending, collected, deboards,
                   screen, verdict, pausing, api>>

\* onUnsupported hides the pane the note and the button are on, onSignedOut
\* resets both.
Refused ==
    /\ \E call \in Calls, kind \in Refusal : Heard(call, kind)
    /\ Return
    /\ EndFlight(reply.kind)
    /\ button' = "hidden"
    /\ note' = NoNote
    /\ UNCHANGED <<snapshots, back, pending, collected, deboards, pausing, api>>

PositionsNotActive ==
    /\ Heard("positions", "not_active")
    /\ Return
    /\ EndFlight("over")
    /\ UNCHANGED <<snapshots, back, pending, collected, deboards, screen,
                   pausing, api>>

PositionsNoAirport ==
    /\ Heard("positions", "no_airport")
    /\ Return
    /\ pending' = <<>>
    /\ note' = Saying("no_airport")
    /\ GoOn
    /\ UNCHANGED <<snapshots, back, collected, deboards, button, pausing, api>>

\* Mutant of PositionsFailed: the positions go with the failure.
PositionsFailedForGood ==
    /\ Heard("positions", "unreachable")
    /\ Return
    /\ pending' = <<>>
    /\ note' = Holding(Len(pending))
    /\ GoOn
    /\ UNCHANGED <<snapshots, back, collected, deboards, button, pausing, api>>

PositionsFailed ==
    /\ Heard("positions", "unreachable")
    /\ Return
    /\ note' = Holding(Len(pending))
    /\ GoOn
    /\ UNCHANGED <<snapshots, back, pending, collected, deboards, button,
                   pausing, api>>

\* Mutant of SimPaused: the first one.
SimPausedAtFirst == pending[1].paused

\* The latest position sent says whether the simulator is paused already.
SimPaused == pending[Len(pending)].paused

PositionsStored ==
    /\ Heard("positions", "ok")
    /\ Return
    /\ pending' = <<>>
    /\ pausing' = IF reply.pause /\ ~SimPaused THEN pausing + 1 ELSE pausing
    /\ Progress(reply.status)
    /\ UNCHANGED <<snapshots, back, collected, deboards, api>>

\* Mutant of LookGone: the flight goes on.
LookGoneIgnored ==
    /\ Heard("look", "gone")
    /\ Return
    /\ GoOn
    /\ UNCHANGED <<snapshots, back, pending, collected, deboards, screen,
                   pausing, api>>

\* stillFlying: there is no flight, or another one.
LookGone ==
    /\ Heard("look", "gone")
    /\ Return
    /\ EndFlight("over")
    /\ UNCHANGED <<snapshots, back, pending, collected, deboards, screen,
                   pausing, api>>

LookFailed ==
    /\ Heard("look", "unreachable")
    /\ Return
    /\ GoOn
    /\ UNCHANGED <<snapshots, back, pending, collected, deboards, screen,
                   pausing, api>>

LookFlying ==
    /\ Heard("look", "ok")
    /\ Return
    /\ button' = ButtonFor(reply.status)
    /\ GoOn
    /\ UNCHANGED <<snapshots, back, pending, collected, deboards, note,
                   pausing, api>>

\* Perhaps an earlier deboard was settled and its answer lost: look.
NotDeboarding ==
    /\ Heard("deboard", "not_deboarding")
    /\ Begin("look")
    /\ GoOn
    /\ UNCHANGED <<snapshots, back, pending, collected, deboards, screen,
                   pausing, api>>

DeboardFailed ==
    /\ \/ Heard("deboard", "no_airport") /\ note' = Saying("no_airport")
       \/ Heard("deboard", "unreachable") /\ note' = Saying("failed")
    /\ Return
    /\ GoOn
    /\ UNCHANGED <<snapshots, back, pending, collected, deboards, button,
                   pausing, api>>

Deboarded ==
    /\ Heard("deboard", "ok")
    /\ Return
    /\ Progress(reply.status)
    /\ UNCHANGED <<snapshots, back, pending, collected, deboards, pausing, api>>

HandleReply ==
    \/ Cancelled
    \/ Refused
    \/ PositionsNotActive
    \/ PositionsNoAirport
    \/ PositionsFailed
    \/ PositionsStored
    \/ LookGone
    \/ LookFailed
    \/ LookFlying
    \/ NotDeboarding
    \/ DeboardFailed
    \/ Deboarded

SenderStep ==
    \/ Stop
    \/ Collect
    \/ SendTick
    \/ Press
    \/ AfterPress
    \/ HandleReply

-----------------------------------------------------------------------------
(***************************************************************************)
(* The API and the network between. An outcome is the answer to a request  *)
(* and what it makes of the flight and of the positions stored.            *)
(***************************************************************************)
Outcome(r, sto, sta) == [reply |-> r, stored |-> sto, status |-> sta]

Unmoved(kind) == {Outcome(Reply(kind), stored, status)}

Pauses == IF pausing < MaxPausing THEN BOOLEAN ELSE {FALSE}

\* The batch is stored before the API looks at where the flight has got to.
PositionsOutcomes(ids) ==
    IF status \in Terminal
       THEN Unmoved("not_active")
       ELSE {Outcome(Ok(st, p), stored \cup ids, st) : st \in Status, p \in Pauses}
              \cup {Outcome(Reply("no_airport"), stored \cup ids, status)}

LookOutcomes ==
    IF status \in Terminal
       THEN Unmoved("gone")
       ELSE {Outcome(Ok(status, FALSE), stored, status)}

DeboardOutcomes ==
    IF status # "taxi_to_gate"
       THEN Unmoved("not_deboarding")
       ELSE {Outcome(Ok(st, FALSE), stored, st) : st \in Terminal}
              \cup Unmoved("no_airport")

Outcomes(request) ==
    IF access # "granted" THEN Unmoved(access)
    ELSE CASE request.call = "positions" -> PositionsOutcomes(request.ids)
           [] request.call = "look" -> LookOutcomes
           [] request.call = "deboard" -> DeboardOutcomes

\* The call under way. The loop changes nothing it is about while it waits.
Request == [call |-> pc, ids |-> IF pc = "positions" THEN Ids(pending) ELSE {}]

Waiting == pc \in Calls /\ reply = NoReply

LoopUnchanged ==
    UNCHANGED <<snapshots, ctxDone, pc, back, pending, collected, deboards,
                screen, verdict, pausing>>

Serve(outcome) ==
    /\ stored' = outcome.stored
    /\ status' = outcome.status
    /\ UNCHANGED access

Answer ==
    /\ Waiting
    /\ \E outcome \in Outcomes(Request) :
          Serve(outcome) /\ reply' = outcome.reply
    /\ UNCHANGED late
    /\ LoopUnchanged

LoseAnswer ==
    /\ Waiting
    /\ \E outcome \in Outcomes(Request) : Serve(outcome)
    /\ reply' = Unreachable
    /\ UNCHANGED late
    /\ LoopUnchanged

\* No connection, or an answer that is none: "server returned 500".
LoseRequest ==
    /\ Waiting
    /\ reply' = Unreachable
    /\ UNCHANGED api
    /\ LoopUnchanged

TimeOut ==
    /\ Waiting
    /\ Cardinality(late) < MaxLate
    /\ late' = late \cup {Request}
    /\ reply' = Unreachable
    /\ UNCHANGED <<stored, status, access>>
    /\ LoopUnchanged

ArriveLate ==
    /\ \E request \in late :
          /\ \E outcome \in Outcomes(request) : Serve(outcome)
          /\ late' = late \ {request}
    /\ UNCHANGED reply
    /\ LoopUnchanged

\* The player cancels the flight on the website.
CallOff ==
    /\ status \notin Terminal
    /\ status' \in Terminal
    /\ UNCHANGED <<stored, access, late, reply>>
    /\ LoopUnchanged

Deny ==
    /\ access = "granted"
    /\ access' \in Refusal
    /\ UNCHANGED <<stored, status, late, reply>>
    /\ LoopUnchanged

Network == Answer \/ LoseAnswer \/ LoseRequest \/ TimeOut \/ ArriveLate

-----------------------------------------------------------------------------
(***************************************************************************)
(* The player and the goroutines around the loop.                          *)
(***************************************************************************)
\* The button disables itself; the channel holds one press and drops another.
Tap ==
    /\ button = "enabled"
    /\ button' = "disabled"
    /\ deboards' = TRUE
    /\ UNCHANGED <<snapshots, ctxDone, pc, back, reply, pending, collected,
                   note, verdict, pausing, api>>

\* pauseSim returns.
Paused ==
    /\ pausing > 0
    /\ pausing' = pausing - 1
    /\ UNCHANGED <<snapshots, ctxDone, pc, back, reply, pending, collected,
                   deboards, screen, verdict, api>>

\* The coordinator hands over a snapshot.
Offer(snapshot) ==
    /\ Len(snapshots) < SnapshotBuffer
    /\ collected + Len(snapshots) < MaxCollected
    /\ snapshots' = Append(snapshots, snapshot)
    /\ UNCHANGED <<ctxDone, pc, back, reply, pending, collected, deboards,
                   screen, verdict, pausing, api>>

\* The reader gives up, the player signs out or quits.
Cancel ==
    /\ ~ctxDone
    /\ ctxDone' = TRUE
    /\ UNCHANGED <<snapshots, pc, back, reply, pending, collected, deboards,
                   screen, verdict, pausing, api>>

\* Once the loop has returned nothing more is expected of it.
Finished == pc = "done" /\ UNCHANGED vars

Next ==
    \/ SenderStep
    \/ Network
    \/ CallOff
    \/ Deny
    \/ Tap
    \/ Paused
    \/ \E snapshot \in Snapshot : Offer(snapshot)
    \/ Cancel
    \/ Finished

Spec == Init /\ [][Next]_vars

\* The loop goes on; a branch of the select that is ready whenever the loop
\* comes by is picked in the end, the choice being uniform; a call returns,
\* for every request has a timeout; and a call that is made again and again
\* is answered in the end: outages pass.
Fairness ==
    /\ WF_vars(HandleReply)
    /\ WF_vars(AfterPress)
    /\ SF_vars(Stop)
    /\ SF_vars(Collect)
    /\ SF_vars(SendTick)
    /\ SF_vars(Press)
    /\ WF_vars(Answer \/ LoseAnswer \/ LoseRequest \/ TimeOut)
    /\ SF_vars(Answer)

FairSpec == Spec /\ Fairness

-----------------------------------------------------------------------------
\* Every variable holds what its declaration says; the window and the channel
\* never outgrow their capacities.
TypeOK ==
    /\ snapshots \in Seq(Snapshot)
    /\ Len(snapshots) <= SnapshotBuffer
    /\ ctxDone \in BOOLEAN
    /\ pc \in {"select", "pressed", "done"} \cup Calls
    /\ back \in {"select", "pressed"}
    /\ reply \in [kind : ReplyKind, status : Status \cup {"none"}, pause : BOOLEAN]
    /\ pending \in Seq(Position)
    /\ Len(pending) <= Window
    /\ collected \in Nat
    /\ deboards \in BOOLEAN
    /\ button \in {"hidden", "enabled", "disabled"}
    /\ note \in {"", "holding", "press_again", "no_airport", "failed"} \X Nat
    /\ verdict \in {"none", "over"} \cup Refusal
    /\ pausing \in Nat
    /\ stored \subseteq Nat
    /\ status \in Status
    /\ access \in {"granted"} \cup Refusal
    /\ late \subseteq [call : Calls, ids : SUBSET Nat]

\* The window is an unbroken run of positions that ends at the latest one
\* collected: batches reach the API oldest first and without holes
\* (session.go:157-162).
WindowUnbroken ==
    \A i \in 1..Len(pending) : pending[i].id = collected - Len(pending) + i

\* As long as the flight goes on, a position that is neither stored nor held was
\* pushed out by a window full of newer ones: failed, lost, late and repeated
\* calls lose none (session.go:114-145, 160-162). What an ended flight still held
\* is given up.
NothingLost ==
    \A id \in 1..collected :
        \/ id \in stored
        \/ id \in Ids(pending)
        \/ id + Window <= collected
        \/ pc = "done"

\* A deboard is asked for only when nothing is held, for the API resolves the
\* landing airport from the last stored position (session.go:170-179).
DeboardHoldsNothing == pc = "deboard" => pending = <<>>

\* Once the API has said that the flight is over or that it refuses this
\* tracker, no further call of this flight is on its way: "a refused tracker
\* must not ask again" (session_test.go:428).
VerdictIsFinal == verdict # "none" => ctxDone /\ ~Waiting

\* A player who is told that so many positions are held, or that the press waits
\* for the website, is told the truth for as long as the sender runs (session.go:
\* 139, 176): that many are still held, and no later answer empties the window and
\* leaves the note. It does stand for a while once the flight has ended.
NoteIsHonest ==
    pc # "done" =>
        /\ note[1] = "holding" => note[2] \in 1..Len(pending)
        /\ note[1] = "press_again" => pending # <<>>

\* The website's pause is carried out unless the newest position the API has
\* just been given says that the simulator is paused (session.go:144-148).
PausesARunningSim ==
    [][pausing' = pausing + 1 =>
          \A i \in 1..Len(pending) : pending[i].id = collected => ~pending[i].paused]_vars

\* The batches that the API may yet see.
OnTheWay ==
    {request.ids : request \in {r \in late : r.call = "positions"}}
        \cup {ids \in {Ids(pending)} : Waiting /\ pc = "positions"}

Delivery == INSTANCE PositionDelivery
    WITH newest <- collected, oldest <- collected - Len(pending) + 1,
         way <- OnTheWay, over <- pc = "done"

\* The sender keeps the promise of PositionDelivery.
DeliversPositions == Delivery!Spec

Loop == INSTANCE SendLoop
    WITH pc <- IF pc \in {"select", "done"} THEN pc ELSE "call"

\* The rest of the flight may take the sender for the loop of SendLoop.
ImplementsSendLoop == Loop!Spec

\* The sender comes back from its calls to its select, or returns: a press
\* and the calls it leads to do not go round for ever (session.go:152-181).
ComesBack == []<>(pc \in {"select", "done"})

\* A press is taken up, or the flight ends first.
PressIsTaken == deboards ~> ~deboards \/ ctxDone

\* A flight that is over on the website is given up, through whatever outage
\* (session.go:109-111, 123-126, 242-244).
OverIsNoticed == status \in Terminal ~> ctxDone
-----------------------------------------------------------------------------
\* "the deboard must not be sent while positions are still unsent"
\* (session_test.go:266). The code sees to it for the positions held and not
\* for those that came in while it was busy sending: they wait in the channel.
DeboardLeavesNothingUnsent ==
    [][pc' = "deboard" /\ pc # "deboard" /\ ~ctxDone
          => pending = <<>> /\ snapshots = <<>>]_vars

\* A press was taken up and the deboard it asks for has not been answered.
PressInHand == pc \in {"pressed", "deboard"} \/ (pc \in Calls /\ back = "pressed")

\* The button stays disabled for as long: "a second tap before the API answers
\* would queue a stale press" (ui_test.go:172). The answer to the positions
\* that are sent first enables it (ui.go:442-446).
ButtonWaitsForTheAnswer ==
    [][PressInHand /\ button = "disabled" /\ PressInHand' => button' # "enabled"]_vars

\* The same of the note without an end: not once the flight has ended. What was
\* held went with the sender, and SetNoFlight leaves the note (ui.go:411-416)
\* until the next poll has its answer (session.go:56-64, 123-126).
NoteIsHonestToTheEnd == note[1] = "holding" => note[2] \in 1..Len(pending)
=============================================================================
