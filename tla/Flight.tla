------------------------------- MODULE Flight -------------------------------
(***************************************************************************)
(* One flight: session.fly of internal/tracker/session.go and the          *)
(* goroutines it starts and waits for. The reader of the connection        *)
(* (runReader in internal/xplane/rref.go, connection.Run in                *)
(* internal/msfs/msfs.go) fills the channel of the coordinator, or, while  *)
(* Autodetect has not settled on a simulator, an inner channel, which the  *)
(* pump (candidateConnection.Run in internal/sim/autodetect.go) forwards;  *)
(* the coordinator fills the channel of the sender.                        *)
(* Whoever ends the flight cancels its context; fly then closes the        *)
(* connection and waits.                                                   *)
(*                                                                         *)
(* The coordinator is Coordinator, the sender SendLoop, which Sender       *)
(* implements.                                                             *)
(***************************************************************************)
EXTENDS Naturals, Sequences

CONSTANTS
    UpdateBuffer, SnapshotBuffer,   \* capacities of the channels
    Kinds                           \* the updates the simulator has to tell

VARIABLES
    \* the coordinator's, as in Coordinator
    updates, snapshots, ctxDone, coordinatorPc, pos, live, wasPaused, silent,
    offered,
    senderPc,   \* the sender's, as in SendLoop
    piped,      \* there is a pump: the simulator is a candidate of Autodetect
    polls,      \* the reader looks at the context between reads: X-Plane's does
    readerPc,   \* "read", "push" or "done"
    heard,      \* the update the reader is about to push, or none
    inner,      \* the channel between reader and pump
    pumpPc,     \* "range", "forward" or "done"; "absent" without a pump
    carried,    \* the update the pump is about to forward, or none
    open,       \* the connection to the simulator is
    flyPc       \* "opening", "flying", "waiting", "returned", or "grounded":
                \* returned without a connection

coordinator == <<coordinatorPc, pos, live, wasPaused, silent, offered>>
reader == <<polls, readerPc, heard>>
pump == <<piped, pumpPc, carried>>
fly == <<open, flyPc>>

\* What the others are to fly, the reader and the pump.
beyondFly == <<updates, snapshots, coordinator, senderPc, reader, inner, pump>>
beyondReader == <<snapshots, coordinator, senderPc, polls, pump, fly>>
beyondPump == <<snapshots, ctxDone, coordinator, senderPc, reader, piped, fly>>

vars == <<beyondFly, ctxDone, fly>>

C == INSTANCE Coordinator WITH pc <- coordinatorPc
L == INSTANCE SendLoop WITH pc <- senderPc

ASSUME FlightAssumption == C!CoordinatorAssumption /\ Kinds \subseteq C!UpdateKind

None == "none"

Init ==
    /\ C!Init
    /\ L!Init
    /\ polls \in BOOLEAN /\ piped \in BOOLEAN
    /\ readerPc = "read" /\ heard = None
    /\ inner = <<>>
    /\ pumpPc = (IF piped THEN "range" ELSE "absent") /\ carried = None
    /\ open = FALSE /\ flyPc = "opening"

\* The goroutines fly waits for run from "go" on.
Started == flyPc \in {"flying", "waiting"}

\* conn.Run is the reader, or the pump: then the wait group does not know of
\* the reader behind it.
Running ==
    \/ IF piped THEN pumpPc # "done" ELSE readerPc # "done"
    \/ coordinatorPc # "done"
    \/ senderPc # "done"

-----------------------------------------------------------------------------
(***************************************************************************)
(* fly                                                                     *)
(***************************************************************************)
Open ==
    /\ flyPc = "opening" /\ flyPc' = "flying"
    /\ open' = TRUE
    /\ UNCHANGED <<beyondFly, ctxDone>>

OpenFails ==
    /\ flyPc = "opening" /\ flyPc' = "grounded"
    /\ UNCHANGED <<beyondFly, ctxDone, open>>

Closes == flyPc = "flying" /\ ctxDone /\ flyPc' = "waiting"

\* Mutants of Close: the wait comes first, or one of the channels is emptied for
\* whoever may be blocked on it.
CloseAfterWaiting == Closes /\ UNCHANGED <<beyondFly, ctxDone, open>>

CloseAndEmpty ==
    /\ Closes
    /\ open' = FALSE
    /\ snapshots' = <<>>
    /\ UNCHANGED <<updates, ctxDone, coordinator, senderPc, reader, inner, pump>>

CloseAndDrain ==
    /\ Closes
    /\ open' = FALSE
    /\ updates' = <<>>
    /\ UNCHANGED <<snapshots, ctxDone, coordinator, senderPc, reader, inner, pump>>

\* "<-flightCtx.Done(); conn.Close()"
Close == Closes /\ open' = FALSE /\ UNCHANGED <<beyondFly, ctxDone>>

\* "wg.Wait()"
Wait ==
    /\ flyPc = "waiting" /\ flyPc' = "returned"
    /\ ~Running
    /\ UNCHANGED <<beyondFly, ctxDone, open>>

-----------------------------------------------------------------------------
(***************************************************************************)
(* The reader. It lives on for a moment when fly has returned.             *)
(***************************************************************************)
Read ==
    /\ Started /\ open
    /\ readerPc = "read" /\ readerPc' = "push"
    /\ heard' \in Kinds
    /\ UNCHANGED <<updates, ctxDone, inner, beyondReader>>

Returning(place) ==
    /\ Started \/ flyPc = "returned"
    /\ readerPc = place /\ readerPc' = "done"
    /\ heard' = None
    /\ UNCHANGED <<updates, inner, beyondReader>>

\* A read that times out; a reader of MSFS has no deadline.
ReadNothing == polls /\ ctxDone /\ Returning("read") /\ UNCHANGED ctxDone

\* Mutant of ReadFails: the reader leaves alone.
ReadFailsAlone == Returning("read") /\ UNCHANGED ctxDone

\* The connection is closed, or broke, or the simulator quit: stop().
ReadFails == Returning("read") /\ ctxDone' = TRUE

\* The inner channel has the capacity of the other: cap(updates).
Room(channel) == Len(channel) < UpdateBuffer

Push ==
    /\ Started \/ flyPc = "returned"
    /\ readerPc = "push" /\ readerPc' = "read"
    /\ heard' = None
    /\ IF piped
          THEN Room(inner) /\ inner' = Append(inner, heard) /\ UNCHANGED updates
          ELSE Room(updates) /\ updates' = Append(updates, heard) /\ UNCHANGED inner
    /\ UNCHANGED <<ctxDone, beyondReader>>

\* Mutant of PushGivenUp: into the inner channel with a plain send.
PushGivenUpDirectly == ~piped /\ ctxDone /\ Returning("push") /\ UNCHANGED ctxDone

PushGivenUp == ctxDone /\ Returning("push") /\ UNCHANGED ctxDone

Reader == Read \/ ReadNothing \/ ReadFails \/ Push \/ PushGivenUp

-----------------------------------------------------------------------------
(***************************************************************************)
(* The pump ranges over the inner channel, which the reader closes when it *)
(* returns.                                                                *)
(***************************************************************************)
Take ==
    /\ Started
    /\ pumpPc = "range" /\ pumpPc' = "forward"
    /\ inner # <<>>
    /\ carried' = Head(inner)
    /\ inner' = Tail(inner)
    /\ UNCHANGED <<updates, beyondPump>>

Forward ==
    /\ Started
    /\ pumpPc = "forward" /\ pumpPc' = "range"
    /\ Room(updates)
    /\ updates' = Append(updates, carried)
    /\ carried' = None
    /\ UNCHANGED <<inner, beyondPump>>

ForwardGivenUp ==
    /\ Started
    /\ pumpPc = "forward" /\ pumpPc' = "done"
    /\ ctxDone
    /\ carried' = None
    /\ UNCHANGED <<updates, inner, beyondPump>>

RangeEnds ==
    /\ Started
    /\ pumpPc = "range" /\ pumpPc' = "done"
    /\ inner = <<>> /\ readerPc = "done"
    /\ UNCHANGED <<updates, inner, carried, beyondPump>>

Pump == Take \/ Forward \/ ForwardGivenUp \/ RangeEnds

-----------------------------------------------------------------------------
CoordinatorGoroutine ==
    /\ Started
    /\ C!CoordinatorStep
    /\ UNCHANGED <<senderPc, reader, inner, pump, fly>>

\* A silent flight whose Resubscribe finds a simulator that Autodetect prefers
\* closes its own connection, for the reader to end it (autodetect.go:89-104).
MakeWay ==
    /\ Started
    /\ piped
    /\ C!Resubscribed
    /\ open' = FALSE
    /\ UNCHANGED <<senderPc, reader, inner, pump, flyPc>>

\* Nothing was heard for a while.
Quiet ==
    /\ Started
    /\ C!Quiet
    /\ UNCHANGED <<senderPc, reader, inner, pump, fly>>

SenderGoroutine ==
    /\ Started
    /\ L!Step
    /\ UNCHANGED <<updates, coordinator, reader, inner, pump, fly>>

\* The player signs out or quits; the session's context is the parent.
SessionEnds ==
    /\ Started \/ flyPc = "opening"
    /\ C!Cancel
    /\ UNCHANGED <<senderPc, reader, inner, pump, fly>>

\* Once fly has returned nothing more is expected of it.
Finished == flyPc \in {"grounded", "returned"} /\ UNCHANGED vars

Next ==
    \/ Open
    \/ OpenFails
    \/ Close
    \/ Wait
    \/ Reader
    \/ Pump
    \/ CoordinatorGoroutine
    \/ MakeWay
    \/ Quiet
    \/ SenderGoroutine
    \/ SessionEnds
    \/ Finished

Spec == Init /\ [][Next]_vars

\* Every goroutine goes on; a branch of a select that is ready whenever its
\* loop comes by is picked in the end. A read of a closed
\* connection fails and X-Plane's reader looks up every second; otherwise
\* the simulator owes nothing. Resubscribe and the calls of the sender return
\* (ComesBack of Sender).
Fairness ==
    /\ WF_vars(Open \/ OpenFails)
    /\ WF_vars(Close)
    /\ WF_vars(Wait)
    /\ WF_vars(ReadNothing)
    /\ WF_vars(ReadFails /\ ~open)
    /\ WF_vars(Push \/ PushGivenUp)
    /\ WF_vars(Take)
    /\ WF_vars(Forward \/ ForwardGivenUp)
    /\ WF_vars(RangeEnds)
    /\ SF_vars(CoordinatorGoroutine /\ (C!Stop \/ C!Abandon))
    /\ SF_vars(CoordinatorGoroutine /\ C!Receive)
    /\ WF_vars(CoordinatorGoroutine /\ C!HandOver)
    /\ WF_vars((CoordinatorGoroutine \/ MakeWay) /\ C!Resubscribed)
    /\ SF_vars(SenderGoroutine /\ L!Stop)
    /\ SF_vars(SenderGoroutine /\ L!Collect)
    /\ WF_vars(SenderGoroutine /\ L!Return /\ senderPc' = "select")

FairSpec == Spec /\ Fairness

-----------------------------------------------------------------------------
\* The parts have their types; what is pushed and carried is an update.
TypeOK ==
    /\ C!TypeOK
    /\ senderPc \in {"select", "call", "done"}
    /\ polls \in BOOLEAN
    /\ readerPc \in {"read", "push", "done"}
    /\ heard \in Kinds \cup {None}
    /\ inner \in Seq(Kinds)
    /\ Len(inner) <= UpdateBuffer
    /\ piped \in BOOLEAN
    /\ pumpPc \in IF piped THEN {"range", "forward", "done"} ELSE {"absent"}
    /\ carried \in Kinds \cup {None}
    /\ open \in BOOLEAN
    /\ flyPc \in {"opening", "flying", "waiting", "returned", "grounded"}

\* A flight does not go on without one of its goroutines: a reader that fails
\* takes the others with it (rref.go:138, msfs.go:205, 243), and none returns
\* from a flight that is not over.
NoneIsMissed ==
    readerPc = "done" \/ pumpPc = "done" \/ coordinatorPc = "done" \/ senderPc = "done"
        => ctxDone

\* Put together, the goroutines treat the coordinator as Coordinator expects
\* and the sender as SendLoop expects.
ImplementsCoordinator == C!Spec
ImplementsSendLoop == L!Spec

\* A flight that is cancelled returns, with each of its goroutines blocked
\* wherever it may be: on a full channel, in a read, in a call
\* (session.go:98-100).
FlightReturns == Started /\ ctxDone ~> flyPc = "returned"

\* The reader, for which fly does not wait when Autodetect put the pump in
\* between, leaves all the same (autodetect.go:111-114).
ReaderLeaves == flyPc = "returned" ~> readerPc = "done"
=============================================================================
