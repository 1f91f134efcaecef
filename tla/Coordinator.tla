---------------------------- MODULE Coordinator ----------------------------
(***************************************************************************)
(* The loop of internal/sim/coordinator.go: it folds the updates of the    *)
(* simulator's reader into one position, takes a snapshot of the position  *)
(* at every tick, keeps quiet while the simulator is paused, and asks for  *)
(* a new subscription when nothing was heard for too long.                 *)
(*                                                                         *)
(* Time is abstracted to one bit: silent is time.Since(lastPacket) >=      *)
(* Timings.Silence. CoordinatorClock puts the clock back.                  *)
(***************************************************************************)
EXTENDS Naturals, Sequences

CONSTANTS
    UpdateBuffer,     \* capacity of the channel of updates
    SnapshotBuffer    \* capacity of the channel of snapshots

\* What the theorems assume; the modules that instantiate this one assert it
\* of their own constants.
CoordinatorAssumption ==
    /\ UpdateBuffer \in Nat \ {0}
    /\ SnapshotBuffer \in Nat \ {0}

VARIABLES
    updates,    \* the channel the reader fills
    snapshots,  \* the channel the sender empties
    ctxDone,    \* the context of the flight is cancelled
    pc,         \* where the loop stands
    pos,        \* posData: what the properties tell apart of it
    live,
    wasPaused,
    silent,     \* nothing received for Timings.Silence
    offered     \* the latest snapshot made, in the channel or not yet

vars == <<updates, snapshots, ctxDone, pc, pos, live, wasPaused, silent, offered>>

\* What an update does to the position: "data" stands for every assignment
\* to a field other than Paused and Crashed.
UpdateKind == {"data", "pause", "resume", "crash"}

Position == [paused : BOOLEAN, crashed : BOOLEAN]

\* The uuid of a snapshot is its place in the stream.
Snapshot == [paused : BOOLEAN, crashed : BOOLEAN, flush : BOOLEAN]

Apply(u, p) ==
    [paused  |-> u = "pause" \/ (p.paused /\ u # "resume"),
     crashed |-> u = "crash" \/ p.crashed]

\* Mutants of Flush.
FlushCrashes == pos.crashed
FlushEdges == pos.paused # wasPaused

\* Pause edges and crashes are not to wait for the sender's own tick.
Flush == pos.paused # wasPaused \/ pos.crashed

TakenSnapshot ==
    [paused |-> pos.paused, crashed |-> pos.crashed, flush |-> Flush]

Init ==
    /\ updates = <<>>
    /\ snapshots = <<>>
    /\ ctxDone = FALSE
    /\ pc = "select"
    /\ pos = [paused |-> FALSE, crashed |-> FALSE]
    /\ live = FALSE
    /\ wasPaused = FALSE
    /\ silent = TRUE                        \* lastPacket is the zero time
    /\ offered = [paused |-> FALSE, crashed |-> FALSE, flush |-> FALSE]

(***************************************************************************)
(* The branches of the select. A cancelled context does not disable the    *)
(* others: select picks any branch that is ready.                          *)
(***************************************************************************)
Stop ==
    /\ pc = "select"
    /\ ctxDone
    /\ pc' = "done"
    /\ UNCHANGED <<updates, snapshots, ctxDone, pos, live, wasPaused, silent, offered>>

Receive ==
    /\ pc = "select"
    /\ updates # <<>>
    /\ updates' = Tail(updates)
    /\ pos' = Apply(Head(updates), pos)
    /\ live' = TRUE
    /\ silent' = FALSE
    /\ UNCHANGED <<snapshots, ctxDone, pc, wasPaused, offered>>

\* Mutant of SilenceTick: a simulator already known to be silent is left alone.
SilenceTickOnce ==
    /\ pc = "select"
    /\ silent
    /\ live' = FALSE
    /\ pc' = IF live THEN "resubscribe" ELSE "select"
    /\ UNCHANGED <<updates, snapshots, ctxDone, pos, wasPaused, silent, offered>>

\* The tick of a loop that heard something lately changes nothing.
SilenceTick ==
    /\ pc = "select"
    /\ silent
    /\ live' = FALSE
    /\ pc' = "resubscribe"
    /\ UNCHANGED <<updates, snapshots, ctxDone, pos, wasPaused, silent, offered>>

\* Resubscribe writes to the connection and may take its time.
Resubscribed ==
    /\ pc = "resubscribe"
    /\ pc' = "select"
    /\ UNCHANGED <<updates, snapshots, ctxDone, pos, live, wasPaused, silent, offered>>

\* Ticks while not live, or while paused with nothing new, change nothing.
SnapshotTick ==
    /\ pc = "select"
    /\ live
    /\ pos.paused => Flush
    /\ wasPaused' = pos.paused
    /\ offered' = TakenSnapshot
    /\ pos' = [pos EXCEPT !.crashed = FALSE]
    /\ pc' = "offer"
    /\ UNCHANGED <<updates, snapshots, ctxDone, live, silent>>

(***************************************************************************)
(* The inner select, on the channel of snapshots.                          *)
(***************************************************************************)
SnapshotRoom == Len(snapshots) < SnapshotBuffer

HandOver ==
    /\ pc = "offer"
    /\ SnapshotRoom
    /\ snapshots' = Append(snapshots, offered)
    /\ pc' = "select"
    /\ UNCHANGED <<updates, ctxDone, pos, live, wasPaused, silent, offered>>

Abandon ==
    /\ pc = "offer"
    /\ ctxDone
    /\ pc' = "done"
    /\ UNCHANGED <<updates, snapshots, ctxDone, pos, live, wasPaused, silent, offered>>

CoordinatorStep ==
    \/ Stop
    \/ Receive
    \/ SilenceTick
    \/ Resubscribed
    \/ SnapshotTick
    \/ HandOver
    \/ Abandon

(***************************************************************************)
(* The goroutines around the loop: the reader, the sender, the clock and   *)
(* whoever ends the flight.                                                *)
(***************************************************************************)
Hear(u) ==
    /\ Len(updates) < UpdateBuffer
    /\ updates' = Append(updates, u)
    /\ UNCHANGED <<snapshots, ctxDone, pc, pos, live, wasPaused, silent, offered>>

Drain ==
    /\ snapshots # <<>>
    /\ snapshots' = Tail(snapshots)
    /\ UNCHANGED <<updates, ctxDone, pc, pos, live, wasPaused, silent, offered>>

Quiet ==
    /\ ~silent
    /\ silent' = TRUE
    /\ UNCHANGED <<updates, snapshots, ctxDone, pc, pos, live, wasPaused, offered>>

Cancel ==
    /\ ~ctxDone
    /\ ctxDone' = TRUE
    /\ UNCHANGED <<updates, snapshots, pc, pos, live, wasPaused, silent, offered>>

Environment ==
    \/ \E u \in UpdateKind : Hear(u)
    \/ Drain
    \/ Quiet
    \/ Cancel

\* Once the loop has returned nothing more is expected of it.
Finished == pc = "done" /\ UNCHANGED vars

Next == CoordinatorStep \/ Environment \/ Finished

Spec == Init /\ [][Next]_vars

-----------------------------------------------------------------------------
\* Every variable holds what its declaration says, the channels within their
\* capacities.
TypeOK ==
    /\ updates \in Seq(UpdateKind)
    /\ Len(updates) <= UpdateBuffer
    /\ snapshots \in Seq(Snapshot)
    /\ Len(snapshots) <= SnapshotBuffer
    /\ ctxDone \in BOOLEAN
    /\ pc \in {"select", "resubscribe", "offer", "done"}
    /\ pos \in Position
    /\ live \in BOOLEAN
    /\ wasPaused \in BOOLEAN
    /\ silent \in BOOLEAN
    /\ offered \in Snapshot

Taking == pc = "select" /\ pc' = "offer"

\* Between two snapshots in a row the simulator went into a pause, left one,
\* or was running at both: a change is flagged for the sender to flush at
\* once, and a paused simulator adds nothing unless it crashed
\* (coordinator.go:86-90, "stays quiet" of TestCoordinatorFlushesOnPauseAndStaysQuiet).
PauseEdgesAreFlushed ==
    [][Taking => /\ offered'.paused # offered.paused => offered'.flush
                 /\ offered'.paused /\ offered.paused => offered'.crashed]_vars
=============================================================================
