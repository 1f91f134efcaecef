------------------------------ MODULE SendLoop ------------------------------
(***************************************************************************)
(* The sender of internal/tracker/session.go as the rest of the flight     *)
(* sees it: it takes snapshots from their channel, is away for as long as  *)
(* its calls to the API last, at once after a flagged snapshot, may end    *)
(* the flight when they return, and returns once the flight has ended.     *)
(* Sender implements it; Flight composes it with the other goroutines.     *)
(***************************************************************************)
EXTENDS Naturals, Sequences

CONSTANT SnapshotBuffer     \* capacity of the channel of snapshots

VARIABLES
    snapshots,  \* the channel the coordinator fills
    ctxDone,    \* the context of the flight is cancelled
    pc          \* "select", "call" or "done"

vars == <<snapshots, ctxDone, pc>>

Init ==
    /\ snapshots = <<>>
    /\ ctxDone = FALSE
    /\ pc = "select"

Stop ==
    /\ pc = "select"
    /\ ctxDone
    /\ pc' = "done"
    /\ UNCHANGED <<snapshots, ctxDone>>

Collect ==
    /\ pc = "select"
    /\ snapshots # <<>>
    /\ snapshots' = Tail(snapshots)
    /\ pc' = IF Head(snapshots).flush THEN "call" ELSE "select"
    /\ UNCHANGED ctxDone

\* The tick of the sender, or a press of the Deboard button.
Call ==
    /\ pc = "select"
    /\ pc' = "call"
    /\ UNCHANGED <<snapshots, ctxDone>>

\* A call returns: the flight may be over, and another call may follow.
Return ==
    /\ pc = "call"
    /\ pc' \in {"select", "call"}
    /\ ctxDone' \in {ctxDone, TRUE}
    /\ UNCHANGED snapshots

Step == Stop \/ Collect \/ Call \/ Return

\* The coordinator hands over one more snapshot.
Offered ==
    /\ Len(snapshots) < SnapshotBuffer
    /\ Len(snapshots') = Len(snapshots) + 1
    /\ SubSeq(snapshots', 1, Len(snapshots)) = snapshots
    /\ UNCHANGED <<ctxDone, pc>>

Cancel ==
    /\ ctxDone' = TRUE
    /\ UNCHANGED <<snapshots, pc>>

Next == Step \/ Offered \/ Cancel

Spec == Init /\ [][Next]_vars
=============================================================================
