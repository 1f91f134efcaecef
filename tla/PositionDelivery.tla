-------------------------- MODULE PositionDelivery --------------------------
(***************************************************************************)
(* What the sender of internal/tracker/session.go promises about positions.*)
(* A position it collected stays in its hands until the API has stored it, *)
(* until a window full of newer ones pushes it out, or until the flight    *)
(* ends. What it sends is all it holds at that moment, an unbroken run     *)
(* that ends at the latest position, and nothing else is ever stored: such *)
(* a batch is stored whole or not at all, and perhaps more than once.      *)
(* Positions are named by their place in the stream of the coordinator,    *)
(* which stands for the uuid by which the API knows one it has.            *)
(***************************************************************************)
EXTENDS Naturals

CONSTANT Window     \* windowSize: how many positions are held at most

VARIABLES
    newest,     \* the latest position collected
    oldest,     \* the oldest one held: oldest..newest are
    way,        \* the batches sent that may yet be stored
    stored,     \* the positions the API has stored
    over        \* the flight has ended

vars == <<newest, oldest, way, stored, over>>

Init ==
    /\ newest = 0
    /\ oldest = 1
    /\ way = {}
    /\ stored = {}
    /\ over = FALSE

\* All that is held, oldest first.
Batch == oldest..newest

\* One more position; a full window lets go of its oldest. What is held then
\* may be sent at once.
Collect ==
    /\ ~over
    /\ newest' = newest + 1
    /\ oldest' = IF newest - oldest + 1 >= Window THEN oldest + 1 ELSE oldest
    /\ way' \in {way, way \cup {Batch'}}
    /\ UNCHANGED <<stored, over>>

Send ==
    /\ ~over
    /\ way' = way \cup {Batch}
    /\ UNCHANGED <<newest, oldest, stored, over>>

\* A batch is stored or lost, and may yet arrive once more.
Settle ==
    /\ \E batch \in way :
          /\ stored' \in {stored, stored \cup batch}
          /\ way' \in {way, way \ {batch}}
    /\ UNCHANGED <<newest, oldest, over>>

\* The tracker lets go of what it holds, for it knows all of it is stored.
Confirm ==
    /\ ~over
    /\ Batch \subseteq stored
    /\ oldest' = newest + 1
    /\ UNCHANGED <<newest, way, stored, over>>

\* The flight ends, and what is held goes with it.
GiveUp ==
    /\ ~over
    /\ over' = TRUE
    /\ oldest' = newest + 1
    /\ UNCHANGED <<newest, way, stored>>

Next == Collect \/ Send \/ Settle \/ Confirm \/ GiveUp

Spec == Init /\ [][Next]_vars
=============================================================================
