---------------------------- MODULE XPlaneReader ----------------------------
(***************************************************************************)
(* What the reader makes of the datarefs X-Plane sends: runReader of       *)
(* internal/xplane/rref.go, the assignments of internal/xplane/dataref.go, *)
(* and the position of internal/telemetry, over XPlaneSubscription.        *)
(*                                                                         *)
(* A packet has any of the subscribed datarefs, and may be lost. Each of   *)
(* them is an update of its own, and the coordinator may take a snapshot   *)
(* between two. The buffer between them keeps the order, so that a packet  *)
(* is as good as heard when the updates of the last are applied. Of the    *)
(* datarefs two kinds are told apart, those that are more than stored: the *)
(* crash, which stays with the position until a snapshot takes it, and the *)
(* engines, of which the position has the number that runs (as it has the  *)
(* payload, a difference of three masses).                                 *)
(***************************************************************************)
EXTENDS XPlaneSubscription

CONSTANT Crash      \* the dataref has_crashed; the others are of engines

ASSUME XPlaneReaderAssumption == Crash \in Datarefs

Engines == Datarefs \ {Crash}

VARIABLES
    truth,      \* X-Plane: the datarefs that are 1
    decoded,    \* the updates of a packet that the reader has yet to pass on
    position,   \* what the coordinator holds of it
    told        \* history: of a crash the reader heard of, no snapshot so far

reading == <<truth, decoded, position, told>>
readerVars == <<vars, reading>>

Updates == [dataref : Datarefs, value : BOOLEAN]

Position == [crashed : BOOLEAN, burning : SUBSET Engines, running : 0..Cardinality(Engines)]

ReaderInit ==
    /\ Init
    /\ truth = {} /\ decoded = {} /\ told = FALSE
    /\ position = [crashed |-> FALSE, burning |-> {}, running |-> 0]

-----------------------------------------------------------------------------
\* Mutant of Crashed: an assignment like any other.
CrashedNow(p, value) == value

\* "if value == 1 { p.Crashed = true }"
Crashed(p, value) == p.crashed \/ value

\* SetEngineBurning counts those that burn.
Running(p, engine, value) ==
    Cardinality(IF value THEN p.burning \cup {engine} ELSE p.burning \ {engine})

Assign(p, dataref, value) ==
    IF dataref = Crash
       THEN [p EXCEPT !.crashed = Crashed(p, value)]
       ELSE [p EXCEPT !.burning = IF value THEN @ \cup {dataref} ELSE @ \ {dataref},
                      !.running = Running(p, dataref, value)]

\* A packet comes in and is decoded.
Hear(packet) ==
    /\ phase = "flying"
    /\ up /\ inbox = <<>>
    /\ packet # {}
    /\ decoded = {}
    /\ decoded' = {[dataref |-> d, value |-> d \in truth] : d \in packet}
    /\ told' = (told \/ (Crash \in packet /\ Crash \in truth))
    /\ UNCHANGED <<vars, truth, position>>

\* An update is passed on and applied; they come in any order.
PassOn(update) ==
    /\ phase = "flying"
    /\ update \in decoded
    /\ decoded' = decoded \ {update}
    /\ position' = Assign(position, update.dataref, update.value)
    /\ UNCHANGED <<vars, truth, told>>

CrashToCome == [dataref |-> Crash, value |-> TRUE] \in decoded

\* The coordinator takes a snapshot, and the crash with it.
Snapshot ==
    /\ phase = "flying"
    /\ position' = [position EXCEPT !.crashed = FALSE]
    /\ told' = CrashToCome
    /\ UNCHANGED <<vars, truth, decoded>>

\* The aircraft crashes, or is put back; an engine starts or stops.
Change ==
    /\ up
    /\ \E d \in Datarefs : truth' = IF d \in truth THEN truth \ {d} ELSE truth \cup {d}
    /\ UNCHANGED <<vars, decoded, position, told>>

ReaderNext ==
    \/ Next /\ UNCHANGED reading
    \/ \E packet \in SUBSET subscribed : Hear(packet)
    \/ \E update \in decoded : PassOn(update)
    \/ Snapshot
    \/ Change

ReaderSpec == ReaderInit /\ [][ReaderNext]_readerVars

\* As in XPlaneSubscription; the coordinator takes what is passed on; and X-Plane
\* sends what is subscribed each second, so that a dataref gets through in the end.
ReaderFairness ==
    /\ WF_readerVars(Connection /\ UNCHANGED reading)
    /\ WF_readerVars(Handle /\ UNCHANGED reading)
    /\ WF_readerVars(phase = "flying" /\ ~Heard /\ Resubscribe /\ UNCHANGED reading)
    /\ WF_readerVars(\E update \in decoded : PassOn(update))
    /\ \A d \in Datarefs : SF_readerVars(d \in subscribed /\ Hear({d}))

FairReader == ReaderSpec /\ ReaderFairness

-----------------------------------------------------------------------------
\* Every variable holds what its declaration says.
ReaderTypeOK ==
    /\ truth \subseteq Datarefs
    /\ decoded \subseteq Updates
    /\ position \in Position
    /\ told \in BOOLEAN

\* A crash X-Plane told of is part of the next snapshot, although the player
\* has put the aircraft back by then and X-Plane has said so, or it is still on
\* its way and part of the one after (dataref.go:116-121, coordinator.go:97).
CrashIsKept == told => position.crashed \/ CrashToCome

\* The engines that run are those X-Plane last said burn fuel, however often it
\* says so and whichever packets are lost (telemetry.go:64-74).
EnginesAreCounted == position.running = Cardinality(position.burning)
-----------------------------------------------------------------------------
\* An engine that starts is known of in the end. Not if X-Plane was started in
\* the middle of a subscribe (rref.go:33): it is heard, and so nobody asks for
\* what is missing (coordinator.go:71).
EnginesAreHeard ==
    \A e \in Engines :
        <>[](phase = "flying" /\ up /\ e \in truth) => <>(e \in position.burning)
=============================================================================
