------------------------------ MODULE Autodetect ------------------------------
(***************************************************************************)
(* Which simulator it is: internal/sim/autodetect.go, between the flights  *)
(* of a session, which open a connection, read it and ask it again, and    *)
(* whoever pauses the simulator.                                           *)
(*                                                                         *)
(* The first simulator that is heard, or that confirms a pause, is the one *)
(* from then on. Until then a flight may be with one that only opened, and *)
(* Resubscribe looks whether one that is preferred to it has appeared. A   *)
(* mutex guards the choice, not the steps from looking at it to acting.    *)
(***************************************************************************)
EXTENDS Naturals, FiniteSets

CONSTANTS
    MaxSim,     \* simulators, by preference
    Blind       \* those whose connection opens whether or not they run

ASSUME AutodetectAssumption ==
    /\ MaxSim \in Nat \ {0}
    /\ Blind \subseteq 1..MaxSim

Sims == 1..MaxSim
None == 0

VARIABLES
    runs,       \* the simulators that run
    current,    \* Autodetect.current
    open,       \* connections that are open: the flight's, and a probe's
    conn,       \* the simulator of the flight's connection, or None
    candidate,  \* it is one that may yet be given up
    closed,     \* the flight's connection is closed, the flight is ending
    inner,      \* an update waits to be forwarded
    flight,     \* fly: "none", "opening" or "flying"
    trying,     \* the simulator Open is at
    ask,        \* Resubscribe: "idle", "look", "probe", "close", "again"
    probing,    \* the simulator it is at
    pause,      \* Pause: "idle", "one" or "any"
    pausing,    \* the simulator it is at
    answered    \* history: simulators that were heard, or confirmed a pause

place == <<flight, trying>>
link == <<conn, candidate, closed, inner>>
fly == <<link, place>>
coordinator == <<ask, probing>>
pauser == <<pause, pausing>>
vars == <<runs, current, open, fly, coordinator, pauser, answered>>

Opens(s) == s \in runs \/ s \in Blind

-----------------------------------------------------------------------------
Init ==
    /\ runs \in SUBSET Sims
    /\ current = None /\ open = {} /\ answered = {}
    /\ conn = None /\ candidate = FALSE /\ closed = FALSE /\ inner = FALSE
    /\ flight = "none" /\ trying = None
    /\ ask = "idle" /\ probing = None
    /\ pause = "idle" /\ pausing = None

\* A simulator is started or quit.
ChangeSim(s) ==
    /\ runs' = (runs \ {s}) \cup ({s} \ runs)
    /\ UNCHANGED <<current, open, fly, coordinator, pauser, answered>>

-----------------------------------------------------------------------------
\* Open. With a current simulator there is no other to try.
Open ==
    /\ flight = "none" /\ flight' = "opening"
    /\ candidate' = (current = None)
    /\ trying' = IF current = None THEN 1 ELSE current
    /\ UNCHANGED <<current, open, conn, closed, inner, answered>>

Opened ==
    /\ Opens(trying)
    /\ flight = "opening" /\ flight' = "flying"
    /\ conn' = trying /\ closed' = FALSE /\ inner' = FALSE
    /\ open' = open \cup {<<"flight", trying>>}
    /\ UNCHANGED <<candidate, trying, answered>>

OpenSucceeds == Opened /\ UNCHANGED current

OpenFails ==
    /\ flight = "opening"
    /\ trying \notin Blind
    /\ IF candidate /\ trying < MaxSim
          THEN trying' = trying + 1 /\ UNCHANGED flight
          ELSE flight' = "none" /\ UNCHANGED trying
    /\ UNCHANGED <<current, open, link, answered>>

\* The simulator sends; its reader passes the update to the pump.
Hear ==
    /\ flight = "flying" /\ ~closed
    /\ conn \in runs
    /\ ~inner /\ inner' = TRUE
    /\ answered' = answered \cup {conn}
    /\ UNCHANGED <<current, open, conn, candidate, closed, place>>

\* The pump, when the flight is ending too. Without it nothing is selected.
Forward ==
    /\ flight = "flying"
    /\ inner /\ inner' = FALSE
    /\ current' = IF candidate THEN conn ELSE current
    /\ UNCHANGED <<open, conn, candidate, closed, place, answered>>

\* The flight is over, or its simulator quits.
EndFlight ==
    /\ flight = "flying"
    /\ ~closed /\ closed' = TRUE
    /\ open' = open \ {<<"flight", conn>>}
    /\ UNCHANGED <<current, conn, candidate, inner, place, answered>>

\* fly waits for the coordinator and the pump.
FlightReturns ==
    /\ flight = "flying" /\ flight' = "none"
    /\ closed /\ ask = "idle"
    /\ conn' = None /\ inner' = FALSE
    /\ UNCHANGED <<current, open, candidate, closed, trying, answered>>

Flying ==
    /\ \/ Open \/ OpenSucceeds \/ OpenFails
       \/ Hear \/ Forward
       \/ EndFlight \/ FlightReturns
    /\ UNCHANGED <<runs, coordinator, pauser>>

-----------------------------------------------------------------------------
\* Resubscribe, when nothing was heard for a while. The coordinator may still
\* choose the silence tick when its flight is ending (coordinator.go:57-79).
Ask ==
    /\ flight = "flying"
    /\ ask = "idle" /\ ask' = "look"
    /\ UNCHANGED <<open, fly, probing>>

Look ==
    /\ ask = "look"
    /\ ask' = IF candidate /\ current = None /\ conn > 1 THEN "probe" ELSE "again"
    /\ probing' = 1
    /\ UNCHANGED <<open, fly>>

ProbeOpens ==
    /\ ask = "probe" /\ ask' = "close"
    /\ Opens(probing)
    /\ open' = open \cup {<<"probe", probing>>}
    /\ UNCHANGED <<fly, probing>>

ProbeFails ==
    /\ ask = "probe"
    /\ ~Opens(probing)
    /\ ask' = IF probing + 1 < conn THEN "probe" ELSE "again"
    /\ probing' = probing + 1
    /\ UNCHANGED <<open, fly>>

MadeWay(gone) ==
    /\ ask = "close" /\ ask' = "idle"
    /\ open' = open \ gone
    /\ closed' = (closed \/ <<"flight", conn>> \in gone)
    /\ UNCHANGED <<conn, candidate, inner, place, probing>>

\* Mutants of MakeWay: the probe is kept; the flight goes on with the silent
\* simulator.
MakeWayKeeps == MadeWay({<<"flight", conn>>})
MakeWayStays == MadeWay({<<"probe", probing>>})

\* The probe is closed, and the flight's connection, which ends the flight.
MakeWay == MadeWay({<<"probe", probing>>, <<"flight", conn>>})

Again ==
    /\ ask = "again" /\ ask' = "idle"
    /\ UNCHANGED <<open, fly, probing>>

-----------------------------------------------------------------------------
\* Pause, for the website or the timer.
PauseBegins ==
    /\ pause = "idle"
    /\ pause' = IF current = None THEN "any" ELSE "one"
    /\ pausing' = IF current = None THEN 1 ELSE current
    /\ UNCHANGED <<current, answered>>

PauseWorks ==
    /\ pause # "idle" /\ pause' = "idle"
    /\ pausing \in runs
    /\ current' = IF pause = "any" THEN pausing ELSE current
    /\ answered' = answered \cup {pausing}
    /\ UNCHANGED pausing

PauseFails ==
    /\ pause # "idle"
    /\ IF pause = "any" /\ pausing < MaxSim
          THEN pausing' = pausing + 1 /\ UNCHANGED pause
          ELSE pause' = "idle" /\ UNCHANGED pausing
    /\ UNCHANGED <<current, answered>>

Asking == Look \/ ProbeOpens \/ ProbeFails \/ MakeWay \/ Again

Resubscribing == (Ask \/ Asking) /\ UNCHANGED <<runs, current, pauser, answered>>

Pausing ==
    /\ PauseBegins \/ PauseWorks \/ PauseFails
    /\ UNCHANGED <<runs, open, fly, coordinator>>

Next ==
    \/ \E s \in Sims : ChangeSim(s)
    \/ Flying
    \/ Resubscribing
    \/ Pausing

Spec == Init /\ [][Next]_vars

\* A session with a flight to fly goes on opening and reading its simulator,
\* and the coordinator asks again after each silence; it does not choose the tick
\* of a flight that is ending for ever. A simulator that is tried again and again
\* while it runs opens in the end. Nothing makes a flight end, a simulator send,
\* or anyone pause it.
Fairness ==
    /\ WF_vars(Flying /\ Open)
    /\ WF_vars(Flying /\ (OpenSucceeds \/ OpenFails))
    /\ \A s \in Sims : SF_vars(Flying /\ OpenSucceeds /\ trying = s)
    /\ WF_vars(Flying /\ Forward)
    /\ SF_vars(Flying /\ FlightReturns)
    /\ WF_vars(Resubscribing /\ Ask /\ ~closed /\ ~inner)
    /\ WF_vars(Resubscribing /\ Asking)

FairSpec == Spec /\ Fairness

-----------------------------------------------------------------------------
\* Every variable holds what its declaration says.
TypeOK ==
    /\ runs \subseteq Sims
    /\ current \in Sims \cup {None}
    /\ open \subseteq {"flight", "probe"} \X Sims
    /\ conn \in Sims \cup {None}
    /\ candidate \in BOOLEAN
    /\ closed \in BOOLEAN
    /\ inner \in BOOLEAN
    /\ flight \in {"none", "opening", "flying"}
    /\ trying \in Sims \cup {None}
    /\ ask \in {"idle", "look", "probe", "close", "again"}
    /\ probing \in 0..MaxSim
    /\ pause \in {"idle", "one", "any"}
    /\ pausing \in Sims \cup {None}
    /\ answered \subseteq Sims

\* "an open sim that has not sent anything is not the sim yet"
\* (autodetect_test.go:122), "a pause that answers is as good as data" (165).
CurrentAnswered == current # None => current \in answered

\* "the probe is not kept" (autodetect_test.go:186), nor is the connection of a
\* flight that ended: MSFS serves few, X-Plane sends to each.
NoneIsKept ==
    open = (IF flight = "flying" /\ ~closed THEN {<<"flight", conn>>} ELSE {})
              \cup (IF ask = "close" THEN {<<"probe", probing>>} ELSE {})

\* "nothing was heard from the second sim, so the first gets its turn"
\* (autodetect_test.go:127): a preferred simulator that runs is the flight's
\* in the end, or some simulator has become the current one.
PreferredGetsItsTurn ==
    <>[](1 \in runs) => <>(current # None \/ (flight = "flying" /\ conn = 1))
-----------------------------------------------------------------------------
\* "%s is the sim from now on" (autodetect.go:76). It is not, when a Pause that
\* began before goes on to another one, or the pump of a flight does.
FromNowOn == [][current # None => current' = current]_vars

\* "nothing was heard from the second sim, so the first gets its turn"
\* (autodetect_test.go:127): it gets its turn also if the second is heard, or
\* is paused, while Resubscribe probes the first.
OnlyUnheardMakesWay == [][ask = "close" /\ ask' = "idle" => current = None]_vars
=============================================================================
