--------------------------------- MODULE Msfs ---------------------------------
(***************************************************************************)
(* Microsoft Flight Simulator: internal/msfs/msfs.go, at one end of the    *)
(* pipe to SimConnect, with the simulator at the other.                    *)
(*                                                                         *)
(* Open asks whether a flight runs and subscribes; the reader then knows   *)
(* of flight and pause only what the messages, in the order of the pipe,   *)
(* told it. Pause has a connection of its own.                             *)
(*                                                                         *)
(* The simulator is external. It serves requests one after the other; a    *)
(* subscription to "Sim" or "Pause_EX1" is answered with the state at that *)
(* time, and then with every change.                                       *)
(***************************************************************************)
EXTENDS Naturals, Sequences, SequencesExt

CONSTANT MaxMessages    \* bound: messages on their way to the tracker

ASSUME MsfsAssumption == MaxMessages \in Nat

VARIABLES
    sim,        \* the simulator: [up, flying, paused]
    requests,   \* requests on their way to it
    served,     \* subscriptions it serves
    messages,   \* messages on their way to the tracker
    pc,         \* the connection: "none", "opening", "asking", "running"
    inFlight,   \* the reader: a flight is running
    simPaused,  \* the reader: it is paused
    position,   \* what came of the updates passed on: [paused, crashed]
    fresh,      \* history: a data block was passed on since Open, or since
                \* the reader last heard of a flight
    crashed,    \* history: a crash after all of Open's subscriptions
    told,       \* history: the reader was told whether a flight runs
    junk,       \* history: a data block of the main menu was passed on: "no",
                \* "early", before the reader was told, or "late"
    pause,      \* Pause: "none", "opening", "waiting", "ok", "failed"
    heard,      \* the events on their way to it
    wasPaused   \* history: the simulator was paused while Pause waited

pipe == <<requests, served, messages>>
mode == <<inFlight, simPaused>>
reader == <<mode, position, fresh, told, junk>>
pauser == <<pause, heard, wasPaused>>
vars == <<sim, pipe, pc, reader, crashed, pauser>>

\* What Open subscribes to, in this order.
Subscriptions == <<"data", "sim", "pause", "crash">>

Init ==
    /\ sim = [up |-> FALSE, flying |-> FALSE, paused |-> FALSE]
    /\ requests = <<>> /\ served = {} /\ messages = <<>>
    /\ pc = "none"
    /\ inFlight = FALSE /\ simPaused = FALSE
    /\ position = [paused |-> FALSE, crashed |-> FALSE]
    /\ fresh = FALSE /\ crashed = FALSE /\ told = FALSE /\ junk = "no"
    /\ pause = "none" /\ heard = <<>> /\ wasPaused = FALSE

-----------------------------------------------------------------------------
(***************************************************************************)
(* The simulator                                                           *)
(***************************************************************************)
Message(kind, value) == [kind |-> kind, value |-> value]

Room == Len(messages) < MaxMessages /\ Len(heard) < MaxMessages

\* What the connections hear of a change.
Told(kind, value) ==
    /\ sim.up /\ Room
    /\ messages' = IF kind \in served THEN Append(messages, Message(kind, value)) ELSE messages
    /\ heard' = IF kind = "pause" /\ pause = "waiting" THEN Append(heard, value) ELSE heard
    /\ UNCHANGED <<requests, served, pc, reader, pause>>

StartSim ==
    /\ ~sim.up
    /\ pc = "none"
    /\ pause \notin {"opening", "waiting"}
    /\ sim' \in [up : {TRUE}, flying : BOOLEAN, paused : BOOLEAN]
    /\ UNCHANGED <<pipe, pc, reader, crashed, pauser>>

\* It is quit, and its pipes close after the last message.
QuitSim ==
    /\ sim.up /\ Room
    /\ sim' = [sim EXCEPT !.up = FALSE]
    /\ messages' = IF pc = "none" THEN messages ELSE Append(messages, Message("quit", TRUE))
    /\ requests' = <<>> /\ served' = {}
    /\ UNCHANGED <<pc, reader, crashed, pauser>>

\* A flight is started, or left for the main menu.
ChangeFlight ==
    /\ sim' = [sim EXCEPT !.flying = ~@]
    /\ Told("sim", sim'.flying)
    /\ UNCHANGED <<crashed, wasPaused>>

ChangePause ==
    /\ sim' = [sim EXCEPT !.paused = ~@]
    /\ Told("pause", sim'.paused)
    /\ wasPaused' = (wasPaused \/ (pause = "waiting" /\ sim'.paused))
    /\ UNCHANGED crashed

Crash ==
    /\ sim.flying
    /\ Told("crash", TRUE)
    /\ crashed' = (crashed \/ (pc = "running" /\ requests = <<>>))
    /\ UNCHANGED <<sim, wasPaused>>

\* Once a second; the value says whether it is of a flight.
SendData ==
    /\ "data" \in served
    /\ Told("data", sim.flying)
    /\ UNCHANGED <<sim, crashed, wasPaused>>

\* A request is served; a subscription to a state is answered with it.
Answer(r) ==
    CASE r = "open" -> <<Message(r, TRUE)>>
      [] r \in {"state", "sim"} -> <<Message(r, sim.flying)>>
      [] r = "pause" -> <<Message(r, sim.paused)>>
      [] OTHER -> <<>>

Serve ==
    /\ sim.up /\ Room
    /\ requests # <<>>
    /\ requests' = Tail(requests)
    /\ served' = served \cup ({Head(requests)} \cap ToSet(Subscriptions))
    /\ messages' = messages \o Answer(Head(requests))
    /\ UNCHANGED <<sim, pc, reader, crashed, pauser>>

-----------------------------------------------------------------------------
(***************************************************************************)
(* Open                                                                    *)
(***************************************************************************)
Dial ==
    /\ pc = "none" /\ pc' = "opening"
    /\ sim.up
    /\ requests' = <<"open">>
    /\ UNCHANGED <<sim, served, messages, reader, crashed, pauser>>

\* The next message is of this kind.
Arrives(place, kind) ==
    /\ pc = place
    /\ messages # <<>>
    /\ Head(messages).kind = kind
    /\ messages' = Tail(messages)

Value == Head(messages).value

\* open takes no other message for the answer.
Opened ==
    /\ Arrives("opening", "open")
    /\ pc' = "asking"
    /\ requests' = <<"state">>
    /\ UNCHANGED <<sim, served, reader, crashed, pauser>>

\* flightRunning says yes: the subscriptions are written, and the reader starts.
FlightRuns ==
    /\ Arrives("asking", "state") /\ Value
    /\ pc' = "running"
    /\ requests' = Subscriptions
    /\ inFlight' = TRUE /\ simPaused' = FALSE
    /\ position' = [paused |-> FALSE, crashed |-> FALSE]
    /\ fresh' = FALSE /\ told' = FALSE /\ junk' = "no" /\ crashed' = FALSE
    /\ UNCHANGED <<sim, served, pauser>>

Hangup ==
    /\ pc' = "none"
    /\ requests' = <<>> /\ served' = {} /\ messages' = <<>>
    /\ UNCHANGED <<sim, reader, crashed, pauser>>

\* "MSFS is in its main menu", no answer within openTimeout, or another one.
OpenFails == pc \in {"opening", "asking"} /\ Hangup

-----------------------------------------------------------------------------
(***************************************************************************)
(* The reader                                                              *)
(***************************************************************************)
\* Mutant of Passes: the main menu counts too.
PassesAlways == TRUE

\* An update of the position is passed on while a flight runs.
Passes == inFlight

Passed(update) == IF Passes THEN update ELSE position

ReadData ==
    /\ Arrives("running", "data")
    /\ position' = Passed([position EXCEPT !.paused = simPaused])
    /\ fresh' = (fresh \/ Passes)
    /\ junk' = IF Value \/ ~Passes \/ junk = "late" THEN junk
               ELSE IF told THEN "late" ELSE "early"
    /\ UNCHANGED <<sim, requests, served, pc, mode, told, crashed, pauser>>

ReadSim ==
    /\ Arrives("running", "sim")
    /\ inFlight' = Value
    /\ fresh' = (fresh /\ inFlight /\ Value)
    /\ told' = TRUE
    /\ UNCHANGED <<sim, requests, served, pc, simPaused, position, junk, crashed,
                   pauser>>

PauseRead(paused) ==
    /\ Arrives("running", "pause")
    /\ simPaused' = paused
    /\ position' = Passed([position EXCEPT !.paused = Value])
    /\ UNCHANGED <<sim, requests, served, pc, inFlight, fresh, told, junk, crashed,
                   pauser>>

\* Mutant of ReadPause: an event in the main menu is skipped.
ReadPauseInFlight == PauseRead(IF inFlight THEN Value ELSE simPaused)

\* It is remembered in the main menu, and not passed on.
ReadPause == PauseRead(Value)

ReadCrash ==
    /\ Arrives("running", "crash")
    /\ position' = Passed([position EXCEPT !.crashed = TRUE])
    /\ UNCHANGED <<sim, requests, served, pc, mode, fresh, told, junk, crashed,
                   pauser>>

\* The simulator quits, or the pipe closes: the flight is stopped.
ReadQuit ==
    /\ pc = "running"
    /\ messages # <<>> /\ Head(messages).kind = "quit"
    /\ Hangup

\* Resubscribe, after a silence.
Resubscribe ==
    /\ pc = "running" /\ sim.up
    /\ requests = <<>> /\ requests' = <<"data">>
    /\ UNCHANGED <<sim, served, messages, pc, reader, crashed, pauser>>

\* fly closes the connection at the end of the flight.
Close == pc = "running" /\ Hangup

-----------------------------------------------------------------------------
(***************************************************************************)
(* Pause                                                                   *)
(***************************************************************************)
PauseBegins ==
    /\ sim.up
    /\ pause = "none" /\ pause' = "opening"
    /\ UNCHANGED <<heard, wasPaused>>

\* Its subscription is served, and then PAUSE_ON, some time later or never.
PauseSubscribed ==
    /\ sim.up
    /\ pause = "opening" /\ pause' = "waiting"
    /\ heard' = <<sim.paused>>
    /\ wasPaused' = sim.paused

\* Any event of the pause that says it is on.
Confirms(value) == value

PauseHears ==
    /\ pause = "waiting"
    /\ heard # <<>>
    /\ pause' = IF Confirms(Head(heard)) THEN "ok" ELSE "waiting"
    /\ heard' = IF Confirms(Head(heard)) THEN <<>> ELSE Tail(heard)
    /\ UNCHANGED wasPaused

\* "MSFS did not confirm the pause", after pauseSettle; or there is none.
PauseFails ==
    /\ pause \in {"opening", "waiting"} /\ pause' = "failed"
    /\ heard' = <<>>
    /\ UNCHANGED wasPaused

PauseOver ==
    /\ pause \in {"ok", "failed"} /\ pause' = "none"
    /\ wasPaused' = FALSE
    /\ UNCHANGED heard

Simulator ==
    \/ StartSim
    \/ QuitSim
    \/ ChangeFlight
    \/ ChangePause
    \/ Crash
    \/ SendData
    \/ Serve

Opening == Dial \/ Opened \/ FlightRuns \/ OpenFails

Reader == ReadData \/ ReadSim \/ ReadPause \/ ReadCrash \/ ReadQuit

Pausing ==
    /\ PauseBegins \/ PauseSubscribed \/ PauseHears \/ PauseFails \/ PauseOver
    /\ UNCHANGED <<sim, pipe, pc, reader, crashed>>

Next == Simulator \/ Opening \/ Reader \/ Resubscribe \/ Close \/ Pausing

Spec == Init /\ [][Next]_vars

-----------------------------------------------------------------------------
Kinds == {"open", "state", "quit"} \cup {"data", "sim", "pause", "crash"}

\* Every variable holds what its declaration says.
TypeOK ==
    /\ sim \in [up : BOOLEAN, flying : BOOLEAN, paused : BOOLEAN]
    /\ ToSet(requests) \subseteq Kinds
    /\ served \subseteq {"data", "sim", "pause", "crash"}
    /\ \A k \in DOMAIN messages : messages[k] \in [kind : Kinds, value : BOOLEAN]
    /\ Len(messages) <= MaxMessages
    /\ pc \in {"none", "opening", "asking", "running"}
    /\ served # {} => pc = "running"
    /\ position \in [paused : BOOLEAN, crashed : BOOLEAN]
    /\ junk \in {"no", "early", "late"}
    /\ pause \in {"none", "opening", "waiting", "ok", "failed"}
    /\ ToSet(heard) \subseteq BOOLEAN
    /\ {inFlight, simPaused, fresh, told, crashed, wasPaused} \subseteq BOOLEAN

\* Everything the simulator was asked for and has said has been handled.
CaughtUp == pc = "running" /\ sim.up /\ requests = <<>> /\ messages = <<>>

\* The reader knows what the simulator does, and with the first data block of
\* a flight so does the position: "active pause counts as paused", "a data
\* block does not forget the pause" (msfs_test.go:123, 127), nor does a pause
\* that began or ended in the main menu, or a crash the flight is over with,
\* get lost.
KnowsTheSim ==
    CaughtUp =>
        /\ inFlight = sim.flying
        /\ simPaused = sim.paused
        /\ fresh => position.paused = sim.paused
        /\ crashed => position.crashed

\* "the main menu sends junk, it must not count as live" (msfs_test.go:99):
\* not once the subscription to "Sim" has told the reader
\* for the first time.
MenuIsNotLive == junk # "late"

\* Pause succeeds only if the simulator was paused while it waited
\* (msfs.go:113-119).
ConfirmedMeansPaused == pause = "ok" => wasPaused

-----------------------------------------------------------------------------
\* "the main menu sends junk, it must not count as live" (msfs_test.go:99): it
\* does if the flight is left between the answer of flightRunning and the
\* subscription to "Sim", which is requested after the data (msfs.go:54-78).
MenuIsNeverLive == junk = "no"

\* What is passed on first is a data block, which says where the aircraft is. It
\* is not: the answer to the subscription to the pause is an update as well
\* (msfs.go:231-234, 257), and makes a flight live that has no position.
DataComesFirst ==
    [][ pc = "running" /\ inFlight /\ messages # <<>> /\ messages' = Tail(messages)
            /\ Head(messages).kind = "pause" => fresh ]_vars
=============================================================================
