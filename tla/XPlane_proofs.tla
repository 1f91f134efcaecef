---------------------------- MODULE XPlane_proofs ----------------------------
(***************************************************************************)
(* Proofs about XPlaneSubscription and XPlaneReader, for any datarefs and  *)
(* however many packets X-Plane has not handled: a flight that ends while  *)
(* nobody asks again leaves nothing subscribed, no crash is lost, and the  *)
(* engines that run are counted. Then about XPlanePause, SimTimer and      *)
(* TimedPause: a pause pauses, and the timer asks for it in time.          *)
(*                                                                         *)
(* For what is left subscribed the argument looks ahead: X-Plane is going  *)
(* to send a dataref if the last packet about it asks for that, or if      *)
(* there is none and it does already. Close takes the datarefs back one by *)
(* one, and those that it took back are not going to be sent: a packet     *)
(* handled changes nothing of that, and nobody writes another, for Open is *)
(* over, and Resubscribe was and is not begun before the socket is closed. *)
(***************************************************************************)
EXTENDS XPlaneReader, TimedPause, SequenceTheorems, FiniteSetTheorems, TLAPS

\* X-Plane is going to send the dataref when it has handled the packets, if `now`
\* says that it does so far.
WillSend(s, d, now) ==
    \/ \E j \in 1..Len(s) :
          s[j].dataref = d /\ s[j].freq = 1 /\ \A i \in (j + 1)..Len(s) : s[i].dataref # d
    \/ now /\ \A i \in 1..Len(s) : s[i].dataref # d

Shape == inbox \in Seq(Packet) /\ subscribed \subseteq Datarefs /\ crossed \in BOOLEAN

\* Who writes packets, and when.
InPhase ==
    /\ phase \in {"opening", "flying", "closing", "closed"}
    /\ opening # {} => phase = "opening"
    /\ closing # {} => phase = "closing"
    /\ Closing /\ ~crossed => asking = {}

\* An X-Plane that does not run hears nothing, and starts anew.
Deaf == ~up => inbox = <<>> /\ subscribed = {}

TakenBack ==
    phase \in {"closing", "closed"} /\ ~crossed =>
        \A d \in Datarefs \ closing : ~WillSend(inbox, d, d \in subscribed)

\* The inductive invariant.
IInv == Shape /\ InPhase /\ Deaf /\ TakenBack

-----------------------------------------------------------------------------
\* A packet that is written decides about its dataref, and about no other.
LEMMA Written ==
    ASSUME NEW s \in Seq(Packet), NEW m \in Packet, NEW d, NEW now \in BOOLEAN
    PROVE  /\ m.dataref # d => (WillSend(Append(s, m), d, now) <=> WillSend(s, d, now))
           /\ m.dataref = d /\ m.freq = 0 => ~WillSend(Append(s, m), d, now)
  <1> DEFINE t == Append(s, m)
  <1>1. /\ Len(s) \in Nat /\ Len(t) = Len(s) + 1
        /\ \A i \in 1..Len(s) : t[i] = s[i]
        /\ t[Len(s) + 1] = m
    OBVIOUS
  <1> HIDE DEF t
  <1>2. m.dataref # d => (WillSend(t, d, now) <=> WillSend(s, d, now))
    BY <1>1 DEF WillSend
  <1>3. m.dataref = d /\ m.freq = 0 => ~WillSend(t, d, now)
    BY <1>1 DEF WillSend
  <1> QED
    BY <1>2, <1>3 DEF t

\* A packet that is handled leaves what X-Plane is going to do.
LEMMA Handled ==
    ASSUME NEW s \in Seq(Packet), s # <<>>, NEW d, NEW now \in BOOLEAN, NEW then \in BOOLEAN,
           s[1].dataref # d => (then <=> now),
           s[1].dataref = d => (then <=> s[1].freq = 1)
    PROVE  WillSend(Tail(s), d, then) => WillSend(s, d, now)
  <1> DEFINE t == Tail(s)
             n == Len(s)
  <1>1. /\ n \in Nat /\ n > 0 /\ Len(t) = n - 1
        /\ \A i \in 1..(n - 1) : t[i] = s[i + 1]
    OBVIOUS
  <1> HIDE DEF t
  <1> SUFFICES ASSUME WillSend(t, d, then) PROVE WillSend(s, d, now)
    BY DEF t
  <1>2. CASE \E j \in 1..(n - 1) : t[j].dataref = d /\ t[j].freq = 1
                                     /\ \A i \in (j + 1)..(n - 1) : t[i].dataref # d
    <2>1. PICK j \in 1..(n - 1) : t[j].dataref = d /\ t[j].freq = 1
                                     /\ \A i \in (j + 1)..(n - 1) : t[i].dataref # d
      BY <1>2
    <2>2. j + 1 \in 1..n /\ s[j + 1].dataref = d /\ s[j + 1].freq = 1
      BY <2>1, <1>1
    <2>3. ASSUME NEW i \in ((j + 1) + 1)..n PROVE s[i].dataref # d
      <3>1. i - 1 \in (j + 1)..(n - 1) /\ t[i - 1] = s[i]
        BY <1>1
      <3> QED
        BY <3>1, <2>1
    <2>4. \E k \in 1..n : s[k].dataref = d /\ s[k].freq = 1
                            /\ \A i \in (k + 1)..n : s[i].dataref # d
      BY <2>2, <2>3
    <2> QED
      BY <2>4, Zenon DEF WillSend
  <1>3. CASE then /\ \A i \in 1..(n - 1) : t[i].dataref # d
    <2>1. ASSUME NEW i \in 2..n PROVE s[i].dataref # d
      <3>1. i - 1 \in 1..(n - 1) /\ t[i - 1] = s[i]
        BY <1>1
      <3> QED
        BY <3>1, <1>3
    <2>2. CASE s[1].dataref = d
      <3>1. s[1].freq = 1 /\ 1 \in 1..n /\ \A i \in (1 + 1)..n : s[i].dataref # d
        BY <1>1, <1>3, <2>1, <2>2
      <3>2. \E k \in 1..n : s[k].dataref = d /\ s[k].freq = 1
                              /\ \A i \in (k + 1)..n : s[i].dataref # d
        BY <3>1, <2>2
      <3> QED
        BY <3>2, Zenon DEF WillSend
    <2>3. CASE s[1].dataref # d
      <3>1. now /\ \A i \in 1..n : s[i].dataref # d
        BY <1>3, <2>1, <2>3
      <3> QED
        BY <3>1, Zenon DEF WillSend
    <2> QED
      BY <2>2, <2>3
  <1> QED
    BY <1>1, <1>2, <1>3 DEF WillSend

-----------------------------------------------------------------------------
\* Nothing is said of what happens before Close.
LEMMA BeforeClose ==
    ASSUME IInv, Shape', Deaf', phase' \in {"opening", "flying"},
           opening' # {} => phase' = "opening", closing' = closing,
           phase \in {"opening", "flying"}
    PROVE  IInv'
  BY DEF IInv, InPhase, Closing, TakenBack

\* A write keeps what the channel is, and nobody hears it without an X-Plane.
LEMMA Writes ==
    ASSUME IInv, NEW d \in Datarefs, NEW freq \in {0, 1}, Write(freq, d), UNCHANGED crossed
    PROVE  Shape' /\ Deaf'
  <1> DEFINE m == [freq |-> freq, dataref |-> d]
  <1>1. /\ inbox' = IF up THEN Append(inbox, m) ELSE inbox
        /\ UNCHANGED <<up, subscribed, crossed>>
    BY DEF Write
  <1>2. m \in Packet /\ inbox \in Seq(Packet)
    BY DEF Packet, IInv, Shape
  <1> HIDE DEF m
  <1>3. inbox' \in Seq(Packet)
    BY <1>1, <1>2
  <1>4. Deaf'
    BY <1>1 DEF IInv, Deaf
  <1> QED
    BY <1>1, <1>3, <1>4 DEF IInv, Shape

\* Close takes a dataref back: its last packet says so.
LEMMA Closes ==
    ASSUME IInv, NEW d \in Datarefs, CloseWrites(d)
    PROVE  IInv'
  <1> DEFINE m == [freq |-> 0, dataref |-> d]
  <1>1. /\ Write(0, d) /\ closing' = closing \ {d} /\ phase = "closing"
        /\ inbox' = IF up THEN Append(inbox, m) ELSE inbox
        /\ UNCHANGED <<opening, asking, phase, crossed, up, subscribed>>
    BY DEF CloseWrites, LeftToClose, Write, IInv, InPhase, Closing
  <1>2. m \in Packet /\ m.dataref = d /\ m.freq = 0 /\ inbox \in Seq(Packet)
    BY DEF Packet, IInv, Shape
  <1> HIDE DEF m
  <1>3. TakenBack'
    <2> SUFFICES ASSUME ~crossed, NEW e \in Datarefs, e \notin closing \ {d}
                 PROVE  ~WillSend(inbox', e, e \in subscribed)
      BY <1>1 DEF TakenBack
    <2>1. e # d => ~WillSend(inbox, e, e \in subscribed)
      BY <1>1 DEF IInv, TakenBack
    <2>2. CASE up
      <3> DEFINE now == e \in subscribed
      <3>1. now \in BOOLEAN /\ inbox' = Append(inbox, m)
        BY <2>2, <1>1
      <3> HIDE DEF now
      <3>2. /\ d # e => (WillSend(Append(inbox, m), e, now) <=> WillSend(inbox, e, now))
            /\ d = e => ~WillSend(Append(inbox, m), e, now)
        BY <1>2, <3>1, Written
      <3>3. ~WillSend(Append(inbox, m), e, now)
        BY <2>1, <3>2, Zenon DEF now
      <3> QED
        BY <3>1, <3>3, Zenon DEF now
    <2>3. CASE ~up
      <3>1. inbox' = <<>> /\ subscribed = {}
        BY <2>3, <1>1 DEF IInv, Deaf
      <3> QED
        BY <3>1 DEF WillSend
    <2> QED
      BY <2>2, <2>3
  <1>4. InPhase'
    BY <1>1 DEF IInv, InPhase, Closing
  <1> QED
    BY <1>1, <1>3, <1>4, Writes DEF IInv

\* X-Plane does what it was going to do.
LEMMA Handles ==
    ASSUME IInv, Handle
    PROVE  IInv'
  <1>1. /\ inbox # <<>> /\ inbox \in Seq(Packet) /\ inbox' = Tail(inbox)
        /\ subscribed' = IF Head(inbox).freq = 0
                            THEN subscribed \ {Head(inbox).dataref}
                            ELSE subscribed \cup {Head(inbox).dataref}
        /\ UNCHANGED <<up, opening, asking, closing, phase, crossed>>
    BY DEF Handle, conn, IInv, Shape
  <1>2. Head(inbox) = inbox[1] /\ inbox[1] \in Packet
    BY <1>1
  <1>3. inbox[1].freq \in {0, 1} /\ inbox[1].dataref \in Datarefs
    BY <1>2 DEF Packet
  <1>4. Shape' /\ Deaf'
    BY <1>1, <1>2, <1>3 DEF IInv, Shape, Deaf
  <1>5. TakenBack'
    <2> SUFFICES ASSUME phase \in {"closing", "closed"}, ~crossed, NEW d \in Datarefs \ closing
                 PROVE  ~WillSend(inbox', d, d \in subscribed')
      BY <1>1 DEF TakenBack
    <2>1. ~WillSend(inbox, d, d \in subscribed)
      BY DEF IInv, TakenBack
    <2>2. /\ inbox[1].dataref # d => (d \in subscribed' <=> d \in subscribed)
          /\ inbox[1].dataref = d => (d \in subscribed' <=> inbox[1].freq = 1)
      BY <1>1, <1>2, <1>3
    <2> DEFINE now == d \in subscribed
               then == d \in subscribed'
    <2>3. now \in BOOLEAN /\ then \in BOOLEAN
      OBVIOUS
    <2>4. /\ inbox[1].dataref # d => (then <=> now)
          /\ inbox[1].dataref = d => (then <=> inbox[1].freq = 1)
      BY <2>2, Zenon
    <2> HIDE DEF now, then
    <2>5. WillSend(Tail(inbox), d, then) => WillSend(inbox, d, now)
      BY <1>1, <2>3, <2>4, Handled
    <2> QED
      BY <1>1, <2>1, <2>5, Zenon DEF now, then
  <1>6. InPhase'
    BY <1>1 DEF IInv, InPhase, Closing
  <1> QED
    BY <1>4, <1>5, <1>6 DEF IInv

\* Nothing is written yet.
LEMMA Starts == Init => IInv
  <1> SUFFICES ASSUME Init PROVE IInv
    OBVIOUS
  <1>1. Shape
    BY EmptySeq DEF Init, Shape
  <1>2. InPhase /\ Deaf /\ TakenBack
    BY DEF Init, InPhase, Closing, Deaf, TakenBack
  <1> QED
    BY <1>1, <1>2 DEF IInv

\* Every step keeps the invariant.
LEMMA Keeps == IInv /\ [Next]_vars => IInv'
  <1> SUFFICES ASSUME IInv, [Next]_vars PROVE IInv'
    OBVIOUS
  <1>1. ASSUME NEW d \in Datarefs, OpenWrites(d) PROVE IInv'
    <2>1. /\ Write(1, d) /\ phase = "opening" /\ phase' \in {"opening", "flying"}
          /\ opening' # {} => phase' = "opening"
          /\ UNCHANGED <<closing, crossed>>
      BY <1>1 DEF OpenWrites, IInv, InPhase, Closing
    <2> QED
      BY <2>1, Writes, BeforeClose
  <1>2. ASSUME NEW d \in Datarefs, AskWrites(d) PROVE IInv'
    <2>1. asking # {} /\ UNCHANGED <<opening, closing, phase, crossed>>
      BY <1>2 DEF AskWrites
    <2>2. Shape' /\ Deaf'
      <3>1. CASE Write(AskFreq, d)
        BY <3>1, <2>1, Writes DEF AskFreq
      <3>2. CASE UNCHANGED sim
        BY <3>2, <2>1 DEF sim, IInv, Shape, Deaf
      <3> QED
        BY <1>2, <3>1, <3>2 DEF AskWrites
    <2>3. InPhase' /\ ~(Closing /\ ~crossed)
      BY <1>2, <2>1 DEF AskWrites, IInv, InPhase, Closing
    <2>4. CASE phase = "closed"
      <3>1. UNCHANGED sim
        BY <1>2, <2>4 DEF AskWrites
      <3> QED
        BY <2>1, <2>2, <2>3, <3>1 DEF sim, IInv, TakenBack
    <2>5. CASE phase # "closed"
      BY <2>1, <2>2, <2>3, <2>5 DEF IInv, TakenBack, Closing
    <2> QED
      BY <2>4, <2>5
  <1>3. ASSUME NEW d \in Datarefs, CloseWrites(d) PROVE IInv'
    BY <1>3, Closes
  <1>4. CASE CloseSocket
    BY <1>4 DEF CloseSocket, Closing, sim, IInv, Shape, Deaf, InPhase, TakenBack
  <1>5. CASE Resubscribe
    <2>1. /\ phase # "opening" /\ crossed' = (crossed \/ Closing)
          /\ UNCHANGED <<up, inbox, subscribed, opening, closing, phase>>
      BY <1>5 DEF Resubscribe, sim
    <2>2. Shape' /\ Deaf' /\ InPhase'
      BY <2>1 DEF IInv, Shape, Deaf, InPhase, Closing
    <2>3. TakenBack'
      BY <2>1 DEF IInv, Shape, TakenBack, Closing
    <2> QED
      BY <2>2, <2>3 DEF IInv
  <1>6. CASE Close
    BY <1>6 DEF Close, Closing, sim, IInv, Shape, Deaf, InPhase, TakenBack
  <1>7. CASE Handle
    BY <1>7, Handles
  <1>8. CASE StartSim
    BY <1>8 DEF StartSim, conn, IInv, Shape, Deaf, InPhase, Closing, TakenBack
  <1>9. CASE QuitSim
    <2>1. /\ inbox' = <<>> /\ subscribed' = {}
          /\ UNCHANGED <<opening, asking, closing, phase, crossed>>
      BY <1>9 DEF QuitSim, conn
    <2>2. TakenBack'
      BY <2>1 DEF TakenBack, WillSend
    <2> QED
      BY <2>1, <2>2 DEF IInv, Shape, Deaf, InPhase, Closing
  <1>10. CASE UNCHANGED vars
    BY <1>10 DEF vars, sim, conn, IInv, Shape, Deaf, InPhase, Closing, TakenBack
  <1> QED
    BY <1>1, <1>2, <1>3, <1>4, <1>5, <1>6, <1>7, <1>8, <1>9, <1>10 DEF Next, Connection

\* A flight that ends, and while it closes the connection nobody is asking again
\* or begins to, leaves nothing subscribed, however often X-Plane was quit or a
\* silence made the tracker ask before (sim.go:42-61, rref.go:33-46).
THEOREM NothingIsLeft == Spec => []LeavesNothing
  <1>1. IInv => LeavesNothing
    BY DEF IInv, Shape, InPhase, TakenBack, WillSend, LeavesNothing, Over
  <1> QED
    BY <1>1, Starts, Keeps, PTL DEF Spec

-----------------------------------------------------------------------------
\* The reader is over the connection, and lets it be.
LEMMA ReaderSubscribes == ReaderSpec => Spec
  <1>1. ReaderInit => Init
    BY DEF ReaderInit
  <1>2. [ReaderNext]_readerVars => [Next]_vars
    BY DEF ReaderNext, Hear, PassOn, Snapshot, Change, readerVars
  <1> QED
    BY <1>1, <1>2, PTL DEF ReaderSpec, Spec

\* What the reader passes on, and what the position holds of it.
Held ==
    /\ decoded \subseteq Updates
    /\ position \in [crashed : BOOLEAN, burning : SUBSET Engines, running : Nat]

ReaderInv == Held /\ CrashIsKept /\ EnginesAreCounted

\* An assignment keeps the count of the engines, and what it leaves it leaves.
LEMMA Assigned ==
    ASSUME NEW p \in [crashed : BOOLEAN, burning : SUBSET Engines, running : Nat],
           NEW d \in Datarefs, NEW value \in BOOLEAN,
           p.running = Cardinality(p.burning)
    PROVE  LET q == Assign(p, d, value)
           IN  /\ q \in [crashed : BOOLEAN, burning : SUBSET Engines, running : Nat]
               /\ q.running = Cardinality(q.burning)
               /\ p.crashed \/ (d = Crash /\ value) => q.crashed
  <1>1. CASE d = Crash
    <2> DEFINE c == Crashed(p, value)
    <2>1. c \in BOOLEAN /\ (p.crashed \/ value => c)
      BY DEF Crashed
    <2> HIDE DEF c
    <2>2. Assign(p, d, value) = [p EXCEPT !.crashed = c]
      BY <1>1 DEF Assign, c
    <2> QED
      BY <2>1, <2>2
  <1>2. CASE d # Crash
    <2> DEFINE b == IF value THEN p.burning \cup {d} ELSE p.burning \ {d}
    <2>1. b \in SUBSET Engines
      BY <1>2 DEF Engines
    <2>2. IsFiniteSet(Engines)
      BY XPlaneSubscriptionAssumption, FS_Difference DEF Engines
    <2>3. Cardinality(b) \in Nat
      BY <2>1, <2>2, FS_Subset, FS_CardinalityType
    <2> HIDE DEF b
    <2>4. Assign(p, d, value) = [p EXCEPT !.burning = b, !.running = Cardinality(b)]
      BY <1>2 DEF Assign, Running, b
    <2> QED
      BY <1>2, <2>1, <2>3, <2>4
  <1> QED
    BY <1>1, <1>2

\* Nothing is read yet.
LEMMA ReaderStarts == ReaderInit => ReaderInv
  BY FS_EmptySet DEF ReaderInit, ReaderInv, Held, CrashIsKept, EnginesAreCounted

\* An update that is passed on is part of the position.
LEMMA PassingOn ==
    ASSUME ReaderInv, NEW update \in decoded, PassOn(update)
    PROVE  ReaderInv'
  <1> DEFINE crash == [dataref |-> Crash, value |-> TRUE]
             q == Assign(position, update.dataref, update.value)
  <1>1. update.dataref \in Datarefs /\ update.value \in BOOLEAN
        /\ update = [dataref |-> update.dataref, value |-> update.value]
    BY DEF ReaderInv, Held, Updates
  <1>2. decoded' = decoded \ {update} /\ position' = q /\ told' = told
    BY DEF PassOn
  <1>3. /\ q \in [crashed : BOOLEAN, burning : SUBSET Engines, running : Nat]
        /\ q.running = Cardinality(q.burning)
        /\ position.crashed \/ (update.dataref = Crash /\ update.value) => q.crashed
    BY <1>1, Assigned DEF ReaderInv, Held, EnginesAreCounted
  <1> HIDE DEF q
  <1>4. Held' /\ EnginesAreCounted'
    BY <1>2, <1>3 DEF ReaderInv, Held, EnginesAreCounted
  <1>5. crash \in decoded => crash \in decoded' \/ (update.dataref = Crash /\ update.value)
    BY <1>2
  <1>6. CrashIsKept'
    BY <1>2, <1>3, <1>5, Zenon DEF ReaderInv, CrashIsKept, CrashToCome
  <1> QED
    BY <1>4, <1>6 DEF ReaderInv

\* Every step of the reader, and of the connection below it.
LEMMA ReaderKeeps == IInv /\ ReaderInv /\ [ReaderNext]_readerVars => ReaderInv'
  <1> SUFFICES ASSUME IInv, ReaderInv, [ReaderNext]_readerVars PROVE ReaderInv'
    OBVIOUS
  <1>1. CASE UNCHANGED reading
    BY <1>1 DEF reading, ReaderInv, Held, CrashIsKept, CrashToCome, EnginesAreCounted
  <1>2. ASSUME NEW packet \in SUBSET subscribed, Hear(packet) PROVE ReaderInv'
    <2> DEFINE heard(d) == [dataref |-> d, value |-> d \in truth]
    <2>1. /\ decoded = {} /\ decoded' = {heard(d) : d \in packet}
          /\ told' = (told \/ (Crash \in packet /\ Crash \in truth))
          /\ UNCHANGED position
      BY <1>2 DEF Hear
    <2>2. packet \subseteq Datarefs
      BY DEF IInv, Shape
    <2>3. \A d \in Datarefs : heard(d) \in Updates
      BY DEF Updates
    <2>4. decoded' \subseteq Updates
      BY <2>1, <2>2, <2>3, Zenon
    <2>5. Crash \in truth => heard(Crash) = [dataref |-> Crash, value |-> TRUE]
      OBVIOUS
    <2>6. Crash \in packet /\ Crash \in truth => CrashToCome'
      BY <2>1, <2>5, Zenon DEF CrashToCome
    <2>7. told => position.crashed
      BY <2>1 DEF ReaderInv, CrashIsKept, CrashToCome
    <2>8. CrashIsKept'
      BY <2>1, <2>6, <2>7, Zenon DEF CrashIsKept
    <2> QED
      BY <2>1, <2>4, <2>8 DEF ReaderInv, Held, EnginesAreCounted
  <1>3. ASSUME NEW update \in decoded, PassOn(update) PROVE ReaderInv'
    BY <1>3, PassingOn
  <1>4. CASE Snapshot
    BY <1>4 DEF Snapshot, ReaderInv, Held, CrashIsKept, CrashToCome, EnginesAreCounted
  <1>5. CASE Change
    BY <1>5 DEF Change, ReaderInv, Held, CrashIsKept, CrashToCome, EnginesAreCounted
  <1> QED
    BY <1>1, <1>2, <1>3, <1>4, <1>5 DEF ReaderNext, readerVars

\* So it is of every behaviour.
LEMMA ReaderHolds == ReaderSpec => []ReaderInv
  <1>1. ReaderSpec => []IInv
    BY ReaderSubscribes, Starts, Keeps, PTL DEF Spec
  <1> QED
    BY <1>1, ReaderStarts, ReaderKeeps, PTL DEF ReaderSpec

\* A crash the reader heard of is with the position until a snapshot has it, or
\* still on its way there (dataref.go:116-121, coordinator.go:97).
THEOREM NoCrashIsLost == ReaderSpec => []CrashIsKept
  <1>1. ReaderInv => CrashIsKept
    BY DEF ReaderInv
  <1> QED
    BY <1>1, ReaderHolds, PTL

\* The engines the position counts are those that run by what X-Plane said last,
\* whatever it repeats and whichever packets are lost (telemetry.go:64-74).
THEOREM EnginesCounted == ReaderSpec => []EnginesAreCounted
  <1>1. ReaderInv => EnginesAreCounted
    BY DEF ReaderInv
  <1> QED
    BY <1>1, ReaderHolds, PTL

-----------------------------------------------------------------------------
(***************************************************************************)
(* XPlanePause, of one pause at a time and any number of samples. A sample *)
(* that says that X-Plane runs is of the time before it handled pause_on,  *)
(* and there are MaxStale of those at most, or X-Plane does not know it    *)
(* and still runs.                                                         *)
(* So a toggle comes only to an X-Plane that runs and that knows no other  *)
(* way. The argument rests on Zeros > MaxStale (see TogglesNoXPlane12).    *)
(***************************************************************************)
\* A goroutine that is not held up finds fewer stale samples than it waits for. The
\* rest is assumed of the constants of TimedPause, whose pause this is.
Prompt == X!XPlanePauseAssumption /\ MaxStale < Zeros

Commands == {"subscribe", "pause_on", "toggle", "unsubscribe"}

\* The packet that is k-th from the end, if there are as many.
FromEnd(s, k, command) == Len(s) >= k => s[Len(s) - k + 1].command = command

PauseShape ==
    /\ obeys \in BOOLEAN /\ paused \in BOOLEAN
    /\ packets \in Seq(X!Packet)
    /\ watched \subseteq {Goroutine}
    /\ pc \in [{Goroutine} -> {"idle", "subscribing", "waiting", "toggling", "paused",
                            "toggled", "failed"}]
    /\ zeros \in [{Goroutine} -> Int]

SamplesAre == DOMAIN samples = {Goroutine} /\ samples[Goroutine] \in Seq(BOOLEAN)

\* What X-Plane has yet to handle of what the pause sent.
PacketsOf(at, s) ==
    /\ at = "idle" => s = <<>>
    /\ at = "subscribing" => Len(s) <= 1 /\ FromEnd(s, 1, "subscribe")
    /\ at \in {"waiting", "toggling"} =>
          Len(s) <= 2 /\ FromEnd(s, 1, "pause_on") /\ FromEnd(s, 2, "subscribe")
    /\ at = "toggled" =>
          /\ Len(s) <= 4
          /\ FromEnd(s, 1, "unsubscribe") /\ FromEnd(s, 2, "toggle")
          /\ FromEnd(s, 3, "pause_on") /\ FromEnd(s, 4, "subscribe")
    /\ at \in {"paused", "failed"} =>
          /\ Len(s) <= 3
          /\ FromEnd(s, 1, "unsubscribe") /\ FromEnd(s, 2, "pause_on")
          /\ FromEnd(s, 3, "subscribe")

\* When it sends no samples any more.
Unwatched ==
    pc[Goroutine] = "idle" \/ (pc[Goroutine] \in {"paused", "toggled", "failed"} /\ packets = <<>>)
        => watched = {}

\* Whether it is paused.
PausedOf(at, ahead) ==
    /\ at = "waiting" /\ obeys /\ ahead = 0 => paused
    /\ at = "toggling" => ~obeys /\ ~paused
    /\ at = "paused" => paused
    /\ at = "toggled" => ~obeys /\ (paused <=> ahead <= 1)

\* The samples in the socket, with those that were counted.
Allowed(sample, nth) == IF sample THEN paused ELSE IF obeys THEN nth <= MaxStale ELSE ~paused

Sampled(s, counted) == \A i \in 1..Len(s) : Allowed(s[i], i + counted)

Told ==
    /\ pc[Goroutine] = "idle" => samples[Goroutine] = <<>>
    /\ pc[Goroutine] \in {"idle", "subscribing"} => zeros[Goroutine] = Zeros
    /\ pc[Goroutine] = "subscribing" => Len(samples[Goroutine]) <= MaxStale
    /\ pc[Goroutine] \in {"subscribing", "waiting"} =>
          Sampled(samples[Goroutine], Zeros - zeros[Goroutine])

PauseInv ==
    /\ PauseShape
    /\ unpaused = FALSE
    /\ SamplesAre
    /\ PacketsOf(pc[Goroutine], packets)
    /\ Unwatched
    /\ PausedOf(pc[Goroutine], Len(packets))
    /\ Told


-----------------------------------------------------------------------------
\* Sequences: a packet more, a packet less.
LEMMA EndAppend ==
    ASSUME NEW S, NEW s \in Seq(S), NEW m \in S
    PROVE  /\ Append(s, m) \in Seq(S) /\ Len(Append(s, m)) = Len(s) + 1
           /\ FromEnd(Append(s, m), 1, m.command)
           /\ \A k \in Nat \ {0}, c \in Commands :
                 FromEnd(s, k, c) => FromEnd(Append(s, m), k + 1, c)
  <1> DEFINE t == Append(s, m)
  <1>1. /\ t \in Seq(S) /\ Len(s) \in Nat /\ Len(t) = Len(s) + 1
        /\ \A i \in 1..Len(s) : t[i] = s[i]
        /\ t[Len(s) + 1] = m
    OBVIOUS
  <1> HIDE DEF t
  <1>2. FromEnd(t, 1, m.command)
    BY <1>1 DEF FromEnd
  <1>3. ASSUME NEW k \in Nat \ {0}, NEW c \in Commands, FromEnd(s, k, c)
        PROVE  FromEnd(t, k + 1, c)
    <2> SUFFICES ASSUME Len(t) >= k + 1 PROVE t[Len(t) - (k + 1) + 1].command = c
      BY DEF FromEnd
    <2>1. /\ Len(s) >= k /\ Len(t) - (k + 1) + 1 = Len(s) - k + 1
          /\ Len(s) - k + 1 \in 1..Len(s)
      BY <1>1
    <2>2. t[Len(s) - k + 1] = s[Len(s) - k + 1]
      BY <1>1, <2>1
    <2> QED
      BY <1>3, <2>1, <2>2 DEF FromEnd
  <1> QED
    BY <1>1, <1>2, <1>3 DEF t

\* And a packet less.
LEMMA EndTail ==
    ASSUME NEW S, NEW s \in Seq(S), s # <<>>
    PROVE  /\ Head(s) \in S /\ Tail(s) \in Seq(S) /\ Len(Tail(s)) = Len(s) - 1
           /\ \A k \in Nat \ {0}, c \in Commands : FromEnd(s, k, c) =>
                 FromEnd(Tail(s), k, c) /\ (Len(s) = k => Head(s).command = c)
  <1> DEFINE t == Tail(s)
  <1>1. /\ t \in Seq(S) /\ Len(s) \in Nat /\ Len(s) > 0 /\ Len(t) = Len(s) - 1
        /\ \A i \in 1..(Len(s) - 1) : t[i] = s[i + 1]
        /\ Head(s) = s[1] /\ s[1] \in S
    OBVIOUS
  <1> HIDE DEF t
  <1>2. ASSUME NEW k \in Nat \ {0}, NEW c \in Commands, FromEnd(s, k, c)
        PROVE  FromEnd(t, k, c)
    <2> SUFFICES ASSUME Len(t) >= k PROVE t[Len(t) - k + 1].command = c
      BY DEF FromEnd
    <2>1. /\ Len(s) >= k /\ Len(t) - k + 1 \in 1..(Len(s) - 1)
          /\ (Len(t) - k + 1) + 1 = Len(s) - k + 1
      BY <1>1
    <2>2. t[Len(t) - k + 1] = s[Len(s) - k + 1]
      BY <1>1, <2>1
    <2> QED
      BY <1>2, <2>1, <2>2 DEF FromEnd
  <1>3. ASSUME NEW k \in Nat \ {0}, NEW c \in Commands, FromEnd(s, k, c), Len(s) = k
        PROVE  Head(s).command = c
    <2>1. Len(s) - k + 1 = 1
      BY <1>1, <1>3
    <2> QED
      BY <1>1, <1>3, <2>1 DEF FromEnd
  <1> QED
    BY <1>1, <1>2, <1>3 DEF t

\* What a pause sends is appended.
LEMMA SentOne ==
    ASSUME packets \in Seq(X!Packet), NEW c \in Commands, X!Sent(Goroutine, <<c>>)
    PROVE  packets' = Append(packets, [command |-> c, from |-> Goroutine])
  <1> DEFINE m == [command |-> c, from |-> Goroutine]
  <1>1. [i \in DOMAIN <<c>> |-> [command |-> <<c>>[i], from |-> Goroutine]] = <<m>>
    OBVIOUS
  <1>2. m \in X!Packet
    BY DEF X!Packet, Commands
  <1>3. packets' = packets \o <<m>>
    BY <1>1 DEF X!Sent
  <1> HIDE DEF m
  <1> QED
    BY <1>2, <1>3, AppendIsConcat DEF m

\* The toggle comes with the end of the subscription.
LEMMA SentTwo ==
    ASSUME packets \in Seq(X!Packet), X!Sent(Goroutine, <<"toggle", "unsubscribe">>)
    PROVE  packets' = Append(Append(packets, [command |-> "toggle", from |-> Goroutine]),
                             [command |-> "unsubscribe", from |-> Goroutine])
  <1> DEFINE m == [command |-> "toggle", from |-> Goroutine]
             n == [command |-> "unsubscribe", from |-> Goroutine]
             two == <<"toggle", "unsubscribe">>
  <1>1. [i \in DOMAIN two |-> [command |-> two[i], from |-> Goroutine]] = <<m, n>>
    OBVIOUS
  <1>2. m \in X!Packet /\ n \in X!Packet
    BY DEF X!Packet
  <1>3. packets' = packets \o <<m, n>>
    BY <1>1 DEF X!Sent
  <1> HIDE DEF m, n
  <1>4. packets \o <<m, n>> = Append(Append(packets, m), n)
    BY <1>2
  <1> QED
    BY <1>3, <1>4 DEF m, n

\* A step of the goroutine, and what is left as it is.
LEMMA GoesTo ==
    ASSUME PauseShape, NEW from, NEW to, X!Goes(Goroutine, from, to)
    PROVE  /\ pc[Goroutine] = from /\ pc'[Goroutine] = to
           /\ DOMAIN pc = {Goroutine} /\ pc' = [pc EXCEPT ![Goroutine] = to]
           /\ UNCHANGED <<obeys, paused, watched, unpaused>>
  BY DEF PauseShape, X!Goes, X!sim

\* A sample is taken: those behind it are counted with one more.
LEMMA SampleTaken ==
    ASSUME Prompt, SamplesAre, NEW value \in BOOLEAN, X!Takes(Goroutine, value), NEW counted \in Int
    PROVE  /\ SamplesAre'
           /\ Sampled(samples[Goroutine], counted) =>
                 /\ Allowed(value, 1 + counted)
                 /\ Sampled(samples'[Goroutine], counted + 1)
  <1> DEFINE s == samples[Goroutine]
             t == Tail(s)
  <1>1. /\ s \in Seq(BOOLEAN) /\ s # <<>> /\ Head(s) = value
        /\ samples' = [samples EXCEPT ![Goroutine] = t] /\ DOMAIN samples = {Goroutine}
    BY DEF X!Takes, SamplesAre
  <1>2. samples'[Goroutine] = t /\ DOMAIN samples' = {Goroutine}
    BY <1>1, Zenon
  <1> HIDE DEF s
  <1>3. /\ t \in Seq(BOOLEAN) /\ Len(s) \in Nat /\ Len(s) > 0 /\ Len(t) = Len(s) - 1
        /\ Head(s) = s[1]
        /\ \A i \in 1..(Len(s) - 1) : t[i] = s[i + 1]
    BY <1>1, HeadTailProperties
  <1> HIDE DEF t
  <1>4. MaxStale \in Nat
    BY DEF Prompt, X!XPlanePauseAssumption
  <1>5. ASSUME Sampled(s, counted)
        PROVE  Allowed(value, 1 + counted)
    <2>1. 1 \in 1..Len(s) /\ s[1] = value
      BY <1>1, <1>3
    <2> QED
      BY <1>5, <2>1, Zenon DEF Sampled
  <1>6. ASSUME Sampled(s, counted), NEW i \in 1..Len(t)
        PROVE  Allowed(t[i], i + (counted + 1))
    <2>1. i + 1 \in 1..Len(s) /\ t[i] = s[i + 1] /\ (i + 1) + counted = i + (counted + 1)
      BY <1>3
    <2>2. Allowed(s[i + 1], (i + 1) + counted)
      BY <1>6, <2>1, Zenon DEF Sampled
    <2> QED
      BY <2>1, <2>2, Zenon
  <1>7. Sampled(s, counted) => Sampled(t, counted + 1)
    BY <1>6 DEF Sampled
  <1> QED
    BY <1>2, <1>3, <1>5, <1>7, Zenon DEF SamplesAre, s

\* A sample that is written in the socket.
LEMMA SampleWritten ==
    ASSUME Prompt, NEW s \in Seq(BOOLEAN), paused \in BOOLEAN, NEW counted \in Int,
           Sampled(s, counted),
           ~paused /\ obeys => Len(s) + 1 + counted <= MaxStale
    PROVE  Sampled(Append(s, paused), counted)
  <1> DEFINE t == Append(s, paused)
  <1>1. /\ Len(s) \in Nat /\ Len(t) = Len(s) + 1
        /\ \A i \in 1..Len(s) : t[i] = s[i]
        /\ t[Len(s) + 1] = paused
    BY AppendProperties
  <1> HIDE DEF t
  <1>2. ASSUME NEW i \in 1..Len(t)
        PROVE  Allowed(t[i], i + counted)
    <2>1. CASE i = Len(s) + 1
      <3>1. t[i] = paused /\ i + counted = Len(s) + 1 + counted
        BY <1>1, <2>1
      <3> QED
        BY <3>1, Zenon DEF Allowed
    <2>2. CASE i # Len(s) + 1
      <3>1. i \in 1..Len(s) /\ t[i] = s[i]
        BY <1>1, <2>2
      <3>2. Allowed(s[i], i + counted)
        BY <3>1, Zenon DEF Sampled
      <3> QED
        BY <3>1, <3>2, Zenon
    <2> QED
      BY <2>1, <2>2
  <1>3. \A i \in 1..Len(t) : Allowed(t[i], i + counted)
    BY <1>2
  <1> QED
    BY <1>3 DEF Sampled, t

\* The steps of the goroutine, in the order in which it takes them.
LEMMA Subscribes ==
    ASSUME Prompt, PauseInv, X!Subscribe(Goroutine)
    PROVE  PauseInv'
  <1>1. /\ PauseShape /\ pc[Goroutine] = "idle" /\ pc'[Goroutine] = "subscribing"
        /\ DOMAIN pc = {Goroutine} /\ pc' = [pc EXCEPT ![Goroutine] = "subscribing"]
        /\ UNCHANGED <<obeys, paused, watched, unpaused, samples, zeros>>
    BY GoesTo DEF X!Subscribe, PauseInv
  <1> DEFINE m == [command |-> "subscribe", from |-> Goroutine]
  <1>2. packets = <<>> /\ packets \in Seq(X!Packet) /\ packets' = Append(packets, m)
    BY <1>1, SentOne DEF X!Subscribe, PauseInv, PacketsOf, PauseShape, Commands
  <1>3. m \in X!Packet /\ m.command = "subscribe"
    BY DEF X!Packet
  <1> HIDE DEF m
  <1>4. /\ packets' \in Seq(X!Packet) /\ Len(packets') = 1
        /\ FromEnd(packets', 1, "subscribe")
    <2>1. Len(packets) = 0
      BY <1>2
    <2>2. packets \in Seq(X!Packet) /\ packets' = Append(packets, m)
      BY <1>2
    <2>3. /\ packets' \in Seq(X!Packet) /\ Len(packets') = Len(packets) + 1
          /\ FromEnd(packets', 1, "subscribe")
      BY <2>2, <1>3, EndAppend
    <2> QED
      BY <2>1, <2>3
  <1>5. PauseShape' /\ SamplesAre'
    BY <1>1, <1>4 DEF PauseInv, PauseShape, SamplesAre
  <1>6. PacketsOf(pc'[Goroutine], packets')
    BY <1>1, <1>4 DEF PacketsOf
  <1>7. Unwatched' /\ PausedOf(pc[Goroutine], Len(packets))'
    BY <1>1 DEF PauseInv, Unwatched, PausedOf
  <1>8. Told'
    BY <1>1 DEF PauseInv, Told, Sampled, Allowed, Prompt, X!XPlanePauseAssumption
  <1> QED
    BY <1>1, <1>5, <1>6, <1>7, <1>8 DEF PauseInv

\* From here on X-Plane pauses if it knows how.
LEMMA SendsPauseOn ==
    ASSUME Prompt, PauseInv, X!PauseOn(Goroutine)
    PROVE  PauseInv'
  <1>1. /\ PauseShape /\ pc[Goroutine] = "subscribing" /\ pc'[Goroutine] = "waiting"
        /\ DOMAIN pc = {Goroutine} /\ pc' = [pc EXCEPT ![Goroutine] = "waiting"]
        /\ UNCHANGED <<obeys, paused, watched, unpaused, samples, zeros>>
    BY GoesTo DEF X!PauseOn, PauseInv
  <1> DEFINE m == [command |-> "pause_on", from |-> Goroutine]
  <1>2. packets \in Seq(X!Packet) /\ packets' = Append(packets, m)
    BY <1>1, SentOne DEF X!PauseOn, PauseShape, Commands
  <1>3. m \in X!Packet /\ m.command = "pause_on"
    BY DEF X!Packet
  <1> HIDE DEF m
  <1>4. Len(packets) <= 1 /\ FromEnd(packets, 1, "subscribe")
    BY <1>1 DEF PauseInv, PacketsOf
  <1>5. /\ packets' \in Seq(X!Packet) /\ Len(packets') = Len(packets) + 1
        /\ FromEnd(packets', 1, "pause_on") /\ FromEnd(packets', 1 + 1, "subscribe")
    BY <1>2, <1>3, <1>4, EndAppend DEF Commands
  <1>6. PauseShape' /\ SamplesAre'
    BY <1>1, <1>5 DEF PauseInv, PauseShape, SamplesAre
  <1>7. PacketsOf(pc'[Goroutine], packets')
    BY <1>1, <1>2, <1>4, <1>5 DEF PacketsOf
  <1>8. Unwatched' /\ PausedOf(pc[Goroutine], Len(packets))'
    BY <1>1, <1>2, <1>5 DEF PauseInv, Unwatched, PausedOf
  <1>9. Told'
    BY <1>1 DEF PauseInv, Told, Sampled, Allowed
  <1> QED
    BY <1>1, <1>6, <1>7, <1>8, <1>9 DEF PauseInv

\* A pause that waits no longer ends its subscription.
LEMMA Unsubscribed ==
    ASSUME PauseInv, pc[Goroutine] = "waiting", X!Sent(Goroutine, <<"unsubscribe">>)
    PROVE  /\ packets' \in Seq(X!Packet) /\ packets' # <<>>
           /\ PacketsOf("paused", packets') /\ PacketsOf("failed", packets')
  <1> DEFINE m == [command |-> "unsubscribe", from |-> Goroutine]
  <1>1. packets \in Seq(X!Packet) /\ packets' = Append(packets, m)
    BY SentOne DEF PauseInv, PauseShape, Commands
  <1>2. m \in X!Packet /\ m.command = "unsubscribe"
    BY DEF X!Packet
  <1> HIDE DEF m
  <1>3. Len(packets) <= 2 /\ FromEnd(packets, 1, "pause_on") /\ FromEnd(packets, 2, "subscribe")
    BY DEF PauseInv, PacketsOf
  <1>4. /\ packets' \in Seq(X!Packet) /\ Len(packets') = Len(packets) + 1
        /\ FromEnd(packets', 1, "unsubscribe") /\ FromEnd(packets', 1 + 1, "pause_on")
        /\ FromEnd(packets', 2 + 1, "subscribe")
    BY <1>1, <1>2, <1>3, EndAppend DEF Commands
  <1>5. packets' # <<>> /\ Len(packets') <= 3
    BY <1>1, <1>3, <1>4
  <1> QED
    BY <1>4, <1>5 DEF PacketsOf

\* A sample that says paused does so of an X-Plane that stays paused; packets may
\* be left to handle, if it was paused before.
LEMMA PauseSeen ==
    ASSUME Prompt, PauseInv, X!SeesPaused(Goroutine)
    PROVE  PauseInv'
  <1>1. /\ PauseShape /\ pc[Goroutine] = "waiting" /\ pc'[Goroutine] = "paused"
        /\ DOMAIN pc = {Goroutine} /\ pc' = [pc EXCEPT ![Goroutine] = "paused"]
        /\ UNCHANGED <<obeys, paused, watched, unpaused, zeros>>
    BY GoesTo DEF X!SeesPaused, PauseInv
  <1>2. zeros[Goroutine] \in Int /\ Zeros \in Int
    BY <1>1 DEF PauseShape, Prompt, X!XPlanePauseAssumption
  <1>3. SamplesAre' /\ paused
    <2>1. Sampled(samples[Goroutine], Zeros - zeros[Goroutine])
      BY <1>1 DEF PauseInv, Told
    <2>2. X!Takes(Goroutine, TRUE) /\ SamplesAre
      BY Zenon DEF X!SeesPaused, PauseInv
    <2>3. Zeros - zeros[Goroutine] \in Int
      BY <1>2
    <2> QED
      BY <2>1, <2>2, <2>3, SampleTaken DEF Allowed
  <1>4. X!Sent(Goroutine, <<"unsubscribe">>)
    BY DEF X!SeesPaused
  <1>5. /\ packets' \in Seq(X!Packet) /\ packets' # <<>>
        /\ PacketsOf("paused", packets')
    BY <1>1, <1>4, Unsubscribed
  <1>6. PauseShape'
    BY <1>1, <1>5 DEF PauseShape
  <1>7. PacketsOf(pc'[Goroutine], packets')
    BY <1>1, <1>5
  <1>8. Unwatched' /\ PausedOf(pc[Goroutine], Len(packets))'
    BY <1>1, <1>3, <1>5 DEF Unwatched, PausedOf
  <1>9. Told'
    BY <1>1 DEF Told
  <1> QED
    BY <1>1, <1>3, <1>6, <1>7, <1>8, <1>9 DEF PauseInv

\* As many that do not are taken only if X-Plane does not know pause_on.
LEMMA ZeroSeen ==
    ASSUME Prompt, PauseInv, X!SeesZero(Goroutine)
    PROVE  PauseInv'
  <1> DEFINE to == IF X!Enough(Goroutine) THEN "toggling" ELSE "waiting"
  <1>1. /\ PauseShape /\ pc[Goroutine] = "waiting" /\ pc'[Goroutine] = to
        /\ DOMAIN pc = {Goroutine} /\ pc' = [pc EXCEPT ![Goroutine] = to]
        /\ UNCHANGED <<obeys, paused, watched, unpaused, packets>>
    BY GoesTo DEF X!SeesZero, PauseInv
  <1>2. /\ zeros[Goroutine] \in Int /\ Zeros \in Nat /\ MaxStale \in Nat /\ MaxStale < Zeros
        /\ DOMAIN zeros = {Goroutine} /\ zeros' = [zeros EXCEPT ![Goroutine] = zeros[Goroutine] - 1]
    BY <1>1 DEF PauseShape, Prompt, X!XPlanePauseAssumption, X!SeesZero
  <1>3. zeros'[Goroutine] = zeros[Goroutine] - 1
    BY <1>2
  <1> DEFINE counted == Zeros - zeros[Goroutine]
  <1>4. /\ SamplesAre' /\ (IF obeys THEN 1 + counted <= MaxStale ELSE ~paused)
        /\ Sampled(samples'[Goroutine], counted + 1)
    <2>1. Sampled(samples[Goroutine], counted)
      BY <1>1 DEF PauseInv, Told
    <2>2. X!Takes(Goroutine, FALSE) /\ SamplesAre
      BY Zenon DEF X!SeesZero, PauseInv
    <2>3. counted \in Int
      BY <1>2
    <2> HIDE DEF counted
    <2> QED
      BY <2>1, <2>2, <2>3, SampleTaken DEF Allowed
  <1>5. counted + 1 = Zeros - zeros'[Goroutine]
    BY <1>2, <1>3
  <1>6. X!Enough(Goroutine) => ~obeys /\ ~paused
    BY <1>2, <1>4 DEF X!Enough
  <1>7. PauseShape'
    BY <1>1, <1>2 DEF PauseShape
  <1>8. PacketsOf(pc'[Goroutine], packets')
    BY <1>1 DEF PauseInv, PacketsOf
  <1>9. Unwatched'
    BY <1>1 DEF PauseInv, Unwatched
  <1>10. PausedOf(pc[Goroutine], Len(packets))'
    BY <1>1, <1>6 DEF PauseInv, PausedOf
  <1>11. Told'
    <2>1. Sampled(samples'[Goroutine], Zeros - zeros'[Goroutine])
      BY <1>4, <1>5, Zenon
    <2>2. Sampled(samples[Goroutine], Zeros - zeros[Goroutine])'
      BY <2>1, <1>1 DEF Sampled, Allowed
    <2> QED
      BY <1>1, <2>2 DEF Told
  <1> QED
    BY <1>1, <1>4, <1>7, <1>8, <1>9, <1>10, <1>11 DEF PauseInv

\* The toggle follows pause_on.
LEMMA Toggles ==
    ASSUME Prompt, PauseInv, X!Toggle(Goroutine)
    PROVE  PauseInv'
  <1>1. /\ PauseShape /\ pc[Goroutine] = "toggling" /\ pc'[Goroutine] = "toggled"
        /\ DOMAIN pc = {Goroutine} /\ pc' = [pc EXCEPT ![Goroutine] = "toggled"]
        /\ UNCHANGED <<obeys, paused, watched, unpaused, samples, zeros>>
    BY GoesTo DEF X!Toggle, PauseInv
  <1> DEFINE m == [command |-> "toggle", from |-> Goroutine]
             n == [command |-> "unsubscribe", from |-> Goroutine]
             s == Append(packets, m)
  <1>2. packets \in Seq(X!Packet) /\ packets' = Append(s, n)
    BY <1>1, SentTwo DEF X!Toggle, PauseShape
  <1>3. m \in X!Packet /\ m.command = "toggle" /\ n \in X!Packet /\ n.command = "unsubscribe"
    BY DEF X!Packet
  <1> HIDE DEF m, n, s
  <1>4. Len(packets) <= 2 /\ FromEnd(packets, 1, "pause_on") /\ FromEnd(packets, 2, "subscribe")
    BY <1>1 DEF PauseInv, PacketsOf
  <1>5. /\ s \in Seq(X!Packet) /\ Len(s) = Len(packets) + 1
        /\ FromEnd(s, 1, "toggle") /\ FromEnd(s, 1 + 1, "pause_on")
        /\ FromEnd(s, 2 + 1, "subscribe")
    BY <1>2, <1>3, <1>4, EndAppend DEF Commands, s
  <1>6. /\ packets' \in Seq(X!Packet) /\ Len(packets') = Len(s) + 1
        /\ FromEnd(packets', 1, "unsubscribe") /\ FromEnd(packets', 1 + 1, "toggle")
        /\ FromEnd(packets', 2 + 1, "pause_on") /\ FromEnd(packets', 3 + 1, "subscribe")
    BY <1>2, <1>3, <1>5, EndAppend DEF Commands
  <1>7. Len(packets) \in Nat /\ Len(packets') = Len(packets) + 2
    BY <1>2, <1>5, <1>6
  <1>8. PauseShape' /\ SamplesAre'
    BY <1>1, <1>6 DEF PauseInv, PauseShape, SamplesAre
  <1>9. PacketsOf(pc'[Goroutine], packets')
    BY <1>1, <1>4, <1>6, <1>7 DEF PacketsOf
  <1>10. Unwatched'
    BY <1>1, <1>7 DEF Unwatched
  <1>11. PausedOf(pc[Goroutine], Len(packets))'
    BY <1>1, <1>7 DEF PauseInv, PausedOf
  <1>12. Told'
    BY <1>1 DEF Told
  <1> QED
    BY <1>1, <1>8, <1>9, <1>10, <1>11, <1>12 DEF PauseInv

\* No sample comes.
LEMMA TurnsQuiet ==
    ASSUME Prompt, PauseInv, X!GoesQuiet(Goroutine)
    PROVE  PauseInv'
  <1>1. /\ PauseShape /\ pc[Goroutine] = "waiting" /\ pc'[Goroutine] = "failed"
        /\ DOMAIN pc = {Goroutine} /\ pc' = [pc EXCEPT ![Goroutine] = "failed"]
        /\ UNCHANGED <<obeys, paused, watched, unpaused, samples, zeros>>
    BY GoesTo DEF X!GoesQuiet, PauseInv
  <1>2. X!Sent(Goroutine, <<"unsubscribe">>)
    BY DEF X!GoesQuiet
  <1>3. /\ packets' \in Seq(X!Packet) /\ packets' # <<>>
        /\ PacketsOf("failed", packets')
    BY <1>1, <1>2, Unsubscribed
  <1>4. PauseShape' /\ SamplesAre'
    BY <1>1, <1>3 DEF PauseInv, PauseShape, SamplesAre
  <1>5. PacketsOf(pc'[Goroutine], packets')
    BY <1>1, <1>3
  <1>6. Unwatched' /\ PausedOf(pc[Goroutine], Len(packets))' /\ Told'
    BY <1>1, <1>3 DEF Unwatched, PausedOf, Told
  <1> QED
    BY <1>1, <1>4, <1>5, <1>6 DEF PauseInv

\* The player goes on when all that was sent is handled.
LEMMA StartsOver ==
    ASSUME Prompt, PauseInv, X!GoesOn
    PROVE  PauseInv'
  <1>1. /\ packets = <<>> /\ paused' \in BOOLEAN /\ unpaused' = FALSE
        /\ samples' = [p \in {Goroutine} |-> <<>>] /\ zeros' = [p \in {Goroutine} |-> Zeros]
        /\ pc' = [p \in {Goroutine} |-> "idle"]
        /\ UNCHANGED <<obeys, packets, watched>>
        /\ pc[Goroutine] \in {"paused", "toggled", "failed"}
    BY DEF X!GoesOn, X!Over
  <1>2. /\ samples'[Goroutine] = <<>> /\ zeros'[Goroutine] = Zeros /\ pc'[Goroutine] = "idle"
        /\ DOMAIN samples' = {Goroutine} /\ Zeros \in Int
    BY <1>1 DEF Prompt, X!XPlanePauseAssumption
  <1>3. PauseShape'
    BY <1>1, <1>2 DEF PauseInv, PauseShape
  <1>4. SamplesAre'
    BY <1>2, EmptySeq, Zenon DEF SamplesAre
  <1>5. PacketsOf(pc'[Goroutine], packets') /\ Unwatched' /\ PausedOf(pc[Goroutine], Len(packets))'
    BY <1>1, <1>2 DEF PauseInv, PacketsOf, Unwatched, PausedOf
  <1>6. Told'
    BY <1>2 DEF Told
  <1> QED
    BY <1>1, <1>3, <1>4, <1>5, <1>6 DEF PauseInv

\* No pause is asked for yet.
LEMMA PauseStarts == Prompt /\ X!Init => PauseInv
  <1> SUFFICES ASSUME Prompt, X!Init PROVE PauseInv
    OBVIOUS
  <1>1. /\ packets = <<>> /\ paused \in BOOLEAN /\ obeys \in BOOLEAN /\ watched = {}
        /\ unpaused = FALSE
        /\ samples = [p \in {Goroutine} |-> <<>>] /\ zeros = [p \in {Goroutine} |-> Zeros]
        /\ pc = [p \in {Goroutine} |-> "idle"]
    BY DEF X!Init
  <1>2. /\ samples[Goroutine] = <<>> /\ zeros[Goroutine] = Zeros /\ pc[Goroutine] = "idle"
        /\ DOMAIN samples = {Goroutine} /\ Zeros \in Int /\ packets \in Seq(X!Packet)
    BY <1>1, EmptySeq DEF Prompt, X!XPlanePauseAssumption
  <1>3. PauseShape
    BY <1>1, <1>2 DEF PauseShape
  <1>4. SamplesAre
    BY <1>2, EmptySeq, Zenon DEF SamplesAre
  <1>5. PacketsOf(pc[Goroutine], packets) /\ Unwatched /\ PausedOf(pc[Goroutine], Len(packets))
    BY <1>1, <1>2 DEF PacketsOf, Unwatched, PausedOf
  <1>6. Told
    BY <1>2 DEF Told
  <1> QED
    BY <1>1, <1>3, <1>4, <1>5, <1>6 DEF PauseInv

\* X-Plane samples its state for the pause: before pause_on there is room for
\* MaxStale, and afterwards for samples of what pause_on did.
LEMMA SampleKeeps ==
    ASSUME Prompt, PauseInv, X!Sample
    PROVE  PauseInv'
  <1> DEFINE at == pc[Goroutine]
             s == samples[Goroutine]
             counted == Zeros - zeros[Goroutine]
  <1>1. PICK those \in (SUBSET watched) \ {{}} :
           /\ \A p \in those :
                 Len(samples[p]) < IF pc[p] = "subscribing" THEN MaxStale ELSE MaxSamples
           /\ samples' = [p \in {Goroutine} |->
                             IF p \in those THEN Append(samples[p], paused) ELSE samples[p]]
    BY DEF X!Sample
  <1>2. /\ packets = <<>>
        /\ UNCHANGED <<obeys, paused, packets, watched, pc, zeros, unpaused>>
    BY DEF X!Sample
  <1>3. watched \subseteq {Goroutine} /\ paused \in BOOLEAN /\ zeros[Goroutine] \in Int
    BY DEF PauseInv, PauseShape
  <1>4. those = {Goroutine} /\ watched # {}
    BY <1>1, <1>3
  <1>5. /\ samples'[Goroutine] = Append(s, paused) /\ DOMAIN samples' = {Goroutine}
        /\ Len(s) < IF at = "subscribing" THEN MaxStale ELSE MaxSamples
    BY <1>1, <1>4
  <1>6. s \in Seq(BOOLEAN)
    BY DEF PauseInv, SamplesAre
  <1>7. /\ Append(s, paused) \in Seq(BOOLEAN)
        /\ Len(Append(s, paused)) = Len(s) + 1 /\ Len(s) \in Nat
    BY <1>3, <1>6, AppendProperties
  <1>8. SamplesAre'
    BY <1>5, <1>7, Zenon DEF SamplesAre
  <1>9. at # "idle"
    BY <1>4 DEF PauseInv, Unwatched
  <1>10. counted \in Int /\ Zeros \in Nat /\ MaxStale \in Nat
    BY <1>3 DEF Prompt, X!XPlanePauseAssumption
  <1>11. ASSUME at \in {"subscribing", "waiting"}
         PROVE  Sampled(samples[Goroutine], Zeros - zeros[Goroutine])'
    <2>1. Sampled(s, counted)
      BY <1>11 DEF PauseInv, Told
    <2>2. ~paused /\ obeys => Len(s) + 1 + counted <= MaxStale
      <3>1. CASE at = "subscribing"
        <4>1. zeros[Goroutine] = Zeros /\ Len(s) < MaxStale
          BY <3>1, <1>5 DEF PauseInv, Told
        <4> QED
          BY <4>1, <1>7, <1>10
      <3>2. CASE at = "waiting"
        <4>1. obeys /\ Len(packets) = 0 => paused
          BY <3>2, Zenon DEF PauseInv, PausedOf
        <4>2. Len(packets) = 0
          BY <1>2
        <4> QED
          BY <4>1, <4>2
      <3> QED
        BY <1>11, <3>1, <3>2
    <2> HIDE DEF counted, s
    <2>3. Sampled(Append(s, paused), counted)
      BY <2>1, <2>2, <1>3, <1>6, <1>10, SampleWritten
    <2>4. Sampled(samples'[Goroutine], Zeros - zeros'[Goroutine])
      BY <2>3, <1>2, <1>5, Zenon DEF counted, s
    <2> QED
      BY <2>4, <1>2 DEF Sampled, Allowed
  <1>12. Told'
    <2>1. at = "subscribing" => zeros[Goroutine] = Zeros /\ Len(Append(s, paused)) <= MaxStale
      BY <1>5, <1>7, <1>10 DEF PauseInv, Told
    <2> QED
      BY <2>1, <1>2, <1>5, <1>9, <1>11 DEF Told
  <1>13. PauseShape' /\ PacketsOf(pc'[Goroutine], packets') /\ Unwatched'
         /\ PausedOf(pc[Goroutine], Len(packets))'
    BY <1>2 DEF PauseInv, PauseShape, PacketsOf, Unwatched, PausedOf
  <1> QED
    BY <1>2, <1>8, <1>12, <1>13 DEF PauseInv

\* X-Plane handles the packet that is next.
LEMMA PacketHandled ==
    ASSUME Prompt, PauseInv, X!Handle
    PROVE  PauseInv'
  <1> DEFINE at == pc[Goroutine]
             command == Head(packets).command
             n == Len(packets)
  <1>1. packets # <<>> /\ packets' = Tail(packets) /\ packets \in Seq(X!Packet)
    BY DEF X!Handle, PauseInv, PauseShape
  <1>2. UNCHANGED <<obeys, samples, pc, zeros>>
    BY DEF X!Handle
  <1>3. paused' = CASE command = "pause_on" -> paused \/ obeys
                    [] command = "toggle" -> ~paused
                    [] OTHER -> paused
    BY Zenon DEF X!Handle
  <1>4. Head(packets) \in X!Packet /\ packets' \in Seq(X!Packet)
        /\ n \in Nat /\ n > 0 /\ Len(packets') = n - 1
    BY <1>1, EndTail
  <1>5. Head(packets).from = Goroutine /\ command \in Commands
    BY <1>4 DEF X!Packet, Commands
  <1>6. \A k \in {1, 2, 3, 4}, c \in Commands : FromEnd(packets, k, c) =>
           FromEnd(packets', k, c) /\ (n = k => command = c)
    BY <1>1, EndTail
  <1>7. /\ watched' = IF command = "subscribe" THEN watched \cup {Goroutine}
                      ELSE IF command = "unsubscribe" THEN watched \ {Goroutine} ELSE watched
    BY <1>5 DEF X!Handle
  <1>8. obeys \in BOOLEAN /\ paused \in BOOLEAN /\ watched \subseteq {Goroutine}
    BY DEF PauseInv, PauseShape
  <1>9. /\ command = "pause_on" => paused' = (paused \/ obeys)
        /\ command = "toggle" => paused' = ~paused
        /\ command \in {"subscribe", "unsubscribe"} => paused' = paused
    BY <1>3
  <1>10. paused' \in BOOLEAN
    <2>1. CASE command = "pause_on"
      BY <2>1, <1>9, Zenon
    <2>2. CASE command = "toggle"
      BY <2>2, <1>9, Zenon
    <2>3. CASE command \in {"subscribe", "unsubscribe"}
      BY <2>3, <1>8, <1>9, Zenon
    <2> QED
      BY <1>5, <2>1, <2>2, <2>3, Zenon DEF Commands
  <1> HIDE DEF command, n, at
  <1>23. command # "toggle" => (paused => paused') /\ (~obeys /\ ~paused => ~paused')
    <2>1. CASE command = "pause_on"
      BY <2>1, <1>9, Zenon
    <2>2. CASE command \in {"subscribe", "unsubscribe"}
      BY <2>2, <1>9, Zenon
    <2> QED
      BY <1>5, <2>1, <2>2 DEF Commands
  <1>11. /\ at \in {"idle", "subscribing", "waiting", "toggling", "paused", "toggled", "failed"}
         /\ PacketsOf(at, packets) /\ PausedOf(at, n)
    BY DEF PauseInv, PauseShape, at, n
  <1>12. at # "idle"
    BY <1>1, <1>11 DEF PacketsOf
  <1>13. PacketsOf(at, packets')
    BY <1>4, <1>6, <1>11, <1>12 DEF PacketsOf, Commands, n
  <1>14. /\ at = "subscribing" => command = "subscribe"
         /\ at \in {"waiting", "toggling"} =>
               (n = 1 /\ command = "pause_on") \/ (n = 2 /\ command = "subscribe")
         /\ at = "toggled" =>
               \/ n = 1 /\ command = "unsubscribe"
               \/ n = 2 /\ command = "toggle"
               \/ n = 3 /\ command = "pause_on"
               \/ n = 4 /\ command = "subscribe"
         /\ at \in {"paused", "failed"} =>
               /\ command # "toggle"
               /\ n = 1 => command = "unsubscribe"
    BY <1>4, <1>6, <1>11 DEF PacketsOf, Commands, n
  <1> DEFINE Then == /\ at = "waiting" /\ obeys /\ n = 1 => paused'
                     /\ at = "toggling" => ~obeys /\ ~paused'
                     /\ at = "paused" => paused'
                     /\ at = "toggled" => ~obeys /\ (paused' <=> n <= 2)
  <1>15. Then
    <2>2. CASE at = "waiting"
      <3>1. obeys /\ n = 1 => command = "pause_on"
        BY <2>2, <1>14
      <3>2. obeys /\ n = 1 => paused'
        BY <3>1, <1>9, Zenon
      <3> QED
        BY <2>2, <3>2
    <2>3. CASE at = "toggling"
      BY <2>3, <1>9, <1>11, <1>14, <1>8, <1>10 DEF PausedOf
    <2>4. CASE at = "paused"
      BY <2>4, <1>23, <1>11, <1>14 DEF PausedOf
    <2>5. CASE at = "toggled"
      <3>1. ~obeys /\ (paused <=> n <= 1)
        BY <2>5, <1>11, <1>8, <1>10 DEF PausedOf
      <3>2. CASE n = 1 /\ command = "unsubscribe"
        <4>1. n <= 1 /\ n <= 2
          BY <3>2
        <4> QED
          BY <2>5, <3>1, <3>2, <4>1, <1>8, <1>9, <1>10
      <3>3. CASE n = 2 /\ command = "toggle"
        <4>1. ~(n <= 1) /\ n <= 2
          BY <3>3
        <4> QED
          BY <2>5, <3>1, <3>3, <4>1, <1>8, <1>9, <1>10
      <3>4. CASE n = 3 /\ command = "pause_on"
        <4>1. ~(n <= 1) /\ ~(n <= 2)
          BY <3>4
        <4> QED
          BY <2>5, <3>1, <3>4, <4>1, <1>8, <1>9, <1>10
      <3>5. CASE n = 4 /\ command = "subscribe"
        <4>1. ~(n <= 1) /\ ~(n <= 2)
          BY <3>5
        <4> QED
          BY <2>5, <3>1, <3>5, <4>1, <1>8, <1>9, <1>10
      <3> QED
        BY <2>5, <3>2, <3>3, <3>4, <3>5, <1>14
    <2> QED
      BY <2>2, <2>3, <2>4, <2>5
  <1>16. PausedOf(pc[Goroutine], Len(packets))'
    <2>1. /\ pc'[Goroutine] = at /\ obeys' = obeys
          /\ (Len(packets') = 0) <=> (n = 1)
          /\ (Len(packets') <= 1) <=> (n <= 2)
      BY <1>2, <1>4 DEF at
    <2> QED
      BY <2>1, <1>12, <1>15 DEF PausedOf
  <1>17. Unwatched'
    <2>1. packets' = <<>> => n = 1
      BY <1>4
    <2> QED
      BY <2>1, <1>2, <1>7, <1>8, <1>12, <1>14 DEF Unwatched, at
  <1>18. Told'
    <2>1. at \in {"subscribing", "waiting"} =>
             (paused => paused') /\ (~obeys /\ ~paused => ~paused')
      BY <1>14, <1>23
    <2>2. ASSUME at \in {"subscribing", "waiting"}
          PROVE  Sampled(samples[Goroutine], Zeros - zeros[Goroutine])'
      <3> DEFINE s == samples[Goroutine]
                 counted == Zeros - zeros[Goroutine]
      <3>1. Sampled(s, counted)
        BY <2>2 DEF PauseInv, Told, at
      <3>2. samples'[Goroutine] = s /\ Zeros - zeros'[Goroutine] = counted /\ obeys' = obeys
        BY <1>2
      <3> HIDE DEF s, counted
      <3>3. ASSUME NEW i \in 1..Len(s)
            PROVE  IF s[i] THEN paused'
                   ELSE IF obeys' THEN i + counted <= MaxStale ELSE ~paused'
        <4>1. Allowed(s[i], i + counted)
          BY <3>1 DEF Sampled
        <4>2. /\ s[i] => paused'
              /\ ~s[i] /\ obeys => i + counted <= MaxStale
              /\ ~s[i] /\ ~obeys => ~paused'
          BY <4>1, <2>1, <2>2 DEF Allowed
        <4> QED
          BY <4>2, <3>2
      <3> QED
        BY <3>2, <3>3, Zenon DEF Sampled, Allowed
    <2> QED
      BY <2>2, <1>2, <1>12 DEF PauseInv, Told, at
  <1>19. PauseShape'
    BY <1>2, <1>4, <1>7, <1>8, <1>10 DEF PauseInv, PauseShape
  <1>20. SamplesAre'
    BY <1>2 DEF PauseInv, SamplesAre
  <1>21. PacketsOf(pc[Goroutine], packets)'
    BY <1>13, <1>2, Zenon DEF at, PacketsOf, FromEnd
  <1>22. unpaused' = FALSE
    <2>1. unpaused' = (unpaused \/ (command = "toggle" /\ paused))
      BY DEF X!Handle, command
    <2>2. command = "toggle" => at = "toggled" /\ ~(n <= 1)
      BY <1>11, <1>12, <1>14
    <2>3. command = "toggle" => ~paused
      BY <2>2, <1>11 DEF PausedOf
    <2>4. unpaused = FALSE
      BY DEF PauseInv
    <2> QED
      BY <2>1, <2>3, <2>4
  <1> QED
    BY <1>16, <1>17, <1>18, <1>19, <1>20, <1>21, <1>22 DEF PauseInv

\* Every step keeps the invariant.
LEMMA PauseKeeps == Prompt /\ PauseInv /\ [X!Next]_X!vars => PauseInv'
  <1> SUFFICES ASSUME Prompt, PauseInv, [X!Next]_X!vars PROVE PauseInv'
    OBVIOUS
  <1>1. CASE UNCHANGED X!vars
    BY <1>1 DEF X!vars, X!sim, PauseInv, PauseShape, SamplesAre, PacketsOf, FromEnd,
       Unwatched, PausedOf, Told, Sampled, Allowed
  <1>2. CASE X!Pause(Goroutine)
    BY <1>2, Subscribes, SendsPauseOn, PauseSeen, ZeroSeen, Toggles, TurnsQuiet DEF X!Pause
  <1> QED
    BY <1>1, <1>2, StartsOver, PacketHandled, SampleKeeps DEF X!Next

\* One pause at a time that does not fail leaves X-Plane paused, whether it knows
\* pause_on or only the toggle, however many samples make pause_on ignored and
\* whichever of them are lost or late, if those that can be stale are fewer
\* (rref.go:66-80, 84-113).
THEOREM OnePauseWorks ==
    ASSUME MaxStale < Zeros
    PROVE  X!Spec => []X!PauseWorks
  <1>0. Prompt
    BY TimedPauseAssumption DEF TimedPauseAssumption, Prompt
  <1>1. PauseInv => X!PauseWorks
    BY DEF PauseInv, PausedOf, X!PauseWorks
  <1>2. X!Init => PauseInv
    BY <1>0, PauseStarts
  <1>3. PauseInv /\ [X!Next]_X!vars => PauseInv'
    BY <1>0, PauseKeeps
  <1> QED
    BY <1>1, <1>2, <1>3, PTL DEF X!Spec

\* And its toggle is for an X-Plane that runs, and that does not know pause_on:
\* "a stalled XP12 has paused, toggling would unpause it", "the stale 0 must not
\* count" (rref_test.go:236, 263).
THEOREM OneTogglesToPause ==
    ASSUME MaxStale < Zeros
    PROVE  X!Spec => [](X!TogglesOnlyToPause /\ X!TogglesNoXPlane12)
  <1>0. Prompt
    BY TimedPauseAssumption DEF TimedPauseAssumption, Prompt
  <1>1. PauseInv => X!TogglesOnlyToPause
    BY DEF PauseInv, X!TogglesOnlyToPause
  <1>2. PauseInv => X!TogglesNoXPlane12
    BY DEF PauseInv, PausedOf, X!TogglesNoXPlane12
  <1>3. X!Init => PauseInv
    BY <1>0, PauseStarts
  <1>4. PauseInv /\ [X!Next]_X!vars => PauseInv'
    BY <1>0, PauseKeeps
  <1> QED
    BY <1>1, <1>2, <1>3, <1>4, PTL DEF X!Spec
-----------------------------------------------------------------------------
(***************************************************************************)
(* The timer, for any number of its goroutines and however late the ticks  *)
(* are, and the pause it ends in.                                          *)
(***************************************************************************)
\* A tick is from before it is handled.
TicksAre ==
    /\ left \in Int
    /\ queue \in Seq(Nat)
    /\ pending \in [Loops -> Nat \cup {NoTick}]

\* The button, the fields and the goroutines are those of a timer that runs, or
\* of one that does not.
FormIs ==
    /\ running \in Loops \cup {None}
    /\ loop \in [Loops -> {"free", "open", "closed"}]
    /\ startable \in BOOLEAN /\ editable \in BOOLEAN
    /\ editable <=> running = None
    /\ fields \in Int
    /\ running # None => fields \in Nat

\* The inductive invariant of the timer.
TimerInv == TicksAre /\ FormIs /\ OneTicker /\ ButtonTells /\ ShowsEnough

LEMMA TimerConstants ==
    /\ PerSecond \in Nat \ {0} /\ MaxSeconds \in Nat /\ MaxLoops \in Nat /\ MaxLag \in Nat
    /\ None \notin Loops
  BY SimTimerAssumption DEF SimTimerAssumption, Loops, None

\* Seconds are rounded up.
LEMMA RoundedUp ==
    ASSUME NEW t \in Int
    PROVE  /\ Ceil(t) \in Int
           /\ Ceil(t) * PerSecond >= t
           /\ t > 0 => Ceil(t) > 0
  <1> DEFINE n == t + PerSecond - 1
             q == n \div PerSecond
  <1>1. PerSecond \in Int /\ PerSecond > 0 /\ n \in Int
    BY TimerConstants
  <1>2. q \in Int /\ n = PerSecond * q + (n % PerSecond) /\ (n % PerSecond) \in 0..(PerSecond - 1)
    BY <1>1
  <1>3. Ceil(t) = q
    BY DEF Ceil
  <1>4. t > 0 => n >= PerSecond
    BY <1>1
  <1> HIDE DEF q
  <1>5. q * PerSecond >= t
    BY <1>1, <1>2
  <1>6. t > 0 => q > 0
    BY <1>1, <1>2, <1>4
  <1> QED
    BY <1>2, <1>3, <1>5, <1>6

\* A tick at the head of the queue is one.
LEMMA HeadIsATick ==
    ASSUME TicksAre, Take
    PROVE  Head(queue) \in Nat /\ queue' \in Seq(Nat) /\ LeftThen \in Int /\ LeftThen >= left
  BY DEF TicksAre, Take, LeftThen

\* The clock moves: what is left is less, and ticks are older.
LEMMA ClockMoves ==
    ASSUME TicksAre, NEW d \in Nat, Older(d)
    PROVE  /\ left' \in Int
           /\ left' <= left \/ left' <= 0
           /\ queue' \in Seq(Nat)
           /\ \A i \in Loops : AgeOf(i, d) \in Nat \cup {NoTick}
  <1>1. Overdue \in Int /\ Overdue <= 0
    BY TimerConstants DEF Overdue
  <1>2. Max({left - d, Overdue}) \in {left - d, Overdue}
    <2>1. \E x \in {left - d, Overdue} : \A y \in {left - d, Overdue} : x >= y
      BY <1>1 DEF TicksAre
    <2> QED
      BY <2>1 DEF Max
  <1>3. left' \in Int /\ (left' <= left \/ left' <= 0)
    BY <1>1, <1>2 DEF TicksAre, Older
  <1>4. queue' \in Seq(Nat)
    BY DEF TicksAre, Older
  <1>5. \A i \in Loops : AgeOf(i, d) \in Nat \cup {NoTick}
    BY DEF TicksAre, AgeOf
  <1> QED
    BY <1>3, <1>4, <1>5

\* Ticks go from a goroutine to the queue, and get older there.
LEMMA TicksStay == TimerInv /\ [TimerNext]_timerVars => TicksAre'
  <1> SUFFICES ASSUME TicksAre, FormIs, [TimerNext]_timerVars PROVE TicksAre'
    BY DEF TimerInv
  <1> USE TimerConstants
  <1>1. CASE UNCHANGED timerVars \/ \E v \in {Bad} \cup 0..MaxSeconds : Type(v)
    BY <1>1 DEF TicksAre, timerVars, goroutines, Type
  <1>2. CASE TapStart \/ Submit
    <2>1. PICK i \in Loops : pending' = [pending EXCEPT ![i] = NoTick]
      BY <1>2 DEF TapStart, Submit, StartTimer
    <2>2. left' = fields * PerSecond /\ queue' = queue
      BY <1>2 DEF TapStart, Submit, StartTimer
    <2>3. left' \in Int
      BY <2>2 DEF FormIs
    <2> QED
      BY <2>1, <2>2, <2>3 DEF TicksAre
  <1>3. CASE TapStop
    BY <1>3 DEF TapStop, StopTimer, TicksAre
  <1>4. ASSUME NEW i \in Loops, Relay(i) PROVE TicksAre'
    BY <1>4 DEF Relay, TicksAre
  <1>5. ASSUME NEW i \in Loops, LoopEnds(i) PROVE TicksAre'
    BY <1>5 DEF LoopEnds, TicksAre
  <1>6. CASE HandleTick
    <2>1. Take /\ pending' = pending /\ left' \in {left, 0}
      BY <1>6 DEF HandleTick, TickStopped, TickShows, TickFires, StopTimer, goroutines
    <2> QED
      BY <2>1, HeadIsATick DEF TicksAre
  <1>7. CASE Pass
    <2>1. Older(1)
      BY <1>7 DEF Pass
    <2>2. pending' \in [Loops -> Nat \cup {NoTick}]
      BY <1>7, <2>1, ClockMoves DEF Pass
    <2> QED
      BY <2>1, <2>2, ClockMoves DEF TicksAre
  <1>8. CASE Sleep
    <2>1. Older(PerSecond)
      BY <1>8 DEF Sleep
    <2>2. pending' \in [Loops -> Nat \cup {NoTick}]
      BY <1>8, <2>1, ClockMoves DEF Sleep
    <2> QED
      BY <2>1, <2>2, ClockMoves DEF TicksAre
  <1> QED
    BY <1>1, <1>2, <1>3, <1>4, <1>5, <1>6, <1>7, <1>8 DEF TimerNext

\* The button and the goroutines go with the timer.
LEMMA FormStays ==
    TimerInv /\ [TimerNext]_timerVars => FormIs' /\ OneTicker' /\ ButtonTells'
  <1> SUFFICES ASSUME TimerInv, [TimerNext]_timerVars
               PROVE  FormIs' /\ OneTicker' /\ ButtonTells'
    OBVIOUS
  <1> USE TimerConstants DEF TimerInv, FormIs, OneTicker, ButtonTells
  <1>1. CASE UNCHANGED timerVars
    BY <1>1 DEF timerVars, goroutines, form
  <1>2. ASSUME NEW v \in {Bad} \cup 0..MaxSeconds, Type(v)
        PROVE  FormIs' /\ OneTicker' /\ ButtonTells'
    <2>1. running' = None /\ running = None /\ editable' = editable /\ loop' = loop
      BY <1>2 DEF Type, goroutines
    <2>2. fields' = v /\ startable' = Valid(v) /\ v \in Int
      BY <1>2, <2>1 DEF Type, Bad
    <2>3. Valid(v) \in BOOLEAN
      BY DEF Valid
    <2>4. ButtonTells'
      BY <2>1, <2>2
    <2>5. FormIs'
      BY <2>1, <2>2, <2>3
    <2> QED
      BY <2>1, <2>4, <2>5
  <1>3. CASE TapStart \/ Submit
    <2>1. running = None /\ StartTimer /\ startable
      BY <1>3 DEF TapStart, Submit, StartTimer
    <2>2. PICK i \in Loops : running' = i /\ loop' = [loop EXCEPT ![i] = "open"]
      BY <2>1 DEF StartTimer
    <2>3. fields' = fields /\ editable' \in BOOLEAN /\ ~editable'
      BY <2>1 DEF StartTimer
    <2>4. fields \in Nat /\ startable
      BY <2>1 DEF StartTimer, Valid
    <2>5. startable' /\ startable' \in BOOLEAN
      BY <2>1, <2>4 DEF StartTimer
    <2>6. OneTicker'
      BY <2>1, <2>2
    <2>7. FormIs' /\ ButtonTells'
      BY <2>2, <2>3, <2>4, <2>5
    <2> QED
      BY <2>6, <2>7
  <1>4. CASE TapStop
    <2>1. /\ running \in Loops /\ running' = None
          /\ loop' = [loop EXCEPT ![running] = "closed"]
          /\ editable' = TRUE
      BY <1>4 DEF TapStop, StopTimer
    <2>2. fields' = fields /\ startable' = Valid(fields) /\ fields \in Int
      BY <1>4 DEF TapStop
    <2>3. Valid(fields) \in BOOLEAN
      BY DEF Valid
    <2>4. OneTicker'
      BY <2>1
    <2>5. ButtonTells'
      BY <2>1, <2>2
    <2>6. FormIs'
      BY <2>1, <2>2, <2>3
    <2> QED
      BY <2>4, <2>5, <2>6
  <1>5. ASSUME NEW i \in Loops, Relay(i) \/ LoopEnds(i)
        PROVE  FormIs' /\ OneTicker' /\ ButtonTells'
    BY <1>5 DEF Relay, LoopEnds, form
  <1>6. CASE TickStopped
    BY <1>6 DEF TickStopped, form, goroutines
  <1>7. CASE TickShows
    <2>1. LeftThen > 0 /\ LeftThen \in Int
      BY <1>7, HeadIsATick DEF TickShows, Fires
    <2>2. fields' \in Nat
      BY <1>7, <2>1, RoundedUp DEF TickShows
    <2> QED
      BY <1>7, <2>2 DEF TickShows, goroutines
  <1>8. CASE TickFires
    <2>1. /\ running \in Loops /\ running' = None
          /\ loop' = [loop EXCEPT ![running] = "closed"]
          /\ editable' = TRUE
      BY <1>8 DEF TickFires, StopTimer
    <2>2. fields' = 0 /\ ~startable' /\ startable' \in BOOLEAN
      BY <1>8 DEF TickFires
    <2>3. OneTicker'
      BY <2>1
    <2>4. ButtonTells'
      BY <2>1, <2>2 DEF Valid
    <2>5. FormIs'
      BY <2>1, <2>2
    <2> QED
      BY <2>3, <2>4, <2>5
  <1>9. CASE Pass \/ Sleep
    BY <1>9 DEF Pass, Sleep, form
  <1> QED
    BY <1>1, <1>2, <1>3, <1>4, <1>5, <1>6, <1>7, <1>8, <1>9 DEF TimerNext, HandleTick

\* No less is shown than is left, for a tick is not from the future.
LEMMA ShownStays == TimerInv /\ [TimerNext]_timerVars => ShowsEnough'
  <1> SUFFICES ASSUME TimerInv, [TimerNext]_timerVars PROVE ShowsEnough'
    OBVIOUS
  <1> USE TimerConstants DEF ShowsEnough
  <1>1. CASE UNCHANGED timerVars
    BY <1>1 DEF TimerInv, timerVars, form
  <1>2. ASSUME NEW v \in {Bad} \cup 0..MaxSeconds, Type(v) PROVE ShowsEnough'
    BY <1>2 DEF TimerInv, FormIs, Type
  <1>3. CASE TapStart \/ Submit
    <2>1. left' = fields' * PerSecond /\ fields' \in Int
      BY <1>3 DEF TapStart, Submit, StartTimer, TimerInv, FormIs
    <2>2. left' \in Int
      BY <2>1
    <2>3. \A n \in Int : n >= n
      OBVIOUS
    <2>4. fields' * PerSecond >= left'
      BY ONLY <2>1, <2>2, <2>3, Zenon
    <2> QED
      BY <2>4
  <1>4. CASE TapStop \/ TickFires
    BY <1>4 DEF TapStop, TickFires, StopTimer
  <1>5. ASSUME NEW i \in Loops, Relay(i) \/ LoopEnds(i) PROVE ShowsEnough'
    BY <1>5 DEF Relay, LoopEnds, form, TimerInv
  <1>6. CASE TickStopped
    BY <1>6 DEF TickStopped
  <1>7. CASE TickShows
    <2>1. LeftThen \in Int /\ LeftThen >= left /\ left \in Int
      BY <1>7, HeadIsATick DEF TickShows, TimerInv, TicksAre
    <2>2. fields' = Ceil(LeftThen) /\ left' = left
      BY <1>7 DEF TickShows
    <2>3. Ceil(LeftThen) * PerSecond >= LeftThen /\ Ceil(LeftThen) * PerSecond \in Int
      BY <2>1, RoundedUp
    <2> QED
      BY <2>1, <2>2, <2>3
  <1>8. CASE Pass \/ Sleep
    <2>1. fields' = fields /\ running' = running
      BY <1>8 DEF Pass, Sleep, form
    <2>2. left' \in Int /\ (left' <= left \/ left' <= 0)
      BY <1>8, ClockMoves DEF Pass, Sleep, TimerInv
    <2>3. running # None => fields * PerSecond \in Nat
      BY DEF TimerInv, FormIs
    <2>4. left \in Int
      BY DEF TimerInv, TicksAre
    <2> QED
      BY <2>1, <2>2, <2>3, <2>4 DEF TimerInv
  <1> QED
    BY <1>1, <1>2, <1>3, <1>4, <1>5, <1>6, <1>7, <1>8 DEF TimerNext, HandleTick

LEMMA TimerHolds == TimerSpec => []TimerInv
  <1>1. TimerInit => TimerInv
    <2> SUFFICES ASSUME TimerInit PROVE TimerInv
      OBVIOUS
    <2> USE TimerConstants DEF TimerInit
    <2>1. TicksAre
      BY DEF TicksAre
    <2>2. FormIs
      <3>1. startable \in BOOLEAN /\ editable \in BOOLEAN /\ (editable <=> running = None)
        OBVIOUS
      <3>2. loop \in [Loops -> {"free", "open", "closed"}]
        OBVIOUS
      <3> QED
        BY <3>1, <3>2 DEF FormIs
    <2>3. OneTicker
      BY DEF OneTicker
    <2>4. ButtonTells /\ ShowsEnough
      BY DEF ButtonTells, ShowsEnough, Valid
    <2> QED
      BY <2>1, <2>2, <2>3, <2>4 DEF TimerInv
  <1>2. TimerInv /\ [TimerNext]_timerVars => TimerInv'
    BY TicksStay, FormStays, ShownStays DEF TimerInv
  <1> QED
    BY <1>1, <1>2, PTL DEF TimerSpec

\* The goroutine of the timer that runs is the only one that was not told to end:
\* no channel is closed twice, and no ticker goes on for good (ui.go:241-279, 348).
THEOREM TickerIsOne == TimerSpec => []OneTicker
  <1>1. TimerInv => OneTicker
    BY DEF TimerInv
  <1> QED
    BY <1>1, TimerHolds, PTL

\* The button can be pressed if and only if it does something (ui_test.go:344, 372).
THEOREM ButtonIsTrue == TimerSpec => []ButtonTells
  <1>1. TimerInv => ButtonTells
    BY DEF TimerInv
  <1> QED
    BY <1>1, TimerHolds, PTL

\* No less is shown than is left, however late ticks are (ui_test.go:361).
THEOREM ShownIsEnough == TimerSpec => []ShowsEnough
  <1>1. TimerInv => ShowsEnough
    BY DEF TimerInv
  <1> QED
    BY <1>1, TimerHolds, PTL

\* The pause, X-Plane and the player leave the timer alone.
LEMMA TimerGoesOn == TimedSpec => TimerSpec
  <1>1. TimedInit => TimerInit
    BY DEF TimedInit
  <1>2. [TimedNext]_timedVars => [TimerNext]_timerVars
    BY DEF TimedNext, Timer, Pausing, GoesOn, XPlane, Samples, timedVars
  <1> QED
    BY <1>1, <1>2, PTL DEF TimedSpec, TimerSpec

\* The simulator is paused by a timer that runs, at its end or after it, and once,
\* whatever ticks are queued from before or from a timer that was stopped
\* (ui.go:312-327, "a tick already queued when Stop ran must not fire",
\* ui_test.go:400).
THEOREM PausesInTime == TimedSpec => PausesOnTime
  <1>1. TimerInv /\ [TimerNext]_timerVars =>
           [pauses' # pauses => running # None /\ left <= 0 /\ running' = None]_timerVars
    <2> SUFFICES ASSUME TimerInv, TimerNext, pauses' # pauses
                 PROVE  running # None /\ left <= 0 /\ running' = None
      OBVIOUS
    <2>1. TickFires
      BY DEF TimerNext, Type, TapStart, Submit, StartTimer, TapStop, Relay, LoopEnds,
        HandleTick, TickStopped, TickShows, Pass, Sleep
    <2>2. LeftThen <= 0 /\ LeftThen \in Int /\ LeftThen >= left /\ left \in Int
      BY <2>1, HeadIsATick DEF TickFires, Fires, TimerInv, TicksAre
    <2> QED
      BY <2>1, <2>2 DEF TickFires, StopTimer
  <1> QED
    BY <1>1, TimerGoesOn, TimerHolds, PTL DEF TimerSpec, PausesOnTime

\* With the timer, as without: a pause that does not fail leaves X-Plane paused,
\* whenever the timer asks for it and however often (ui.go:323-327, main.go:63-72).
THEOREM TimedPauseWorks ==
    ASSUME MaxStale < Zeros
    PROVE  TimedSpec => []PauseWorks
  <1>1. TimedInit => X!Init
    BY DEF TimedInit
  <1>2. [TimedNext]_timedVars => [X!Next]_X!vars
    <2>1. UNCHANGED xplane => UNCHANGED X!vars
      BY DEF xplane, X!vars, X!sim
    <2>2. X!Pause(Goroutine) => X!Next
      BY DEF X!Next
    <2> QED
      BY <2>1, <2>2 DEF TimedNext, Timer, Pausing, GoesOn, XPlane, Samples, timedVars,
        X!Next
  <1> QED
    BY <1>1, <1>2, OnePauseWorks, PTL DEF TimedSpec, X!Spec, PauseWorks
=============================================================================
