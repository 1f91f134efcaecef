--------------------------- MODULE Autodetect_proofs ---------------------------
(***************************************************************************)
(* Proofs about Autodetect, for any number of simulators, blind or not:    *)
(* the connections that are open are those that are used, and the current  *)
(* simulator is one that has answered.                                     *)
(***************************************************************************)
EXTENDS Autodetect, TLAPS

\* Resubscribe is called by a flight, which waits for it.
AskedByAFlight == ask # "idle" => flight = "flying"

\* An update that waits to be forwarded is from the flight's simulator.
Forwardable == inner => conn \in answered

\* The inductive invariant of the connections.
KeptInv == AskedByAFlight /\ NoneIsKept

\* That of the choice.
AnsweredInv == Forwardable /\ CurrentAnswered

-----------------------------------------------------------------------------
LEMMA KeptStarts == Init => KeptInv
  BY DEF Init, KeptInv, AskedByAFlight, NoneIsKept

\* Each step of a flight, and of its Resubscribe, closes what it leaves.
LEMMA KeptKeeps == KeptInv /\ [Next]_vars => KeptInv'
  <1> SUFFICES ASSUME KeptInv, [Next]_vars PROVE KeptInv'
    OBVIOUS
  <1> USE DEF KeptInv, AskedByAFlight, NoneIsKept
  <1>1. ASSUME UNCHANGED <<open, conn, closed, flight, ask, probing>> PROVE KeptInv'
    BY <1>1
  <1>2. CASE Flying
    <2>1. CASE Open \/ OpenFails
      BY <1>2, <2>1 DEF Flying, Open, OpenFails, link, coordinator
    <2>2. CASE OpenSucceeds
      BY <1>2, <2>2 DEF Flying, OpenSucceeds, Opened, coordinator
    <2>3. CASE Hear \/ Forward
      BY <1>1, <1>2, <2>3 DEF Flying, Hear, Forward, place, coordinator
    <2>4. CASE EndFlight
      BY <1>2, <2>4 DEF Flying, EndFlight, place, coordinator
    <2>5. CASE FlightReturns
      BY <1>2, <2>5 DEF Flying, FlightReturns, coordinator
    <2> QED
      BY <1>2, <2>1, <2>2, <2>3, <2>4, <2>5 DEF Flying
  <1>3. CASE Resubscribing
    <2>1. CASE Ask \/ Look \/ Again \/ ProbeFails
      BY <1>3, <2>1 DEF Ask, Look, Again, ProbeFails, fly, link, place
    <2>2. CASE ProbeOpens
      BY <2>2 DEF ProbeOpens, fly, link, place
    <2>3. CASE MakeWay
      <3>1. open \subseteq {<<"probe", probing>>, <<"flight", conn>>}
        BY <2>3 DEF MakeWay, MadeWay
      <3>2. open' = {} /\ ask' = "idle" /\ closed' = TRUE
        BY <2>3, <3>1 DEF MakeWay, MadeWay
      <3> QED
        BY <3>2
    <2> QED
      BY <1>3, <2>1, <2>2, <2>3 DEF Resubscribing, Asking
  <1>4. CASE Pausing \/ (\E s \in Sims : ChangeSim(s)) \/ UNCHANGED vars
    BY <1>1, <1>4 DEF Pausing, ChangeSim, vars, fly, link, place, coordinator
  <1> QED
    BY <1>2, <1>3, <1>4 DEF Next

\* No connection is open but the one of the flight that goes on and the probe
\* Resubscribe is at, however flights end (autodetect.go:30-41, 89-103).
THEOREM NoConnectionIsKept == Spec => []NoneIsKept
  <1>1. KeptInv => NoneIsKept
    BY DEF KeptInv
  <1> QED
    BY <1>1, KeptStarts, KeptKeeps, PTL DEF Spec

-----------------------------------------------------------------------------
LEMMA AnsweredStarts == Init => AnsweredInv
  BY DEF Init, AnsweredInv, Forwardable, CurrentAnswered

\* What becomes the current simulator was heard, or confirmed the pause.
LEMMA AnsweredKeeps == AnsweredInv /\ [Next]_vars => AnsweredInv'
  <1> SUFFICES ASSUME AnsweredInv, [Next]_vars PROVE AnsweredInv'
    OBVIOUS
  <1> USE DEF AnsweredInv, Forwardable, CurrentAnswered
  <1>1. CASE Flying
    BY <1>1 DEF Flying, Open, OpenSucceeds, Opened, OpenFails, Hear, Forward, EndFlight,
      FlightReturns, link, place
  <1>2. CASE Resubscribing
    BY <1>2 DEF Resubscribing, Asking, Ask, Look, ProbeOpens, ProbeFails, MakeWay, MadeWay,
      Again, fly, link, place
  <1>3. CASE Pausing
    BY <1>3 DEF Pausing, PauseBegins, PauseWorks, PauseFails, fly, link
  <1>4. CASE (\E s \in Sims : ChangeSim(s)) \/ UNCHANGED vars
    BY <1>4 DEF ChangeSim, vars, fly, link
  <1> QED
    BY <1>1, <1>2, <1>3, <1>4 DEF Next

\* The current simulator has sent something or confirmed a pause, whichever of
\* the pump and the pauses chose it last (autodetect.go:52-60, 116-118).
THEOREM TheCurrentAnswered == Spec => []CurrentAnswered
  <1>1. AnsweredInv => CurrentAnswered
    BY DEF AnsweredInv
  <1> QED
    BY <1>1, AnsweredStarts, AnsweredKeeps, PTL DEF Spec
=============================================================================
