-------------------------- MODULE XPlaneSubscription --------------------------
(***************************************************************************)
(* The connection to X-Plane: Open, Resubscribe and Close of               *)
(* internal/xplane/sim.go over internal/xplane/rref.go.                    *)
(*                                                                         *)
(* A subscription is a UDP packet per dataref, written in the order the    *)
(* map is walked in that time. Open writes them before the flight starts;  *)
(* the coordinator writes them again when nothing is heard; Close takes    *)
(* them back, in the goroutine of fly and while the coordinator may still  *)
(* be writing, or begin to: its select may take a silence tick when its    *)
(* context is done already. X-Plane handles what arrives in order, and     *)
(* starts with no subscription.                                            *)
(***************************************************************************)
EXTENDS Naturals, FiniteSets, Sequences

CONSTANTS
    Datarefs,       \* those the tracker subscribes to
    MaxInbox        \* bound: packets X-Plane has not handled

ASSUME XPlaneSubscriptionAssumption ==
    IsFiniteSet(Datarefs) /\ MaxInbox \in Nat

Packet == [freq : {0, 1}, dataref : Datarefs]

VARIABLES
    up,         \* X-Plane runs
    inbox,      \* packets it has not handled
    subscribed, \* the datarefs it sends, to this socket
    opening,    \* datarefs Open has yet to subscribe
    asking,     \* datarefs Resubscribe has yet to
    closing,    \* datarefs Close has yet to unsubscribe
    phase,      \* fly: "opening", "flying", "closing", or
                \* "closed" with the socket
    crossed     \* history: Resubscribe and Close were under way together

sim == <<up, inbox, subscribed>>
conn == <<opening, asking, closing, phase, crossed>>
vars == <<sim, conn>>

-----------------------------------------------------------------------------
Init ==
    /\ up \in BOOLEAN /\ inbox = <<>> /\ subscribed = {}
    /\ opening = Datarefs /\ asking = {} /\ closing = {}
    /\ phase = "opening" /\ crossed = FALSE

\* WriteToUDP; nobody hears it if X-Plane does not run.
Write(freq, d) ==
    /\ Len(inbox) < MaxInbox
    /\ inbox' = IF up THEN Append(inbox, [freq |-> freq, dataref |-> d]) ELSE inbox
    /\ UNCHANGED <<up, subscribed>>

\* subscribe, from Open.
OpenWrites(d) ==
    /\ d \in opening
    /\ Write(1, d)
    /\ opening' = opening \ {d}
    /\ phase' = IF opening' = {} THEN "flying" ELSE "opening"
    /\ UNCHANGED <<asking, closing, crossed>>

\* Packets come in: the coordinator asks again when none does. They also cease
\* to come while X-Plane loads.
Heard == up /\ subscribed # {}

Closing == phase = "closing"

\* The coordinator is not waited for before Close, but after. On a socket that is
\* closed it asks in vain.
Resubscribe ==
    /\ phase # "opening"
    /\ asking = {} /\ asking' = Datarefs
    /\ crossed' = (crossed \/ Closing)
    /\ UNCHANGED <<sim, opening, closing, phase>>

\* Mutant of AskFreq: it asks for no data at all.
AskFreqZero == 0

\* subscribeHz
AskFreq == 1

\* subscribe, from Resubscribe; it gives up on the first write that fails.
AskWrites(d) ==
    /\ d \in asking
    /\ \/ phase # "closed" /\ Write(AskFreq, d) /\ asking' = asking \ {d}
       \/ phase = "closed" /\ asking' = {} /\ UNCHANGED sim
    /\ UNCHANGED <<opening, closing, phase, crossed>>

\* fly closes the connection when its context ends, whatever the others do.
Close ==
    /\ phase = "flying" /\ phase' = "closing"
    /\ closing' = Datarefs
    /\ crossed' = (asking # {})
    /\ UNCHANGED <<sim, opening, asking>>

\* Mutant of LeftToClose: the last dataref is forgotten.
LeftToCloseButOne(d) == IF Cardinality(closing) = 2 THEN {} ELSE closing \ {d}

LeftToClose(d) == closing \ {d}

\* unsubscribe.
CloseWrites(d) ==
    /\ d \in closing
    /\ Write(0, d)
    /\ closing' = LeftToClose(d)
    /\ UNCHANGED <<opening, asking, phase, crossed>>

CloseSocket ==
    /\ phase = "closing" /\ closing = {} /\ phase' = "closed"
    /\ UNCHANGED <<sim, opening, asking, closing, crossed>>

-----------------------------------------------------------------------------
Handle ==
    /\ inbox # <<>>
    /\ inbox' = Tail(inbox)
    /\ subscribed' = IF Head(inbox).freq = 0
                        THEN subscribed \ {Head(inbox).dataref}
                        ELSE subscribed \cup {Head(inbox).dataref}
    /\ UNCHANGED <<up, conn>>

StartSim == ~up /\ up' = TRUE /\ UNCHANGED <<inbox, subscribed, conn>>

QuitSim ==
    /\ up /\ up' = FALSE
    /\ inbox' = <<>> /\ subscribed' = {}
    /\ UNCHANGED conn

Connection ==
    \/ \E d \in Datarefs : OpenWrites(d) \/ AskWrites(d) \/ CloseWrites(d)
    \/ CloseSocket

Next ==
    \/ Connection
    \/ Resubscribe
    \/ Close
    \/ Handle
    \/ StartSim
    \/ QuitSim

Spec == Init /\ [][Next]_vars

\* Writes do not block, X-Plane handles what arrives, and the coordinator asks
\* again as long as it hears nothing (SilenceIsAnswered of CoordinatorClock).
Fairness ==
    /\ WF_vars(Connection)
    /\ WF_vars(Handle)
    /\ WF_vars(phase = "flying" /\ ~Heard /\ Resubscribe)

FairSpec == Spec /\ Fairness

-----------------------------------------------------------------------------
\* Every variable holds what its declaration says.
TypeOK ==
    /\ {up, crossed} \subseteq BOOLEAN
    /\ inbox \in Seq(Packet) /\ Len(inbox) <= MaxInbox
    /\ {subscribed, opening, asking, closing} \subseteq SUBSET Datarefs
    /\ phase \in {"opening", "flying", "closing", "closed"}

Over == phase = "closed" /\ inbox = <<>>

\* A flight that ends, and while it closes the connection nobody is asking again
\* or begins to, leaves nothing subscribed, however often X-Plane or a silence
\* made the tracker ask before (sim.go:47-61, coordinator.go:57-79).
LeavesNothing == Over /\ ~crossed => subscribed = {}

\* An X-Plane that is started, or restarted, during a flight is heard in the
\* end, unless it quits again or the flight ends (coordinator.go:70-79).
IsHeardAgain == (phase = "flying" /\ up) ~> (Heard \/ ~up \/ phase # "flying")
-----------------------------------------------------------------------------
\* "still subscribed, X-Plane would keep sending" (session_test.go:385): it
\* does when Resubscribe writes a dataref after Close took it back, whether it
\* began before Close (sim.go:47, 55) or once the context was done (coordinator.go:
\* 57-79, session.go:98-99).
NeverLeft == Over => subscribed = {}
=============================================================================
