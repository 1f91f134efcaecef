--------------------------- MODULE TrackerCrossing ---------------------------
(***************************************************************************)
(* Tracker, and whether a login was ever under way together with another   *)
(* one or with the end of a session: what holds until then.                *)
(***************************************************************************)
EXTENDS Tracker

VARIABLE straggler  \* history: it was

LoggingIn == {l \in Logins : login[l] \notin {"idle", "done"}}

\* Ends of sessions that are under way, from the tap or the refusal on.
SigningOut(p) == p \in SignOutGoroutines /\ pc[p] \notin {"idle", "done"}
Ending ==
    {p \in Goroutines :
        /\ SigningOut(p) \/ pc[p] \in {"detach", "cancel", "clear", "remove", "show_out"}
        /\ goal[p] = "clear"}

Overlap == LoggingIn # {} /\ (Ending # {} \/ Cardinality(LoggingIn) > 1)

CrossingInit == Init /\ straggler = FALSE

CrossingNext == Next /\ straggler' = (straggler \/ Overlap')

CrossingSpec == CrossingInit /\ [][CrossingNext]_<<vars, straggler>>

FairCrossingSpec == CrossingSpec /\ Fairness

-----------------------------------------------------------------------------
\* Nothing is under way that changes who is signed in.
Settled ==
    /\ LoggingIn = {}
    /\ \A p \in Goroutines :
          /\ ~SigningOut(p)
          /\ pc[p] \notin {"detach", "cancel", "clear", "remove", "show_out", "upgrade"}
    /\ pc[Shutdown] = "idle"

\* When nothing is under way the screen and the session that runs agree: the
\* buttons offer what can be done (tracker.go:135-136, 214-224). So it is as
\* long as no login crosses another one or the end of a session, which nothing
\* in the code prevents.
InStep ==
    Settled /\ ~straggler =>
        IF running # None
           THEN logout /\ button = "hidden"
           ELSE upgrade \/ (~logout /\ button = "enabled")
=============================================================================
