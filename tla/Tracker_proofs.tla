---------------------------- MODULE Tracker_proofs ----------------------------
(***************************************************************************)
(* Proofs about Tracker, for any number of logins, sign-outs, sessions and *)
(* events: no session runs that nobody can stop.                           *)
(*                                                                         *)
(* The argument is that a session changes hands and is never let go of:    *)
(* startSession gives it to t.stop, Detach takes it from there into the    *)
(* hands of a goroutine that stands before the call of stop, and only that *)
(* call takes it from those. What else the goroutines do leaves the hands  *)
(* alone that hold one. A session that is begun finds t.stop empty, and    *)
(* the goroutine that becomes its loop was none before.                    *)
(***************************************************************************)
EXTENDS TrackerCrossing, TLAPS, FiniteSetTheorems

\* Numbers and functions, so far as the argument needs them.
Shape ==
    /\ started \in Nat
    /\ running \in Nat
    /\ pc = [p \in Goroutines |-> pc[p]]
    /\ held = [p \in Goroutines |-> held[p]]

\* A session that has not begun has no goroutine.
NotBegunIdle == \A n \in Sessions : n > started => pc[Session(n)] = "idle"

\* The inductive invariant.
IInv == Shape /\ NotBegunIdle /\ NoOrphan

-----------------------------------------------------------------------------
\* The goroutines by their names.
LEMMA Names ==
    /\ \A n \in Sessions : Session(n) \in Goroutines
    /\ \A n \in SignOuts : SignOut(n) \in Goroutines
    /\ Check \in Goroutines /\ Shutdown \in Goroutines
    /\ \A n, k \in Sessions : Session(n) = Session(k) => n = k
    /\ \A n \in Sessions, k \in SignOuts : Session(n) # SignOut(k)
    /\ \A n \in Sessions : Session(n) # Check /\ Session(n) # Shutdown
  BY DEF Goroutines, SessionGoroutines, SignOutGoroutines, Session, SignOut, Check,
      Shutdown

\* A goroutine on its way through Token changes nothing else but the store.
CallGoesOn(p) ==
    /\ pc[p] \in {"run", "token", "save", "write"}
    /\ \E place \in {"run", "save", "write", "revoke"} : pc' = [pc EXCEPT ![p] = place]
    /\ UNCHANGED <<sessions, ends, login, api, screen>>

LEMMA TokenGoesOn ==
    ASSUME NEW p \in SessionGoroutines \cup SignOutGoroutines, TokenStep(p)
    PROVE  CallGoesOn(p)
  BY DEF TokenStep, TokenKept, Compare, NoteToken, WriteToken, CallGoes, Calling, Answering,
    CallGoesOn

\* A goroutine that has begun, or is no session's, and does not stand before
\* the call of stop, goes somewhere: nothing else of the argument changes.
LEMMA Walks ==
    ASSUME IInv, NEW p \in Goroutines, NEW place,
           pc[p] # "cancel",
           p \in SessionGoroutines => pc[p] # "idle",
           pc' = [pc EXCEPT ![p] = place],
           held' = held, UNCHANGED <<running, started, cancelled>>
    PROVE  IInv'
  <1>1. Shape'
    BY DEF IInv, Shape
  <1>2. \A q \in Goroutines : q # p => pc'[q] = pc[q]
    BY DEF IInv, Shape
  <1>3. NotBegunIdle'
    <2> SUFFICES ASSUME NEW n \in Sessions, n > started PROVE pc'[Session(n)] = "idle"
      BY DEF NotBegunIdle
    <2>1. pc[Session(n)] = "idle"
      BY DEF IInv, NotBegunIdle
    <2>2. Session(n) # p
      BY <2>1 DEF SessionGoroutines
    <2> QED
      BY <1>2, <2>1, <2>2, Names
  <1>4. NoOrphan'
    BY <1>2 DEF IInv, NoOrphan
  <1> QED
    BY <1>1, <1>3, <1>4 DEF IInv

\* The goroutines stay where they are, and so does all the argument is about.
LEMMA Stands ==
    ASSUME IInv, pc' = pc, held' = held, UNCHANGED <<running, started, cancelled>>
    PROVE  IInv'
  BY DEF IInv, Shape, NotBegunIdle, NoOrphan

\* startSession: the session is given to t.stop, which is empty.
LEMMA Begins ==
    ASSUME IInv, NEW l \in Logins, StartSession(l)
    PROVE  IInv'
  <1> DEFINE new == started + 1
  <1>1. /\ running = 0 /\ new \in Sessions
        /\ started' = new /\ running' = new
        /\ pc' = [pc EXCEPT ![Session(new)] = "run"]
        /\ held' = held /\ cancelled' = cancelled
    BY TrackerAssumption DEF StartSession, Begin, IInv, Shape, ends, None, Sessions,
      TrackerAssumption
  <1>2. pc[Session(new)] = "idle"
    BY <1>1 DEF IInv, NotBegunIdle, Shape
  <1>3. Shape'
    BY <1>1 DEF IInv, Shape
  <1>4. \A q \in Goroutines : q # Session(new) => pc'[q] = pc[q]
    BY <1>1 DEF IInv, Shape
  <1>5. NotBegunIdle'
    <2> SUFFICES ASSUME NEW n \in Sessions, n > new PROVE pc'[Session(n)] = "idle"
      BY <1>1 DEF NotBegunIdle
    <2>1. n > started /\ n # new
      BY DEF IInv, Shape, Sessions
    <2>2. Session(n) # Session(new)
      BY <2>1, <1>1, Names
    <2> QED
      BY <1>4, <2>1, <2>2, Names DEF IInv, NotBegunIdle
  <1>6. NoOrphan'
    <2> SUFFICES ASSUME NEW n \in 1..new
                 PROVE  \/ n \in cancelled \/ n = new
                        \/ \E p \in Goroutines : pc'[p] = "cancel" /\ held[p] = n
      BY <1>1 DEF NoOrphan
    <2>1. CASE n = new
      BY <2>1
    <2>2. CASE n # new
      <3>1. n \in 1..started /\ n # running
        BY <2>2, <1>1 DEF IInv, Shape
      <3>2. n \in cancelled \/ \E p \in Goroutines : pc[p] = "cancel" /\ held[p] = n
        BY <3>1 DEF IInv, NoOrphan
      <3> QED
        BY <3>2, <1>2, <1>4
    <2> QED
      BY <2>1, <2>2
  <1> QED
    BY <1>3, <1>5, <1>6 DEF IInv

\* A goroutine takes the session from t.stop.
LEMMA Detaches ==
    ASSUME IInv, NEW p \in Goroutines, Detach(p)
    PROVE  IInv'
  <1>1. /\ pc[p] = "detach"
        /\ pc' = [pc EXCEPT ![p] = "cancel"]
        /\ held' = [held EXCEPT ![p] = running]
        /\ running' = 0
        /\ started' = started /\ cancelled' = cancelled
    BY DEF Detach, None
  <1>2. Shape'
    BY <1>1 DEF IInv, Shape
  <1>3. /\ pc'[p] = "cancel" /\ held'[p] = running
        /\ \A q \in Goroutines : q # p => pc'[q] = pc[q] /\ held'[q] = held[q]
    BY <1>1 DEF IInv, Shape
  <1>4. NotBegunIdle'
    <2> SUFFICES ASSUME NEW n \in Sessions, n > started PROVE pc'[Session(n)] = "idle"
      BY <1>1 DEF NotBegunIdle
    <2> QED
      BY <1>1, <1>3, Names DEF IInv, NotBegunIdle
  <1>5. NoOrphan'
    BY <1>1, <1>3 DEF IInv, NoOrphan
  <1> QED
    BY <1>2, <1>4, <1>5 DEF IInv

\* It calls stop, on what it took.
LEMMA Cancels ==
    ASSUME IInv, NEW p \in Goroutines, Cancel(p)
    PROVE  IInv'
  <1>1. /\ pc[p] = "cancel"
        /\ pc' = [pc EXCEPT ![p] = goal[p]]
        /\ held' = [held EXCEPT ![p] = 0]
        /\ cancelled' = cancelled \cup ({held[p]} \ {0})
        /\ started' = started /\ running' = running
    BY DEF Cancel, StopCalled, None
  <1>2. Shape'
    BY <1>1 DEF IInv, Shape
  <1>3. \A q \in Goroutines : q # p => pc'[q] = pc[q] /\ held'[q] = held[q]
    BY <1>1 DEF IInv, Shape
  <1>4. NotBegunIdle'
    <2> SUFFICES ASSUME NEW n \in Sessions, n > started PROVE pc'[Session(n)] = "idle"
      BY <1>1 DEF NotBegunIdle
    <2> QED
      BY <1>1, <1>3, Names DEF IInv, NotBegunIdle
  <1>5. NoOrphan'
    <2> SUFFICES ASSUME NEW n \in 1..started
                 PROVE  \/ n \in cancelled' \/ n = running
                        \/ \E q \in Goroutines : pc'[q] = "cancel" /\ held'[q] = n
      BY <1>1 DEF NoOrphan
    <2>1. n # 0
      BY DEF IInv, Shape
    <2>2. CASE held[p] = n
      BY <2>1, <2>2, <1>1
    <2>3. CASE held[p] # n
      BY <2>3, <1>1, <1>3 DEF IInv, NoOrphan
    <2> QED
      BY <2>2, <2>3
  <1> QED
    BY <1>2, <1>4, <1>5 DEF IInv

\* A sign-out begins, with the client of the session in its hands; what it
\* stands before is not the call of stop.
LEMMA SignsOut ==
    ASSUME IInv, NEW k \in SignOuts, TapSignOut(k)
    PROVE  IInv'
  <1> DEFINE p == SignOut(k)
             place == IF running = None THEN "detach" ELSE "token"
  <1>1. /\ p \in Goroutines
        /\ pc[p] = "idle"
        /\ pc' = [pc EXCEPT ![p] = place]
        /\ held' = [held EXCEPT ![p] = running]
        /\ started' = started /\ running' = running /\ cancelled' = cancelled
    BY Names DEF TapSignOut, sessions
  <1>2. Shape'
    BY <1>1 DEF IInv, Shape
  <1>3. \A q \in Goroutines : q # p => pc'[q] = pc[q] /\ held'[q] = held[q]
    BY <1>1 DEF IInv, Shape
  <1>4. NotBegunIdle'
    <2> SUFFICES ASSUME NEW n \in Sessions, n > started PROVE pc'[Session(n)] = "idle"
      BY <1>1 DEF NotBegunIdle
    <2> QED
      BY <1>3, Names DEF IInv, NotBegunIdle
  <1>5. NoOrphan'
    BY <1>1, <1>3 DEF IInv, NoOrphan
  <1> QED
    BY <1>2, <1>4, <1>5 DEF IInv

-----------------------------------------------------------------------------
\* No session runs before the first state has one, and that is t.stop's.
LEMMA Starts == Init => IInv
  <1> SUFFICES ASSUME Init PROVE IInv
    OBVIOUS
  <1>1. started = running /\ running \in {0, 1}
    BY DEF Init, None
  <1>2. Shape
    BY <1>1 DEF Init, Shape
  <1>3. NotBegunIdle
    <2> SUFFICES ASSUME NEW n \in Sessions, n > started PROVE pc[Session(n)] = "idle"
      BY DEF NotBegunIdle
    <2>1. Session(n) # Session(running) /\ Session(n) # Check
      BY <1>1 DEF Session, Check, Sessions
    <2> QED
      BY <2>1, Names DEF Init
  <1>4. NoOrphan
    BY <1>1 DEF NoOrphan
  <1> QED
    BY <1>2, <1>3, <1>4 DEF IInv

\* Each action is one of those above, or moves a goroutine that is at another
\* place, or none.
LEMMA Keeps == IInv /\ [Next]_vars => IInv'
  <1> SUFFICES ASSUME IInv, [Next]_vars PROVE IInv'
    OBVIOUS
  <1>1. ASSUME NEW l \in Logins, TapLogin(l) \/ LoginStep(l) PROVE IInv'
    <2>1. CASE StartSession(l)
      BY <2>1, Begins
    <2>2. CASE ~StartSession(l)
      <3>1. pc' = pc /\ held' = held /\ UNCHANGED <<running, started, cancelled>>
        BY <1>1, <2>2 DEF TapLogin, LoginStep, LoginSucceeds, LoginFails,
          ShowLoginFailed, LoginNotes, LoginWrites, KeepSession, sessions, ends
      <3> QED
        BY <3>1, Stands
    <2> QED
      BY <2>1, <2>2
  <1>2. ASSUME NEW k \in SignOuts, TapSignOut(k) \/ Revoke(k) \/ RevokeReturns(k) PROVE IInv'
    <2>1. CASE TapSignOut(k)
      BY <2>1, SignsOut
    <2>2. CASE Revoke(k)
      BY <2>2, Stands DEF Revoke, sessions, ends
    <2>3. CASE RevokeReturns(k)
      BY <2>3, Walks, Names DEF RevokeReturns, Moves, sessions, ends
    <2> QED
      BY <1>2, <2>1, <2>2, <2>3
  <1>3. ASSUME NEW p \in Goroutines, EndStep(p) PROVE IInv'
    <2>1. CASE Detach(p)
      BY <2>1, Detaches
    <2>2. CASE Cancel(p)
      BY <2>2, Cancels
    <2>3. CASE ClearNote(p) \/ ClearPrefs(p)
      BY <2>3, Walks DEF ClearNote, ClearPrefs, sessions, ends
    <2>4. CASE ShowEnd(p)
      BY <2>4, Walks DEF ShowEnd, sessions, ends
    <2> QED
      BY <1>3, <2>1, <2>2, <2>3, <2>4 DEF EndStep
  <1>4. ASSUME NEW n \in Sessions, Refused(n) \/ RenewalFails(n) \/ Leave(n)
        PROVE  IInv'
    <2>1. CASE Refused(n)
      BY <2>1, Walks, Names DEF Refused, Calls, Enter, sessions
    <2>2. CASE RenewalFails(n)
      BY <2>2, Walks, Names DEF RenewalFails, Calls, Enter, sessions
    <2>3. CASE Leave(n)
      BY <2>3, Walks, Names DEF Leave, Moves, sessions, ends
    <2> QED
      BY <1>4, <2>1, <2>2, <2>3
  <1>5. ASSUME CheckRefused \/ CheckPassed PROVE IInv'
    BY <1>5, Walks, Names DEF CheckRefused, CheckPassed, Enter, Moves, sessions, ends
  <1>6. ASSUME Quit \/ Quitted PROVE IInv'
    <2>1. Shutdown \notin SessionGoroutines
      BY Names DEF SessionGoroutines
    <2> QED
      BY <1>6, <2>1, Walks, Names DEF Quit, Quitted, Enter, Moves, sessions, ends
  <1>7. ASSUME Withdraw \/ DropVersion \/ UNCHANGED vars PROVE IInv'
    BY <1>7, Stands DEF Withdraw, DropVersion, vars, sessions, ends
  <1>8. ASSUME NEW p \in SessionGoroutines \cup SignOutGoroutines, TokenStep(p)
        PROVE  IInv'
    <2>1. CallGoesOn(p)
      BY <1>8, TokenGoesOn
    <2>2. p \in Goroutines
      BY DEF Goroutines
    <2> QED
      BY <2>1, <2>2, Walks DEF CallGoesOn, sessions, ends
  <1> QED
    BY <1>1, <1>2, <1>3, <1>4, <1>5, <1>6, <1>7, <1>8 DEF Next, Step, Finished

\* Sessions, their goroutines and those that stop them always fit together.
LEMMA Invariant == Spec => []IInv
  BY Starts, Keeps, PTL DEF Spec

\* However logins, sign-outs, refusals and the end of the program cross each
\* other, each session that was started is cancelled, or is t.stop's, or a
\* goroutine is about to cancel it (tracker.go:159-170, 203-212).
THEOREM NobodyIsOrphaned == Spec => []NoOrphan
  <1>1. IInv => NoOrphan
    BY DEF IInv
  <1> QED
    BY <1>1, Invariant, PTL

-----------------------------------------------------------------------------
\* A tracker that the API no longer serves never offers to log in again, however
\* late the ends of logins and sessions are shown (ui.go:379-386).
THEOREM UpgradeStays == Spec => []UpgradeForGood
  <1>1. Init => UpgradeForGood
    BY DEF Init, UpgradeForGood
  <1>2. UpgradeForGood /\ [Next]_vars => UpgradeForGood'
    <2> SUFFICES ASSUME UpgradeForGood, [Next]_vars PROVE UpgradeForGood'
      OBVIOUS
    <2>1. \/ SigningInShown \/ SignedInShown \/ SignedOutShown \/ UnsupportedShown
          \/ UNCHANGED screen
      BY DEF Next, Step, Finished, vars, TapLogin, LoginStep, LoginSucceeds, LoginFails,
        ShowLoginFailed, LoginNotes, LoginWrites, StartSession, Begin, KeepSession,
        TapSignOut, Revoke, RevokeReturns, EndStep, Detach, Cancel, ClearNote, ClearPrefs,
        ShowEnd, Refused, RenewalFails, TokenStep, TokenKept, Compare, NoteToken, WriteToken,
        CallGoes, Leave, CheckRefused, CheckPassed, Quit, Quitted, Withdraw, DropVersion,
        Moves, Enter
    <2> QED
      BY <2>1 DEF SigningInShown, SignedInShown, SignedOutShown, UnsupportedShown, screen,
        UpgradeForGood
  <1> QED
    BY <1>1, <1>2, PTL DEF Spec
-----------------------------------------------------------------------------
(***************************************************************************)
(* The screen, for any number of logins, sign-outs and sessions as well:   *)
(* when nothing is under way it agrees with the session.                   *)
(*                                                                         *)
(* Two things have to be known. Whoever leaves the screen behind is still  *)
(* to show something (ShownSoon); this does not depend on what crossed     *)
(* what. And whoever shows that nobody is signed in does so with no        *)
(* session running (OneAtATime); this does.                                *)
(***************************************************************************)
\* Where a goroutine stands that took a session from t.stop and has not shown so.
Ends == {"cancel", "clear", "remove", "show_out", "upgrade"}

\* What comes after stopSession is decided before it, and by Shutdown alone that
\* it is nothing.
Goals ==
    /\ goal = [p \in Goroutines |-> goal[p]]
    /\ login = [l \in Logins |-> login[l]]
    /\ \A p \in Goroutines :
          /\ goal[p] \in {"clear", "upgrade", "await"}
          /\ p # Shutdown => goal[p] # "await"
          /\ pc[p] \notin {"detach", "cancel"} => goal[p] = "clear"

\* With no session, the screen offers to log in, or somebody will have it do so,
\* or the tracker is out of date, or the program ends.
ShownSoon ==
    running = None /\ pc[Shutdown] = "idle" =>
        \/ upgrade
        \/ LoggingIn # {}
        \/ \E p \in Goroutines : pc[p] \in Ends
        \/ ~logout /\ button = "enabled"

\* With no crossing so far, a session is shown and nobody logs in beside it, and
\* none begins before the end of the last one has been shown.
OneAtATime ==
    ~straggler =>
        /\ ~Overlap
        /\ running # None => logout /\ button = "hidden" /\ LoggingIn = {}
        /\ \A p \in Goroutines :
              pc[p] \in {"cancel", "clear", "remove", "show_out"} /\ goal[p] = "clear" => running = None

\* The inductive invariant.
ScreenInv == Goals /\ ShownSoon /\ OneAtATime

\* A goroutine goes on that has taken nothing from t.stop yet, or never will. If
\* it goes on to stopSession, it says what for.
Elsewhere(p) ==
    /\ pc[p] \in {"idle", "token", "save", "write", "revoke", "run", "ask", "await"}
    /\ \E place \in {"token", "save", "write", "revoke", "run", "detach", "done", "gone"} :
          /\ pc' = [pc EXCEPT ![p] = place]
          /\ \/ goal' = goal
             \/ /\ place = "detach"
                /\ \E what \in {"clear", "upgrade", "await"} :
                      /\ goal' = [goal EXCEPT ![p] = what]
                      /\ what = "await" => p = Shutdown
    /\ UNCHANGED <<running, login, screen>>

\* What the steps are to the screen.
LEMMA ScreenSteps ==
    ASSUME [Next]_vars
    PROVE  \/ \E l \in Logins : TapLogin(l) \/ LoginStep(l)
           \/ \E p \in Goroutines : EndStep(p)
           \/ \E p \in Goroutines : Elsewhere(p)
           \/ UNCHANGED <<running, pc, goal, login, screen>>
  <1>1. CASE UNCHANGED vars
    BY <1>1 DEF vars, sessions, ends
  <1>2. ASSUME NEW k \in SignOuts, TapSignOut(k) \/ Revoke(k) \/ RevokeReturns(k)
        PROVE  Elsewhere(SignOut(k)) \/ UNCHANGED <<running, pc, goal, login, screen>>
    BY <1>2 DEF TapSignOut, Revoke, RevokeReturns, Moves, Elsewhere, sessions, ends
  <1>3. ASSUME NEW n \in Sessions, Refused(n) \/ RenewalFails(n) \/ Leave(n)
        PROVE  Elsewhere(Session(n))
    BY <1>3 DEF Refused, RenewalFails, Leave, Calls, Enter, Moves, Elsewhere, sessions, ends
  <1>4. ASSUME CheckRefused \/ CheckPassed PROVE Elsewhere(Check)
    BY <1>4 DEF CheckRefused, CheckPassed, Enter, Moves, Elsewhere, sessions, ends
  <1>5. ASSUME Quit \/ Quitted PROVE Elsewhere(Shutdown)
    BY <1>5 DEF Quit, Quitted, Enter, Moves, Elsewhere, sessions, ends
  <1>6. ASSUME Withdraw \/ DropVersion
        PROVE  UNCHANGED <<running, pc, goal, login, screen>>
    BY <1>6 DEF Withdraw, DropVersion, sessions, ends
  <1>7. ASSUME NEW p \in SessionGoroutines \cup SignOutGoroutines, TokenStep(p)
        PROVE  p \in Goroutines /\ Elsewhere(p)
    BY <1>7, TokenGoesOn DEF CallGoesOn, Elsewhere, Goroutines, sessions, ends
  <1> QED
    BY <1>1, <1>2, <1>3, <1>4, <1>5, <1>6, <1>7, Names DEF Next, Step, Finished

\* Two logins, or one and the end of a session: if none are together, one that is
\* under way is alone.
LEMMA Alone ==
    ASSUME NEW l \in LoggingIn, ~Overlap
    PROVE  LoggingIn = {l} /\ Ending = {}
  <1>1. IsFiniteSet(LoggingIn)
    <2>1. IsFiniteSet(Logins)
      BY FS_Interval, TrackerAssumption DEF Logins, TrackerAssumption
    <2> QED
      BY <2>1, FS_Subset DEF LoggingIn
  <1>2. Ending = {} /\ ~(Cardinality(LoggingIn) > 1)
    BY DEF Overlap
  <1>3. IsFiniteSet(LoggingIn \ {l}) /\ Cardinality(LoggingIn \ {l}) = Cardinality(LoggingIn) - 1
    BY <1>1, FS_RemoveElement
  <1>4. Cardinality(LoggingIn) \in Nat /\ Cardinality(LoggingIn \ {l}) \in Nat
    BY <1>1, <1>3, FS_CardinalityType
  <1>5. Cardinality(LoggingIn \ {l}) = 0
    BY <1>2, <1>3, <1>4
  <1>6. LoggingIn \ {l} = {}
    BY <1>3, <1>5, FS_EmptySet
  <1> QED
    BY <1>2, <1>6

\* A step of a login finds it under way, and changes none but it.
LEMMA LoginStepOf ==
    ASSUME Goals, NEW l \in Logins, LoginStep(l)
    PROVE  /\ l \in LoggingIn
           /\ goal' = goal
           /\ login' = [login EXCEPT ![l] = login'[l]]
           /\ ShowLoginFailed(l) \/ StartSession(l) \/ KeepSession(l) \/ l \in LoggingIn'
  BY DEF LoginStep, LoginSucceeds, LoginFails, ShowLoginFailed, LoginNotes, LoginWrites,
    StartSession, KeepSession, LoginGoes, LoggingIn, Goals, ends

\* A login begins at the button.
LEMMA TapLoginOf ==
    ASSUME Goals, NEW l \in Logins, TapLogin(l)
    PROVE  /\ button = "enabled"
           /\ pc' = pc /\ goal' = goal /\ running' = running
           /\ login' = [login EXCEPT ![l] = login'[l]]
           /\ l \in LoggingIn'
  BY DEF TapLogin, LoginGoes, LoggingIn, Goals, ends, sessions

\* A step of a login leaves the goroutines where they are, or begins one.
LEMMA LoginKeepsGoals ==
    ASSUME IInv, Goals, NEW l \in Logins, TapLogin(l) \/ LoginStep(l)
    PROVE  Goals'
  <1>1. goal' = goal /\ login' = [login EXCEPT ![l] = login'[l]]
    BY LoginStepOf, TapLoginOf
  <1>2. CASE StartSession(l)
    <2> DEFINE n == started + 1
    <2>1. n \in Sessions /\ n > started /\ pc' = [pc EXCEPT ![Session(n)] = "run"]
      BY <1>2, TrackerAssumption DEF StartSession, Begin, IInv, Shape, Sessions,
        TrackerAssumption
    <2>2. pc[Session(n)] = "idle"
      BY <2>1 DEF IInv, NotBegunIdle
    <2>3. \A p \in Goroutines : pc'[p] = pc[p] \/ pc[p] = "idle"
      BY <2>1, <2>2, Names DEF IInv, Shape
    <2> QED
      BY <1>1, <2>3 DEF Goals
  <1>3. CASE ~StartSession(l)
    <2>1. pc' = pc
      BY <1>3 DEF TapLogin, LoginStep, LoginSucceeds, LoginFails, ShowLoginFailed,
        LoginNotes, LoginWrites, KeepSession
    <2> QED
      BY <1>1, <2>1 DEF Goals
  <1> QED
    BY <1>2, <1>3

\* A step of an end leaves its goal.
LEMMA EndKeepsGoals ==
    ASSUME IInv, Goals, NEW p \in Goroutines, EndStep(p)
    PROVE  Goals'
  <1>1. \A q \in Goroutines : q # p => pc'[q] = pc[q] /\ goal'[q] = goal[q]
    BY DEF EndStep, Detach, Cancel, ClearNote, ClearPrefs, ShowEnd, IInv, Shape, Goals, ends
  <1>2. login' = login /\ goal' \in {goal, [goal EXCEPT ![p] = "clear"]}
    BY DEF EndStep, Detach, Cancel, ClearNote, ClearPrefs, ShowEnd, ends
  <1>3. goal'[p] = "clear" \/ (goal'[p] = goal[p] /\ pc'[p] = "cancel")
    BY DEF EndStep, Detach, Cancel, ClearNote, ClearPrefs, ShowEnd, IInv, Shape, Goals, ends
  <1> QED
    BY <1>1, <1>2, <1>3 DEF Goals

\* A goroutine that goes to stopSession says what for.
LEMMA ElsewhereKeepsGoals ==
    ASSUME IInv, Goals, NEW p \in Goroutines, Elsewhere(p)
    PROVE  Goals'
  <1>1. PICK place : pc' = [pc EXCEPT ![p] = place]
    BY DEF Elsewhere
  <1>2. goal[p] = "clear" /\ login' = login
    BY DEF Elsewhere, Goals
  <1>3. CASE goal' = goal
    BY <1>1, <1>2, <1>3 DEF Goals, IInv, Shape
  <1>4. CASE pc' = [pc EXCEPT ![p] = "detach"]
             /\ \E what \in {"clear", "upgrade", "await"} :
                   goal' = [goal EXCEPT ![p] = what] /\ (what = "await" => p = Shutdown)
    BY <1>2, <1>4 DEF Goals, IInv, Shape
  <1> QED
    BY <1>3, <1>4 DEF Elsewhere

-----------------------------------------------------------------------------
\* Whoever leaves the screen behind is still to show something.
LEMMA LoginKeepsShown ==
    ASSUME IInv, Goals, ShownSoon, NEW l \in Logins, TapLogin(l) \/ LoginStep(l)
    PROVE  ShownSoon'
  <1>1. CASE l \in LoggingIn'
    BY <1>1 DEF ShownSoon
  <1>2. CASE ShowLoginFailed(l)
    BY <1>2 DEF ShowLoginFailed, SignedOutShown, ShownSoon
  <1>3. CASE StartSession(l)
    BY <1>3 DEF StartSession, Begin, ShownSoon, None, IInv, Shape
  <1>4. CASE KeepSession(l)
    BY <1>4 DEF KeepSession, ShownSoon, sessions
  <1> QED
    BY <1>1, <1>2, <1>3, <1>4, LoginStepOf, TapLoginOf

\* An end takes the session away and shows so.
LEMMA EndKeepsShown ==
    ASSUME IInv, Goals, ShownSoon, NEW p \in Goroutines, EndStep(p)
    PROVE  ShownSoon'
  <1>1. CASE Detach(p)
    BY <1>1 DEF Detach, ShownSoon, Ends, IInv, Shape
  <1>2. CASE Cancel(p)
    <2>1. pc'[p] = goal[p]
      BY <1>2 DEF Cancel, IInv, Shape
    <2>2. CASE goal[p] = "await"
      BY <2>1, <2>2 DEF Goals, ShownSoon
    <2>3. CASE goal[p] # "await"
      BY <2>1, <2>3 DEF Goals, ShownSoon, Ends
    <2> QED
      BY <2>2, <2>3
  <1>3. CASE ClearNote(p) \/ ClearPrefs(p)
    BY <1>3 DEF ClearNote, ClearPrefs, ShownSoon, Ends, IInv, Shape
  <1>4. CASE ShowEnd(p)
    BY <1>4 DEF ShowEnd, SignedOutShown, UnsupportedShown, ShownSoon
  <1> QED
    BY <1>1, <1>2, <1>3, <1>4 DEF EndStep

\* What else a goroutine does takes nothing away.
LEMMA ElsewhereKeepsShown ==
    ASSUME IInv, ShownSoon, NEW p \in Goroutines, Elsewhere(p)
    PROVE  ShownSoon'
  <1>1. /\ pc[p] \notin Ends
        /\ \A q \in Goroutines : q # p => pc'[q] = pc[q]
        /\ pc'[p] # "idle"
    BY DEF Elsewhere, Ends, IInv, Shape
  <1>2. running' = running /\ LoggingIn' = LoggingIn /\ screen' = screen
    BY DEF Elsewhere, LoggingIn
  <1> QED
    BY <1>1, <1>2, Names DEF ShownSoon, screen

-----------------------------------------------------------------------------
\* A login that shows something, and the end of a session, are alone.
LEMMA LoginKeepsOne ==
    ASSUME IInv, Goals, OneAtATime, NEW l \in Logins, TapLogin(l) \/ LoginStep(l),
           ~straggler, ~Overlap'
    PROVE  OneAtATime'
  <1>1. running = None
    <2>1. CASE TapLogin(l)
      BY <2>1, TapLoginOf DEF OneAtATime
    <2>2. CASE LoginStep(l)
      BY <2>2, LoginStepOf DEF OneAtATime
    <2> QED
      BY <2>1, <2>2
  <1>2. CASE StartSession(l)
    <2>1. LoggingIn = {l} /\ Ending = {}
      BY <1>2, LoginStepOf, Alone DEF LoginStep, OneAtATime
    <2>2. LoggingIn' = {}
      BY <1>2, <2>1 DEF StartSession, LoginGoes, LoggingIn, Goals
    <2>3. logout' /\ button' = "hidden"
      BY <1>2 DEF StartSession, Begin, SignedInShown
    <2>4. \A p \in Goroutines : pc'[p] \in {pc[p], "run"} /\ goal'[p] = goal[p]
      BY <1>2 DEF StartSession, Begin, IInv, Shape, ends
    <2>5. \A p \in Goroutines :
             ~(pc'[p] \in {"cancel", "clear", "remove", "show_out"} /\ goal'[p] = "clear")
      BY <2>1, <2>4 DEF Ending
    <2> QED
      BY <2>2, <2>3, <2>5 DEF OneAtATime
  <1>3. CASE ~StartSession(l)
    <2>1. running' = None
      BY <1>1, <1>3 DEF TapLogin, LoginStep, LoginSucceeds, LoginFails, ShowLoginFailed,
        LoginNotes, LoginWrites, KeepSession, sessions
    <2> QED
      BY <2>1 DEF OneAtATime
  <1> QED
    BY <1>2, <1>3

\* An end shows that nobody is signed in, with no session running.
LEMMA EndKeepsOne ==
    ASSUME IInv, Goals, OneAtATime, NEW p \in Goroutines, EndStep(p),
           ~straggler, ~Overlap'
    PROVE  OneAtATime'
  <1>1. CASE running' = None
    BY <1>1 DEF OneAtATime
  <1>2. CASE running' # None
    <2>1. /\ running' = running /\ LoggingIn' = LoggingIn
          /\ \A q \in Goroutines : q # p => pc'[q] = pc[q] /\ goal'[q] = goal[q]
      BY <1>2 DEF EndStep, Detach, Cancel, StopCalled, ClearNote, ClearPrefs, ShowEnd, sessions, ends,
        LoggingIn, IInv, Shape, Goals
    <2>2. pc[p] \in {"clear", "remove", "show_out"} => goal[p] = "clear"
      BY DEF Goals
    <2>3. ~(pc[p] \in {"clear", "remove", "show_out"} \/ (pc[p] = "cancel" /\ goal[p] = "clear"))
      BY <1>2, <2>1, <2>2 DEF OneAtATime
    <2>4. pc'[p] \notin {"cancel", "clear", "remove", "show_out"}
      BY <2>3, <1>2 DEF EndStep, Detach, Cancel, ClearNote, ClearPrefs, ShowEnd, Returned, Goals, IInv,
        Shape
    <2>5. logout' = logout /\ (button = "hidden" => button' = "hidden")
      <3>1. CASE Detach(p) \/ Cancel(p) \/ ClearNote(p) \/ ClearPrefs(p)
        BY <3>1 DEF Detach, Cancel, ClearNote, ClearPrefs, screen
      <3>2. CASE ShowEnd(p)
        <4>1. pc[p] # "show_out"
          BY <2>3
        <4> QED
          BY <3>2, <4>1, Zenon DEF ShowEnd, UnsupportedShown
      <3> QED
        BY <3>1, <3>2 DEF EndStep
    <2> QED
      BY <1>2, <2>1, <2>4, <2>5 DEF OneAtATime
  <1> QED
    BY <1>1, <1>2

\* What else a goroutine does shows nothing.
LEMMA ElsewhereKeepsOne ==
    ASSUME IInv, Goals, OneAtATime, NEW p \in Goroutines, Elsewhere(p),
           ~straggler, ~Overlap'
    PROVE  OneAtATime'
  <1>1. /\ pc'[p] \notin {"cancel", "clear", "remove", "show_out"}
        /\ \A q \in Goroutines : q # p => pc'[q] = pc[q] /\ goal'[q] = goal[q]
    BY DEF Elsewhere, IInv, Shape, Goals
  <1>2. running' = running /\ LoggingIn' = LoggingIn /\ screen' = screen
    BY DEF Elsewhere, LoggingIn
  <1> QED
    BY <1>1, <1>2 DEF OneAtATime, screen

-----------------------------------------------------------------------------
\* The program starts with a session, or with the offer to log in.
LEMMA ScreenStarts == CrossingInit => ScreenInv
  <1> SUFFICES ASSUME CrossingInit PROVE ScreenInv
    OBVIOUS
  <1> USE DEF CrossingInit, Init
  <1>1. LoggingIn = {}
    BY DEF LoggingIn
  <1>2. Goals
    BY DEF Goals
  <1>3. ShownSoon
    BY DEF ShownSoon
  <1>4. \A p \in Goroutines : pc[p] \notin {"cancel", "clear", "remove", "show_out"}
    OBVIOUS
  <1>5. OneAtATime
    BY <1>1, <1>4 DEF OneAtATime, Overlap
  <1> QED
    BY <1>2, <1>3, <1>5 DEF ScreenInv

\* Every step keeps the invariant.
LEMMA ScreenKeeps == IInv /\ ScreenInv /\ [CrossingNext]_<<vars, straggler>> => ScreenInv'
  <1> SUFFICES ASSUME IInv, ScreenInv, [CrossingNext]_<<vars, straggler>> PROVE ScreenInv'
    OBVIOUS
  <1> USE DEF ScreenInv
  <1>1. /\ [Next]_vars
        /\ straggler' => (straggler \/ Overlap')
        /\ ~straggler' => ~straggler
    <2>1. CASE CrossingNext
      BY <2>1, Zenon DEF CrossingNext
    <2>2. CASE UNCHANGED <<vars, straggler>>
      BY <2>2
    <2> QED
      BY <2>1, <2>2
  <1>2. ~straggler /\ ~straggler' => ~Overlap'
    <2>1. CASE CrossingNext
      BY <2>1 DEF CrossingNext
    <2>2. CASE UNCHANGED <<vars, straggler>>
      <3>1. Overlap' = Overlap
        BY <2>2 DEF vars, ends, Overlap, LoggingIn, Ending, SigningOut
      <3> QED
        BY <3>1 DEF OneAtATime
    <2> QED
      BY <2>1, <2>2
  <1>3. CASE straggler'
    <2>1. OneAtATime'
      BY <1>3 DEF OneAtATime
    <2>2. CASE \E l \in Logins : TapLogin(l) \/ LoginStep(l)
      BY <2>1, <2>2, LoginKeepsGoals, LoginKeepsShown
    <2>3. CASE \E p \in Goroutines : EndStep(p)
      BY <2>1, <2>3, EndKeepsGoals, EndKeepsShown
    <2>4. CASE \E p \in Goroutines : Elsewhere(p)
      BY <2>1, <2>4, ElsewhereKeepsGoals, ElsewhereKeepsShown
    <2>5. CASE UNCHANGED <<running, pc, goal, login, screen>>
      BY <2>1, <2>5 DEF Goals, ShownSoon, LoggingIn, screen
    <2> QED
      BY <1>1, <2>2, <2>3, <2>4, <2>5, ScreenSteps
  <1>4. CASE ~straggler'
    <2>1. ~straggler /\ ~Overlap'
      BY <1>1, <1>2, <1>4
    <2>2. CASE \E l \in Logins : TapLogin(l) \/ LoginStep(l)
      BY <2>1, <2>2, LoginKeepsGoals, LoginKeepsShown, LoginKeepsOne
    <2>3. CASE \E p \in Goroutines : EndStep(p)
      BY <2>1, <2>3, EndKeepsGoals, EndKeepsShown, EndKeepsOne
    <2>4. CASE \E p \in Goroutines : Elsewhere(p)
      BY <2>1, <2>4, ElsewhereKeepsGoals, ElsewhereKeepsShown, ElsewhereKeepsOne
    <2>5. CASE UNCHANGED <<running, pc, goal, login, screen>>
      BY <2>1, <2>5 DEF Goals, ShownSoon, OneAtATime, LoggingIn, screen
    <2> QED
      BY <1>1, <2>2, <2>3, <2>4, <2>5, ScreenSteps
  <1> QED
    BY <1>3, <1>4

\* When nothing is under way that changes who is signed in, the buttons offer
\* what can be done, as long as no login crossed another one or the end of a
\* session (tracker.go:135-136, 214-224).
THEOREM ScreenInStep == CrossingSpec => []InStep
  <1>1. CrossingInit => Init
    BY DEF CrossingInit
  <1>2. [CrossingNext]_<<vars, straggler>> => [Next]_vars
    BY DEF CrossingNext
  <1>3. ScreenInv => InStep
    BY DEF ScreenInv, ShownSoon, OneAtATime, InStep, Settled, Ends
  <1> QED
    BY <1>1, <1>2, <1>3, Starts, Keeps, ScreenStarts, ScreenKeeps, PTL DEF CrossingSpec

\* The safety half of LogInComesBack: with nobody signed in, the Log in button is
\* disabled only as long as a login is under way, or the end of a session that
\* is still to show so, however they cross, or the program ends
\* (tracker.go:124-137, 214-224).
LogInIsOwed ==
    button = "disabled" /\ running = None /\ pc[Shutdown] = "idle" =>
        LoggingIn # {} \/ \E p \in Goroutines : pc[p] \in Ends

THEOREM DisabledForALogin == CrossingSpec => []LogInIsOwed
  <1>1. CrossingInit => Init
    BY DEF CrossingInit
  <1>2. [CrossingNext]_<<vars, straggler>> => [Next]_vars
    BY DEF CrossingNext
  <1>3. ScreenInv /\ UpgradeForGood => LogInIsOwed
    BY DEF ScreenInv, ShownSoon, UpgradeForGood, LogInIsOwed
  <1>4. CrossingSpec => Spec
    BY <1>1, <1>2, PTL DEF CrossingSpec, Spec
  <1> QED
    BY <1>1, <1>2, <1>3, <1>4, Starts, Keeps, ScreenStarts, ScreenKeeps, UpgradeStays,
      PTL DEF CrossingSpec
=============================================================================
