------------------------------- MODULE Tracker -------------------------------
(***************************************************************************)
(* Signing in and out: internal/tracker/tracker.go, the loop of a session  *)
(* (run and poll of internal/tracker/session.go), the store of the token   *)
(* and the buttons of internal/ui/ui.go.                                   *)
(*                                                                         *)
(* A login waits for the browser, a sign-out for the API, a session for    *)
(* its flight: each in a goroutine, and none tied to the session it was    *)
(* started for. What they share is t.stop, guarded by a mutex, the stored  *)
(* token and the screen. A goroutine can be overtaken between any two of   *)
(* its steps.                                                              *)
(***************************************************************************)
EXTENDS Naturals, FiniteSets

CONSTANTS
    MaxLogins,      \* bound: logins in a behaviour
    MaxSignOuts,    \* bound: sign-outs in a behaviour
    MaxSessions,    \* bound: sessions in a behaviour
    MaxEvents,      \* bound: tokens withdrawn, versions dropped in it
    MaxQuits,       \* bound: whether the program ends in it, 0 or 1
    MaxSavers       \* bound: sessions, from the first, whose calls save tokens

ASSUME TrackerAssumption ==
    /\ {MaxLogins, MaxSignOuts, MaxEvents, MaxQuits, MaxSavers} \subseteq Nat
    /\ MaxSessions \in Nat /\ MaxSessions > MaxLogins

Logins == 1..MaxLogins
SignOuts == 1..MaxSignOuts
Sessions == 1..MaxSessions

\* The goroutines that may call stopSession.
Session(n) == <<"session", n>>
SignOut(n) == <<"signout", n>>
Check == <<"check", 0>>
Shutdown == <<"shutdown", 0>>
SessionGoroutines == {Session(n) : n \in Sessions}
SignOutGoroutines == {SignOut(n) : n \in SignOuts}
Goroutines == SessionGoroutines \cup SignOutGoroutines \cup {Check, Shutdown}

None == 0       \* no session: t.stop and t.current are nil

\* A token is named by the login it came from, or is one of an earlier run.
NoToken == 0
EarlierToken == 1
TokenFrom(l) == l + 1
Tokens == {EarlierToken} \cup {TokenFrom(l) : l \in Logins}

VARIABLES
    running,    \* t.stop and t.current: the session they belong to, or None
    started,    \* sessions started so far
    cancelled,  \* sessions whose context is cancelled
    tokenOf,    \* the token a session was started with
    pc,         \* where each goroutine stands; "idle" before it is started
    held,       \* the session whose client a sign-out took along to revoke its
                \* token, then the one whose stop a goroutine took from t.stop
    goal,       \* what comes after stopSession: "clear", "upgrade", "await"
    login,      \* where each login stands
    current,    \* store.current: the token the store was last given
    token,      \* the stored token, in the preferences
    valid,      \* the API: the tokens it accepts
    supported,  \* the API: whether it serves this version of the tracker
    events,     \* what happened outside so far, see MaxEvents
    button,     \* the Log in button: "hidden", "disabled" or "enabled"
    logout,     \* the Log out button is on the screen
    upgrade     \* the message that the tracker must be upgraded is

sessions == <<running, started, cancelled, tokenOf>>
ends == <<held, goal>>
store == <<current, token>>
api == <<valid, supported, events>>
screen == <<button, logout, upgrade>>

vars == <<sessions, pc, ends, login, store, api, screen>>

-----------------------------------------------------------------------------
(***************************************************************************)
(* The screen. Each update is queued for the main thread; the queue keeps  *)
(* the order. What else is on it is the matter of Session.                 *)
(***************************************************************************)
SigningInShown ==
    /\ button' = IF button = "hidden" THEN "hidden" ELSE "disabled"
    /\ UNCHANGED <<logout, upgrade>>

\* Mutant of SignedInShown: the Log in button stays.
SignedInShownLate == logout' = TRUE /\ UNCHANGED <<button, upgrade>>

SignedInShown == button' = "hidden" /\ logout' = TRUE /\ UNCHANGED upgrade

SignedOutShown ==
    /\ logout' = FALSE
    /\ button' = IF upgrade THEN button ELSE "enabled"
    /\ UNCHANGED upgrade

UnsupportedShown == button' = "hidden" /\ upgrade' = TRUE /\ UNCHANGED logout

-----------------------------------------------------------------------------
\* startSession, when none is running.
Begin(tok) ==
    /\ running = None
    /\ started < MaxSessions
    /\ started' = started + 1
    /\ running' = started + 1
    /\ tokenOf' = [tokenOf EXCEPT ![started + 1] = tok]
    /\ pc' = [pc EXCEPT ![Session(started + 1)] = "run"]
    /\ SignedInShown

\* Start: a token of an earlier run is taken up. It may be withdrawn by now,
\* and this version of the tracker no longer served, within MaxEvents.
Init ==
    /\ cancelled = {}
    /\ held = [p \in Goroutines |-> None]
    /\ goal = [p \in Goroutines |-> "clear"]
    /\ login = [l \in Logins |-> "idle"]
    /\ tokenOf = [n \in Sessions |-> EarlierToken]
    /\ upgrade = FALSE
    /\ supported \in BOOLEAN
    /\ token \in {NoToken, EarlierToken}
    /\ current = token
    /\ valid \in SUBSET ({token} \ {NoToken})
    /\ events = Cardinality({supported} \ {TRUE}) + Cardinality({token} \ ({NoToken} \cup valid))
    /\ events <= MaxEvents
    /\ running = IF token = NoToken THEN None ELSE 1
    /\ started = running
    /\ pc = [p \in Goroutines |->
                IF p = Check THEN "ask" ELSE IF p = Session(running) THEN "run" ELSE "idle"]
    /\ logout = (running # None)
    /\ button = IF running = None THEN "enabled" ELSE "hidden"

\* Goroutine p goes on to its next step, and does nothing else.
Moves(p, from, to) ==
    /\ pc[p] = from
    /\ pc' = [pc EXCEPT ![p] = to]
    /\ UNCHANGED <<sessions, ends, login, store, api, screen>>

-----------------------------------------------------------------------------
(***************************************************************************)
(* SignIn                                                                  *)
(***************************************************************************)
LoginGoes(l, from, to) == login[l] = from /\ login' = [login EXCEPT ![l] = to]

TapLogin(l) ==
    /\ button = "enabled"
    /\ \A k \in 1..(l - 1) : login[k] # "idle"
    /\ LoginGoes(l, "idle", "browser")
    /\ SigningInShown
    /\ UNCHANGED <<sessions, pc, ends, store, api>>

LoginSucceeds(l) ==
    /\ LoginGoes(l, "browser", "save")
    /\ valid' = valid \cup {TokenFrom(l)}
    /\ UNCHANGED <<sessions, pc, ends, store, supported, events, screen>>

\* The website refuses, the browser does not come back in time, the exchange
\* fails.
LoginFails(l) ==
    /\ LoginGoes(l, "browser", "failed")
    /\ UNCHANGED <<sessions, pc, ends, store, api, screen>>

\* Mutant of ShowLoginFailed: only the log has it.
ShowLoginFailedNot(l) ==
    /\ LoginGoes(l, "failed", "done")
    /\ UNCHANGED <<sessions, pc, ends, store, api, screen>>

ShowLoginFailed(l) ==
    /\ LoginGoes(l, "failed", "done")
    /\ SignedOutShown
    /\ UNCHANGED <<sessions, pc, ends, store, api>>

\* Save: the note under the mutex, then the preferences.
LoginNotes(l) ==
    /\ LoginGoes(l, "save", "write")
    /\ current' = TokenFrom(l)
    /\ UNCHANGED <<sessions, pc, ends, token, api, screen>>

LoginWrites(l) ==
    /\ LoginGoes(l, "write", "start")
    /\ token' = TokenFrom(l)
    /\ UNCHANGED <<sessions, pc, ends, current, api, screen>>

StartSession(l) ==
    /\ LoginGoes(l, "start", "done")
    /\ Begin(TokenFrom(l))
    /\ UNCHANGED <<cancelled, ends, store, api>>

\* "already signed in, keeping the session that is running"
KeepSession(l) ==
    /\ running # None
    /\ LoginGoes(l, "start", "done")
    /\ UNCHANGED <<sessions, pc, ends, store, api, screen>>

-----------------------------------------------------------------------------
(***************************************************************************)
(* stopSession, and what endSession, unsupported and Shutdown do after it. *)
(***************************************************************************)
Enter(p, what) ==
    /\ pc' = [pc EXCEPT ![p] = "detach"]
    /\ goal' = [goal EXCEPT ![p] = what]
    /\ UNCHANGED <<sessions, held, login, store, screen>>

Detach(p) ==
    /\ pc[p] = "detach"
    /\ pc' = [pc EXCEPT ![p] = "cancel"]
    /\ held' = [held EXCEPT ![p] = running]
    /\ running' = None
    /\ UNCHANGED <<started, cancelled, tokenOf, goal, login, store, api, screen>>

\* Mutant of StopCalled: t.stop is set to nil again when stop has returned.
StopCalledLate(p) == running' = None /\ cancelled' = cancelled \cup ({held[p]} \ {None})

\* "if stop != nil { stop() }"
StopCalled(p) == cancelled' = cancelled \cup ({held[p]} \ {None}) /\ UNCHANGED running

Cancel(p) ==
    /\ pc[p] = "cancel"
    /\ pc' = [pc EXCEPT ![p] = goal[p]]
    /\ StopCalled(p)
    /\ held' = [held EXCEPT ![p] = None]
    /\ goal' = [goal EXCEPT ![p] = "clear"]
    /\ UNCHANGED <<started, tokenOf, login, store, api, screen>>

\* Clear: the note, then the preferences.
ClearNote(p) ==
    /\ pc[p] = "clear"
    /\ pc' = [pc EXCEPT ![p] = "remove"]
    /\ current' = NoToken
    /\ UNCHANGED <<sessions, ends, login, token, api, screen>>

ClearPrefs(p) ==
    /\ pc[p] = "remove"
    /\ pc' = [pc EXCEPT ![p] = "show_out"]
    /\ token' = NoToken
    /\ UNCHANGED <<sessions, ends, login, current, api, screen>>

\* A callback returns to the session it was made from, which goes back to its
\* loop, through the end of a flight if there was one.
Returned(p) == IF p \in SessionGoroutines THEN "run" ELSE "done"

ShowEnd(p) ==
    /\ \/ pc[p] = "show_out" /\ SignedOutShown
       \/ pc[p] = "upgrade" /\ UnsupportedShown
    /\ pc' = [pc EXCEPT ![p] = Returned(p)]
    /\ UNCHANGED <<sessions, ends, login, store, api>>

-----------------------------------------------------------------------------
(***************************************************************************)
(* SignOut                                                                 *)
(***************************************************************************)
TapSignOut(n) ==
    /\ logout
    /\ pc[SignOut(n)] = "idle"
    /\ \A k \in 1..(n - 1) : pc[SignOut(k)] # "idle"
    /\ pc' = [pc EXCEPT ![SignOut(n)] = IF running = None THEN "detach" ELSE "token"]
    /\ held' = [held EXCEPT ![SignOut(n)] = running]
    /\ UNCHANGED <<sessions, goal, login, store, api, screen>>

\* The API revokes the token; the answer is still to come, or is lost.
Revoke(n) ==
    /\ pc[SignOut(n)] = "revoke"
    /\ valid' = valid \ {tokenOf[held[SignOut(n)]]}
    /\ UNCHANGED <<sessions, pc, ends, login, store, supported, events, screen>>

\* The call returns: answered, refused, or timed out after revokeTimeout.
RevokeReturns(n) == Moves(SignOut(n), "revoke", "detach")

-----------------------------------------------------------------------------
(***************************************************************************)
(* run, poll and the calls of a flight: here they find the API willing, or *)
(* have it refuse the tracker. What else they do is the matter of Session, *)
(* Flight and Sender.                                                      *)
(***************************************************************************)
\* A session that was not cancelled looks at the answers.
Calls(n) == pc[Session(n)] = "run" /\ n \notin cancelled

\* The API refuses the version, or the token.
Refused(n) ==
    /\ Calls(n)
    /\ \/ ~supported /\ Enter(Session(n), "upgrade")
       \/ tokenOf[n] \notin valid /\ Enter(Session(n), "clear")
    /\ UNCHANGED api

\* The token has to be renewed, and the endpoint for it answers anything but a
\* token: SignedOut takes an outage of it for a refusal.
RenewalFails(n) ==
    /\ Calls(n)
    /\ Enter(Session(n), "clear")
    /\ UNCHANGED api

\* Goes on within Token.
CallGoes(p, from, to) ==
    /\ pc[p] = from
    /\ pc' = [pc EXCEPT ![p] = to]
    /\ UNCHANGED <<sessions, ends, login, api, screen>>

\* Every call of a client asks for the token of its session: those of a
\* session, one that was under way when it was cancelled included, and the
\* revocation.
Asker(p) == IF p \in SessionGoroutines THEN p[2] ELSE held[p]
Calling(p) == IF p \in SessionGoroutines THEN "run" ELSE "token"
Answering(p) == IF p \in SessionGoroutines THEN "run" ELSE "revoke"

\* Mutant of Rotated: only a store that was given none wants the token.
RotatedIfNone(p) == current = NoToken

Rotated(p) == tokenOf[Asker(p)] # current

Saves(p) == Asker(p) <= MaxSavers /\ Rotated(p)

\* The store has the token, and the call goes out.
TokenKept(p) == CallGoes(p, Calling(p), Answering(p)) /\ ~Saves(p) /\ UNCHANGED store

\* The source stores the token again if the store was last given another one,
\* or cleared: the comparison under the mutex, then Save.
Compare(p) == CallGoes(p, Calling(p), "save") /\ Saves(p) /\ UNCHANGED store

NoteToken(p) ==
    /\ CallGoes(p, "save", "write")
    /\ current' = tokenOf[Asker(p)]
    /\ UNCHANGED token

WriteToken(p) ==
    /\ CallGoes(p, "write", Answering(p))
    /\ token' = tokenOf[Asker(p)]
    /\ UNCHANGED current

\* The select of run. Its other branch polls again, also when both are ready.
Leave(n) == n \in cancelled /\ Moves(Session(n), "run", "done")

-----------------------------------------------------------------------------
\* checkVersion
CheckRefused ==
    /\ pc[Check] = "ask"
    /\ ~supported
    /\ Enter(Check, "upgrade")
    /\ UNCHANGED api

CheckPassed == Moves(Check, "ask", "done")

\* Shutdown
Quit ==
    /\ pc[Shutdown] = "idle"
    /\ MaxQuits > 0
    /\ Enter(Shutdown, "await")
    /\ UNCHANGED api

\* waitFor returns when the sessions have, or gives up: five seconds are a
\* bound on it and on nothing else.
Quitted == Moves(Shutdown, "await", "gone")

Happens == events < MaxEvents /\ events' = events + 1

\* The website: the player withdraws a token there, or a version is dropped.
Withdraw ==
    /\ Happens
    /\ valid' \in {valid \ {t} : t \in valid}
    /\ UNCHANGED <<sessions, pc, ends, login, store, supported, screen>>

DropVersion ==
    /\ Happens
    /\ supported
    /\ supported' = FALSE
    /\ UNCHANGED <<sessions, pc, ends, login, store, valid, screen>>

-----------------------------------------------------------------------------
LoginStep(l) ==
    \/ LoginSucceeds(l)
    \/ LoginFails(l)
    \/ ShowLoginFailed(l)
    \/ LoginNotes(l)
    \/ LoginWrites(l)
    \/ StartSession(l)
    \/ KeepSession(l)

\* savingTokenSource.Token
TokenStep(p) == TokenKept(p) \/ Compare(p) \/ NoteToken(p) \/ WriteToken(p)

EndStep(p) ==
    \/ Detach(p)
    \/ Cancel(p)
    \/ ClearNote(p)
    \/ ClearPrefs(p)
    \/ ShowEnd(p)

Gone == pc[Shutdown] = "gone"

\* The program is gone, and its goroutines with it.
Finished == Gone /\ UNCHANGED vars

Step ==
    \/ \E l \in Logins : TapLogin(l) \/ LoginStep(l)
    \/ \E n \in SignOuts : TapSignOut(n) \/ Revoke(n) \/ RevokeReturns(n)
    \/ \E p \in Goroutines : EndStep(p)
    \/ \E p \in SessionGoroutines \cup SignOutGoroutines : TokenStep(p)
    \/ \E n \in Sessions : Refused(n) \/ RenewalFails(n) \/ Leave(n)
    \/ CheckRefused
    \/ CheckPassed
    \/ Quit
    \/ Quitted
    \/ Withdraw
    \/ DropVersion

Next == (~Gone /\ Step) \/ Finished

Spec == Init /\ [][Next]_vars

\* Every goroutine goes on, a login for the five minutes the browser has at
\* most, Shutdown for five seconds; a loop that goes round calls the API, which
\* answers in the end, and its select takes a branch that is ready in the end.
Fairness ==
    /\ \A l \in Logins : WF_vars(~Gone /\ LoginStep(l))
    /\ \A p \in Goroutines : WF_vars(~Gone /\ EndStep(p))
    /\ \A p \in SessionGoroutines \cup SignOutGoroutines : WF_vars(~Gone /\ TokenStep(p))
    /\ \A n \in SignOuts : WF_vars(~Gone /\ RevokeReturns(n))
    /\ \A n \in Sessions : WF_vars(~Gone /\ Refused(n)) /\ SF_vars(~Gone /\ Leave(n))
    /\ WF_vars(~Gone /\ Quitted)

FairSpec == Spec /\ Fairness

-----------------------------------------------------------------------------
\* Where a goroutine may stand.
Places(p) ==
    {"idle", "done", "detach", "cancel"} \cup
    CASE p \in SessionGoroutines -> {"run", "save", "write", "clear", "remove", "show_out", "upgrade"}
      [] p \in SignOutGoroutines -> {"token", "save", "write", "revoke", "clear", "remove", "show_out"}
      [] p = Check -> {"ask", "upgrade"}
      [] p = Shutdown -> {"await", "gone"}

\* Every variable holds what its declaration says; no more than one session
\* number is given out per session.
TypeOK ==
    /\ running \in 0..started
    /\ started \in 0..MaxSessions
    /\ cancelled \subseteq 1..started
    /\ tokenOf \in [Sessions -> Tokens]
    /\ DOMAIN pc = Goroutines
    /\ \A p \in Goroutines : pc[p] \in Places(p)
    /\ held \in [Goroutines -> 0..started]
    /\ goal \in [Goroutines -> {"clear", "upgrade", "await"}]
    /\ login \in [Logins -> {"idle", "browser", "save", "write", "start", "failed", "done"}]
    /\ {current, token} \subseteq {NoToken} \cup Tokens
    /\ valid \subseteq Tokens
    /\ events \in 0..MaxEvents
    /\ {supported, logout, upgrade} \subseteq BOOLEAN
    /\ button \in {"hidden", "disabled", "enabled"}

\* A session that runs can be stopped: t.stop is its own, or a goroutine that
\* took it from there is about to call it. However logins and sign-outs cross,
\* none runs on with nobody to end it (tracker.go:159-170, 203-212).
NoOrphan ==
    \A n \in 1..started :
        n \in cancelled \/ n = running \/ \E p \in Goroutines : pc[p] = "cancel" /\ held[p] = n

\* A tracker the API no longer serves does not offer to log in: "logging in
\* would only end in the same message" (ui_test.go:476), and "a dead token at
\* start-up would replace the message with Log in" (ui_test.go:486).
UpgradeForGood == upgrade => button = "hidden"

\* Those who have noted a token in the store, or that there is none, and have
\* the preferences still to write.
Writing ==
    {p \in Goroutines : pc[p] \in {"write", "remove"}}
        \cup {<<"login", l>> : l \in {k \in Logins : login[k] = "write"}}

\* The token of a session that stays and goes on polling is the stored one in
\* the end, whatever a login, the end of another session or the last call of a
\* cancelled one stored or cleared in between, as long as no two of them are
\* between the note and the preferences at once: the next start of the program
\* takes up the session that runs (tracker.go:96-101, tokens.go:82-88).
OwnTokenSettles ==
    [](Cardinality(Writing) <= 1) =>
        \A n \in Sessions :
            []~Gone /\ <>[](running = n) /\ []<>(pc[Session(n)] = "run")
                => <>[](token = tokenOf[n])

\* With nobody signed in, the Log in button that SigningIn disabled comes back
\* or gives way to Log out, whichever login or sign-out is answered first, and
\* if none is (tracker.go:124-137).
LogInComesBack == button = "disabled" /\ running = None ~> button # "disabled" \/ Gone
-----------------------------------------------------------------------------
(***************************************************************************)
(* More than the code provides.                                            *)
(***************************************************************************)
\* "a second click would open a second browser tab" (ui_test.go:47): one login
\* at a time. The button is disabled for as long, but the end of an earlier
\* session, revoking its token all the while, enables it (ui.go:387-388).
OneBrowserTab == Cardinality({l \in Logins : login[l] = "browser"}) <= 1

\* A session finds its own token stored again, however saves cross. The last
\* call of an ended session may be between the note and the preferences while
\* the next session saves its own token: the store takes the one in the
\* preferences for the other from then on (tokens.go:49-53).
StoredSettles ==
    \A n \in Sessions :
        []~Gone /\ <>[](running = n) /\ []<>(pc[Session(n)] = "run") => <>[](token = tokenOf[n])

\* The Log in button does not stay disabled, whoever is signed in. A sign-out
\* that was slow to revoke shows it over a session that has begun meanwhile; a
\* login that keeps that session leaves it disabled (tracker.go:163-166).
LogInNeverStuck == button = "disabled" ~> button # "disabled" \/ Gone
=============================================================================
