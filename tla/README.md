# A model of the ATM Tracker

The ATM Tracker is a desktop program that flies along with a flight simulator.
It signs its user in to a website, asks which flight is to be flown, finds the
simulator (Microsoft Flight Simulator or X-Plane), takes a position from it
every few seconds, and sends the positions to the website's API until that says
that the flight is over. A timer, and the website, can pause the simulator.

This directory holds TLA+ modules of the program, the TLC configurations that
check them, and theorems about the core that TLAPS checks. `PROJECT.json` maps
each definition to the lines of the source it stands for; lists the runs with
what each shows, the hazards of the code with the properties that cover them,
the findings, and for each property a mutant of the model that breaks it.

    tlc -config Sender.cfg Sender.tla          check a run
    tlapm Sender_proofs.tla                    check the proofs of a module

## Inventory

Paths are below `src/internal/` unless they start elsewhere.

| Component | State | Operations | Hard because |
|---|---|---|---|
| Coordinator, `sim/coordinator.go` | the position being put together, `live`, `wasPaused`, last packet | take an update, silence tick, snapshot tick | ticks are dropped while it is blocked on the sender; a crash is a latch |
| Sender, `tracker/session.go` (`send`) | the window of pending positions | collect, flush, deboard, ask for the flight | calls are lost, late, refused; the window overflows; a press comes in between |
| Flight, `tracker/session.go` (`fly`) | four goroutines, three channels, one context | open, run, end, close, wait | each may be blocked on another when it ends |
| Session, `tracker/session.go` (`run`, `poll`) | its context, the flight it flies | poll, fly | it, its flight and whoever ends it draw on one pane; presses outlive it |
| Tracker, `tracker/tracker.go` | `stop`, `current`, presses | sign in, sign out, start, stop, refuse, quit | logins and sign-outs are goroutines tied to no session |
| Autodetect, `sim/autodetect.go` | the current simulator | open, pause, resubscribe, pump | looks, then acts for seconds |
| X-Plane, `xplane/` | a UDP socket, the position its datarefs add up to | subscribe, unsubscribe, read, pause | packets are lost; two goroutines write; X-Plane 11 knows only a toggle |
| MSFS, `msfs/` | a pipe, `inFlight`, `simPaused` | open, read, pause | state is known from events alone |
| Token store, `auth/tokens.go` | the preferences, the token last saved | load, save, clear, rotate | check, then act; the program ends in between |
| Simulator timer, `ui/ui.go` | end, done channel, fields, button | start, stop, tick | ticks are queued for the main thread |
| Screen, `ui/ui.go` | texts and buttons | a method per message | several goroutines draw |
| Login, `auth/auth.go` | a port, a channel of one, a goroutine per request | the browser and its callbacks | requests come twice, late, from elsewhere, and outlive their login |
| API client, `api/api.go` | the HTTP client | a method per call | errors are classified by callers |
| Telemetry, `telemetry/telemetry.go` | the position | assignments of single values | a latch and a count among them |
| SimConnect encoding, configuration | none, or tables | conversions | - |
| Program, `src/cmd/atm-tracker/main.go` | none | wiring, quitting | - |
| Ruby scripts, `src/*.rb` | none | looking at X-Plane by hand | - |

How they interact. A *session* polls the API. When there is a flight, `fly`
opens the simulator through Autodetect and starts three goroutines: the
*reader* of the connection puts updates into a channel, the *coordinator* turns
them into snapshots in a second channel, the *sender* posts those. While
Autodetect has not settled, a *pump* sits between reader and coordinator. Any
of them may cancel the context of the flight; `fly` then closes the connection
and waits for all. The *tracker* starts and stops sessions for logins and
sign-outs, which run in goroutines of their own, and for a session that finds
its token dead or its version refused. The token is saved on the way of every
call. All draw on one screen, whose main thread also runs the timer.

What makes each correct, in a sentence each:

- coordinator: a change of pause and a crash reach the sender, at once, whatever
  the tickers do; "receiving" is not a stale claim; a silent simulator is asked again;
- sender: no position is lost but to a window full of newer ones, batches have
  no holes, nothing is asked of an API that has said its last word, a deboard does not overtake
  positions, the notes on the screen are true while it runs;
- flight: it ends when any part of it does, and then always returns;
- tracker: one session at a time that somebody can stop, a screen that agrees
  with it, a stored token that is its own;
- Autodetect: the current simulator is one that answered, a preferred one gets
  its turn, no connection is left open;
- session: what its pane says is about the flight that is flown, warnings last,
  a button that was pressed comes back, and it ends when it should;
- connections: what the reader believes of flight, pause and crash is right,
  nothing stays subscribed, a pause pauses;
- login: the first callback decides, and no request waits for ever;
- token store: what is stored is what can sign in again, and nothing after a sign-out;
- timer: it pauses once, when it is due, and the button tells the truth.

## Modules

| Module | Models | Instantiates |
|---|---|---|
| `Coordinator` | `Coordinator.Run` without time, `Send` and `SetLive` included | |
| `CoordinatorClock` | the same loop with its tickers and the age of the last packet | `Coordinator`, which it implements |
| `PositionDelivery` | the promise about positions: a window, the batches on their way, what is stored, the end | |
| `SendLoop` | the sender as the rest of a flight sees it | |
| `Sender` | `send` to `stillFlying`, the API at the other end, the button | `PositionDelivery`, `SendLoop`, both of which it implements |
| `Flight` | `fly`: reader, pump, coordinator, sender, teardown | `Coordinator`, `SendLoop`: composes them and implements both |
| `Session` | `run`, `poll` and `fly` of `session.go`, flight after flight, and the pane | extends `Sender` |
| `Tracker` | `tracker.go`, the sessions it starts, the stored token, the screen | |
| `TrackerCrossing` | the same, with whether a login crossed another or a sign-out | extends `Tracker` |
| `Autodetect` | `autodetect.go`, between flights, pauses, simulators | |
| `XPlaneSubscription` | `Open`, `Resubscribe`, `Close` of X-Plane, per packet | |
| `XPlaneReader` | the reader and the datarefs it assigns to the position | extends `XPlaneSubscription` |
| `XPlanePause` | `pause`, `awaitPaused` of X-Plane | |
| `Msfs` | `msfs.go`, with the simulator behind the pipe | |
| `TokenStore` | `tokens.go` over the preferences | |
| `BrowserLogin` | `Login` and its callbacks, before the token is stored | extends `TokenStore` |
| `SimTimer` | the timer of `ui.go` | |
| `TimedPause` | the timer and the pause it ends in | extends `SimTimer`, instantiates `XPlanePause` |
| `CoordinatorClock_proofs` | theorems about `Coordinator` and `CoordinatorClock` | extends the second, which instantiates the first |
| `Sender_proofs` | theorems about `Sender` and `Session` | extends `Session` |
| `Tracker_proofs` | theorems about `Tracker` and `TrackerCrossing` | extends `TrackerCrossing` |
| `XPlane_proofs` | theorems about `XPlaneSubscription`, `XPlaneReader`, `XPlanePause`, `SimTimer` and `TimedPause` | extends `XPlaneReader` and `TimedPause` |
| `Flight_proofs`, `Autodetect_proofs`, `BrowserLogin_proofs`, `Msfs_proofs` | theorems | extend their module |

Each module has one action per step of the code that another goroutine can
come between; a branch of a `switch` on an error is an action of its own.
Data is kept as far as a property tells it apart: a position is its place in
the stream of snapshots (which stands for its UUID) and whether it is paused;
an update is what it assigns to pause and crash; a token is a number; a dataref
a model value. Variables marked *history* in a module are there for properties
and no guard reads them.

**Coordinator.** `updates`, `snapshots`: the channels. `pc`: whether the loop is
in its `select`, in `Resubscribe`, or blocked on the hand-over
(coordinator.go:99-103). `Receive` is the branch for an update, `SilenceTick`
and `EarlySilenceTick` the one that asks again or finds that it is early,
`SnapshotTick` and `IdleSnapshotTick` the one that takes a snapshot or skips.
`Hear`, `Drain` and `Cancel` stand for the reader, the sender and `fly`.
In `CoordinatorClock` the tickers count down, their channel of one holds a tick
the loop was away for (`snapDue`, `silDue`), and `age` is the time since the
last packet, bounded just above what the code compares it with.

**Sender.** `pc` is the call the loop waits for; `back` is where `flush` returns
to, for the press calls it and goes on. The API acts on a request (`Answer`),
acts and the answer is lost (`LoseAnswer`), is never reached (`LoseRequest`),
or gets it after the client gave up (`TimeOut`, `ArriveLate`): positions it
stores once each, deboards it refuses unless the flight is at the gate.
A flight may be called off, and the tracker's access end (`CallOff`, `Deny`).
The window is `send`'s own: it goes when `send` returns (`Stop`). The note under the
flight does not, and is kept with the number it names (`Holding`).

**Flight.** The reader is reduced to what it does to channels and context:
`polls` is whether it looks at the context between reads (X-Plane's does, by its
read deadline; MSFS's waits for the closed pipe). The pump may return first, and
the reader is then not waited for (autodetect.go:111-114).

**Session.** Around the steps of `Sender`, which are those of the flight that is
flown (`InFlight`), the loop polls, opens a simulator, waits for its goroutines
and goes on (`at`). Each call of the display is part of the step of the goroutine
that makes it: `SenderShows` for the sender, `CoordinatorTells` for `SetLive`,
`SignedOut` for whoever ends the session. Of the pane there is what the first
line says, the flight its rows are of, and the flight a warning came from.
The next session begins when the last one has returned; sessions that overlap
are in `Tracker`. The stream of snapshots has no end: when none is held or on its
way, its numbers begin again (`OfferAnew`).

**Tracker.** `pc` is where each goroutine stands between the steps of
`stopSession`, the token store and the screen; `held` is the `stop` it took. A
save and a clear are two steps each, as in the code: `current` under the mutex
(`LoginNotes`, `NoteToken`, `ClearNote`), then the preferences, here `token`
(`LoginWrites`, `WriteToken`, `ClearPrefs`). Each call of a session, one that was under
way when it was cancelled, and the revocation of a sign-out ask the source for the
token, which compares it with `current` and stores it again if it is another one
(`Compare`).

**BrowserLogin.** A request is a goroutine that writes its page, hands a result
over if the channel has room, and returns, which sends the page (`Request`,
`HandOver`, `Flush`). Requests come at any time while the port is open, with a
code or with anything that is not one, and are cut loose when `Login` returns
(`Orphaned`). The exchange of the code ends in `LoginSucceeds` of `TokenStore`. There
a login comes after the calls of the last session have returned; the code waits
for none (tracker.go:126-137), and `Tracker` has the logins that come before.

**XPlaneReader, TimedPause.** A packet has any part of what is subscribed. It
is decoded (`Hear`), and its updates are passed on one by one (`PassOn`), in
any order, with a snapshot in between where it may fall. `Assign` is the table
of datarefs, in which the crash is a latch and the
engines are counted. A silence may have the coordinator begin a `Resubscribe` after
`Close`, for its `select` may take the tick although the context is done
(coordinator.go:57-79). In `TimedPause` the timer's `pauseSim` starts the goroutine
of `cmd/atm-tracker/main.go`, which runs `XPlanePause`.

**Msfs, X-Plane.** The simulators are external. They handle packets in order.
SimConnect is taken to answer a subscription to `Sim` and `Pause_EX1` with the
current state, which the reader relies on to learn of a simulator that is paused
already; X-Plane to start without subscriptions and to sample once per period.
A pause may find X-Plane paused already. That the pilot pauses or unpauses by hand
while one is under way is not modelled.

## Runs

Each run asks one question of one module, and `PROJECT.json` says which
mutant breaks each of its properties. Runs that pass:

| Run | Bounds | States | Shows |
|---|---|---|---|
| `coordinator_clock` | channels of 1; periods 2, 5, 5 as in `DefaultTimings` | 170 k | changes between paused and running are flagged (`PauseEdgesAreFlushed`); a crash is taken along before silence (`CrashBeforeSilence`) and handed over in the end (`CrashIsOffered`); "receiving" is fresh (`LiveIsFresh`); a silent simulator is asked again and again (`SilenceIsAnswered`); implements `Coordinator` |
| `sender` | window 2, 3 snapshots, one late call, one pause | 2.2 M | nothing is lost but to a full window or the end of the flight (`NothingLost`); the API's last word is the last (`VerdictIsFinal`); while the sender runs the note is true, its number included (`NoteIsHonest`); the website pauses only a simulator that runs (`PausesARunningSim`); implements `PositionDelivery` and `SendLoop` |
| `session` | 2 flights, sessions without end, window 1, snapshots without end, one at a time | 188 k | the pane is about the flight that is flown (`PaneIsOfTheFlight`), a warning outlives its flight (`WarningOutlivesFlight`); the end of a flight or of access is noticed through outages (`OverIsNoticed`, `DeniedIsNoticed`); the Deboard button comes back unless no airport is found under the positions (`ButtonComesBack`); a session that was ended returns (`EndedSessionReturns`) |
| `flight` | channels of 1, crash updates | 58 k | none of its goroutines leaves a flight that goes on (`NoneIsMissed`); a flight that ends returns from wherever its goroutines are blocked (`FlightReturns`), and so does the reader nobody waits for (`ReaderLeaves`); its parts are used as they assume (`ImplementsCoordinator`, `ImplementsSendLoop`) |
| `tracker` | 2 logins, a sign-out, 3 sessions | 372 k | no session without somebody to stop it (`NoOrphan`); screen and session agree, unless a login crossed another or a sign-out (`InStep`); with nobody signed in Log in does not stay disabled, whatever crosses (`LogInComesBack`) |
| `tracker_live` | a login, 2 sessions that save their tokens, one refusal or end, quitting | 185 k | the store comes to hold the token of the session that stays (`OwnTokenSettles`) |
| `autodetect` | 3 simulators, the last always opens | 141 k | no connection is kept (`NoneIsKept`); a preferred simulator gets its turn (`PreferredGetsItsTurn`) |
| `xplane_reader` | 2 datarefs, the crash and an engine; 5 packets | 1.4 M | nothing stays subscribed unless a Resubscribe crosses Close, or begins after it (`LeavesNothing`); X-Plane is heard (again) (`IsHeardAgain`); a crash that is taken back is in the next snapshot, or on its way to the one after (`CrashIsKept`) |
| `msfs` | 3 messages on their way | 128 k | flight, pause and crash are known (`KnowsTheSim`) |
| `browser_login` | 3 tokens, 2 starts, 2 requests at a time | 288 k | the stored token is the one the session uses (`StoredIsTheSources`); the first callback decides (`FirstAnswerDecides`); every request returns (`RequestsReturn`) |
| `timed_pause` | 2 seconds of 2 units, 2 goroutines, lag 2; 3 samples, one stale | 227 k | the timer ends (`RunsOut`) and pauses when due and never else (`PausesOnTime`); then X-Plane is paused, or the pause has failed, which is logged and not shown (`TimeUpIsActedOn`, `PauseWorks`) |

The run that ends in a violation, `sender_unsent`: a test says that "the deboard
must not be sent while positions are still unsent" (session_test.go:266), and
`DeboardLeavesNothingUnsent` says so of positions held and positions in the
channel. A snapshot that arrives while the flush before a deboard is answered is
left in the channel. What does hold is `DeboardHoldsNothing`, a theorem, as
`WindowUnbroken` is.

### Further configurations

Kept beside the runs and checked by hand in the same way
(`tlc -config X.cfg M.tla`). These pass:

| Configuration | Checks |
|---|---|
| `SenderLive` | `ComesBack`, which `Flight` relies on, `PressIsTaken`, `OverIsNoticed`, of one flight |
| `SessionMore` | the pane, and types, with a window of two, late calls and pauses (5.8 M states) |
| `FlightMore` | the safety properties of `flight`, and types, with updates of two kinds (221 k states) |
| `TrackerMore` | the upgrade message stays (`UpgradeForGood`), `InStep`, `NoOrphan`, types, with a login, a sign-out, 2 sessions that save their tokens, refusals and the end of the program (10 M states) |
| `SimTimerMore` | one ticker at a time (`OneTicker`), a button that does something whenever it can be pressed (`ButtonTells`), no less shown than is left (`ShowsEnough`), types, with ticks three late |
| `XPlanePauseMore` | no paused simulator is toggled (`TogglesOnlyToPause`), with two samples stale out of the three that decide |
| `XPlaneReaderMore` | the number of engines is that of those that run (`EnginesAreCounted`), types, two engines (4.4 M states) |
| `BrowserLoginMore` | the token is written only when it changed (`WritesOnlyRotated`), types |
| `AutodetectMore` | the current simulator answered (`CurrentAnswered`), types |
| `MsfsMore` | a pause that succeeds has paused (`ConfirmedMeansPaused`), the menu's data is dropped but for what came before the subscription was answered (`MenuIsNotLive`), types |

These end in a violation. Each property says more than the code provides:

| Configuration | Property | What TLC finds |
|---|---|---|
| `SenderOverdrawn` | `NoteIsHonestToTheEnd` | the flight ends with positions held, and the note that they are stays until the next poll (session.go:56-64, 123-126) |
| (with `-continue`) | `ButtonWaitsForTheAnswer` | the answer to the flush before a deboard enables the Deboard button before the deboard is sent |
| `TrackerOverdrawn` | `OneBrowserTab` | a sign-out slow to revoke enables Log in while a login waits for the browser |
| (with `-continue`) | `LogInNeverStuck` | a sign-out slow to revoke shows Log in over the session of a login that came before it was answered; the next login disables it, keeps that session (tracker.go:163-166) and shows nothing |
| `TrackerStore` | `StoredSettles` | the last call of an ended session stands between `current` and the preferences (tokens.go:49-53) while the next session stores its token, then writes its own: `current` is the new one, so that is never written again |
| `SessionOverdrawn` | `SignedOutSaysSo` | a session winding down writes over "Log in to start tracking" |
| (with `-continue`) | `StartsUnpressed` | a press the sender of one flight did not take is taken by the next |
| (with `-continue`) | `ButtonAlwaysComesBack` | the API stores the positions and finds no airport under them: "taxi closer to the apron and press Deboard again" (session.go:132-136), but no answer shows a status, and the button stays disabled for as long |
| `BrowserLoginOverdrawn` | `SignedOutForgets` | a call in the middle of `Token` stores its token after `Clear` |
| (with `-continue`) | `PageIsSent` | `Login` returns, and closes the connection, with the page for the player still in a buffer |
| `MsfsOverdrawn` | `MenuIsNeverLive` | a flight left during `Open` has its menu counted as live |
| (with `-continue`) | `DataComesFirst` | the answer about the pause makes the flight live before any data has come |
| `AutodetectOverdrawn` | `FromNowOn` | a pause, or a pump, replaces the current simulator |
| (with `-continue`) | `OnlyUnheardMakesWay` | a simulator heard during a probe makes way all the same |
| `XPlaneReaderOverdrawn` | `NeverLeft` | `Resubscribe` writes after `Close` has unsubscribed, also one begun after it |
| (with `-continue`) | `EnginesAreHeard` | an X-Plane started in the middle of `subscribe` is heard, so nobody asks for what is missing |
| `XPlanePauseStale` | `TogglesNoXPlane12` | a pause held up for a second counts samples from before it asked |
| `XPlanePauseTwo` | `TogglesOnlyToPause` | two pauses at once toggle an X-Plane 11 twice |

All but `ButtonAlwaysComesBack` and `NoteIsHonestToTheEnd` are narrow windows,
or need a slow network or two simulators; those two take no more than an answer
of the API. Where a property of a passing run excludes such a window by a
history variable (`straggler` in `TrackerCrossing`, `crossed` in
`XPlaneSubscription`, `junk` in `Msfs`) or by a premise (`OwnTokenSettles`,
`ButtonComesBack`), a configuration here has a property without it.

### Bounds

Why the bounds are enough. The window, the channels and the counts of logins
are the smallest at which the hazard they are for occurs and one more of its
kind follows: a window of two overflows with a batch unanswered and has an
order to keep; three snapshots fill and overflow it; a channel of one blocks
its writer, and its reader once it is empty. The silence
period of the coordinator needs to be longer than its snapshot period, as
it is by default (2 and 5 seconds); the code states no such condition, and
`CrashBeforeSilence` fails without it. `Zeros` is 2 or 3 instead of 10: only the
comparison with the number of stale samples matters, and `MaxStale` is one
less in the run that passes and the same in the one that does not. Two
sessions, two flights of one, two requests of a login and two goroutines of the
timer are what can cross; a third would cross each of the two in the same way.
For the properties that are theorems every value is covered.

Logins, sign-outs, saves and ends of the program, all in every order, are out of
TLC's reach together. `tracker` has what logins and sign-outs do to the sessions
and the screen: two logins, a slow sign-out and three sessions, so that a login is
crossed by the end of a session and by another login. Nobody's token is saved again
there (`MaxSavers` is 0), nobody refuses and nobody quits (`MaxEvents`, `MaxQuits`), so its
behaviours stop when logins and sign-outs are used up, and deadlock is not checked.
`tracker_live` has the store: two sessions that save (`MaxSavers` is 2), of which the
first is ended by the API or the program is quit, and deadlock is checked.
`TrackerMore` has all of it with one login less.

In `session` the stream of positions must not end, or every later flush would find
the window empty and ask for the flight, an answer that enables the button: the
stream goes on with new numbers when nothing is held or on its way, and no
property of that run compares numbers across such a step.

### Fairness

Only configurations with liveness properties use it (`FairSpec`), and each module says
beside its `Fairness` what justifies it. In short:

- a goroutine that can go on does (weak fairness of its steps);
- Go's `select` chooses at random among the branches that are ready, so a branch
  that is ready whenever the loop comes by is taken in the end (strong fairness
  of each branch);
- a call to the API returns, for each has a timeout of 10 seconds (weak), and
  outages pass: one that is made again and again is answered (strong);
- a session that was cancelled leaves its loop, and Shutdown is over in the end, for
  it waits five seconds at most (tracker.go:229-250): strong for the first, whose
  `select` may take the poll, weak for the second;
- a flight that has ended returns (strong, for other steps may come in between), and
  the silence of a flight that goes on is answered with a Resubscribe; one that has
  ended owes none, though it may come (`Autodetect`, `XPlaneSubscription`);
- a goroutine of a request, of a pause and of a ticker runs on, for its reads and
  writes have a deadline or wait for nobody;
- time passes, and a main thread comes by its queue;
- a dataref that X-Plane sends every second gets through in the end (strong);
- a simulator owes nothing: it need not send, be heard, or quit. One that runs
  and is opened again and again opens in the end (`Autodetect`);
- a user owes nothing. Logins, sign-outs, presses and quitting are never fair.

## Proofs

All theorems hold for every value of the constants that satisfies the named
assumptions of the modules: capacities and windows are positive, and the
snapshot period is shorter than the silence. TLC evaluates these in every run.
`CoordinatorAssumption` is an operator that the theorems about `Coordinator` take
as a premise, and `CoordinatorClock` and `Flight` assume it of their own
constants. The theorems about `XPlanePause` take one premise more, stated below.

**CoordinatorClock_proofs.** First `Coordinator` by itself. `LoopTypes` holds
step by step, the capacities of the channels included. `LoopPauseEdges` is an
action property; it needs to know what the loop remembers between snapshots:
that `wasPaused` is the pause of the last one taken (`Remembered`), which is
invariant. `Implementation` maps each step by the clock to a step of
`Coordinator` or a stutter, for `Elapse` changes only the clock, and so
`TypeCorrect` and `PauseEdges` are the two of the loop by the clock.
`NoCrashWaits` is not inductive: a loop may hold a crash while a silence is due.
The strengthening is `CrashIsFresh`: while a crash is latched, the age of the last
packet is no more than the time the snapshot ticker has run since, so the
snapshot tick is due before the silence can have passed. `LiveMeansFresh` uses
`LiveUntilTick` in the same way for the other ticker: the age and what is left
until its tick stay within a silence and a period.

**Sender_proofs.** The type invariant is split by what a step can disturb
(`Held`, `Channel`, `Place`, `Remote`, `Shown`), each part with a lemma of its
own. The inductive invariant of delivery is `DeliveryInv`: the window is
unbroken (`WindowUnbroken`); what is neither stored nor held is a window older
than the newest, until the flight ends (`NothingLost`); a success that waits to
be handled means that all that is held is stored; and a call for positions is
made only with some held. The second is not inductive without the others, for
the window is emptied on the strength of an answer. From it follow
`NothingLostHolds`, `WindowCorrect`, and, mapping the window to the interval
from its oldest to its newest and the calls that the API has not settled to
batches on their way, `Delivers`: every step of the sender and of the API is a
step of `PositionDelivery` or a stutter. That says that only whole batches are
stored, each the unbroken run that was held when it was sent. A batch can be
stored again, which the API knows by the identifiers. A batch that is on its way
twice, or whose answer is lost, is why `Settle` may keep it. `DeboardCorrect`,
`VerdictCorrect`, `NoteCorrect` and `PausesCorrect` are proved from the same
invariant, with one step per action that can disturb them. `Composes` maps each
step of the sender to one of `SendLoop` or a stutter. The lemma `Frames` says
once which actions change which variables. Of the session, `PaneCorrect` needs
one fact more, that a coordinator draws only while its flight is flown: it is
what `wg.Wait()` is for. `WarningCorrect` is an action property: in a session
that goes on, only the start of a flight takes a warning away, and who else
writes one writes that of the flight that is flown, whose number is not the one
that stands for none (`Numbered`).

**Tracker_proofs.** `NobodyIsOrphaned` is `NoOrphan` for any number of logins,
sign-outs and sessions, and whoever quits when. By itself it is not inductive:
a step may take the session from `t.stop` only into the hands of a goroutine
that stands before the call of `stop`, and the one that is begun next must find
its goroutine unused, or a place before that call would be lost. So the
strengthening is that a session that has not begun has no goroutine
(`NotBegunIdle`), with numbers and functions as they must be (`Shape`). The
argument is one of hands: `Begins` gives a session to `t.stop`, `Detaches` takes
it from there, `Cancels` lets go of it, and `Walks` and `Stands` say that no
other step touches it. `UpgradeStays` is inductive as it is.

`ScreenInStep` is `InStep`, which speaks of the moments when nothing is under
way and so says nothing about the steps between them. What holds all the time is
in three parts. Whoever leaves the screen without an offer to log in is still to
show something (`ShownSoon`), and where a goroutine that ends a session goes from
there was decided before (`Goals`); both hold whatever crosses. As long as no
login has crossed another one or the end of a session, a session that runs is
shown with nobody logging in beside it, and whoever shows that nobody is signed
in does so with no session running (`OneAtATime`). That the numbers of
goroutines are finite is used: `Alone` says that a login that crosses none is
the only one. `DisabledForALogin` is the safety half of `LogInComesBack`, and holds
whatever crosses: with nobody signed in, a disabled Log in is owed by a login that is
under way or by the end of a session that is still to show so.

**Flight_proofs.** The two halves of the composition: whatever the reader, the
pump, `fly` and the sender do is, to the coordinator, a step of `Coordinator` or
a stutter (`KeepsCoordinator`), and whatever all but the sender do is one of
`SendLoop` to the sender (`KeepsSendLoop`). The first needs to know that what is
pushed and carried is an update (`OnItsWay`); the second, that the channel holds
snapshots, which it has from `LoopTypes` through the first. With `Composes` of
`Sender_proofs` the theorems about the coordinator and the sender are so about
the parts of one flight. `GoesOnWhole` is `NoneIsMissed`: whoever has returned
has left a flight that is over.

**Autodetect_proofs.** `NoConnectionIsKept` rests on Resubscribe being a flight's
own call, for which it waits; `TheCurrentAnswered` on an update that waits in the
pump having been heard from the flight's simulator.

**BrowserLogin_proofs.** A token goes from the source to the preferences in three
steps. `Carried` says where the two and the store's note are at each of them,
and `Turns` that whoever signs out has a session and whoever logs in has none,
so that nobody else writes meanwhile. `StoredIsCurrent` and `NoWriteForNothing`
follow, first of `TokenStore` and then, `BrowserLogin` being a refinement of it
(`LoginIsAbove`), of the logins too. `TheFirstDecides` needs that only requests
of a login that goes on have anything to hand over to it (`HandedOver`).

**Msfs_proofs.** `KnowsTheSim` speaks of a pipe that is empty. What holds while
messages are on their way is about what the reader is going to have: `Will` is a
state of the simulator as the reader will see it after so many of them, which is
what the last of those that tell of it says, or what the reader has now. A
message that is written sets it for the end of the pipe (`WillWritten`), one
that is read leaves it as it is (`WillTail`), and so, from the answer to a
subscription on, it is the state of the simulator (`Follows`). A data block
stands in the pipe where the reader will know of the flight, or where it has
not heard of one at all, and a crash where it knows of one (`ReadRight`): from
that come `TheMenuIsNotLive` and the clause about the crash of `TheSimIsKnown`.
What remains is the order of the subscriptions (`InTurn`), and that before them
nothing that counts is in the pipe (`Quiet`). `PauseWasReal` is
`ConfirmedMeansPaused`.

**XPlane_proofs.** `NothingIsLeft` looks ahead in the same way, here over the
packets that X-Plane has not handled: it is going to send a dataref if the last
packet about it asks for it, or if there is none and it does already
(`WillSend`). No dataref that `Close` has taken back is going to be sent
(`TakenBack`). A packet handled changes nothing of that (`Handled`), and only
Open and Resubscribe write one that would, of which the first is over and the
second too unless it crosses `Close`, begun before it or after (`InPhase`).
`NoCrashIsLost` needs the crash to be either in the position or among the
updates to come, and `EnginesCounted` that an assignment keeps the count
(`Assigned`), with sets that are finite.

`OnePauseWorks` and `OneTogglesToPause` are about `XPlanePause` with one pauser
and any number of samples, under the premise `MaxStale < Zeros`: that
fewer samples can be stale than the pause takes for an answer. The source does
not promise this, it waits for ten and takes that to be enough (rref.go:84-113);
`XPlanePauseStale` shows what happens otherwise and `XPlanePauseTwo` what two
pausers do to each other. The invariant says which packets X-Plane has yet to
handle at each point of the pause (`PacketsOf`), whether it is paused by how many
those are (`PausedOf`), and which of the samples in the socket can be
stale, counted from the first (`Sampled`): one that says that X-Plane is paused
is right, for nobody unpauses it; one that says that it runs is among the first
`MaxStale` if X-Plane knows `pause_on`, and right otherwise. X-Plane may be paused
when the pause begins.

`TimedPauseWorks` carries the first of them over to the timer: to X-Plane a step
of `TimedPause` is one of `XPlanePause` or a stutter. The timer itself has four
theorems, from one invariant (`TimerInv`). The fields can be edited exactly
when no timer runs (`FormIs`): that is why Enter in a field cannot start a
second one, on which `TickerIsOne` rests, and why nobody edits what the button
goes by while it must stay live (`ButtonIsTrue`). Ticks are never from the future
(`TicksAre`), so what a tick takes for left is no less than what is left:
`PausesInTime` and `ShownIsEnough` follow, the second with the rounding of the
seconds that are shown (`RoundedUp`).

**Only model-checked.** Liveness under fairness and whatever needs `ENABLED`,
which the prover does not reason about; and the types of the modules other than
the coordinator, the sender and the stored token, of which the invariants above
have what they need. Of the types of the timer the bound on its queue is a count of ticks
by their age, a sum over the goroutines, and stays with TLC.

## Not modelled

- Encodings: SimConnect messages, RREF packets, units, weights, and the datarefs
  that are only stored. They are functions without state; golden and unit tests
  compare them with recordings.
- Of the login the proof key, the random state and the page; of the preferences
  all but the token; the log file and its pane; layout and the check of entries.
- That a position is not consistent in time: X-Plane sends each dataref by
  itself. A snapshot between two of them is in `XPlaneReader`, and no property asks
  that it be none.
- Panics, and rules of the Go library on the use of a wait group.
- The Ruby scripts, which are not part of the program.

## Plan

The order is that of importance: first what happens to a position between the
simulator and the API, then what ends a flight, then who is signed in, then the
simulators one by one. All of that is modelled. What is left:

1. `Session` and `Tracker` together, with sessions that overlap on the screen.
2. `Flight` with the loops of `Sender` and `CoordinatorClock` in place of their
   abstractions, as a run of its own on the smallest channels.
3. The type invariants that TLC alone checks, as theorems.
