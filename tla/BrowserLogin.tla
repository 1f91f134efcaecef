----------------------------- MODULE BrowserLogin -----------------------------
(***************************************************************************)
(* The login in the browser, Login of internal/auth/auth.go, above the     *)
(* store of TokenStore: the tracker listens on a port of its own, opens    *)
(* the browser, and waits for one callback of it, for five minutes at      *)
(* most.                                                                   *)
(*                                                                         *)
(* Every request to the port has a goroutine of the library's, which       *)
(* writes a page, hands its result over through a channel of one and       *)
(* leaves it if the channel is full; the browser gets the page when it     *)
(* returns. Requests come in any number: a page that is reloaded, a tab    *)
(* of an earlier login. The library cuts off what is under way when Login  *)
(* returns, and the goroutines of one login may outlive it.                *)
(***************************************************************************)
EXTENDS TokenStore, Sequences

CONSTANT Tabs   \* bound: requests served at a time

VARIABLES
    asking,     \* Login: "no", "browser", or "exchange" of the code it was given
    results,    \* its channel
    tabs,       \* a request: its goroutine's place, its result, and its login
                \* being the one that goes on
    first       \* history: the result this login was handed first, or "none"

browser == <<asking, results, tabs, first>>

Free == [at |-> "free", result |-> "none", mine |-> FALSE]

LoginInit ==
    /\ Init
    /\ asking = "no"
    /\ results = <<>>
    /\ tabs = [t \in Tabs |-> Free]
    /\ first = "none"

\* What became of a login is nothing to the goroutines of its requests.
Orphaned == [t \in Tabs |-> [tabs[t] EXCEPT !.mine = FALSE]]

-----------------------------------------------------------------------------
(***************************************************************************)
(* The request's goroutine                                                 *)
(***************************************************************************)
\* The state is not the login's, the website refused, there is no code: all
\* the login makes of these is that it fails. The page is written into a buffer.
Request(t, result) ==
    /\ asking # "no"
    /\ tabs[t].at = "free"
    /\ tabs' = [tabs EXCEPT ![t] = [at |-> "send", result |-> result, mine |-> TRUE]]
    /\ UNCHANGED <<vars, asking, results, first>>

\* Mutant of HandOver: it waits for room.
HandOverWaits(t) ==
    /\ tabs[t].at = "send"
    /\ results = <<>>
    /\ tabs' = [tabs EXCEPT ![t].at = "flush"]
    /\ results' = IF tabs[t].mine THEN <<tabs[t].result>> ELSE results
    /\ first' = IF tabs[t].mine /\ first = "none" THEN tabs[t].result ELSE first
    /\ UNCHANGED <<vars, asking>>

HandOver(t) ==
    /\ tabs[t].at = "send"
    /\ tabs' = [tabs EXCEPT ![t].at = "flush"]
    /\ results' = IF tabs[t].mine /\ results = <<>> THEN <<tabs[t].result>> ELSE results
    /\ first' = IF tabs[t].mine /\ first = "none" THEN tabs[t].result ELSE first
    /\ UNCHANGED <<vars, asking>>

\* The handler returns, and the library sends the page.
Flush(t) ==
    /\ tabs[t].at = "flush"
    /\ tabs' = [tabs EXCEPT ![t] = Free]
    /\ UNCHANGED <<vars, asking, results, first>>

-----------------------------------------------------------------------------
(***************************************************************************)
(* Login                                                                   *)
(***************************************************************************)
\* Mutant of Ask: the channel is the one of the login before.
AskAgain ==
    /\ up /\ source = NoToken /\ login = "no" /\ asking = "no"
    /\ asking' = "browser"
    /\ first' = "none"
    /\ UNCHANGED <<vars, results, tabs>>

\* A channel, a state and a port of its own.
Ask ==
    /\ up /\ source = NoToken /\ login = "no" /\ asking = "no"
    /\ asking' = "browser"
    /\ results' = <<>>
    /\ first' = "none"
    /\ UNCHANGED <<vars, tabs>>

\* Login returns, and closes the port and whatever is connected to it.
Returns == asking' = "no" /\ tabs' = Orphaned

Answered ==
    /\ asking = "browser"
    /\ results # <<>>
    /\ results' = Tail(results)
    /\ IF Head(results) = "code"
          THEN asking' = "exchange" /\ UNCHANGED tabs
          ELSE Returns
    /\ UNCHANGED <<vars, first>>

Exchanged ==
    /\ asking = "exchange"
    /\ Returns
    /\ LoginSucceeds
    /\ UNCHANGED <<results, first>>

\* The browser does not open, five minutes are over, or the code is refused.
LoginFails ==
    /\ asking # "no"
    /\ Returns
    /\ UNCHANGED <<vars, results, first>>

\* The end of the program is the end of its goroutines.
LoginStop ==
    /\ Stop
    /\ asking' = "no"
    /\ results' = <<>>
    /\ tabs' = [t \in Tabs |-> Free]
    /\ first' = "none"

Handler(t) == HandOver(t) \/ Flush(t)

\* The store goes on as before.
Stores ==
    /\ \/ Load
       \/ \E c \in Callers : Token(c)
       \/ SignOutStep
       \/ LoginNote
       \/ LoginWrite
       \/ Finished
    /\ UNCHANGED browser

LoginNext ==
    \/ Stores
    \/ LoginStop
    \/ Ask
    \/ Answered
    \/ Exchanged
    \/ LoginFails
    \/ \E t \in Tabs, result \in {"code", "error"} : Request(t, result)
    \/ \E t \in Tabs : Handler(t)

LoginSpec == LoginInit /\ [][LoginNext]_<<vars, browser>>

\* A goroutine that can go on does.
FairLogin == LoginSpec /\ \A t \in Tabs : WF_<<vars, browser>>(Handler(t))

-----------------------------------------------------------------------------
\* Every variable holds what its declaration says.
LoginTypeOK ==
    /\ asking \in {"no", "browser", "exchange"}
    /\ results \in {<<>>, <<"code">>, <<"error">>}
    /\ tabs \in [Tabs -> [at : {"free", "send", "flush"},
                          result : {"none", "code", "error"}, mine : BOOLEAN]]
    /\ first \in {"none", "code", "error"}

\* A login goes by the first callback it was handed and by nothing that is
\* left from an earlier login, whatever comes while the code is exchanged and
\* whatever the earlier goroutines still do (auth.go:71, 122-125).
FirstAnswerDecides ==
    /\ asking = "browser" /\ results # <<>> => results = <<first>>
    /\ asking = "exchange" => first = "code"

\* No request waits for a login that is over, or that was answered before
\* (auth.go:122-125).
RequestsReturn == \A t \in Tabs : tabs[t].at # "free" ~> tabs[t].at = "free"

-----------------------------------------------------------------------------
\* "Not signed in", and why, is what the browser shows when a login is refused
\* (auth.go:117). It may not: Login returns and closes the connection while
\* the goroutine that handed the result over has its page in the buffer.
PageIsSent ==
    [][ asking # "no" /\ asking' = "no" /\ up'
            => \A t \in Tabs : tabs[t].at # "flush" ]_<<vars, browser>>
=============================================================================
