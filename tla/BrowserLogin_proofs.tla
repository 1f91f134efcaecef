-------------------------- MODULE BrowserLogin_proofs --------------------------
(***************************************************************************)
(* Proofs about TokenStore and BrowserLogin, for any number of tokens,     *)
(* starts and requests: what is stored is what the session signs in with,  *)
(* it is written only when it has changed, and a login goes by the first   *)
(* callback.                                                               *)
(*                                                                         *)
(* A call of a session takes the token from the source to the store in     *)
(* three steps. Until the last one the store and its note lag behind in    *)
(* step; while nobody signs out no one else writes either; and who signs   *)
(* out leaves no session. Hence the invariant says where the three are at  *)
(* each step of the call, and who may be about when there is no session.   *)
(***************************************************************************)
EXTENDS BrowserLogin, TLAPS

\* What can be in the preferences has been given out, or cannot be read.
GivenOut == prefs \in {Unreadable} \cup 0..issued

\* A program that does not run holds nothing.
DownIsEmpty == ~up => call = Idle /\ out = "no" /\ login = "no" /\ source = NoToken

\* Who signs out has a session, and who logs in has none; and neither has calls
\* that outlive it.
Turns ==
    /\ out # "no" => source # NoToken
    /\ login # "no" => source = NoToken
    /\ login = "write" => current = issued
    /\ source = NoToken => \A c \in Callers : call[c].at = "idle"
    /\ call["revoke"].at # "idle" => out = "revoke"

\* The token on its way from the source to the preferences.
Carried ==
    out = "no" /\ source # NoToken =>
        LET c == call["session"]
        IN  /\ c.at = "idle" => prefs = source /\ current = source
            /\ c.at # "idle" => c.token = source
            /\ c.at \in {"got", "note"} => prefs = current
            /\ c.at \in {"note", "write"} => prefs # c.token
            /\ c.at = "write" => current = c.token

\* The inductive invariant.
StoreInv == TypeOK /\ GivenOut /\ DownIsEmpty /\ Turns /\ Carried

-----------------------------------------------------------------------------
\* Nothing is stored that was not there, and nobody is about.
LEMMA StoreStarts == Init => StoreInv
  <1> SUFFICES ASSUME Init PROVE StoreInv
    OBVIOUS
  <1>1. /\ prefs \in {NoToken, Unreadable}
        /\ current = 0 /\ source = 0 /\ issued = 0
        /\ call = Idle /\ out = "no" /\ login = "no" /\ starts = 0 /\ up = FALSE
    BY DEF Init, NoToken
  <1>2. call \in [Callers -> [at : {"idle", "got", "note", "write"}, token : 0..issued]]
    BY <1>1 DEF Idle, NoToken
  <1>3. TypeOK /\ GivenOut
    <2>1. /\ prefs \in {NoToken, Unreadable} \cup Tokens
          /\ {current, source} \subseteq 0..issued
          /\ issued \in 0..MaxTokens
          /\ starts \in 0..MaxStarts
      BY <1>1, TokenStoreAssumption DEF TokenStoreAssumption
    <2>2. out \in {"no", "revoke", "clear", "remove", "done"}
          /\ login \in {"no", "note", "write"} /\ up \in BOOLEAN
      BY <1>1
    <2>3. GivenOut
      BY <1>1 DEF GivenOut, NoToken
    <2> QED
      BY <1>2, <2>1, <2>2, <2>3 DEF TypeOK
  <1>4. \A c \in Callers : call[c].at = "idle"
    BY <1>1 DEF Idle
  <1>5. DownIsEmpty /\ Turns /\ Carried
    BY <1>1, <1>4 DEF DownIsEmpty, Turns, Carried, Callers, NoToken
  <1> QED
    BY <1>3, <1>5 DEF StoreInv

\* Types.
LEMMA StoreTypes == StoreInv /\ [Next]_vars => TypeOK' /\ GivenOut'
  <1> SUFFICES ASSUME StoreInv, [Next]_vars PROVE TypeOK' /\ GivenOut'
    OBVIOUS
  <1> USE TokenStoreAssumption DEF TokenStoreAssumption, StoreInv, TypeOK, GivenOut,
        NoToken, Unreadable, Tokens
  <1>1. CASE Load
    BY <1>1 DEF Load
  <1>2. CASE Stop
    <2>1. Idle \in [Callers -> [at : {"idle", "got", "note", "write"}, token : 0..issued]]
      BY DEF Idle
    <2>2. call' = Idle /\ UNCHANGED <<prefs, issued, starts>>
          /\ up' = FALSE /\ current' = 0 /\ source' = 0 /\ out' = "no" /\ login' = "no"
      BY <1>2 DEF Stop
    <2>3. 0 \in 0..issued
      OBVIOUS
    <2> QED
      BY <2>1, <2>2, <2>3
  <1>3. ASSUME NEW c \in Callers, Token(c) PROVE TypeOK' /\ GivenOut'
    <2>1. call[c] \in [at : {"idle", "got", "note", "write"}, token : 0..issued]
      OBVIOUS
    <2>2. CASE AskHeld(c)
      BY <2>1, <2>2 DEF AskHeld, Got, program
    <2>3. CASE AskRotated(c)
      <3>1. issued' = issued + 1 /\ issued' \in 0..MaxTokens /\ 0..issued \subseteq 0..issued'
        BY <2>3 DEF AskRotated, Refreshes
      <3>2. call' \in [Callers -> [at : {"idle", "got", "note", "write"}, token : 0..issued']]
        BY <2>3, <3>1 DEF AskRotated, Got
      <3> QED
        BY <2>3, <3>1, <3>2 DEF AskRotated, program
    <2>4. CASE AskLost(c)
      <3>1. issued' = issued + 1 /\ issued' \in 0..MaxTokens /\ 0..issued \subseteq 0..issued'
        BY <2>4 DEF AskLost, Refreshes
      <3>2. call' \in [Callers -> [at : {"idle", "got", "note", "write"}, token : 0..issued']]
        BY <2>4, <3>1 DEF AskLost, memory
      <3> QED
        BY <2>4, <3>1, <3>2 DEF AskLost, memory
    <2>5. CASE Compare(c)
      BY <2>1, <2>5 DEF Compare, At, program
    <2>6. CASE NoteToken(c)
      BY <2>1, <2>6 DEF NoteToken, At, program
    <2>7. CASE WriteToken(c)
      BY <2>1, <2>7 DEF WriteToken, At, program
    <2> QED
      BY <1>3, <2>2, <2>3, <2>4, <2>5, <2>6, <2>7 DEF Token
  <1>4. CASE SignOutStep
    BY <1>4 DEF SignOutStep, SignOut, RevokeReturns, ClearNote, ClearPrefs, SessionOver
  <1>5. CASE LoginSucceeds \/ LoginNote \/ LoginWrite
    BY <1>5 DEF LoginSucceeds, LoginNote, LoginWrite
  <1>6. CASE Finished \/ UNCHANGED vars
    BY <1>6 DEF Finished, vars, memory
  <1> QED
    BY <1>1, <1>2, <1>3, <1>4, <1>5, <1>6 DEF Next

\* A step of a call: the caller's token moves on, and the store with it.
LEMMA CallKeeps ==
    ASSUME StoreInv, NEW c \in Callers, Token(c)
    PROVE  DownIsEmpty' /\ Turns' /\ Carried'
  <1> USE DEF NoToken
  <1>1. /\ call[c] \in [at : {"idle", "got", "note", "write"}, token : 0..issued]
        /\ call["session"] \in [at : {"idle", "got", "note", "write"}, token : 0..issued]
        /\ {"session", "revoke"} = Callers
        /\ out \in {"no", "revoke", "clear", "remove", "done"}
        /\ issued \in Nat /\ current \in 0..issued /\ source \in 0..issued
    BY TokenStoreAssumption DEF StoreInv, TypeOK, Callers, TokenStoreAssumption
  <1>2. source # 0 /\ up /\ login = "no" /\ (c = "revoke" => out = "revoke")
    BY <1>1 DEF StoreInv, DownIsEmpty, Turns, Token, AskHeld, AskRotated, AskLost, Refreshes,
      Compare, NoteToken, WriteToken, MayCall, Idle
  <1>3. /\ UNCHANGED <<out, login, up>>
        /\ \A d \in Callers : d # c => call'[d] = call[d]
        /\ source' # 0
    <2>1. CASE AskHeld(c)
      BY <1>2, <2>1 DEF StoreInv, TypeOK, AskHeld, Got, program
    <2>2. CASE AskRotated(c)
      <3>1. source' = issued + 1
        BY <2>2 DEF AskRotated, Refreshes
      <3> QED
        BY <1>1, <2>2, <3>1 DEF StoreInv, TypeOK, AskRotated, Got, program
    <2>3. CASE AskLost(c)
      BY <1>2, <2>3 DEF AskLost, memory
    <2>4. CASE Compare(c) \/ NoteToken(c) \/ WriteToken(c)
      BY <1>2, <2>4 DEF StoreInv, TypeOK, Compare, NoteToken, WriteToken, At, program
    <2> QED
      BY <2>1, <2>2, <2>3, <2>4 DEF Token
  <1>4. DownIsEmpty' /\ Turns'
    BY <1>1, <1>2, <1>3 DEF StoreInv, DownIsEmpty, Turns
  <1>5. SUFFICES Carried'
    BY <1>4
  <1>6. CASE c = "revoke"
    BY <1>2, <1>3, <1>6, <1>1 DEF Carried, StoreInv, Turns
  <1>7. CASE c = "session" /\ out # "no"
    BY <1>3, <1>7 DEF Carried
  <1>8. CASE c = "session" /\ out = "no"
    <2> DEFINE s == call["session"]
    <2>1. CASE AskHeld(c)
      <3>1. s'.at = "got" /\ s'.token = source /\ s.at = "idle"
            /\ UNCHANGED <<prefs, current, source>>
        BY <1>1, <1>8, <2>1 DEF AskHeld, Got, MayCall, StoreInv, TypeOK
      <3> QED
        BY <1>2, <1>8, <3>1 DEF StoreInv, Carried
    <2>2. CASE AskRotated(c)
      <3>1. s'.at = "got" /\ s'.token = source' /\ s.at = "idle"
            /\ UNCHANGED <<prefs, current>>
        BY <1>1, <1>8, <2>2 DEF AskRotated, Refreshes, Got, MayCall, StoreInv, TypeOK
      <3> QED
        BY <1>2, <1>8, <3>1 DEF StoreInv, Carried
    <2>3. CASE AskLost(c)
      BY <1>2, <1>8, <2>3 DEF AskLost, memory, StoreInv, Carried
    <2>4. CASE Compare(c)
      <3>1. s'.at = (IF s.token # current THEN "note" ELSE "idle") /\ s.at = "got"
            /\ s'.token = s.token /\ UNCHANGED <<prefs, current, source>>
        BY <1>1, <1>8, <2>4 DEF Compare, Rotated, At, StoreInv, TypeOK
      <3> QED
        BY <1>2, <1>8, <3>1 DEF StoreInv, Carried
    <2>5. CASE NoteToken(c)
      <3>1. s'.at = "write" /\ s.at = "note" /\ s'.token = s.token
            /\ current' = s.token /\ UNCHANGED <<prefs, source>>
        BY <1>1, <1>8, <2>5 DEF NoteToken, At, StoreInv, TypeOK
      <3> QED
        BY <1>2, <1>8, <3>1 DEF StoreInv, Carried
    <2>6. CASE WriteToken(c)
      <3>1. s'.at = "idle" /\ s.at = "write" /\ s'.token = s.token
            /\ prefs' = s.token /\ UNCHANGED <<current, source>>
        BY <1>1, <1>8, <2>6 DEF WriteToken, At, StoreInv, TypeOK
      <3> QED
        BY <1>2, <1>8, <3>1 DEF StoreInv, Carried
    <2> QED
      BY <2>1, <2>2, <2>3, <2>4, <2>5, <2>6 DEF Token
  <1> QED
    BY <1>1, <1>6, <1>7, <1>8

\* Each step keeps the token and those who carry it in order.
LEMMA StoreKeeps == StoreInv /\ [Next]_vars => StoreInv'
  <1> SUFFICES ASSUME StoreInv, [Next]_vars PROVE DownIsEmpty' /\ Turns' /\ Carried'
    BY StoreTypes DEF StoreInv
  <1> USE DEF StoreInv, DownIsEmpty, Turns, Carried, NoToken
  <1>1. \A c \in Callers : Idle[c].at = "idle"
    BY DEF Idle
  <1>2. Callers = {"session", "revoke"}
    BY DEF Callers
  <1>3. CASE Load
    BY <1>1, <1>2, <1>3 DEF Load
  <1>4. CASE Stop
    BY <1>1, <1>2, <1>4 DEF Stop
  <1>5. ASSUME NEW c \in Callers, Token(c) PROVE DownIsEmpty' /\ Turns' /\ Carried'
    BY <1>5, CallKeeps
  <1>6. CASE SignOut
    BY <1>1, <1>2, <1>6 DEF SignOut
  <1>7. CASE RevokeReturns
    BY <1>2, <1>7 DEF RevokeReturns
  <1>8. CASE ClearNote
    BY <1>2, <1>8 DEF ClearNote
  <1>9. CASE ClearPrefs
    BY <1>2, <1>9 DEF ClearPrefs
  <1>10. CASE SessionOver
    BY <1>2, <1>10 DEF SessionOver
  <1>11. CASE LoginSucceeds
    BY <1>2, <1>11 DEF LoginSucceeds
  <1>12. CASE LoginNote
    BY <1>2, <1>12 DEF LoginNote
  <1>13. CASE LoginWrite
    BY <1>2, <1>13 DEF LoginWrite
  <1>14. CASE Finished \/ UNCHANGED vars
    BY <1>2, <1>14 DEF Finished, vars, memory
  <1> QED
    BY <1>3, <1>4, <1>5, <1>6, <1>7, <1>8, <1>9, <1>10, <1>11, <1>12, <1>13, <1>14
      DEF Next, SignOutStep

LEMMA StoreInvariant == Spec => []StoreInv
  BY StoreStarts, StoreKeeps, PTL DEF Spec

\* The logins in the browser come from above and change the store only as it
\* says.
LEMMA LoginIsAbove == LoginSpec => Spec
  <1>1. LoginInit => Init
    BY DEF LoginInit
  <1>2. [LoginNext]_<<vars, browser>> => [Next]_vars
    BY DEF LoginNext, Stores, LoginStop, Ask, Answered, Exchanged, LoginFails, Request,
      Handler, HandOver, Flush, Next
  <1> QED
    BY <1>1, <1>2, PTL DEF LoginSpec, Spec

\* When no call of a session is under way the store holds the token its source
\* does, through rotations, lost answers, sign-outs and ends of the program at
\* any step, for any number of them (tokens.go:76-90).
THEOREM StoredIsCurrent == LoginSpec => []StoredIsTheSources
  <1>1. StoreInv => StoredIsTheSources
    BY DEF StoreInv, Carried, StoredIsTheSources
  <1> QED
    BY <1>1, StoreInvariant, LoginIsAbove, PTL

\* An unrotated token costs no write (tokens_test.go:76): what a session writes
\* is not what is stored (tokens.go:82-88).
THEOREM NoWriteForNothing == LoginSpec => WritesOnlyRotated
  <1> DEFINE A == call["session"].at = "write" /\ call'["session"].at = "idle" /\ up'
                    /\ out = "no" => prefs' # prefs
  <1>1. StoreInv /\ StoreInv' /\ [Next]_vars => [A]_vars
    <2> SUFFICES ASSUME StoreInv, Next, call["session"].at = "write",
                        call'["session"].at = "idle", up', out = "no"
                 PROVE  prefs' # prefs
      OBVIOUS
    <2>1. "session" \in Callers /\ Callers = {"session", "revoke"}
          /\ \A c \in Callers : Idle[c].at = "idle"
      BY DEF Callers, Idle
    <2>2. source # NoToken /\ up /\ prefs # call["session"].token
      BY <2>1 DEF StoreInv, Turns, DownIsEmpty, Carried
    <2>3. WriteToken("session")
      <3>1. call' # call
        OBVIOUS
      <3>2. PICK c \in Callers : Token(c)
        BY <2>2, <3>1 DEF Next, Load, Stop, SignOutStep, SignOut, RevokeReturns,
          ClearNote, ClearPrefs, SessionOver, LoginSucceeds, LoginNote, LoginWrite,
          Finished, vars, memory
      <3>3. c = "session"
        BY <2>1, <3>1, <3>2 DEF Token, AskHeld, AskRotated, AskLost, Compare, NoteToken,
          WriteToken, Got, At, StoreInv, TypeOK, memory
      <3> QED
        BY <3>1, <3>2, <3>3 DEF Token, AskHeld, AskRotated, AskLost, Refreshes, MayCall,
          Compare, NoteToken, memory
    <2> QED
      BY <2>2, <2>3 DEF WriteToken
  <1> QED
    BY <1>1, StoreInvariant, LoginIsAbove, PTL DEF Spec, WritesOnlyRotated

-----------------------------------------------------------------------------
\* What is in the channel of a login is what it was handed first, and only the
\* goroutines of its own requests have anything to hand over.
HandedOver ==
    /\ asking = "browser" => results = IF first = "none" THEN <<>> ELSE <<first>>
    /\ asking = "exchange" => first = "code"
    /\ \A t \in Tabs : tabs[t].mine => asking # "no"
    /\ \A t \in Tabs : tabs[t].at = "send" => tabs[t].result # "none"

\* The inductive invariant of the login.
LoginInv == LoginTypeOK /\ HandedOver

LEMMA LoginStarts == LoginInit => LoginInv
  BY DEF LoginInit, LoginInv, LoginTypeOK, HandedOver, Free

\* Each step keeps what the login was handed.
LEMMA LoginKeeps == LoginInv /\ [LoginNext]_<<vars, browser>> => LoginInv'
  <1> SUFFICES ASSUME LoginInv, [LoginNext]_<<vars, browser>> PROVE LoginInv'
    OBVIOUS
  <1> USE DEF LoginInv, LoginTypeOK, HandedOver
  <1>1. ASSUME Returns, results' \in {<<>>, <<"code">>, <<"error">>}, first' = first
        PROVE  LoginInv'
    BY <1>1 DEF Returns, Orphaned
  <1>2. CASE Stores \/ UNCHANGED <<vars, browser>>
    BY <1>2 DEF Stores, browser
  <1>3. CASE LoginStop
    BY <1>3 DEF LoginStop, Free
  <1>4. CASE Ask
    BY <1>4 DEF Ask
  <1>5. CASE Answered
    <2>1. results = <<first>> /\ first \in {"code", "error"}
      BY <1>5 DEF Answered
    <2>2. Head(results) = first /\ Tail(results) = <<>>
      BY <2>1
    <2>3. CASE first = "code"
      BY <1>5, <2>1, <2>2, <2>3 DEF Answered
    <2>4. CASE first # "code"
      BY <1>1, <1>5, <2>1, <2>2, <2>4 DEF Answered
    <2> QED
      BY <2>3, <2>4
  <1>6. CASE Exchanged \/ LoginFails
    BY <1>1, <1>6 DEF Exchanged, LoginFails
  <1>7. ASSUME NEW t \in Tabs, NEW result \in {"code", "error"}, Request(t, result)
        PROVE  LoginInv'
    BY <1>7 DEF Request
  <1>8. ASSUME NEW t \in Tabs, HandOver(t) PROVE LoginInv'
    <2>1. CASE tabs[t].mine
      BY <1>8, <2>1 DEF HandOver
    <2>2. CASE ~tabs[t].mine
      BY <1>8, <2>2 DEF HandOver
    <2> QED
      BY <2>1, <2>2
  <1>9. ASSUME NEW t \in Tabs, Flush(t) PROVE LoginInv'
    BY <1>9 DEF Flush, Free
  <1> QED
    BY <1>2, <1>3, <1>4, <1>5, <1>6, <1>7, <1>8, <1>9 DEF LoginNext, Handler

\* A login goes by the first callback it was handed, for any number of requests
\* of this one and of those before (auth.go:71, 122-125).
THEOREM TheFirstDecides == LoginSpec => []FirstAnswerDecides
  <1>1. LoginInv => FirstAnswerDecides
    BY DEF LoginInv, LoginTypeOK, HandedOver, FirstAnswerDecides
  <1> QED
    BY <1>1, LoginStarts, LoginKeeps, PTL DEF LoginSpec
=============================================================================
