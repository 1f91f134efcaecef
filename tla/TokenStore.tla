------------------------------ MODULE TokenStore ------------------------------
(***************************************************************************)
(* The stored token: internal/auth/tokens.go, below the preferences of the *)
(* program, which outlive it.                                              *)
(*                                                                         *)
(* The API hands out a new refresh token now and then and honours no       *)
(* earlier one. Every call of a session asks the source for the token, and *)
(* the source has the store keep it if it is not the one it was last given.*)
(* A mutex guards that note, not the step from the comparison to the write *)
(* nor the one from the note to the preferences: whoever signs out can     *)
(* come in between, and so can the end of the program.                     *)
(***************************************************************************)
EXTENDS Naturals

CONSTANTS
    MaxTokens,      \* bound: refresh tokens given out
    MaxStarts       \* bound: starts of the program

ASSUME TokenStoreAssumption == MaxTokens \in Nat /\ MaxStarts \in Nat

NoToken == 0
Tokens == 1..MaxTokens              \* in the order they are given out
Unreadable == MaxTokens + 1

\* The loop of a session, with the sender while it waits for its flight; and
\* the revocation of a sign-out, through the same client.
Callers == {"session", "revoke"}

VARIABLES
    prefs,      \* what the preferences hold
    current,    \* store.current: the token the store was last given
    source,     \* the token oauth2's source holds; NoToken without a session
    issued,     \* the API: the tokens given out, the last one being good
    call,       \* each caller: where it stands in Token, and with which token
    out,        \* a sign-out: "no", "revoke", "clear", "remove", "done"
    login,      \* a login that has its token: "no", "note", "write"
    starts,     \* starts of the program so far
    up          \* the program runs

memory == <<current, source, call, out, login>>
program == <<out, login, starts, up>>
vars == <<prefs, memory, issued, starts, up>>

Idle == [c \in Callers |-> [at |-> "idle", token |-> NoToken]]

-----------------------------------------------------------------------------
Init ==
    /\ prefs \in {NoToken, Unreadable}
    /\ current = NoToken /\ source = NoToken /\ issued = 0
    /\ call = Idle
    /\ out = "no" /\ login = "no"
    /\ starts = 0 /\ up = FALSE

\* Start and Load: a token that cannot be read is cleared.
Load ==
    /\ ~up /\ starts < MaxStarts
    /\ starts' = starts + 1
    /\ up' = TRUE
    /\ source' = IF prefs \in Tokens THEN prefs ELSE NoToken
    /\ prefs' = source' /\ current' = source'
    /\ UNCHANGED <<issued, call, out, login>>

\* The program ends, or the computer does.
Stop ==
    /\ up
    /\ up' = FALSE
    /\ current' = NoToken /\ source' = NoToken
    /\ call' = Idle
    /\ out' = "no" /\ login' = "no"
    /\ UNCHANGED <<prefs, issued, starts>>

-----------------------------------------------------------------------------
MayCall(c) ==
    /\ up /\ source # NoToken
    /\ call[c].at = "idle"
    /\ c = "revoke" => out = "revoke"

Got(c, token) == call' = [call EXCEPT ![c] = [at |-> "got", token |-> token]]
At(c, place) == call' = [call EXCEPT ![c].at = place]

\* inner.Token: the token the source holds is still good enough.
AskHeld(c) ==
    /\ MayCall(c)
    /\ Got(c, source)
    /\ UNCHANGED <<prefs, current, source, issued, program>>

\* inner.Token: it has to be refreshed, and comes with a new refresh token; or
\* the answer is lost, and the source has none the API honours.
Refreshes(c) ==
    /\ MayCall(c)
    /\ source = issued /\ issued < MaxTokens
    /\ issued' = issued + 1

AskRotated(c) ==
    /\ Refreshes(c)
    /\ source' = issued'
    /\ Got(c, issued')
    /\ UNCHANGED <<prefs, current, program>>

AskLost(c) == Refreshes(c) /\ UNCHANGED <<prefs, memory, starts, up>>

\* Mutant of Rotated: only a store that was given none wants the token.
RotatedIfNone(c) == current = NoToken

Rotated(c) == call[c].token # current

Compare(c) ==
    /\ call[c].at = "got"
    /\ At(c, IF Rotated(c) THEN "note" ELSE "idle")
    /\ UNCHANGED <<prefs, current, source, issued, program>>

\* Save, as Token calls it.
NoteToken(c) ==
    /\ call[c].at = "note"
    /\ current' = call[c].token
    /\ At(c, "write")
    /\ UNCHANGED <<prefs, source, issued, program>>

WriteToken(c) ==
    /\ call[c].at = "write"
    /\ prefs' = call[c].token
    /\ At(c, "idle")
    /\ UNCHANGED <<current, source, issued, program>>

Token(c) ==
    AskHeld(c) \/ AskRotated(c) \/ AskLost(c) \/ Compare(c) \/ NoteToken(c) \/ WriteToken(c)

-----------------------------------------------------------------------------
\* SignOut of the tracker. (A session whose token the API takes no longer ends
\* itself, between its calls: see Tracker.)
SignOut ==
    /\ up /\ source # NoToken
    /\ out = "no" /\ out' = "revoke"
    /\ UNCHANGED <<prefs, current, source, issued, call, login, starts, up>>

RevokeReturns ==
    /\ out = "revoke" /\ out' = "clear"
    /\ call["revoke"].at = "idle"
    /\ UNCHANGED <<prefs, current, source, issued, call, login, starts, up>>

\* The session is stopped, and Clear forgets the note; then the preference.
ClearNote ==
    /\ out = "clear" /\ out' = "remove"
    /\ current' = NoToken
    /\ UNCHANGED <<prefs, source, issued, call, login, starts, up>>

ClearPrefs ==
    /\ out = "remove" /\ out' = "done"
    /\ prefs' = NoToken
    /\ UNCHANGED <<current, source, issued, call, login, starts, up>>

\* The client of the session is closed when its calls have returned.
SessionOver ==
    /\ out = "done" /\ out' = "no"
    /\ \A c \in Callers : call[c].at = "idle"
    /\ source' = NoToken
    /\ UNCHANGED <<prefs, current, issued, call, login, starts, up>>

SignOutStep == SignOut \/ RevokeReturns \/ ClearNote \/ ClearPrefs \/ SessionOver

\* A login gets its token (how is in BrowserLogin): its Save, and the session that
\* follows. The calls of the last session have returned: Tracker has the logins
\* that come before they have (see StoredSettles there).
LoginSucceeds ==
    /\ up /\ source = NoToken
    /\ login = "no" /\ login' = "note"
    /\ issued < MaxTokens
    /\ issued' = issued + 1
    /\ UNCHANGED <<prefs, current, source, call, out, starts, up>>

LoginNote ==
    /\ login = "note" /\ login' = "write"
    /\ current' = issued
    /\ UNCHANGED <<prefs, source, issued, call, out, starts, up>>

LoginWrite ==
    /\ login = "write" /\ login' = "no"
    /\ prefs' = issued /\ source' = issued
    /\ UNCHANGED <<current, issued, call, out, starts, up>>

\* No start is left.
Finished == ~up /\ starts = MaxStarts /\ UNCHANGED vars

Next ==
    \/ Load
    \/ Stop
    \/ \E c \in Callers : Token(c)
    \/ SignOutStep
    \/ LoginSucceeds
    \/ LoginNote
    \/ LoginWrite
    \/ Finished

Spec == Init /\ [][Next]_vars

-----------------------------------------------------------------------------
\* Every variable holds what its declaration says.
TypeOK ==
    /\ prefs \in {NoToken, Unreadable} \cup Tokens
    /\ {current, source} \subseteq 0..issued
    /\ issued \in 0..MaxTokens
    /\ call \in [Callers -> [at : {"idle", "got", "note", "write"}, token : 0..issued]]
    /\ out \in {"no", "revoke", "clear", "remove", "done"}
    /\ login \in {"no", "note", "write"}
    /\ starts \in 0..MaxStarts
    /\ up \in BOOLEAN

\* "the old refresh token is dead once the server rotates it" (tokens_test.go:63):
\* when no call of the session is under way, the store holds the token its
\* source does, through every rotation, lost answer and restart, so that the
\* program can end there and sign in again.
StoredIsTheSources ==
    up /\ out = "no" /\ source # NoToken /\ call["session"].at = "idle"
        => prefs = source

\* "an unrotated refresh token must not cost a write" (tokens_test.go:76):
\* a session writes no token that is stored, unless somebody signs out.
WritesOnlyRotated ==
    [][ call["session"].at = "write" /\ call'["session"].at = "idle" /\ up' /\ out = "no"
            => prefs' # prefs ]_vars

-----------------------------------------------------------------------------
\* "signing out left the token behind" (tokens_test.go:40): it does not. But a
\* call that compared the token before Clear, or got it before and compares it
\* after, stores it again.
SignedOutForgets == up /\ source = NoToken /\ login = "no" => prefs = NoToken
=============================================================================
