---------------------------- MODULE Sender_proofs ----------------------------
(***************************************************************************)
(* Theorems about Sender and Session, for windows and channels of any size *)
(* and any number of snapshots, late calls, pauses and flights.            *)
(***************************************************************************)
EXTENDS Session, TLAPS

ReplyType == [kind : ReplyKind, status : Status \cup {"none"}, pause : BOOLEAN]

RequestType == [call : Calls, ids : SUBSET Nat]

-----------------------------------------------------------------------------
(***************************************************************************)
(* The window and the channel, as sequences.                               *)
(***************************************************************************)
\* A window one longer than it may be loses its oldest position, and that
\* alone.
LEMMA WindowedSeq ==
    ASSUME NEW S, NEW s \in Seq(S), Len(s) <= Window + 1
    PROVE  /\ Windowed(s) \in Seq(S)
           /\ Len(Windowed(s)) = IF Len(s) > Window THEN Window ELSE Len(s)
           /\ \A i \in 1..Len(Windowed(s)) :
                 Windowed(s)[i] = s[i + Len(s) - Len(Windowed(s))]
<1> USE SenderAssumption DEF SenderAssumption
<1>1. CASE Len(s) > Window
  <2>1. Windowed(s) = Tail(s) /\ Len(s) = Window + 1 /\ s # <<>>
    BY <1>1 DEF Windowed
  <2>2. Tail(s) \in Seq(S) /\ Len(Tail(s)) = Window
    BY <2>1
  <2>3. \A i \in 1..Len(Tail(s)) : Tail(s)[i] = s[i + 1]
    BY <2>1
  <2> QED BY <1>1, <2>1, <2>2, <2>3
<1>2. CASE ~(Len(s) > Window)
  <2>1. Windowed(s) = s
    BY <1>2 DEF Windowed
  <2> QED BY <1>2, <2>1
<1> QED BY <1>1, <1>2

\* A channel that is not full takes one more, and one that is not empty gives
\* its first.
LEMMA ChannelSeq ==
    ASSUME NEW S, NEW s \in Seq(S), NEW n \in Nat, Len(s) <= n
    PROVE  /\ \A e \in S : Len(s) < n =>
                 Append(s, e) \in Seq(S) /\ Len(Append(s, e)) <= n
           /\ s # <<>> => Head(s) \in S /\ Tail(s) \in Seq(S) /\ Len(Tail(s)) <= n
  OBVIOUS

-----------------------------------------------------------------------------
(***************************************************************************)
(* What the API may make of a request.                                     *)
(***************************************************************************)
Api == stored \subseteq Nat /\ status \in Status /\ access \in {"granted"} \cup Refusal

\* Its answers have their type, and an answer that is no more than its kind
\* has that kind.
LEMMA AnswerType ==
    /\ \A kind \in ReplyKind : Reply(kind) \in ReplyType /\ Reply(kind).kind = kind
    /\ \A st \in Status, p \in BOOLEAN : Ok(st, p) \in ReplyType /\ Ok(st, p).kind = "ok"
  BY DEF Reply, Ok, ReplyType, ReplyKind

\* An outcome is read by its fields.
LEMMA OutcomeParts ==
    ASSUME NEW r, NEW sto, NEW sta
    PROVE  /\ Outcome(r, sto, sta).reply = r
           /\ Outcome(r, sto, sta).stored = sto
           /\ Outcome(r, sto, sta).status = sta
  BY DEF Outcome

\* Its answer is one the sender knows; the positions stored grow by those of
\* the request or not at all, and have grown when the answer says so.
LEMMA OutcomeType ==
    ASSUME Api, NEW request \in RequestType, NEW outcome \in Outcomes(request)
    PROVE  /\ outcome.reply \in ReplyType
           /\ outcome.status \in Status
           /\ outcome.stored \in {stored, stored \cup request.ids}
           /\ outcome.reply.kind \in {"ok", "no_airport"} /\ request.call = "positions"
                 => request.ids \subseteq outcome.stored
<1> DEFINE Good(o) == /\ o.reply \in ReplyType
                      /\ o.status \in Status
                      /\ o.stored \in {stored, stored \cup request.ids}
                      /\ o.reply.kind \in {"ok", "no_airport"} /\ request.call = "positions"
                            => request.ids \subseteq o.stored
<1>1. ASSUME NEW kind \in ReplyKind \ {"ok", "no_airport"}
      PROVE  Good(Outcome(Reply(kind), stored, status))
  BY AnswerType, OutcomeParts DEF Api
<1>2. ASSUME NEW kind \in ReplyKind
      PROVE  Good(Outcome(Reply(kind), stored \cup request.ids, status))
  <2> DEFINE o == Outcome(Reply(kind), stored \cup request.ids, status)
  <2>1. o.reply = Reply(kind) /\ o.stored = stored \cup request.ids /\ o.status = status
    BY OutcomeParts
  <2>2. Reply(kind) \in ReplyType /\ status \in Status
    BY AnswerType DEF Api
  <2>3. Good(o)
    <3> HIDE DEF o
    <3> QED BY <2>1, <2>2
  <2> QED BY <2>3
<1>3. ASSUME NEW st \in Status, NEW p \in BOOLEAN
      PROVE  Good(Outcome(Ok(st, p), stored \cup request.ids, st))
  <2> DEFINE o == Outcome(Ok(st, p), stored \cup request.ids, st)
  <2>1. o.reply = Ok(st, p) /\ o.stored = stored \cup request.ids /\ o.status = st
    BY OutcomeParts
  <2>2. Ok(st, p) \in ReplyType
    BY AnswerType
  <2>3. Good(o)
    <3> HIDE DEF o
    <3> QED BY <2>1, <2>2
  <2> QED BY <2>3
<1>4. ASSUME NEW st \in Status, NEW p \in BOOLEAN, request.call # "positions"
      PROVE  Good(Outcome(Ok(st, p), stored, st))
  <2> DEFINE o == Outcome(Ok(st, p), stored, st)
  <2>1. o.reply = Ok(st, p) /\ o.stored = stored /\ o.status = st
    BY OutcomeParts
  <2>2. Ok(st, p) \in ReplyType
    BY AnswerType
  <2>3. Good(o)
    <3> HIDE DEF o
    <3> QED BY <1>4, <2>1, <2>2
  <2> QED BY <2>3
<1>5. ASSUME NEW kind \in ReplyKind, request.call # "positions"
      PROVE  Good(Outcome(Reply(kind), stored, status))
  BY <1>5, AnswerType, OutcomeParts DEF Api
<1>6. {"not_active", "gone", "not_deboarding", "refused"} \subseteq ReplyKind \ {"ok", "no_airport"}
  BY DEF ReplyKind, Refusal
<1>7. Pauses \subseteq BOOLEAN /\ Terminal \subseteq Status /\ "no_airport" \in ReplyKind
  BY DEF Pauses, Status, ReplyKind
<1>8. Good(outcome)
  <2> HIDE DEF Good
  <2>1. CASE access # "granted"
    <3>1. outcome = Outcome(Reply("refused"), stored, status)
      BY <2>1 DEF Outcomes, Api, Refusal, Unmoved
    <3> QED BY <3>1, <1>1, <1>6
  <2>2. CASE access = "granted" /\ request.call = "positions"
    <3>1. outcome \in PositionsOutcomes(request.ids)
      BY <2>2 DEF Outcomes
    <3> QED BY <3>1, <1>1, <1>2, <1>3, <1>6, <1>7 DEF PositionsOutcomes, Unmoved
  <2>3. CASE access = "granted" /\ request.call = "look"
    <3>1. outcome \in LookOutcomes
      BY <2>3 DEF Outcomes
    <3>2. status \in Status /\ request.call # "positions"
      BY <2>3 DEF Api
    <3> QED BY <3>1, <3>2, <1>1, <1>4, <1>6 DEF LookOutcomes, Unmoved
  <2>4. CASE access = "granted" /\ request.call = "deboard"
    <3>1. outcome \in DeboardOutcomes
      BY <2>4 DEF Outcomes
    <3>2. request.call # "positions"
      BY <2>4
    <3> QED BY <3>1, <3>2, <1>1, <1>4, <1>5, <1>6, <1>7 DEF DeboardOutcomes, Unmoved
  <2> QED BY <2>1, <2>2, <2>3, <2>4 DEF Calls, RequestType
<1> QED BY <1>8

-----------------------------------------------------------------------------
(***************************************************************************)
(* Types.                                                                  *)
(***************************************************************************)
\* A call begins with no answer, or with that of a client that is cancelled.
LEMMA BeginType ==
    ASSUME NEW call \in Calls, Begin(call)
    PROVE  /\ pc' = call
           /\ reply' \in {NoReply, Unreachable}
           /\ reply' \in ReplyType
           /\ reply'.kind \in {"none", "unreachable"}
<1>1. /\ NoReply \in ReplyType /\ NoReply.kind = "none"
      /\ Unreachable \in ReplyType /\ Unreachable.kind = "unreachable"
  BY AnswerType DEF NoReply, Unreachable, ReplyKind
<1> QED BY <1>1 DEF Begin

\* A flush begins a call of a known kind, from where it is to return to.
LEMMA FlushType ==
    ASSUME NEW held, NEW returnTo, Flush(held, returnTo)
    PROVE  /\ back' = returnTo
           /\ pc' \in {"look", "positions"}
           /\ pc' = "positions" => held # <<>>
           /\ reply' \in {NoReply, Unreachable}
           /\ reply' \in ReplyType
           /\ reply'.kind \in {"none", "unreachable"}
<1>1. CASE held = <<>>
  BY <1>1, BeginType, "look" \in Calls DEF Flush, Calls
<1>2. CASE held # <<>>
  BY <1>2, BeginType, "positions" \in Calls DEF Flush, Calls
<1> QED BY <1>1, <1>2

NoteType == {"", "holding", "press_again", "no_airport", "failed"} \X Nat

\* TypeOK in parts, as the actions change them.
Flags == ctxDone \in BOOLEAN /\ deboards \in BOOLEAN

Channel == snapshots \in Seq(Snapshot) /\ Len(snapshots) <= SnapshotBuffer

Held == pending \in Seq(Position) /\ Len(pending) <= Window /\ collected \in Nat

Place ==
    /\ pc \in {"select", "pressed", "done"} \cup Calls
    /\ back \in {"select", "pressed"}
    /\ reply \in ReplyType

Shown ==
    /\ button \in {"hidden", "enabled", "disabled"}
    /\ note \in NoteType
    /\ verdict \in {"none", "over"} \cup Refusal
    /\ pausing \in Nat

Remote == Api /\ late \subseteq RequestType

\* The type invariant, split into the groups of variables the actions treat alike.
LEMMA TypeParts ==
    /\ TypeOK <=> Flags /\ Channel /\ Held /\ Place /\ Shown /\ Remote
    /\ TypeOK' <=> Flags' /\ Channel' /\ Held' /\ Place' /\ Shown' /\ Remote'
  BY DEF TypeOK, Flags, Channel, Held, Place, Shown, Remote, Api, ReplyType, RequestType,
         NoteType

\* The sender starts well typed.
LEMMA TypeInit == Init => TypeOK
<1> SUFFICES ASSUME Init
             PROVE  Flags /\ Channel /\ Held /\ Place /\ Shown /\ Remote
  BY TypeParts
<1>1. Flags
  BY DEF Init, Flags
<1>2. Channel
  <2>1. snapshots = <<>>
    BY DEF Init
  <2> QED BY <2>1, SenderAssumption DEF Channel, SenderAssumption
<1>3. Held
  <2>1. pending = <<>> /\ collected = 0
    BY DEF Init
  <2> QED BY <2>1, SenderAssumption DEF Held, SenderAssumption
<1>4. Place
  <2>1. reply \in ReplyType
    BY AnswerType DEF Init, NoReply, ReplyKind
  <2> QED BY <2>1 DEF Init, Place
<1>5. Shown
  BY DEF Init, Shown, NoteType, NoNote, Saying
<1>6. Remote
  BY DEF Init, Remote, Api
<1> QED BY <1>1, <1>2, <1>3, <1>4, <1>5, <1>6

\* Which actions touch what: the others leave it alone.
LEMMA Frames ==
    ASSUME [Next]_vars
    PROVE  /\ \/ Collect
              \/ \E snapshot \in Snapshot : Offer(snapshot)
              \/ snapshots' = snapshots
           /\ \/ Collect
              \/ PositionsNoAirport
              \/ PositionsStored
              \/ Stop
              \/ UNCHANGED <<pending, collected>>
           /\ SenderStep \/ UNCHANGED <<pending, collected>>
           /\ \/ SenderStep
              \/ Answer \/ LoseAnswer \/ LoseRequest \/ TimeOut
              \/ UNCHANGED <<pc, back, reply>>
           /\ \/ Network
              \/ CallOff
              \/ Deny
              \/ UNCHANGED api
           /\ \/ Refused
              \/ verdict' \in {verdict, "over"}
           /\ \/ PositionsStored
              \/ Paused
              \/ pausing' = pausing
           /\ button' \in {button, "hidden", "enabled", "disabled"}
           /\ \/ note' \in {note, NoNote, Holding(Len(pending))}
              \/ \E text \in {"press_again", "no_airport", "failed"} : note' = Saying(text)
           /\ ctxDone' \in {ctxDone, TRUE}
           /\ deboards' \in {deboards, TRUE, FALSE}
  BY DEF Next, SenderStep, HandleReply, Network, Stop, Collect, SendTick, Press,
         AfterPress, Cancelled, Refused, PositionsNotActive, PositionsNoAirport,
         PositionsFailed, PositionsStored, LookGone, LookFailed, LookFlying,
         NotDeboarding, DeboardFailed, Deboarded, LoopUnchanged, ArriveLate, CallOff,
         Answer, LoseAnswer, LoseRequest, TimeOut, Deny, Tap, Paused, Offer, Cancel,
         Finished, vars, screen, api, Progress, ButtonFor, EndFlight, GoOn

\* The window: what Collect adds, and the cap.
LEMMA HeldStep == TypeOK /\ [Next]_vars => Held'
<1> SUFFICES ASSUME Channel, Held, [Next]_vars
             PROVE  Held'
  BY TypeParts
<1> USE SenderAssumption DEF SenderAssumption
<1>1. CASE Collect
  <2> DEFINE next == [id |-> collected + 1, paused |-> Head(snapshots).paused]
             longer == Append(pending, next)
  <2>1. Head(snapshots) \in Snapshot
    BY <1>1 DEF Collect, Channel
  <2>2. Head(snapshots).paused \in BOOLEAN
    BY <2>1 DEF Snapshot
  <2>3. next \in Position
    BY <2>2 DEF Held, Position
  <2>4. longer \in Seq(Position) /\ Len(longer) <= Window + 1
    <3> HIDE DEF next
    <3> QED BY <2>3 DEF Held
  <2>5. pending' = Windowed(longer) /\ collected' = collected + 1
    BY <1>1 DEF Collect
  <2>6. Windowed(longer) \in Seq(Position) /\ Len(Windowed(longer)) <= Window
    <3> HIDE DEF longer
    <3> QED BY <2>4, WindowedSeq
  <2> QED BY <2>5, <2>6 DEF Held
<1>2. CASE PositionsNoAirport \/ PositionsStored \/ Stop
  <2>1. pending' = <<>> /\ collected' = collected
    BY <1>2 DEF PositionsNoAirport, PositionsStored, Stop
  <2> QED BY <2>1 DEF Held
<1>3. CASE UNCHANGED <<pending, collected>>
  BY <1>3 DEF Held
<1> QED BY <1>1, <1>2, <1>3, Frames

\* A step keeps the channel of snapshots within its capacity.
LEMMA ChannelStep == TypeOK /\ [Next]_vars => Channel'
<1> SUFFICES ASSUME Channel, [Next]_vars
             PROVE  Channel'
  BY TypeParts
<1> USE SenderAssumption DEF SenderAssumption
<1>1. CASE Collect
  <2>1. snapshots # <<>> /\ snapshots' = Tail(snapshots)
    BY <1>1 DEF Collect
  <2> QED BY <2>1, ChannelSeq DEF Channel
<1>2. ASSUME NEW snapshot \in Snapshot, Offer(snapshot)
      PROVE  Channel'
  <2>1. Len(snapshots) < SnapshotBuffer /\ snapshots' = Append(snapshots, snapshot)
    BY <1>2 DEF Offer
  <2> QED BY <2>1, ChannelSeq DEF Channel
<1>3. CASE snapshots' = snapshots
  BY <1>3 DEF Channel
<1> QED BY <1>1, <1>2, <1>3, Frames

\* The call under way asks for what is held.
LEMMA RequestMade ==
    ASSUME Held, Waiting
    PROVE  /\ Request \in RequestType
           /\ Request.call = pc
           /\ Request.ids = IF pc = "positions" THEN Ids(pending) ELSE {}
<1>1. ASSUME NEW i \in 1..Len(pending)
      PROVE  pending[i].id \in Nat
  <2>1. pending[i] \in Position
    BY DEF Held
  <2> QED BY <2>1 DEF Position
<1>2. Ids(pending) \subseteq Nat
  BY <1>1 DEF Ids
<1>3. pc \in Calls
  BY DEF Waiting
<1> QED BY <1>2, <1>3 DEF Request, RequestType

\* Where the loop stands, and the answer it looks at.
LEMMA PlaceStep == TypeOK /\ [Next]_vars => Place'
<1> SUFFICES ASSUME Place, Remote, Held, [Next]_vars
             PROVE  Place'
  BY TypeParts
<1>1. CASE Stop
  BY <1>1 DEF Stop, Place
<1>2. CASE Collect
  <2>1. CASE UNCHANGED <<pc, back, reply>>
    BY <2>1 DEF Place
  <2>2. CASE Flush(pending', "select")
    BY <2>2, FlushType DEF Place, Calls
  <2> QED BY <1>2, <2>1, <2>2 DEF Collect
<1>3. CASE SendTick
  BY <1>3, FlushType DEF SendTick, Place, Calls
<1>4. CASE Press
  BY <1>4, FlushType DEF Press, Place, Calls
<1>5. CASE AfterPress
  <2>1. back' = "select"
    BY <1>5 DEF AfterPress
  <2>2. CASE pc' = "select" /\ reply' = reply
    BY <2>1, <2>2 DEF Place
  <2>3. CASE Begin("deboard")
    BY <2>1, <2>3, BeginType, "deboard" \in Calls DEF Place, Calls
  <2> QED BY <1>5, <2>2, <2>3 DEF AfterPress
<1>6. CASE HandleReply
  <2>1. CASE Return /\ back' = back
    BY <2>1, AnswerType DEF Return, Place, NoReply, ReplyKind
  <2>2. CASE Begin("look") /\ back' = back
    BY <2>2, BeginType, "look" \in Calls DEF Place, Calls
  <2> QED
    BY <1>6, <2>1, <2>2
    DEF HandleReply, Cancelled, Refused, PositionsNotActive, PositionsNoAirport,
        PositionsFailed, PositionsStored, LookGone, LookFailed, LookFlying,
        NotDeboarding, DeboardFailed, Deboarded
<1>7. CASE Answer
  <2>1. Request \in RequestType
    BY <1>7, RequestMade DEF Answer
  <2>2. reply' \in ReplyType
    BY <1>7, <2>1, OutcomeType DEF Answer, Remote
  <2> QED BY <1>7, <2>2 DEF Answer, LoopUnchanged, Place
<1>8. CASE LoseAnswer \/ LoseRequest \/ TimeOut
  <2>1. reply' = Unreachable /\ UNCHANGED <<pc, back>>
    BY <1>8 DEF LoseAnswer, LoseRequest, TimeOut, LoopUnchanged
  <2> QED BY <2>1, AnswerType DEF Place, Unreachable, ReplyKind
<1>9. CASE UNCHANGED <<pc, back, reply>>
  BY <1>9 DEF Place
<1> QED
  BY <1>1, <1>2, <1>3, <1>4, <1>5, <1>6, <1>7, <1>8, <1>9, Frames DEF SenderStep

\* What the API holds: positions of requests that were made.
LEMMA RemoteStep == TypeOK /\ [Next]_vars => Remote'
<1> SUFFICES ASSUME Held, Remote, [Next]_vars
             PROVE  Remote'
  BY TypeParts
<1>1. ASSUME NEW request \in RequestType, NEW outcome \in Outcomes(request), Serve(outcome)
      PROVE  Api'
  <2>1. /\ stored' \in {stored, stored \cup request.ids}
        /\ status' \in Status
        /\ access' = access
    BY <1>1, OutcomeType DEF Serve, Remote
  <2>2. stored \subseteq Nat /\ request.ids \subseteq Nat /\ access \in {"granted"} \cup Refusal
    BY DEF Remote, Api, RequestType
  <2>3. stored' \subseteq Nat
    BY <2>1, <2>2
  <2> QED BY <2>1, <2>2, <2>3 DEF Api
<1>2. CASE Answer \/ LoseAnswer
  <2>1. Request \in RequestType /\ late' = late
    BY <1>2, RequestMade DEF Answer, LoseAnswer
  <2>2. \E outcome \in Outcomes(Request) : Serve(outcome)
    BY <1>2 DEF Answer, LoseAnswer
  <2> QED BY <2>1, <2>2, <1>1 DEF Remote
<1>3. CASE TimeOut
  BY <1>3, RequestMade DEF TimeOut, Remote, Api
<1>4. CASE ArriveLate
  <2>1. PICK request \in late : /\ \E outcome \in Outcomes(request) : Serve(outcome)
                                /\ late' = late \ {request}
    BY <1>4 DEF ArriveLate
  <2> QED BY <2>1, <1>1 DEF Remote
<1>5. CASE CallOff
  BY <1>5 DEF CallOff, Remote, Api, Status
<1>6. CASE Deny
  BY <1>6 DEF Deny, Remote, Api
<1>7. CASE UNCHANGED api
  BY <1>7 DEF api, Remote, Api
<1>8. CASE LoseRequest
  BY <1>8 DEF LoseRequest, api, Remote, Api
<1> QED BY <1>2, <1>3, <1>4, <1>5, <1>6, <1>7, <1>8, Frames DEF Network

\* The flags, and what the player is shown.
LEMMA FlagsStep == TypeOK /\ [Next]_vars => Flags'
  BY TypeParts, Frames DEF Flags

\* A step keeps what the screen shows, and the verdict, within their sets.
LEMMA ShownStep == TypeOK /\ [Next]_vars => Shown'
<1> SUFFICES ASSUME Shown, Held, [Next]_vars
             PROVE  Shown'
  BY TypeParts
<1>1. verdict' \in {verdict, "over"} \cup Refusal
  <2>1. CASE Refused
    BY <2>1 DEF Refused, Heard, EndFlight
  <2> QED BY <2>1, Frames
<1>2. pausing' \in Nat
  <2>1. pausing \in Nat
    BY DEF Shown
  <2>2. CASE PositionsStored
    BY <2>1, <2>2 DEF PositionsStored
  <2>3. CASE Paused
    BY <2>1, <2>3 DEF Paused
  <2> QED BY <2>1, <2>2, <2>3, Frames
<1>3. note' \in NoteType
  <2>1. \A text \in {"", "press_again", "no_airport", "failed"} : Saying(text) \in NoteType
    BY DEF Saying, NoteType
  <2>2. Len(pending) \in Nat
    BY DEF Held
  <2>3. Holding(Len(pending)) \in NoteType
    BY <2>2 DEF Holding, NoteType
  <2> QED BY <2>1, <2>3, Frames DEF Shown, NoNote
<1> QED BY <1>1, <1>2, <1>3, Frames DEF Shown

\* Every variable keeps its type, the window and the channel their capacities.
THEOREM TypeCorrect == Spec => []TypeOK
<1>1. TypeOK /\ [Next]_vars => TypeOK'
  BY TypeParts, HeldStep, ChannelStep, PlaceStep, RemoteStep, FlagsStep, ShownStep
<1> QED BY <1>1, TypeInit, PTL DEF Spec

-----------------------------------------------------------------------------
(***************************************************************************)
(* Delivery. The window is an unbroken run that ends at the latest         *)
(* position; what it has let go of is stored, or a window and more behind; *)
(* an answer that lets go of all of it comes from an API that has stored   *)
(* all of it; and a late call carries nothing that was not collected. Once *)
(* the loop has returned, what it held is given up.                        *)
(***************************************************************************)
StoredOrRecent ==
    pc # "done" =>
        \A id \in 1..collected :
            id \in stored \/ id > collected - Len(pending) \/ id + Window <= collected

AnswerIsBacked ==
    pc = "positions" /\ reply.kind \in {"ok", "no_airport"} => Ids(pending) \subseteq stored

LateIsCollected ==
    \A request \in late :
        /\ request.ids \subseteq 1..collected
        /\ request.call # "positions" => request.ids = {}

PostsSomething == pc = "positions" => pending # <<>>

DeliveryInv ==
    /\ WindowUnbroken
    /\ Len(pending) <= collected
    /\ StoredOrRecent
    /\ AnswerIsBacked
    /\ LateIsCollected
    /\ PostsSomething

\* An unbroken run that ends at c has the positions from its oldest to c.
LEMMA RunIds ==
    ASSUME NEW run \in Seq(Position), NEW c \in Nat, Len(run) <= c,
           \A i \in 1..Len(run) : run[i].id = c - Len(run) + i
    PROVE  Ids(run) = (c - Len(run) + 1)..c
<1> DEFINE n == Len(run)
<1>1. n \in Nat /\ n <= c
  OBVIOUS
<1>2. \A i \in 1..n : run[i].id = c - n + i
  OBVIOUS
<1>3. Ids(run) = {run[i].id : i \in 1..n}
  BY DEF Ids
<1> HIDE DEF n
<1>4. ASSUME NEW id \in Ids(run)
      PROVE  id \in (c - n + 1)..c
  BY <1>1, <1>2, <1>3
<1>5. ASSUME NEW id \in (c - n + 1)..c
      PROVE  id \in Ids(run)
  <2>1. id - (c - n) \in 1..n
    BY <1>1
  <2>2. run[id - (c - n)].id = id
    BY <1>1, <1>2, <2>1
  <2> QED BY <1>3, <2>1, <2>2
<1> QED BY <1>4, <1>5 DEF n

\* So does the window.
LEMMA HeldIds ==
    ASSUME Held, WindowUnbroken, Len(pending) <= collected
    PROVE  Ids(pending) = (collected - Len(pending) + 1)..collected
  BY RunIds DEF Held, WindowUnbroken

\* What a step does to the window: it grows by the latest position, it is let
\* go of whole, it goes with the loop, or it stays while the API stores something
\* of it.
Grows ==
    /\ collected' = collected + 1
    /\ Len(pending') = IF Len(pending) = Window THEN Window ELSE Len(pending) + 1
    /\ stored' = stored

LetsGo ==
    /\ collected' = collected
    /\ pending' = <<>>
    /\ stored' = stored
    /\ Ids(pending) \subseteq stored

GoesWithLoop ==
    /\ pc = "select" /\ pc' = "done"
    /\ collected' = collected
    /\ pending' = <<>>
    /\ UNCHANGED api

Stays ==
    /\ UNCHANGED <<collected, pending>>
    /\ stored \subseteq stored'
    /\ stored' \subseteq stored \cup 1..collected

\* One more position keeps the window unbroken.
LEMMA CollectWindow ==
    ASSUME Channel, Held, WindowUnbroken, Len(pending) <= collected, Collect
    PROVE  Grows /\ WindowUnbroken' /\ Len(pending') <= collected'
<1> USE SenderAssumption DEF SenderAssumption
<1> DEFINE next == [id |-> collected + 1, paused |-> Head(snapshots).paused]
           longer == Append(pending, next)
           n == Len(pending)
<1>1. /\ n \in Nat /\ collected \in Nat /\ n <= collected /\ n <= Window
      /\ pending \in Seq(Position)
  BY DEF Held
<1>2. next \in Position /\ next.id = collected + 1
  <2>1. Head(snapshots) \in Snapshot
    BY DEF Collect, Channel
  <2>2. Head(snapshots).paused \in BOOLEAN
    BY <2>1 DEF Snapshot
  <2> QED BY <1>1, <2>2 DEF Position
<1>3. /\ longer \in Seq(Position) /\ Len(longer) = n + 1 /\ longer[n + 1] = next
      /\ \A i \in 1..n : longer[i] = pending[i]
  <2> HIDE DEF next
  <2> QED BY <1>1, <1>2
<1>4. pending' = Windowed(longer) /\ collected' = collected + 1 /\ stored' = stored
  BY DEF Collect, api
<1> HIDE DEF next, longer
<1>5. ASSUME NEW i \in 1..(n + 1)
      PROVE  longer[i].id = collected - n + i
  <2>1. CASE i = n + 1
    BY <1>1, <1>2, <1>3, <2>1
  <2>2. CASE i \in 1..n
    BY <1>3, <2>2 DEF WindowUnbroken
  <2> QED BY <1>1, <2>1, <2>2
<1> HIDE DEF n
<1> DEFINE m == Len(pending')
<1>6. /\ m = (IF n + 1 > Window THEN Window ELSE n + 1)
      /\ \A i \in 1..m : pending'[i] = longer[i + (n + 1) - m]
  <2>1. Len(longer) <= Window + 1
    BY <1>1, <1>3
  <2>2. /\ Len(Windowed(longer)) = IF n + 1 > Window THEN Window ELSE n + 1
        /\ \A i \in 1..Len(Windowed(longer)) :
              Windowed(longer)[i] = longer[i + (n + 1) - Len(Windowed(longer))]
    BY <1>3, <2>1, WindowedSeq
  <2> QED BY <1>4, <2>2
<1>7. m = (IF n = Window THEN Window ELSE n + 1)
  BY <1>1, <1>6
<1> HIDE DEF m
<1>8. \A i \in 1..m : pending'[i].id = collected' - m + i
  BY <1>1, <1>4, <1>5, <1>6
<1>9. m <= collected'
  BY <1>1, <1>4, <1>7
<1> QED BY <1>4, <1>7, <1>8, <1>9 DEF Grows, WindowUnbroken, m, n

\* Serving a request stores its positions or nothing.
LEMMA ServeStores ==
    ASSUME Api, NEW request \in RequestType,
           \E outcome \in Outcomes(request) : Serve(outcome)
    PROVE  stored' \in {stored, stored \cup request.ids}
  BY OutcomeType DEF Serve

\* What a step may do to the positions: take one in, have some stored, let go of
\* those stored or, at the end, of all, or nothing.
LEMMA WindowMoves ==
    ASSUME TypeOK, DeliveryInv, [Next]_vars
    PROVE  Grows \/ LetsGo \/ GoesWithLoop \/ Stays
<1> Channel /\ Held /\ Remote
  BY TypeParts
<1>1. Ids(pending) \subseteq 1..collected
  BY HeldIds DEF DeliveryInv, Held
<1>2. CASE Collect
  BY <1>2, CollectWindow DEF DeliveryInv
<1>3. CASE PositionsNoAirport \/ PositionsStored
  <2>1. pc = "positions" /\ reply.kind \in {"ok", "no_airport"}
    BY <1>3 DEF PositionsNoAirport, PositionsStored, Heard, Answered
  <2>2. Ids(pending) \subseteq stored
    BY <2>1 DEF DeliveryInv, AnswerIsBacked
  <2>3. collected' = collected /\ pending' = <<>> /\ stored' = stored
    BY <1>3 DEF PositionsNoAirport, PositionsStored, api
  <2> QED BY <2>2, <2>3 DEF LetsGo
<1>4. CASE UNCHANGED <<pending, collected>>
  <2>1. ASSUME NEW request \in RequestType, request.ids \subseteq 1..collected,
               \E outcome \in Outcomes(request) : Serve(outcome)
        PROVE  Stays
    BY <1>4, <2>1, ServeStores DEF Remote, Stays
  <2>2. CASE Answer \/ LoseAnswer
    <3>1. Request \in RequestType /\ Request.ids \subseteq 1..collected
      BY <2>2, <1>1, RequestMade DEF Answer, LoseAnswer
    <3> QED BY <2>2, <2>1, <3>1 DEF Answer, LoseAnswer
  <2>3. CASE ArriveLate
    <3>1. PICK request \in late : \E outcome \in Outcomes(request) : Serve(outcome)
      BY <2>3 DEF ArriveLate
    <3>2. request \in RequestType /\ request.ids \subseteq 1..collected
      BY <3>1 DEF Remote, DeliveryInv, LateIsCollected
    <3> QED BY <2>1, <3>1, <3>2
  <2>4. CASE stored' = stored
    BY <1>4, <2>4 DEF Stays
  <2> QED
    BY <2>2, <2>3, <2>4, Frames
    DEF Network, TimeOut, LoseRequest, CallOff, Deny, api
<1>5. CASE Stop
  BY <1>5 DEF Stop, GoesWithLoop
<1> QED BY <1>2, <1>3, <1>4, <1>5, Frames

\* A loop that has returned does nothing any more.
LEMMA DoneStays ==
    ASSUME Place, [Next]_vars
    PROVE  /\ pc = "done" => pc' = "done" /\ ~SenderStep
           /\ pc # "done" /\ pc' = "done" => Stop
<1>1. CASE SenderStep
  <2>1. CASE Stop
    BY <1>1, <2>1 DEF Stop
  <2>2. CASE Collect \/ SendTick \/ Press
    BY <2>2, FlushType DEF Collect, SendTick, Press
  <2>3. CASE AfterPress
    BY <2>3 DEF AfterPress, Begin
  <2>4. CASE HandleReply
    BY <2>4
    DEF HandleReply, Cancelled, Refused, PositionsNotActive, PositionsNoAirport,
        PositionsFailed, PositionsStored, LookGone, LookFailed, LookFlying,
        NotDeboarding, DeboardFailed, Deboarded, Begin, Return, Heard, Answered, Place,
        Calls
  <2> QED BY <1>1, <2>1, <2>2, <2>3, <2>4 DEF SenderStep
<1>2. CASE ~SenderStep
  BY <1>2, Frames DEF Answer, LoseAnswer, LoseRequest, TimeOut, LoopUnchanged
<1> QED BY <1>1, <1>2

\* A step of the loop that comes to wait for positions to be stored has some
\* to send, and no answer yet that says they are.
LEMMA Posting ==
    ASSUME Place, SenderStep, pc' = "positions"
    PROVE  pending' # <<>> /\ reply'.kind \in {"none", "unreachable"}
<1>1. CASE Collect
  BY <1>1, FlushType DEF Collect
<1>2. CASE SendTick
  BY <1>2, FlushType DEF SendTick
<1>3. CASE Press
  BY <1>3, FlushType DEF Press
<1>4. ASSUME ~Collect, ~SendTick, ~Press
      PROVE  FALSE
  BY <1>4
  DEF SenderStep, Stop, AfterPress, Begin, HandleReply, Cancelled, Refused,
      PositionsNotActive, PositionsNoAirport, PositionsFailed, PositionsStored,
      LookGone, LookFailed, LookFlying, NotDeboarding, DeboardFailed, Deboarded,
      Return, Place
<1> QED BY <1>1, <1>2, <1>3, <1>4

\* When a run of n that ends at c grows by one, what is still in reach of it was
\* in its reach, but for the one a full window pushes out.
LEMMA OneMore ==
    ASSUME NEW c \in Nat, NEW n \in Nat, NEW w \in Nat \ {0}, n <= w, n <= c,
           NEW id \in Nat, NEW m, m = IF n = w THEN w ELSE n + 1
    PROVE  /\ id = c + 1 => id > (c + 1) - m
           /\ id > c - n => id > (c + 1) - m \/ id + w <= c + 1
           /\ id + w <= c => id + w <= c + 1
<1>1. CASE n = w
  BY <1>1
<1>2. CASE n # w
  BY <1>2
<1> QED BY <1>1, <1>2

\* The window is unbroken, and nothing lost, before there is a position.
LEMMA DeliveryInit == Init => DeliveryInv
<1> SUFFICES ASSUME Init
             PROVE  DeliveryInv
  OBVIOUS
<1>1. pending = <<>> /\ collected = 0 /\ late = {} /\ pc = "select"
  BY DEF Init
<1> QED
  BY <1>1 DEF DeliveryInv, WindowUnbroken, StoredOrRecent, AnswerIsBacked,
              LateIsCollected, PostsSomething

\* Each of those moves keeps the window unbroken and every position stored, held or pushed out.
LEMMA DeliveryStep == TypeOK /\ DeliveryInv /\ [Next]_vars => DeliveryInv'
<1> SUFFICES ASSUME TypeOK, DeliveryInv, [Next]_vars
             PROVE  DeliveryInv'
  OBVIOUS
<1> Channel /\ Held /\ Place /\ Remote /\ Held' /\ Place'
  BY TypeParts, HeldStep, PlaceStep
<1> USE SenderAssumption DEF SenderAssumption
<1>1. WindowUnbroken' /\ Len(pending') <= collected'
  <2>1. CASE Collect
    BY <2>1, CollectWindow DEF DeliveryInv
  <2>2. CASE pending' = <<>> /\ collected' = collected
    BY <2>2 DEF Held, WindowUnbroken
  <2>3. CASE UNCHANGED <<pending, collected>>
    BY <2>3 DEF DeliveryInv, WindowUnbroken
  <2> QED BY <2>1, <2>2, <2>3, Frames DEF PositionsNoAirport, PositionsStored, Stop
<1>2. StoredOrRecent'
  <2> SUFFICES ASSUME pc' # "done", NEW id \in 1..collected'
               PROVE  id \in stored' \/ id > collected' - Len(pending') \/ id + Window <= collected'
    BY DEF StoredOrRecent
  <2>1. /\ Len(pending) \in Nat /\ Len(pending) <= Window /\ Len(pending) <= collected
        /\ collected \in Nat /\ Window \in Nat
    BY DEF Held, DeliveryInv
  <2>2. id \in 1..collected =>
           id \in stored \/ id > collected - Len(pending) \/ id + Window <= collected
    BY DoneStays DEF DeliveryInv, StoredOrRecent
  <2>3. CASE Grows
    <3>1. /\ collected' = collected + 1
          /\ Len(pending') = IF Len(pending) = Window THEN Window ELSE Len(pending) + 1
          /\ stored' = stored
      BY <2>3 DEF Grows
    <3>2. id \in Nat /\ (id = collected + 1 \/ id \in 1..collected)
      BY <2>1, <3>1
    <3>3. /\ id = collected + 1 => id > (collected + 1) - Len(pending')
          /\ id > collected - Len(pending)
                => id > (collected + 1) - Len(pending') \/ id + Window <= collected + 1
          /\ id + Window <= collected => id + Window <= collected + 1
      <4> DEFINE m == Len(pending')
      <4>1. m = IF Len(pending) = Window THEN Window ELSE Len(pending) + 1
        BY <3>1
      <4> HIDE DEF m
      <4>2. /\ id = collected + 1 => id > (collected + 1) - m
            /\ id > collected - Len(pending)
                  => id > (collected + 1) - m \/ id + Window <= collected + 1
            /\ id + Window <= collected => id + Window <= collected + 1
        BY <2>1, <3>2, <4>1, OneMore
      <4> QED BY <4>2 DEF m
    <3> QED BY <2>2, <3>1, <3>2, <3>3
  <2>4. CASE LetsGo
    <3>1. id \in 1..collected /\ stored' = stored /\ collected' = collected
      BY <2>4 DEF LetsGo
    <3>2. id > collected - Len(pending) => id \in Ids(pending)
      BY <2>1, <3>1, HeldIds DEF DeliveryInv
    <3> QED BY <2>2, <2>4, <3>1, <3>2 DEF LetsGo
  <2>5. CASE Stays
    BY <2>2, <2>5 DEF Stays
  <2> QED BY <2>3, <2>4, <2>5, WindowMoves DEF GoesWithLoop
<1>3. AnswerIsBacked'
  <2> SUFFICES ASSUME pc' = "positions", reply'.kind \in {"ok", "no_airport"}
               PROVE  Ids(pending)' \subseteq stored'
    BY DEF AnswerIsBacked
  <2>1. CASE SenderStep
    BY <2>1, Posting
  <2>2. CASE Answer
    <3>1. PICK outcome \in Outcomes(Request) : Serve(outcome) /\ reply' = outcome.reply
      BY <2>2 DEF Answer
    <3>2. pc = "positions" /\ pending' = pending
      BY <2>2 DEF Answer, LoopUnchanged
    <3>3. Request \in RequestType /\ Request.call = "positions" /\ Request.ids = Ids(pending)
      BY <2>2, <3>2, RequestMade DEF Answer
    <3>4. Request.ids \subseteq outcome.stored
      BY <3>1, <3>3, OutcomeType DEF Remote
    <3> QED BY <3>1, <3>2, <3>3, <3>4 DEF Serve, Ids
  <2>3. CASE LoseAnswer \/ LoseRequest \/ TimeOut
    <3>1. reply' = Unreachable
      BY <2>3 DEF LoseAnswer, LoseRequest, TimeOut
    <3> QED BY <3>1, AnswerType DEF Unreachable, ReplyKind
  <2>4. CASE UNCHANGED <<pc, back, reply>> /\ UNCHANGED <<pending, collected>>
    <3>1. Ids(pending) \subseteq stored
      BY <2>4 DEF DeliveryInv, AnswerIsBacked
    <3>2. Ids(pending)' = Ids(pending)
      BY <2>4 DEF Ids
    <3>3. stored \subseteq stored'
      BY WindowMoves DEF Grows, LetsGo, GoesWithLoop, Stays, api
    <3> QED BY <3>1, <3>2, <3>3
  <2> QED BY <2>1, <2>2, <2>3, <2>4, Frames
<1>4. LateIsCollected'
  <2>1. Ids(pending) \subseteq 1..collected
    BY HeldIds DEF DeliveryInv, Held
  <2>2. 1..collected \subseteq 1..collected'
    BY WindowMoves DEF Held, Grows, LetsGo, GoesWithLoop, Stays
  <2>3. CASE TimeOut
    <3>1. /\ Request.ids \subseteq 1..collected /\ late' = late \cup {Request}
          /\ Request.call # "positions" => Request.ids = {}
      BY <2>1, <2>3, RequestMade DEF TimeOut
    <3> QED BY <2>2, <3>1 DEF DeliveryInv, LateIsCollected
  <2>4. CASE late' \subseteq late
    BY <2>2, <2>4 DEF DeliveryInv, LateIsCollected
  <2> QED
    BY <2>3, <2>4, Frames
    DEF Network, Answer, LoseAnswer, LoseRequest, ArriveLate, CallOff, Deny, api
<1>5. PostsSomething'
  <2>1. CASE SenderStep
    BY <2>1, Posting DEF PostsSomething
  <2>2. CASE ~SenderStep
    <3>1. UNCHANGED <<pc, pending>>
      BY <2>2, Frames DEF Answer, LoseAnswer, LoseRequest, TimeOut, LoopUnchanged
    <3> QED BY <3>1 DEF DeliveryInv, PostsSomething
  <2> QED BY <2>1, <2>2
<1> QED BY <1>1, <1>2, <1>3, <1>4, <1>5 DEF DeliveryInv

\* The inductive invariant of the positions holds throughout.
LEMMA DeliveryHolds == Spec => [](TypeOK /\ DeliveryInv)
<1>1. Init => DeliveryInv
  BY DeliveryInit
<1> QED BY <1>1, TypeCorrect, DeliveryStep, PTL DEF Spec

\* Batches reach the API oldest first and without holes, whatever the size of
\* the window and whatever happens to the calls.
THEOREM WindowCorrect == Spec => []WindowUnbroken
<1>1. DeliveryInv => WindowUnbroken
  BY DEF DeliveryInv
<1> QED BY <1>1, DeliveryHolds, PTL

\* As long as the flight goes on a position that is neither stored nor held was
\* pushed out by a window full of newer ones: lost, late, refused and repeated
\* calls lose none.
THEOREM NothingLostHolds == Spec => []NothingLost
<1>1. TypeOK /\ DeliveryInv => NothingLost
  <2> SUFFICES ASSUME TypeOK, DeliveryInv, pc # "done", NEW id \in 1..collected
               PROVE  id \in stored \/ id \in Ids(pending) \/ id + Window <= collected
    BY DEF NothingLost
  <2>1. Held
    BY TypeParts
  <2>2. id \in stored \/ id > collected - Len(pending) \/ id + Window <= collected
    BY DEF DeliveryInv, StoredOrRecent
  <2>3. id > collected - Len(pending) => id \in Ids(pending)
    BY <2>1, HeldIds DEF DeliveryInv, Held
  <2> QED BY <2>2, <2>3
<1> QED BY <1>1, DeliveryHolds, PTL

-----------------------------------------------------------------------------
(***************************************************************************)
(* The promise of PositionDelivery.                                        *)
(***************************************************************************)
\* The batches of calls that were given up on, and that of the call under way.
LateBatches == {request.ids : request \in {r \in late : r.call = "positions"}}

Posted == Waiting /\ pc = "positions"

LEMMA WayParts ==
    /\ OnTheWay = LateBatches \cup (IF Posted THEN {Ids(pending)} ELSE {})
    /\ OnTheWay' = LateBatches' \cup (IF Posted' THEN {Ids(pending)'} ELSE {})
  BY DEF OnTheWay, LateBatches, Posted

\* A step of the loop posts all that it holds, or nothing.
LEMMA LoopPosts ==
    ASSUME SenderStep
    PROVE  OnTheWay' \in {OnTheWay, OnTheWay \cup {Ids(pending)'}}
<1>1. ~Posted
  BY DEF Posted, Waiting, SenderStep, Stop, Collect, SendTick, Press, AfterPress, Calls,
         HandleReply, Cancelled, Refused, PositionsNotActive, PositionsNoAirport,
         PositionsFailed, PositionsStored, LookGone, LookFailed, LookFlying,
         NotDeboarding, DeboardFailed, Deboarded, Heard, Answered
<1>2. late' = late
  BY DEF SenderStep, Stop, Collect, SendTick, Press, AfterPress, HandleReply, Cancelled,
         Refused, PositionsNotActive, PositionsNoAirport, PositionsFailed,
         PositionsStored, LookGone, LookFailed, LookFlying, NotDeboarding,
         DeboardFailed, Deboarded, api
<1>3. LateBatches' = LateBatches
  BY <1>2 DEF LateBatches
<1> QED BY <1>1, <1>3, WayParts

\* A step of the network stores a batch that was on its way, or loses it, or
\* none.
LEMMA NetworkSettles ==
    ASSUME TypeOK, DeliveryInv, Network
    PROVE  \/ UNCHANGED <<stored, OnTheWay>>
           \/ \E batch \in OnTheWay :
                 /\ stored' \in {stored, stored \cup batch}
                 /\ OnTheWay' \in {OnTheWay, OnTheWay \ {batch}}
<1> Held /\ Remote
  BY TypeParts
<1>1. CASE Answer \/ LoseAnswer \/ LoseRequest
  <2>1. UNCHANGED <<pc, pending, late>>
    BY <1>1 DEF Answer, LoseAnswer, LoseRequest, LoopUnchanged, api
  <2>2. Waiting /\ LateBatches' = LateBatches /\ Ids(pending)' = Ids(pending)
    BY <1>1, <2>1 DEF Answer, LoseAnswer, LoseRequest, LateBatches, Ids
  <2>3. /\ Request \in RequestType
        /\ Request.ids = IF pc = "positions" THEN Ids(pending) ELSE {}
    BY <2>2, RequestMade
  <2>4. stored' \in {stored, stored \cup Request.ids}
    BY <1>1, <2>3, ServeStores DEF Answer, LoseAnswer, LoseRequest, Remote, api
  <2>5. CASE pc # "positions"
    <3>1. ~Posted /\ ~Posted'
      BY <2>1, <2>5 DEF Posted
    <3> QED BY <2>2, <2>3, <2>4, <2>5, <3>1, WayParts
  <2>6. CASE pc = "positions"
    <3>1. OnTheWay = LateBatches \cup {Ids(pending)}
      BY <2>2, <2>6, WayParts DEF Posted
    <3>2. OnTheWay' \in {LateBatches, LateBatches \cup {Ids(pending)}}
      BY <2>2, WayParts
    <3>3. OnTheWay' \in {OnTheWay, OnTheWay \ {Ids(pending)}}
      BY <3>1, <3>2
    <3> QED BY <2>3, <2>4, <2>6, <3>1, <3>3
  <2> QED BY <2>5, <2>6
<1>2. CASE TimeOut
  <2>1. /\ Waiting /\ late' = late \cup {Request} /\ stored' = stored
        /\ reply' = Unreachable /\ UNCHANGED <<pc, pending>>
    BY <1>2 DEF TimeOut, LoopUnchanged
  <2>2. /\ Request.call = pc
        /\ Request.ids = IF pc = "positions" THEN Ids(pending) ELSE {}
    BY <2>1, RequestMade
  <2>3. ~Posted'
    BY <2>1, AnswerType DEF Posted, Waiting, Unreachable, NoReply, ReplyKind
  <2>4. LateBatches' = LateBatches \cup (IF pc = "positions" THEN {Ids(pending)} ELSE {})
    BY <2>1, <2>2 DEF LateBatches
  <2>5. OnTheWay' = OnTheWay
    BY <2>1, <2>3, <2>4, WayParts DEF Posted
  <2> QED BY <2>1, <2>5
<1>3. CASE ArriveLate
  <2>1. PICK request \in late : /\ \E outcome \in Outcomes(request) : Serve(outcome)
                                /\ late' = late \ {request}
    BY <1>3 DEF ArriveLate
  <2>2. UNCHANGED <<pc, pending, reply>>
    BY <1>3 DEF ArriveLate, LoopUnchanged
  <2>3. Posted' = Posted /\ Ids(pending)' = Ids(pending)
    BY <2>2 DEF Posted, Waiting, Ids
  <2>4. stored' \in {stored, stored \cup request.ids}
    BY <2>1, ServeStores DEF Remote
  <2>5. request.call # "positions" => request.ids = {}
    BY <2>1 DEF DeliveryInv, LateIsCollected
  <2>6. CASE request.call # "positions"
    <3>1. LateBatches' = LateBatches
      BY <2>1, <2>6 DEF LateBatches
    <3> QED BY <2>3, <2>4, <2>5, <2>6, <3>1, WayParts
  <2>7. CASE request.call = "positions"
    <3>1. request.ids \in LateBatches
      BY <2>1, <2>7 DEF LateBatches
    <3>2. LateBatches' \in {LateBatches, LateBatches \ {request.ids}}
      BY <2>1 DEF LateBatches
    <3>3. OnTheWay' \in {OnTheWay, OnTheWay \ {request.ids}}
      BY <2>3, <3>1, <3>2, WayParts
    <3>4. request.ids \in OnTheWay
      BY <3>1, WayParts
    <3> QED BY <2>4, <3>3, <3>4
  <2> QED BY <2>6, <2>7
<1> QED BY <1>1, <1>2, <1>3 DEF Network

\* Nobody else has to do with batches that are on their way.
LEMMA OthersSettleNothing ==
    ASSUME [Next]_vars, ~SenderStep, ~Network
    PROVE  UNCHANGED <<pc, collected, pending, stored, OnTheWay>>
<1>1. UNCHANGED <<pc, reply, collected, pending, stored, late>>
  BY DEF Next, CallOff, Deny, Tap, Paused, Offer, Cancel, Finished, vars, screen, api,
         LoopUnchanged
<1> QED BY <1>1 DEF OnTheWay, Waiting, Ids

\* A step of the sender or of the API is a step of the promise, or none: only
\* whole batches are stored, each of them the unbroken run that was held when it
\* was sent, and nothing is let go of but what is stored, what a full window
\* pushes out, and what is held when the flight ends.
THEOREM Delivers == Spec => DeliversPositions
<1>1. Init => Delivery!Init
  <2> SUFFICES ASSUME Init
               PROVE  Delivery!Init
    OBVIOUS
  <2>1. pending = <<>> /\ collected = 0 /\ stored = {} /\ late = {} /\ pc = "select"
    BY DEF Init
  <2>2. OnTheWay = {}
    BY <2>1 DEF OnTheWay
  <2> QED BY <2>1, <2>2 DEF Delivery!Init
<1>2. TypeOK /\ DeliveryInv /\ [Next]_vars => [Delivery!Next]_(Delivery!vars)
  <2> SUFFICES ASSUME TypeOK, DeliveryInv, [Next]_vars
               PROVE  [Delivery!Next]_(Delivery!vars)
    OBVIOUS
  <2> USE SenderAssumption DEF SenderAssumption
  <2>1. /\ Held /\ WindowUnbroken /\ Place
        /\ Len(pending) \in Nat /\ Len(pending) <= Window /\ Len(pending) <= collected
        /\ collected \in Nat
    BY TypeParts DEF Held, DeliveryInv
  <2>2. /\ Ids(pending) = (collected - Len(pending) + 1)..collected
        /\ Ids(pending)' = (collected' - Len(pending') + 1)..collected'
    <3>1. Held' /\ WindowUnbroken' /\ Len(pending') <= collected'
      BY HeldStep, DeliveryStep DEF DeliveryInv
    <3>2. Ids(pending)' = (collected' - Len(pending') + 1)..collected'
      BY <3>1, RunIds DEF Held, WindowUnbroken
    <3> QED BY <2>1, <3>2, HeldIds
  <2>3. CASE SenderStep /\ ~Stop
    <3>1. /\ pc # "done" /\ pc' # "done"
          /\ OnTheWay' \in {OnTheWay, OnTheWay \cup {Ids(pending)'}}
          /\ stored' = stored
      <4>1. pc # "done" /\ pc' # "done"
        BY <2>1, <2>3, DoneStays
      <4>2. stored' = stored
        BY <2>3
        DEF SenderStep, Stop, Collect, SendTick, Press, AfterPress, HandleReply,
            Cancelled, Refused, PositionsNotActive, PositionsNoAirport,
            PositionsFailed, PositionsStored, LookGone, LookFailed, LookFlying,
            NotDeboarding, DeboardFailed, Deboarded, api
      <4> QED BY <2>3, <4>1, <4>2, LoopPosts
    <3>2. CASE Collect
      <4> DEFINE n == Len(pending)
                 m == Len(pending')
      <4>1. /\ collected' = collected + 1
            /\ m = IF n = Window THEN Window ELSE n + 1
        BY <2>1, <3>2, CollectWindow, TypeParts DEF DeliveryInv, Grows
      <4>2. n \in Nat /\ n <= Window /\ collected \in Nat
        BY <2>1
      <4> HIDE DEF n, m
      <4>3. (collected + 1) - m + 1 =
               IF collected - (collected - n + 1) + 1 >= Window
                  THEN (collected - n + 1) + 1 ELSE collected - n + 1
        BY <4>1, <4>2
      <4> QED BY <2>2, <3>1, <4>1, <4>3
              DEF Delivery!Next, Delivery!Collect, Delivery!Batch, n, m
    <3>3. CASE PositionsNoAirport \/ PositionsStored
      <4>1. /\ pc = "positions" /\ reply.kind \in {"ok", "no_airport"}
            /\ pending' = <<>> /\ collected' = collected /\ pc' = back
        BY <3>3 DEF PositionsNoAirport, PositionsStored, Heard, Answered, Return
      <4>2. Ids(pending) \subseteq stored
        BY <4>1 DEF DeliveryInv, AnswerIsBacked
      <4>3. OnTheWay' = OnTheWay
        <5>1. pc' \notin Calls
          BY <2>1, <4>1 DEF Place, Calls
        <5>2. reply # NoReply /\ late' = late
          BY <3>3 DEF PositionsNoAirport, PositionsStored, Heard, Answered, api
        <5> QED BY <5>1, <5>2 DEF OnTheWay, Waiting
      <4>4. Len(pending') = 0 /\ collected' - Len(pending') + 1 = collected + 1
        BY <2>1, <4>1
      <4> QED BY <2>2, <3>1, <4>1, <4>2, <4>3, <4>4
              DEF Delivery!Next, Delivery!Confirm, Delivery!Batch
    <3>4. CASE UNCHANGED <<pending, collected>>
      <4>1. Ids(pending)' = Ids(pending)
        BY <3>4 DEF Ids
      <4>2. CASE OnTheWay' = OnTheWay
        BY <3>1, <3>4, <4>2 DEF Delivery!vars
      <4>3. CASE OnTheWay' = OnTheWay \cup {Ids(pending)}
        BY <2>2, <3>1, <3>4, <4>3 DEF Delivery!Next, Delivery!Send, Delivery!Batch
      <4> QED BY <3>1, <4>1, <4>2, <4>3
    <3> QED BY <2>3, <3>2, <3>3, <3>4, Frames
  <2>4. CASE Stop
    <3>1. /\ pc = "select" /\ pc' = "done" /\ pending' = <<>>
          /\ UNCHANGED <<collected, stored, late>>
      BY <2>4 DEF Stop, api
    <3>2. OnTheWay' = OnTheWay
      BY <3>1 DEF OnTheWay, Waiting, Calls
    <3>3. Len(pending') = 0 /\ collected' - Len(pending') + 1 = collected + 1
      BY <2>1, <3>1
    <3> QED BY <3>1, <3>2, <3>3 DEF Delivery!Next, Delivery!GiveUp
  <2>5. CASE Network
    <3>1. UNCHANGED <<pc, collected, pending>>
      BY <2>5 DEF Network, Answer, LoseAnswer, LoseRequest, TimeOut, ArriveLate,
                  LoopUnchanged
    <3>2. CASE UNCHANGED <<stored, OnTheWay>>
      BY <3>1, <3>2 DEF Delivery!vars
    <3>3. ASSUME NEW batch \in OnTheWay,
                 stored' \in {stored, stored \cup batch},
                 OnTheWay' \in {OnTheWay, OnTheWay \ {batch}}
          PROVE  Delivery!Settle
      BY <3>1, <3>3 DEF Delivery!Settle
    <3> QED BY <2>5, <3>2, <3>3, NetworkSettles DEF Delivery!Next
  <2>6. CASE ~SenderStep /\ ~Network
    BY <2>6, OthersSettleNothing DEF Delivery!vars
  <2> QED BY <2>3, <2>4, <2>5, <2>6
<1> QED BY <1>1, <1>2, DeliveryHolds, PTL DEF Spec, DeliversPositions, Delivery!Spec

-----------------------------------------------------------------------------
(***************************************************************************)
(* What the sender asks for and what it tells.                             *)
(***************************************************************************)
\* A deboard is asked for only when nothing is held, however long the window.
THEOREM DeboardCorrect == Spec => []DeboardHoldsNothing
<1>1. Init => DeboardHoldsNothing
  BY DEF Init, DeboardHoldsNothing
<1>2. TypeOK /\ DeboardHoldsNothing /\ [Next]_vars => DeboardHoldsNothing'
  <2> SUFFICES ASSUME Place, DeboardHoldsNothing, [Next]_vars, pc' = "deboard"
               PROVE  pending' = <<>>
    BY TypeParts DEF DeboardHoldsNothing
  <2>1. CASE AfterPress
    BY <2>1 DEF AfterPress, Unsent
  <2>2. CASE SenderStep /\ ~AfterPress
    BY <2>2, FlushType
    DEF SenderStep, Stop, Collect, SendTick, Press, Begin, HandleReply, Cancelled,
        Refused, PositionsNotActive, PositionsNoAirport, PositionsFailed,
        PositionsStored, LookGone, LookFailed, LookFlying, NotDeboarding,
        DeboardFailed, Deboarded, Return, Place
  <2>3. CASE ~SenderStep
    <3>1. UNCHANGED <<pc, pending>>
      BY <2>3, Frames DEF Answer, LoseAnswer, LoseRequest, TimeOut, LoopUnchanged
    <3> QED BY <3>1 DEF DeboardHoldsNothing
  <2> QED BY <2>1, <2>2, <2>3
<1> QED BY <1>1, <1>2, TypeCorrect, PTL DEF Spec

\* After its verdict the API is not asked again: every later call is made with
\* a context that is cancelled, and sends nothing.
THEOREM VerdictCorrect == Spec => []VerdictIsFinal
<1>1. Init => VerdictIsFinal
  BY DEF Init, VerdictIsFinal
<1>2. TypeOK /\ VerdictIsFinal /\ [Next]_vars => VerdictIsFinal'
  <2> SUFFICES ASSUME Place, VerdictIsFinal, [Next]_vars, verdict' # "none"
               PROVE  ctxDone' /\ ~Waiting'
    BY TypeParts DEF VerdictIsFinal
  <2>1. CASE verdict = "none"
    <3>1. \E why : EndFlight(why)
      BY <2>1
      DEF Next, SenderStep, HandleReply, Network, Stop, Collect, SendTick, Press,
          AfterPress, Cancelled, Refused, PositionsNotActive, PositionsNoAirport,
          PositionsFailed, PositionsStored, LookGone, LookFailed, LookFlying,
          NotDeboarding, DeboardFailed, Deboarded, LoopUnchanged, ArriveLate,
          CallOff, Answer, LoseAnswer, LoseRequest, TimeOut, Deny, Tap, Paused,
          Offer, Cancel, Finished, vars, Progress, GoOn
    <3>2. Return
      BY <2>1
      DEF Next, SenderStep, HandleReply, Network, Stop, Collect, SendTick, Press,
          AfterPress, Cancelled, Refused, PositionsNotActive, PositionsNoAirport,
          PositionsFailed, PositionsStored, LookGone, LookFailed, LookFlying,
          NotDeboarding, DeboardFailed, Deboarded, LoopUnchanged, ArriveLate,
          CallOff, Answer, LoseAnswer, LoseRequest, TimeOut, Deny, Tap, Paused,
          Offer, Cancel, Finished, vars, Progress, GoOn
    <3>3. pc' \notin Calls
      BY <3>2 DEF Return, Place, Calls
    <3> QED BY <3>1, <3>3 DEF EndFlight, Waiting
  <2>2. CASE verdict # "none"
    <3>1. ctxDone /\ ~Waiting
      BY <2>2 DEF VerdictIsFinal
    <3>2. ctxDone'
      BY <3>1, Frames
    <3>3. CASE SenderStep
      <4>1. Unreachable # NoReply
        BY AnswerType DEF Unreachable, NoReply, ReplyKind
      <4>2. ASSUME NEW call \in Calls, Begin(call)
            PROVE  reply' # NoReply
        BY <3>1, <4>1, <4>2 DEF Begin
      <4>3. ASSUME NEW held, NEW returnTo, Flush(held, returnTo)
            PROVE  reply' # NoReply
        BY <3>1, <4>1, <4>3 DEF Begin, Flush
      <4>4. reply' # NoReply \/ pc' \notin Calls
        BY <3>1, <3>3, <4>2, <4>3, "deboard" \in Calls, "look" \in Calls
        DEF SenderStep, Stop, Collect, SendTick, Press, AfterPress, HandleReply,
            Cancelled, Refused, PositionsNotActive, PositionsNoAirport,
            PositionsFailed, PositionsStored, LookGone, LookFailed, LookFlying,
            NotDeboarding, DeboardFailed, Deboarded, Return, Place, Calls, Heard
      <4> QED BY <3>2, <4>4 DEF Waiting
    <3>4. CASE ~SenderStep
      <4>1. UNCHANGED <<pc, reply>>
        BY <3>1, <3>4, Frames DEF Answer, LoseAnswer, LoseRequest, TimeOut
      <4> QED BY <3>1, <3>2, <4>1 DEF Waiting
    <3> QED BY <3>3, <3>4
  <2> QED BY <2>1, <2>2
<1> QED BY <1>1, <1>2, TypeCorrect, PTL DEF Spec

\* As long as the sender runs, the note that so many positions are held names no
\* more than are, and like that of a press that waits for them it goes with the
\* last position held.
THEOREM NoteCorrect == Spec => []NoteIsHonest
<1>1. Init => NoteIsHonest
  <2>1. Init => note = Saying("")
    BY DEF Init, NoNote
  <2>2. Saying("")[1] = ""
    BY DEF Saying
  <2> QED BY <2>1, <2>2 DEF NoteIsHonest
<1>2. TypeOK /\ DeliveryInv /\ NoteIsHonest /\ [Next]_vars => NoteIsHonest'
  <2> SUFFICES ASSUME TypeOK, DeliveryInv, NoteIsHonest, [Next]_vars, pc' # "done"
               PROVE  /\ note'[1] = "holding" => note'[2] \in 1..Len(pending')
                      /\ note'[1] = "press_again" => pending' # <<>>
    BY DEF NoteIsHonest
  <2>1. Held /\ Held' /\ Place /\ pc # "done"
    BY TypeParts, HeldStep, DoneStays
  <2>2. /\ note[1] = "holding" => note[2] \in 1..Len(pending)
        /\ note[1] = "press_again" => pending # <<>>
    BY <2>1 DEF NoteIsHonest
  <2>3. \A text : Saying(text)[1] = text
    BY DEF Saying
  <2>4. CASE Collect
    <3>1. Grows /\ note' = note
      BY <2>4, TypeParts, CollectWindow DEF DeliveryInv, Collect, screen
    <3>2. Len(pending') >= Len(pending) /\ Len(pending') \in Nat \ {0}
      BY <2>1, <3>1, SenderAssumption DEF Grows, Held, SenderAssumption
    <3> QED BY <2>1, <2>2, <3>1, <3>2 DEF Held
  <2>5. CASE PositionsNoAirport
    BY <2>3, <2>5 DEF PositionsNoAirport
  <2>6. CASE PositionsStored
    BY <2>3, <2>6 DEF PositionsStored, Progress, NoNote
  <2>7. CASE PositionsFailed
    <3>1. pending # <<>> /\ pending' = pending /\ note' = Holding(Len(pending))
      BY <2>7 DEF PositionsFailed, Heard, Answered, DeliveryInv, PostsSomething
    <3>2. Len(pending) \in Nat \ {0}
      BY <2>1, <3>1 DEF Held
    <3> QED BY <3>1, <3>2 DEF Holding
  <2>8. CASE AfterPress
    <3>1. /\ pending' = pending
          /\ note' = note \/ (note' = Saying("press_again") /\ pending # <<>>)
      BY <2>8 DEF AfterPress, Unsent
    <3> QED BY <2>2, <2>3, <3>1
  <2>9. ASSUME ~Collect, ~PositionsNoAirport, ~PositionsStored, ~PositionsFailed, ~AfterPress
        PROVE  /\ note' \in {note, Saying(""), Saying("no_airport"), Saying("failed")}
               /\ pending' = pending
    <3>1. ~Stop
      BY DEF Stop
    <3> QED
      BY <2>9, <3>1
      DEF Next, SenderStep, HandleReply, Network, SendTick, Press, Cancelled,
          Refused, PositionsNotActive, LookGone, LookFailed, LookFlying,
          NotDeboarding, DeboardFailed, Deboarded, LoopUnchanged, ArriveLate, CallOff,
          Answer, LoseAnswer, LoseRequest, TimeOut, Deny, Tap, Paused, Offer, Cancel,
          Finished, vars, screen, Progress, NoNote
  <2>10. CASE note' \in {note, Saying(""), Saying("no_airport"), Saying("failed")}
                /\ pending' = pending
    BY <2>2, <2>3, <2>10
  <2> QED BY <2>4, <2>5, <2>6, <2>7, <2>8, <2>9, <2>10
<1> QED BY <1>1, <1>2, DeliveryHolds, PTL DEF Spec

\* The simulator is paused on behalf of the website only if the newest position
\* just stored says that it is running.
THEOREM PausesCorrect == Spec => PausesARunningSim
<1>1. TypeOK /\ DeliveryInv /\ [Next]_vars =>
         [pausing' = pausing + 1 =>
            \A i \in 1..Len(pending) : pending[i].id = collected => ~pending[i].paused]_vars
  <2> SUFFICES ASSUME TypeOK, DeliveryInv, [Next]_vars, pausing' = pausing + 1,
                      NEW i \in 1..Len(pending), pending[i].id = collected
               PROVE  ~pending[i].paused
    OBVIOUS
  <2>1. Held /\ pausing \in Nat
    BY TypeParts DEF Shown
  <2>2. pausing' # pausing /\ pausing' # pausing - 1
    BY <2>1
  <2>3. PositionsStored
    BY <2>2, Frames DEF Paused
  <2>4. ~SimPaused
    BY <2>2, <2>3 DEF PositionsStored
  <2>5. i = Len(pending)
    BY <2>1 DEF DeliveryInv, WindowUnbroken, Held
  <2> QED BY <2>4, <2>5 DEF SimPaused
<1> QED BY <1>1, DeliveryHolds, PTL DEF Spec, PausesARunningSim

-----------------------------------------------------------------------------
(***************************************************************************)
(* The sender as the rest of a flight sees it.                             *)
(***************************************************************************)
\* A reply is handled by a return, with another call perhaps, and nothing else
\* that the rest of the flight could tell.
LEMMA Handles ==
    ASSUME TypeOK, HandleReply
    PROVE  /\ pc \in Calls
           /\ pc' \in {"select", "pressed", "look"}
           /\ ctxDone' \in {ctxDone, TRUE}
           /\ snapshots' = snapshots
<1>1. back \in {"select", "pressed"}
  BY DEF TypeOK
<1>2. CASE NotDeboarding
  BY <1>2 DEF NotDeboarding, Heard, Answered, Begin, GoOn, Calls
<1>3. CASE ~NotDeboarding
  <2>1. (\E call \in Calls : Answered(call)) /\ pc' = back /\ snapshots' = snapshots
    BY <1>3 DEF HandleReply, Cancelled, Refused, PositionsNotActive, PositionsNoAirport,
       PositionsFailed, PositionsStored, LookGone, LookFailed, LookFlying, DeboardFailed,
       Deboarded, Heard, Return, Calls
  <2>2. ctxDone' \in {ctxDone, TRUE}
    BY <1>3 DEF HandleReply, Cancelled, Refused, PositionsNotActive, PositionsNoAirport,
       PositionsFailed, PositionsStored, LookGone, LookFailed, LookFlying, DeboardFailed,
       Deboarded, Progress, EndFlight, GoOn
  <2> QED BY <1>1, <2>1, <2>2 DEF Answered
<1> QED BY <1>2, <1>3

\* The rest of the flight may take the sender for the loop of SendLoop, for
\* every window and channel: it is what Flight composes (session.go:68-100,
\* 152-183).
THEOREM Composes == Spec => ImplementsSendLoop
<1> DEFINE mapped == IF pc \in {"select", "done"} THEN pc ELSE "call"
<1>1. Init => Loop!Init
  BY DEF Init, Loop!Init
<1>2. TypeOK /\ [Next]_vars => [Loop!Next]_Loop!vars
  <2> SUFFICES ASSUME TypeOK, [Next]_vars
               PROVE  [Loop!Next]_Loop!vars
    OBVIOUS
  <2>1. CASE Stop
    BY <2>1 DEF Stop, Loop!Next, Loop!Step, Loop!Stop
  <2>2. CASE Collect
    <3>1. /\ pc = "select" /\ snapshots # <<>> /\ snapshots' = Tail(snapshots)
          /\ ctxDone' = ctxDone
      BY <2>2 DEF Collect
    <3>2. mapped' = IF Head(snapshots).flush THEN "call" ELSE "select"
      <4>1. CASE Urgent(Head(snapshots))
        <5>1. Flush(pending', "select")
          BY <2>2, <4>1 DEF Collect
        <5> QED BY <4>1, <5>1, FlushType DEF Urgent
      <4>2. CASE ~Urgent(Head(snapshots))
        BY <2>2, <4>2, <3>1 DEF Collect, Urgent
      <4> QED BY <4>1, <4>2
    <3> QED BY <3>1, <3>2 DEF Loop!Next, Loop!Step, Loop!Collect
  <2>3. CASE SendTick \/ Press
    <3>1. pc = "select" /\ UNCHANGED <<snapshots, ctxDone>>
      BY <2>3 DEF SendTick, Press
    <3>2. pc' \in {"look", "positions"}
      BY <2>3, FlushType DEF SendTick, Press
    <3> QED BY <3>1, <3>2 DEF Loop!Next, Loop!Step, Loop!Call
  <2>4. CASE AfterPress
    <3>1. pc = "pressed" /\ pc' \in {"select", "deboard"} /\ UNCHANGED <<snapshots, ctxDone>>
      BY <2>4 DEF AfterPress, Begin
    <3> QED BY <3>1 DEF Loop!Next, Loop!Step, Loop!Return
  <2>5. CASE HandleReply
    BY <2>5, Handles DEF Calls, Loop!Next, Loop!Step, Loop!Return
  <2>6. ASSUME NEW snapshot \in Snapshot, Offer(snapshot)
        PROVE  [Loop!Next]_Loop!vars
    <3>1. /\ Len(snapshots) < SnapshotBuffer
          /\ snapshots' = Append(snapshots, snapshot)
          /\ UNCHANGED <<ctxDone, pc>>
      BY <2>6 DEF Offer
    <3>2. snapshots \in Seq(Snapshot)
      BY DEF TypeOK
    <3>3. /\ Len(snapshots') = Len(snapshots) + 1
          /\ SubSeq(snapshots', 1, Len(snapshots)) = snapshots
      BY <3>1, <3>2
    <3> QED BY <3>1, <3>3 DEF Loop!Next, Loop!Offered
  <2>7. CASE Cancel
    BY <2>7 DEF Cancel, Loop!Next, Loop!Cancel
  <2>8. CASE Network \/ CallOff \/ Deny \/ Tap \/ Paused \/ Finished \/ UNCHANGED vars
    BY <2>8 DEF Network, Answer, LoseAnswer, LoseRequest, TimeOut, ArriveLate, LoopUnchanged,
       CallOff, Deny, Tap, Paused, Finished, vars, Loop!vars
  <2> QED BY <2>1, <2>2, <2>3, <2>4, <2>5, <2>6, <2>7, <2>8 DEF Next, SenderStep
<1> QED BY <1>1, <1>2, TypeCorrect, PTL DEF Spec, ImplementsSendLoop, Loop!Spec
-----------------------------------------------------------------------------
(***************************************************************************)
(* Session: the pane of flight after flight.                               *)
(***************************************************************************)
\* The inductive invariant: the coordinator draws while its flight is flown.
PaneInv == PaneIsOfTheFlight /\ (coordinating => at = "flying")

-----------------------------------------------------------------------------
\* The loop between its flights, and as it begins and ends one.
LEMMA LoopDraws ==
    ASSUME PaneInv, SessionLoop
    PROVE  PaneInv'
  <1> USE DEF PaneInv, PaneIsOfTheFlight, None, Resting, screen
  <1>1. CASE PollAnswered \/ PollLost \/ PollCancelled
    <2>1. at = "polling" /\ UNCHANGED <<at, coordinating, details, button>>
      BY <1>1 DEF PollAnswered, PollLost, PollCancelled, Polling, loop, pane
    <2> QED
      BY <2>1
  <1>2. CASE PollRefused \/ PollFailed \/ PollNone
    <2>1. at = "polling" /\ UNCHANGED <<at, coordinating>>
      BY <1>2 DEF PollRefused, PollFailed, PollNone, Polled, Polling
    <2>2. details' \in {details, 0} /\ button' \in {button, "hidden"}
      BY <1>2 DEF PollRefused, PollFailed, PollNone, Reset, ResetFlight, NoFlightShown, pane
    <2> QED
      BY <2>1, <2>2
  <1>3. CASE PollFlight
    BY <1>3 DEF PollFlight, Polled, Polling, FlightShown, ResetNotes
  <1>4. CASE OpenFails \/ FlyReturns
    BY <1>4 DEF OpenFails, FlyReturns, AllReturned, NoFlightShown, ResetFlight
  <1>5. CASE Opens
    BY <1>5 DEF Opens, pane
  <1>6. CASE Leave
    BY <1>6 DEF Leave, vars, pane
  <1> QED
    BY <1>1, <1>2, <1>3, <1>4, <1>5, <1>6 DEF SessionLoop, Poll

\* The sender and the coordinator of a flight, while it lasts.
LEMMA FlightDraws ==
    ASSUME PaneInv, InFlight(SenderStep) \/ CoordinatorTells \/ CoordinatorReturns
    PROVE  PaneInv'
  <1> USE DEF PaneInv, PaneIsOfTheFlight, None
  <1>1. CASE InFlight(SenderStep)
    <2>1. at = "flying" /\ UNCHANGED <<at, flight, coordinating>>
      BY <1>1 DEF InFlight
    <2>2. details' \in {details, flight, 0} /\ warning' \in {warning, flight, 0}
      BY <1>1 DEF InFlight, SenderShows, WarningAfter
    <2> QED
      BY <2>1, <2>2
  <1>2. CASE CoordinatorTells
    BY <1>2 DEF CoordinatorTells, vars, loop
  <1>3. CASE CoordinatorReturns
    BY <1>3 DEF CoordinatorReturns, vars, screen, pane
  <1> QED
    BY <1>1, <1>2, <1>3

\* Whoever ends the session or begins the next one, and what is around a flight.
LEMMA OthersDraw ==
    ASSUME PaneInv,
           SignOut \/ SignedOut \/ SignIn \/ (Around /\ UNCHANGED <<loop, pane>>)
    PROVE  PaneInv'
  <1> USE DEF PaneInv, PaneIsOfTheFlight, None, screen
  <1>1. CASE SignOut
    BY <1>1 DEF SignOut, pane
  <1>2. CASE SignedOut \/ SignIn
    <2>1. details' = 0 /\ warning' = 0 /\ button' = "hidden"
      BY <1>2 DEF SignedOut, SignIn, Reset, ResetFlight, ResetNotes
    <2>2. coordinating' = coordinating /\ (at' = at \/ at = "returned")
      BY <1>2 DEF SignedOut, SignIn
    <2> QED
      BY <2>1, <2>2
  <1>3. CASE Around /\ UNCHANGED <<loop, pane>>
    <2>1. button' = button \/ button = "enabled"
      BY <1>3 DEF Around, Network, Answer, LoseAnswer, LoseRequest, TimeOut, ArriveLate,
        LoopUnchanged, CallOff, Deny, Tap, Paused, Cancel, Offer, OfferAnew
    <2> QED
      BY <1>3, <2>1 DEF loop, pane
  <1> QED
    BY <1>1, <1>2, <1>3

\* What the pane says of a flight is about the one that is flown, and of none
\* between flights, for any number of flights and sessions and whatever their
\* goroutines still show while they end (session.go:63-64, 98-100).
THEOREM PaneCorrect == SessionSpec => []PaneIsOfTheFlight
  <1>1. SessionInit => PaneInv
    BY DEF SessionInit, PaneInv, PaneIsOfTheFlight, None
  <1>2. PaneInv /\ [SessionNext]_sessionVars => PaneInv'
    <2>1. CASE UNCHANGED sessionVars
      BY <2>1 DEF sessionVars, vars, screen, loop, pane, PaneInv, PaneIsOfTheFlight
    <2> QED
      BY <2>1, LoopDraws, FlightDraws, OthersDraw DEF SessionNext
  <1>3. PaneInv => PaneIsOfTheFlight
    BY DEF PaneInv
  <1> QED
    BY <1>1, <1>2, <1>3, PTL DEF SessionSpec
-----------------------------------------------------------------------------
\* A flight has a number, so that a warning of it is one.
Numbered == flight \in Nat \ {None}

\* The flights are counted from one.
LEMMA Numbers == Numbered /\ [SessionNext]_sessionVars => Numbered'
  <1> SUFFICES ASSUME Numbered, [SessionNext]_sessionVars PROVE Numbered'
    OBVIOUS
  <1>1. flight' \in {flight, flight + 1}
    BY DEF SessionNext, SessionLoop, Poll, PollAnswered, PollLost, PollCancelled,
       PollRefused, PollFailed, PollNone, PollFlight, Polled, OpenFails, Opens,
       InFlight, CoordinatorTells, CoordinatorReturns, FlyReturns, Leave, SignOut,
       SignedOut, SignIn, loop, sessionVars
  <1> QED
    BY <1>1 DEF Numbered, None

\* Who takes a warning away while the session goes on: the start of a flight.
LEMMA WarningStays ==
    ASSUME Numbered, [SessionNext]_sessionVars,
           ended = "no", ended' = "no", at' # "opening", warning # None
    PROVE  warning' # None
  <1> USE DEF None
  <1>1. CASE SessionLoop
    <2>1. CASE PollAnswered \/ PollLost \/ PollCancelled
      BY <2>1 DEF PollAnswered, PollLost, PollCancelled, pane
    <2>2. CASE PollRefused \/ PollFlight
      BY <2>2 DEF PollRefused, PollFlight
    <2>3. CASE PollFailed \/ PollNone
      BY <2>3 DEF PollFailed, PollNone, NoFlightShown, pane
    <2>4. CASE OpenFails \/ Opens \/ FlyReturns \/ Leave
      BY <2>4 DEF OpenFails, Opens, FlyReturns, Leave, NoFlightShown, pane
    <2> QED
      BY <1>1, <2>1, <2>2, <2>3, <2>4 DEF SessionLoop, Poll
  <1>2. CASE InFlight(SenderStep)
    <2>1. warning' \in {warning, flight}
      BY <1>2 DEF InFlight, SenderShows, WarningAfter
    <2> QED
      BY <2>1 DEF Numbered
  <1>3. CASE CoordinatorTells \/ CoordinatorReturns \/ SignOut
    BY <1>3 DEF CoordinatorTells, CoordinatorReturns, SignOut, pane
  <1>4. CASE SignedOut \/ SignIn
    BY <1>4 DEF SignedOut, SignIn
  <1>5. CASE (Around /\ UNCHANGED <<loop, pane>>) \/ UNCHANGED sessionVars
    BY <1>5 DEF pane, sessionVars
  <1> QED
    BY <1>1, <1>2, <1>3, <1>4, <1>5 DEF SessionNext

\* In a session that goes on nothing but the start of another flight takes the
\* warning of a flight away: not its end, no outage, and no answer that comes
\* while it is called off (session.go:56-64, ui.go:488, 530-556).
THEOREM WarningCorrect == SessionSpec => WarningOutlivesFlight
  <1>1. SessionInit => Numbered
    <2>1. SessionInit => flight = 1
      BY DEF SessionInit
    <2> QED
      BY <2>1 DEF Numbered, None
  <1>2. Numbered /\ [SessionNext]_sessionVars =>
           [ended = "no" /\ ended' = "no" /\ at' # "opening" /\ warning # None
               => warning' # None]_sessionVars
    BY WarningStays
  <1> QED
    BY <1>1, <1>2, Numbers, PTL DEF SessionSpec, WarningOutlivesFlight
=============================================================================
