---------------------------- MODULE Msfs_proofs ----------------------------
(***************************************************************************)
(* Proofs about Msfs, however many messages are on their way: what the     *)
(* reader has made of the messages, once it has read all that is in the    *)
(* pipe, is what the simulator does.                                       *)
(*                                                                         *)
(* The argument follows a state that the simulator tells of, as the reader *)
(* will see it when it has read so many of the messages: what the last of  *)
(* them says, or what the reader holds already. A message that is written  *)
(* sets it, one that is read leaves it alone. From the answer to the       *)
(* subscription on it is the state of the simulator. So a data block of    *)
(* the main menu is read with the reader knowing of the main menu, and a   *)
(* crash with a flight to pass it on for.                                  *)
(***************************************************************************)
EXTENDS Msfs, SequenceTheorems, TLAPS

\* The kinds that are subscribed to.
Subscribed == {"data", "sim", "pause", "crash"}

Messages == [kind : Kinds, value : BOOLEAN]

\* What the reader has of a state when it has read k of the messages, and has
\* `now` of it now.
Will(s, kind, now, k) ==
    \/ \E j \in 1..k :
          s[j].kind = kind /\ s[j].value /\ \A i \in (j + 1)..k : s[i].kind # kind
    \/ now /\ \A i \in 1..k : s[i].kind # kind

Shape ==
    /\ sim \in [up : BOOLEAN, flying : BOOLEAN, paused : BOOLEAN]
    /\ messages \in Seq(Messages)
    /\ served \subseteq Subscribed
    /\ inFlight \in BOOLEAN /\ simPaused \in BOOLEAN
    /\ position \in [paused : BOOLEAN, crashed : BOOLEAN]

\* Until the reader runs nothing is subscribed to.
Quiet ==
    /\ pc = "none" => messages = <<>> /\ requests = <<>>
    /\ pc # "running" =>
          /\ served = {}
          /\ requests \in {<<>>, <<"open">>, <<"state">>}
          /\ \A k \in 1..Len(messages) : messages[k].kind \notin Subscribed
    /\ ~sim.up => served = {}

\* The subscriptions are served in the order Open writes them in, and later
\* perhaps the one of Resubscribe.
InTurn ==
    pc = "running" /\ sim.up =>
        \/ requests = <<"data", "sim", "pause", "crash">> /\ served = {}
        \/ requests = <<"sim", "pause", "crash">> /\ served = {"data"}
        \/ requests = <<"pause", "crash">> /\ served = {"data", "sim"}
        \/ requests = <<"crash">> /\ served = {"data", "sim", "pause"}
        \/ requests \in {<<>>, <<"data">>} /\ served = Subscribed

\* From the answer to a subscription on the reader will know.
Follows ==
    /\ "sim" \in served => (Will(messages, "sim", inFlight, Len(messages)) <=> sim.flying)
    /\ "pause" \in served => (Will(messages, "pause", simPaused, Len(messages)) <=> sim.paused)
    /\ pc = "running" /\ sim.up /\ "sim" \notin served =>
          ~told /\ \A i \in 1..Len(messages) : messages[i].kind # "sim"

\* A data block is read before the first word of a flight, or with the right
\* one; a crash, with a flight.
ReadRight ==
    \A k \in 1..Len(messages) :
        /\ messages[k].kind = "data" =>
              \/ ~told /\ \A i \in 1..(k - 1) : messages[i].kind # "sim"
              \/ Will(messages, "sim", inFlight, k - 1) <=> messages[k].value
        /\ messages[k].kind = "crash" => Will(messages, "sim", inFlight, k - 1)

\* What was passed on is still so; a crash was, or is going to be.
PassedOn ==
    /\ fresh => inFlight /\ position.paused = simPaused
    /\ pc = "running" /\ sim.up /\ crashed =>
          position.crashed \/ \E k \in 1..Len(messages) : messages[k].kind = "crash"

\* The inductive invariant.
IInv == Shape /\ Quiet /\ InTurn /\ Follows /\ ReadRight /\ PassedOn /\ MenuIsNotLive

-----------------------------------------------------------------------------
\* The kinds of messages are told apart.
LEMMA KindsAre ==
    /\ ToSet(Subscriptions) = Subscribed
    /\ Subscribed \subseteq Kinds /\ {"open", "state", "quit"} \subseteq Kinds
    /\ Subscribed \cap {"open", "state", "quit"} = {}
  BY DEF ToSet, Subscriptions, Subscribed, Kinds

\* A message that is written says what the reader will have of its state in the end.
LEMMA WillWritten ==
    ASSUME NEW s \in Seq(Messages), NEW m \in Messages, NEW kind, NEW now \in BOOLEAN,
           m.kind = kind
    PROVE  Will(Append(s, m), kind, now, Len(s) + 1) <=> m.value
  <1> DEFINE t == Append(s, m)
  <1>1. /\ Len(s) \in Nat /\ Len(t) = Len(s) + 1
        /\ \A i \in 1..Len(s) : t[i] = s[i]
        /\ t[Len(s) + 1] = m
    OBVIOUS
  <1> HIDE DEF t
  <1>2. Will(t, kind, now, Len(s) + 1) <=> m.value
    BY <1>1 DEF Will
  <1> QED
    BY <1>2 DEF t

\* It changes nothing else.
LEMMA WillAppend ==
    ASSUME NEW s \in Seq(Messages), NEW m \in Messages, NEW kind, NEW now \in BOOLEAN
    PROVE  /\ \A k \in 0..Len(s) : Will(Append(s, m), kind, now, k) <=> Will(s, kind, now, k)
           /\ m.kind # kind => (Will(Append(s, m), kind, now, Len(s) + 1)
                                   <=> Will(s, kind, now, Len(s)))
  <1> DEFINE t == Append(s, m)
  <1>1. /\ Len(s) \in Nat /\ Len(t) = Len(s) + 1
        /\ \A i \in 1..Len(s) : t[i] = s[i]
        /\ t[Len(s) + 1] = m
    OBVIOUS
  <1> HIDE DEF t
  <1>2. \A k \in 0..Len(s) : Will(t, kind, now, k) <=> Will(s, kind, now, k)
    BY <1>1 DEF Will
  <1>3. m.kind # kind => (Will(t, kind, now, Len(s) + 1) <=> Will(s, kind, now, Len(s)))
    BY <1>1 DEF Will
  <1> QED
    BY <1>2, <1>3 DEF t

\* The one that is read says what it has from then on.
LEMMA WillTail ==
    ASSUME NEW s \in Seq(Messages), s # <<>>, NEW kind, NEW now \in BOOLEAN,
           NEW then \in BOOLEAN, then = IF s[1].kind = kind THEN s[1].value ELSE now,
           NEW k \in 0..(Len(s) - 1)
    PROVE  Will(Tail(s), kind, then, k) <=> Will(s, kind, now, k + 1)
  <1> DEFINE t == Tail(s)
  <1>1. /\ Len(s) \in Nat /\ Len(s) > 0 /\ Len(t) = Len(s) - 1
        /\ \A i \in 1..Len(t) : t[i] = s[i + 1]
    OBVIOUS
  <1> HIDE DEF t
  <1>2. ASSUME Will(t, kind, then, k) PROVE Will(s, kind, now, k + 1)
    <2>1. CASE \E j \in 1..k : t[j].kind = kind /\ t[j].value
                                 /\ \A i \in (j + 1)..k : t[i].kind # kind
      <3>1. PICK j \in 1..k : t[j].kind = kind /\ t[j].value
                                 /\ \A i \in (j + 1)..k : t[i].kind # kind
        BY <2>1
      <3>2. s[j + 1].kind = kind /\ s[j + 1].value /\ j + 1 \in 1..(k + 1)
        BY <3>1, <1>1
      <3>3. ASSUME NEW i \in ((j + 1) + 1)..(k + 1) PROVE s[i].kind # kind
        <4>1. i - 1 \in (j + 1)..k /\ t[i - 1] = s[i]
          BY <1>1
        <4> QED
          BY <4>1, <3>1
      <3>4. \E i \in 1..(k + 1) :
               s[i].kind = kind /\ s[i].value /\ \A h \in (i + 1)..(k + 1) : s[h].kind # kind
        BY <3>2, <3>3
      <3> QED
        BY <3>4 DEF Will
    <2>2. CASE then /\ \A i \in 1..k : t[i].kind # kind
      <3>1. ASSUME NEW i \in 2..(k + 1) PROVE s[i].kind # kind
        <4>1. i - 1 \in 1..k /\ t[i - 1] = s[i]
          BY <1>1
        <4> QED
          BY <4>1, <2>2
      <3>2. CASE s[1].kind = kind
        <4>1. s[1].value /\ \A i \in (1 + 1)..(k + 1) : s[i].kind # kind
          <5>1. then = s[1].value
            BY <3>2
          <5>2. s[1].value
            BY <5>1, <2>2, Zenon
          <5> QED
            BY <5>2, <3>1
        <4>2. \E j \in 1..(k + 1) :
                 s[j].kind = kind /\ s[j].value /\ \A i \in (j + 1)..(k + 1) : s[i].kind # kind
          BY <4>1, <3>2
        <4> QED
          BY <4>2, Zenon DEF Will
      <3>3. CASE s[1].kind # kind
        <4>1. \A i \in 1..(k + 1) : s[i].kind # kind
          BY <3>1, <3>3
        <4> QED
          BY <4>1, <3>3, <2>2 DEF Will
      <3> QED
        BY <3>2, <3>3
    <2> QED
      BY <1>2, <2>1, <2>2 DEF Will
  <1>3. ASSUME Will(s, kind, now, k + 1) PROVE Will(t, kind, then, k)
    <2>1. CASE \E j \in 1..(k + 1) : s[j].kind = kind /\ s[j].value
                                        /\ \A i \in (j + 1)..(k + 1) : s[i].kind # kind
      <3>1. PICK j \in 1..(k + 1) : s[j].kind = kind /\ s[j].value
                                       /\ \A i \in (j + 1)..(k + 1) : s[i].kind # kind
        BY <2>1
      <3>2. ASSUME NEW i \in j..k PROVE t[i].kind # kind
        <4>1. i + 1 \in (j + 1)..(k + 1) /\ t[i] = s[i + 1]
          BY <1>1
        <4> QED
          BY <4>1, <3>1
      <3>3. CASE j = 1
        BY <3>1, <3>2, <3>3 DEF Will
      <3>4. CASE j # 1
        <4>1. j - 1 \in 1..k /\ t[j - 1] = s[j]
          BY <3>4, <1>1
        <4> QED
          BY <4>1, <3>1, <3>2 DEF Will
      <3> QED
        BY <3>3, <3>4
    <2>2. CASE now /\ \A i \in 1..(k + 1) : s[i].kind # kind
      <3>1. then
        BY <2>2
      <3>2. ASSUME NEW i \in 1..k PROVE t[i].kind # kind
        <4>1. i + 1 \in 1..(k + 1) /\ t[i] = s[i + 1]
          BY <1>1
        <4> QED
          BY <4>1, <2>2
      <3> QED
        BY <3>1, <3>2 DEF Will
    <2> QED
      BY <1>3, <2>1, <2>2 DEF Will
  <1> QED
    BY <1>2, <1>3 DEF t

-----------------------------------------------------------------------------
\* What the reader is to see of the messages is all there is to the reading of them:
\* if one more is written that it will read right, it will read all of them right.
LEMMA Grows ==
    ASSUME Shape, ReadRight, NEW m \in Messages,
           messages' = Append(messages, m), UNCHANGED <<mode, told>>,
           m.kind = "data" =>
              \/ ~told /\ \A i \in 1..Len(messages) : messages[i].kind # "sim"
              \/ Will(messages, "sim", inFlight, Len(messages)) <=> m.value,
           m.kind = "crash" => Will(messages, "sim", inFlight, Len(messages))
    PROVE  ReadRight'
  <1>1. /\ Len(messages) \in Nat /\ Len(messages') = Len(messages) + 1
        /\ \A i \in 1..Len(messages) : messages'[i] = messages[i]
        /\ messages'[Len(messages) + 1] = m
    BY DEF Shape
  <1>2. \A k \in 0..Len(messages) :
           Will(messages', "sim", inFlight', k) <=> Will(messages, "sim", inFlight, k)
    BY WillAppend DEF Shape, mode
  <1>3. SUFFICES ASSUME NEW k \in 1..(Len(messages) + 1)
                 PROVE  /\ messages'[k].kind = "data" =>
                              \/ ~told /\ \A i \in 1..(k - 1) : messages'[i].kind # "sim"
                              \/ Will(messages, "sim", inFlight, k - 1) <=> messages'[k].value
                        /\ messages'[k].kind = "crash" => Will(messages, "sim", inFlight, k - 1)
    <2>1. \A k \in 1..(Len(messages) + 1) : k - 1 \in 0..Len(messages)
      BY <1>1
    <2> QED
      BY <1>1, <1>2, <2>1 DEF ReadRight
  <1>4. CASE k = Len(messages) + 1
    BY <1>1, <1>4
  <1>5. CASE k \in 1..Len(messages)
    <2>1. messages'[k] = messages[k] /\ \A i \in 1..(k - 1) : messages'[i] = messages[i]
      BY <1>1, <1>5
    <2> QED
      BY <1>5, <2>1 DEF ReadRight
  <1> QED
    BY <1>1, <1>4, <1>5

\* What stays when the simulator lets a message of some kind be.
LEMMA ToldKeeps ==
    ASSUME IInv, NEW kind \in Subscribed, NEW value \in BOOLEAN, Told(kind, value),
           sim' \in [up : {TRUE}, flying : BOOLEAN, paused : BOOLEAN],
           sim'.flying = IF kind = "sim" THEN value ELSE sim.flying,
           sim'.paused = IF kind = "pause" THEN value ELSE sim.paused,
           kind = "data" => value = sim.flying,
           kind = "crash" => sim.flying,
           crashed' => crashed \/ (kind = "crash" /\ pc = "running" /\ requests = <<>>)
    PROVE  IInv'
  <1> DEFINE m == Message(kind, value)
             n == Len(messages)
  <1>1. /\ UNCHANGED <<requests, served, pc, inFlight, simPaused, position, fresh, told, junk>>
        /\ sim.up
    BY DEF Told, reader, mode
  <1>5. sim' \in [up : BOOLEAN, flying : BOOLEAN, paused : BOOLEAN] /\ sim'.up
    OBVIOUS
  <1>2. m \in Messages /\ m.kind = kind /\ m.value = value
    BY KindsAre DEF Message, Messages
  <1> HIDE DEF m
  <1>3. CASE kind \notin served
    <2>1. messages' = messages
      BY <1>3 DEF Told
    <2>2. Shape' /\ Quiet' /\ InTurn' /\ ReadRight' /\ MenuIsNotLive'
      <3>1. Shape'
        BY <1>1, <1>5, <2>1 DEF IInv, Shape
      <3>2. Quiet' /\ InTurn'
        BY <1>1, <1>5, <2>1 DEF IInv, Quiet, InTurn
      <3>3. ReadRight' /\ MenuIsNotLive'
        BY <1>1, <2>1 DEF IInv, ReadRight, MenuIsNotLive
      <3> QED
        BY <3>1, <3>2, <3>3
    <2>3. Follows'
      BY <1>1, <1>3, <2>1 DEF IInv, Follows
    <2>4. PassedOn'
      <3>1. ~(kind = "crash" /\ pc = "running" /\ requests = <<>>)
        BY <1>1, <1>3 DEF IInv, InTurn, Subscribed
      <3> QED
        BY <3>1, <1>1, <2>1 DEF IInv, PassedOn
    <2> QED
      BY <2>2, <2>3, <2>4 DEF IInv
  <1>4. CASE kind \in served
    <2>1. messages' = Append(messages, m) /\ messages \in Seq(Messages)
      BY <1>4 DEF Told, m, IInv, Shape
    <2>2. /\ n \in Nat /\ Len(messages') = n + 1
          /\ \A i \in 1..n : messages'[i] = messages[i]
          /\ messages'[n + 1] = m
      BY <2>1
    <2>3. pc = "running"
      BY <1>4 DEF IInv, Quiet
    <2>4. Shape' /\ Quiet' /\ InTurn' /\ MenuIsNotLive'
      <3>1. Shape'
        BY <1>1, <1>5, <1>2, <2>1 DEF IInv, Shape
      <3>2. Quiet' /\ InTurn' /\ MenuIsNotLive'
        BY <1>1, <1>5, <2>3 DEF IInv, Quiet, InTurn, MenuIsNotLive
      <3> QED
        BY <3>1, <3>2
    <2>5. Follows'
      <3>1. "sim" \in served => (Will(messages', "sim", inFlight, n + 1) <=> sim'.flying)
        BY <1>2, <2>1, WillAppend, WillWritten DEF IInv, Shape, Follows
      <3>2. "pause" \in served => (Will(messages', "pause", simPaused, n + 1) <=> sim'.paused)
        BY <1>2, <2>1, WillAppend, WillWritten DEF IInv, Shape, Follows
      <3>3. "sim" \notin served => ~told /\ \A i \in 1..(n + 1) : messages'[i].kind # "sim"
        BY <1>1, <1>2, <1>4, <2>2, <2>3 DEF IInv, Follows
      <3> QED
        BY <3>1, <3>2, <3>3, <1>1, <2>2 DEF Follows
    <2>6. ReadRight'
      <3>1. kind = "data" =>
               \/ ~told /\ \A i \in 1..n : messages[i].kind # "sim"
               \/ Will(messages, "sim", inFlight, n) <=> value
        BY <1>1, <2>3 DEF IInv, Follows
      <3>2. kind = "crash" => Will(messages, "sim", inFlight, n)
        <4>1. "crash" \in served => "sim" \in served
          BY <1>1, <2>3 DEF IInv, InTurn, Subscribed
        <4> QED
          BY <1>4, <4>1 DEF IInv, Follows
      <3> QED
        BY <3>1, <3>2, <1>1, <1>2, <2>1, Grows DEF IInv, mode
    <2>7. PassedOn'
      <3>1. kind = "crash" => \E k \in 1..(n + 1) : messages'[k].kind = "crash"
        BY <1>2, <2>2
      <3>2. \A k \in 1..n : k \in 1..(n + 1) /\ messages'[k] = messages[k]
        BY <2>2
      <3> QED
        BY <3>1, <3>2, <1>1, <2>2 DEF IInv, PassedOn
    <2> QED
      BY <2>4, <2>5, <2>6, <2>7 DEF IInv
  <1> QED
    BY <1>3, <1>4

-----------------------------------------------------------------------------
\* The message that is read is the first.
LEMMA HeadIs ==
    ASSUME Shape, messages # <<>>
    PROVE  /\ Head(messages) = messages[1] /\ 1 \in 1..Len(messages)
           /\ Value = messages[1].value /\ Value \in BOOLEAN
  <1>1. Head(messages) = messages[1] /\ 1 \in 1..Len(messages) /\ messages[1] \in Messages
    BY DEF Shape
  <1> QED
    BY <1>1 DEF Value, Messages

\* A message is read: what is to come of the others is as it was.
LEMMA ReadKeeps ==
    ASSUME IInv, NEW kind \in Subscribed, Arrives("running", kind),
           inFlight' = IF kind = "sim" THEN Value ELSE inFlight,
           simPaused' = IF kind = "pause" THEN Value ELSE simPaused,
           told' = IF kind = "sim" THEN TRUE ELSE told,
           position' \in [paused : BOOLEAN, crashed : BOOLEAN],
           UNCHANGED <<sim, requests, served, pc>>
    PROVE  /\ Shape' /\ Quiet' /\ InTurn' /\ Follows' /\ ReadRight'
           /\ Value \in BOOLEAN
           /\ kind # "crash" /\ (\E k \in 1..Len(messages) : messages[k].kind = "crash") =>
                 \E j \in 1..Len(messages') : messages'[j].kind = "crash"
  <1> DEFINE s == messages
             n == Len(messages)
  <1>1. /\ pc = "running" /\ s \in Seq(Messages) /\ s # <<>>
        /\ s[1].kind = kind /\ Value = s[1].value /\ Value \in BOOLEAN
        /\ messages' = Tail(s)
    BY HeadIs DEF IInv, Shape, Arrives
  <1>2. /\ n \in Nat /\ n > 0 /\ Len(messages') = n - 1
        /\ \A k \in 1..(n - 1) : messages'[k] = s[k + 1]
    BY <1>1
  <1>3. Shape'
    BY <1>1 DEF IInv, Shape
  <1>4. Quiet' /\ InTurn'
    BY <1>1 DEF IInv, Quiet, InTurn
  <1>5. \A k \in 0..(n - 1) :
           /\ Will(messages', "sim", inFlight', k) <=> Will(s, "sim", inFlight, k + 1)
           /\ Will(messages', "pause", simPaused', k) <=> Will(s, "pause", simPaused, k + 1)
    <2>1. /\ inFlight \in BOOLEAN /\ simPaused \in BOOLEAN
          /\ inFlight' \in BOOLEAN /\ simPaused' \in BOOLEAN
      BY <1>1 DEF IInv, Shape
    <2>2. /\ inFlight' = IF s[1].kind = "sim" THEN s[1].value ELSE inFlight
          /\ simPaused' = IF s[1].kind = "pause" THEN s[1].value ELSE simPaused
      BY <1>1
    <2> QED
      BY <2>1, <2>2, <1>1, WillTail
  <1>6. Follows'
    <2>1. n - 1 \in 0..(n - 1) /\ (n - 1) + 1 = n
      BY <1>2
    <2>2. "sim" \in served => (Will(messages', "sim", inFlight', n - 1) <=> sim.flying)
      BY <2>1, <1>5 DEF IInv, Follows
    <2>3. "pause" \in served => (Will(messages', "pause", simPaused', n - 1) <=> sim.paused)
      BY <2>1, <1>5 DEF IInv, Follows
    <2>4. sim.up /\ "sim" \notin served =>
             ~told /\ kind # "sim" /\ \A i \in 1..(n - 1) : messages'[i].kind # "sim"
      BY <1>1, <1>2 DEF IInv, Follows
    <2> QED
      BY <2>2, <2>3, <2>4, <1>2 DEF Follows
  <1>7. ReadRight'
    <2> SUFFICES ASSUME NEW k \in 1..(n - 1)
                 PROVE  /\ messages'[k].kind = "data" =>
                              \/ ~told' /\ \A i \in 1..(k - 1) : messages'[i].kind # "sim"
                              \/ Will(messages', "sim", inFlight', k - 1)
                                    <=> messages'[k].value
                        /\ messages'[k].kind = "crash" =>
                              Will(messages', "sim", inFlight', k - 1)
      BY <1>2 DEF ReadRight
    <2>1. /\ k \in Int /\ k + 1 \in 1..n /\ messages'[k] = s[k + 1] /\ k - 1 \in 0..(n - 1)
          /\ (k - 1) + 1 = k /\ (k + 1) - 1 = k
      BY <1>2
    <2>2. Will(messages', "sim", inFlight', k - 1) <=> Will(s, "sim", inFlight, k)
      BY <2>1, <1>5
    <2>3. /\ s[k + 1].kind = "data" =>
                \/ ~told /\ \A i \in 1..k : s[i].kind # "sim"
                \/ Will(s, "sim", inFlight, k) <=> s[k + 1].value
          /\ s[k + 1].kind = "crash" => Will(s, "sim", inFlight, k)
      BY <2>1 DEF IInv, ReadRight
    <2>4. ASSUME ~told, \A i \in 1..k : s[i].kind # "sim"
          PROVE  ~told' /\ \A i \in 1..(k - 1) : messages'[i].kind # "sim"
      BY <2>4, <2>1, <1>1, <1>2
    <2> QED
      BY <2>1, <2>2, <2>3, <2>4
  <1>8. ASSUME kind # "crash", NEW k \in 1..n, s[k].kind = "crash"
        PROVE  \E j \in 1..Len(messages') : messages'[j].kind = "crash"
    <2>1. k - 1 \in 1..(n - 1) /\ messages'[k - 1] = s[k]
      BY <1>8, <1>1, <1>2
    <2> QED
      BY <2>1, <1>8, <1>2
  <1> QED
    BY <1>1, <1>3, <1>4, <1>6, <1>7, <1>8

\* A data block is passed on if the reader knows of a flight.
LEMMA DataRead ==
    ASSUME IInv, ReadData
    PROVE  IInv'
  <1>1. /\ Arrives("running", "data") /\ UNCHANGED <<sim, requests, served, pc, mode, told, crashed>>
        /\ inFlight' = inFlight /\ simPaused' = simPaused
        /\ position' = IF inFlight THEN [position EXCEPT !.paused = simPaused] ELSE position
        /\ fresh' = (fresh \/ inFlight)
        /\ "data" \in Subscribed
    BY DEF ReadData, mode, Passed, Passes, Subscribed
  <1>2. position' \in [paused : BOOLEAN, crashed : BOOLEAN] /\ position'.crashed = position.crashed
    BY <1>1 DEF IInv, Shape
  <1>3. /\ Shape' /\ Quiet' /\ InTurn' /\ Follows' /\ ReadRight'
        /\ Value \in BOOLEAN
        /\ (\E k \in 1..Len(messages) : messages[k].kind = "crash") =>
              \E j \in 1..Len(messages') : messages'[j].kind = "crash"
    BY <1>1, <1>2, ReadKeeps
  <1>4. PassedOn'
    <2>1. fresh' => inFlight' /\ position'.paused = simPaused'
      BY <1>1 DEF IInv, PassedOn, Shape
    <2> QED
      BY <2>1, <1>1, <1>2, <1>3 DEF IInv, PassedOn
  <1>5. MenuIsNotLive'
    <2>1. 1 \in 1..Len(messages) /\ messages[1].kind = "data" /\ Value = messages[1].value
      BY <1>1, HeadIs DEF Arrives, IInv
    <2>2. Will(messages, "sim", inFlight, 0) <=> inFlight
      BY DEF Will
    <2>3. told => (inFlight <=> Value)
      BY <2>1, <2>2 DEF IInv, ReadRight
    <2> QED
      BY <2>3 DEF ReadData, Passes, IInv, MenuIsNotLive
  <1> QED
    BY <1>3, <1>4, <1>5 DEF IInv

\* The word of the simulator on its flight.
LEMMA SimRead ==
    ASSUME IInv, ReadSim
    PROVE  IInv'
  <1>1. /\ Arrives("running", "sim") /\ UNCHANGED <<sim, requests, served, pc, position, crashed>>
        /\ inFlight' = Value /\ simPaused' = simPaused /\ told' = TRUE
        /\ fresh' = (fresh /\ inFlight /\ Value) /\ junk' = junk
        /\ "sim" \in Subscribed
    BY DEF ReadSim, Subscribed
  <1>2. /\ Shape' /\ Quiet' /\ InTurn' /\ Follows' /\ ReadRight'
        /\ Value \in BOOLEAN
        /\ (\E k \in 1..Len(messages) : messages[k].kind = "crash") =>
              \E j \in 1..Len(messages') : messages'[j].kind = "crash"
    BY <1>1, ReadKeeps DEF IInv, Shape
  <1>3. PassedOn'
    <2>1. fresh' => inFlight' /\ position'.paused = simPaused'
      BY <1>1, <1>2 DEF IInv, PassedOn, Shape
    <2> QED
      BY <2>1, <1>1, <1>2 DEF IInv, PassedOn
  <1> QED
    BY <1>1, <1>2, <1>3 DEF IInv, MenuIsNotLive

\* Its word on the pause.
LEMMA PauseReadKeeps ==
    ASSUME IInv, ReadPause
    PROVE  IInv'
  <1>1. /\ Arrives("running", "pause")
        /\ UNCHANGED <<sim, requests, served, pc, inFlight, fresh, told, junk, crashed>>
        /\ simPaused' = Value
        /\ position' = IF inFlight THEN [position EXCEPT !.paused = Value] ELSE position
        /\ "pause" \in Subscribed
    BY DEF ReadPause, PauseRead, Passed, Passes, Subscribed
  <1>2. Value \in BOOLEAN
    BY <1>1, HeadIs DEF Arrives, IInv
  <1>3. position' \in [paused : BOOLEAN, crashed : BOOLEAN] /\ position'.crashed = position.crashed
    BY <1>1, <1>2 DEF IInv, Shape
  <1>4. /\ Shape' /\ Quiet' /\ InTurn' /\ Follows' /\ ReadRight'
        /\ (\E k \in 1..Len(messages) : messages[k].kind = "crash") =>
              \E j \in 1..Len(messages') : messages'[j].kind = "crash"
    BY <1>1, <1>3, ReadKeeps
  <1>5. PassedOn'
    <2>1. fresh' => inFlight' /\ position'.paused = simPaused'
      BY <1>1 DEF IInv, PassedOn, Shape
    <2> QED
      BY <2>1, <1>1, <1>3, <1>4 DEF IInv, PassedOn
  <1> QED
    BY <1>1, <1>4, <1>5 DEF IInv, MenuIsNotLive

\* The crash is passed on, as a flight runs when it is read.
LEMMA CrashRead ==
    ASSUME IInv, ReadCrash
    PROVE  IInv'
  <1>1. /\ Arrives("running", "crash")
        /\ UNCHANGED <<sim, requests, served, pc, inFlight, simPaused, fresh, told, junk, crashed>>
        /\ position' = IF inFlight THEN [position EXCEPT !.crashed = TRUE] ELSE position
        /\ "crash" \in Subscribed
    BY DEF ReadCrash, mode, Passed, Passes, Subscribed
  <1>2. inFlight
    <2>1. 1 \in 1..Len(messages) /\ messages[1].kind = "crash"
      BY <1>1, HeadIs DEF Arrives, IInv
    <2>2. Will(messages, "sim", inFlight, 0) <=> inFlight
      BY DEF Will
    <2> QED
      BY <2>1, <2>2 DEF IInv, ReadRight
  <1>3. /\ position' \in [paused : BOOLEAN, crashed : BOOLEAN]
        /\ position'.crashed /\ position'.paused = position.paused
    BY <1>1, <1>2 DEF IInv, Shape
  <1>4. Shape' /\ Quiet' /\ InTurn' /\ Follows' /\ ReadRight'
    BY <1>1, <1>3, ReadKeeps
  <1>5. PassedOn'
    BY <1>1, <1>3 DEF IInv, PassedOn
  <1> QED
    BY <1>1, <1>4, <1>5 DEF IInv, MenuIsNotLive

-----------------------------------------------------------------------------
\* Before the reader runs the simulator is asked for nothing it would go on telling.
LEMMA ServeBefore ==
    ASSUME IInv, Serve, pc # "running"
    PROVE  IInv'
  <1> DEFINE r == Head(requests)
             m == Message(r, IF r = "open" THEN TRUE ELSE sim.flying)
             n == Len(messages)
  <1>1. /\ UNCHANGED <<sim, pc, inFlight, simPaused, position, fresh, told, junk, crashed>>
        /\ sim.up /\ requests' = Tail(requests)
    BY DEF Serve, reader, mode
  <1>2. r \in {"open", "state"} /\ requests' = <<>> /\ served = {} /\ pc # "none"
    <2>1. requests # <<>>
      BY DEF Serve
    <2>2. requests \in {<<"open">>, <<"state">>} /\ served = {} /\ pc # "none"
      BY <2>1 DEF IInv, Quiet
    <2>3. CASE requests = <<"open">>
      BY <1>1, <2>2, <2>3
    <2>4. CASE requests = <<"state">>
      BY <1>1, <2>2, <2>4
    <2> QED
      BY <2>2, <2>3, <2>4
  <1>3. messages' = Append(messages, m) /\ messages \in Seq(Messages)
    <2>1. Answer(r) = <<m>>
      BY <1>2 DEF Answer
    <2>2. messages' = messages \o <<m>> /\ messages \in Seq(Messages)
      BY <2>1 DEF Serve, IInv, Shape
    <2>3. m \in Messages
      BY <1>2, KindsAre DEF Message, Messages, IInv, Shape
    <2> HIDE DEF m
    <2> QED
      BY <2>2, <2>3, AppendIsConcat
  <1>4. m \in Messages /\ m.kind \notin Subscribed
    BY <1>2, KindsAre DEF Message, Messages, IInv, Shape
  <1>5. served' = {}
    BY <1>2, KindsAre DEF Serve
  <1> HIDE DEF m
  <1>6. /\ Len(messages') = n + 1 /\ n \in Nat
        /\ \A i \in 1..(n + 1) : messages'[i].kind \notin Subscribed
    <2>1. \A i \in 1..n : messages[i].kind \notin Subscribed
      BY DEF IInv, Quiet
    <2> QED
      BY <2>1, <1>3, <1>4
  <1>7. Shape'
    BY <1>1, <1>3, <1>4, <1>5 DEF IInv, Shape
  <1>8. Quiet' /\ InTurn' /\ Follows' /\ MenuIsNotLive'
    BY <1>1, <1>2, <1>5, <1>6 DEF IInv, Quiet, InTurn, Follows, MenuIsNotLive
  <1>9. ReadRight'
    BY <1>6 DEF ReadRight, Subscribed
  <1>10. PassedOn'
    BY <1>1 DEF IInv, PassedOn
  <1> QED
    BY <1>7, <1>8, <1>9, <1>10 DEF IInv

\* The answer to a subscription is what its state is.
LEMMA ServeRunning ==
    ASSUME IInv, Serve, pc = "running"
    PROVE  IInv'
  <1> DEFINE r == Head(requests)
             n == Len(messages)
  <1>1. /\ UNCHANGED <<sim, pc, inFlight, simPaused, position, fresh, told, junk, crashed>>
        /\ sim.up /\ requests # <<>> /\ requests' = Tail(requests)
        /\ messages \in Seq(Messages)
    BY DEF Serve, reader, mode, IInv, Shape
  <1>2. r \in Subscribed /\ served' = served \cup {r}
    <2>1. r \in Subscribed
      BY <1>1 DEF IInv, InTurn, Subscribed
    <2>2. served' = served \cup ({r} \cap Subscribed)
      BY KindsAre DEF Serve
    <2> QED
      BY <2>1, <2>2
  <1>3. InTurn' /\ (r \in {"sim", "pause"} => r \notin served)
    <2>1. requests' = Tail(requests) /\ served' = served \cup {Head(requests)}
      BY <1>1, <1>2
    <2>2. \/ requests = <<"data", "sim", "pause", "crash">> /\ served = {}
          \/ requests = <<"sim", "pause", "crash">> /\ served = {"data"}
          \/ requests = <<"pause", "crash">> /\ served = {"data", "sim"}
          \/ requests = <<"crash">> /\ served = {"data", "sim", "pause"}
          \/ requests = <<"data">> /\ served = Subscribed
      BY <1>1 DEF IInv, InTurn
    <2>3. CASE requests = <<"data", "sim", "pause", "crash">> /\ served = {}
      <3>1. requests' = <<"sim", "pause", "crash">> /\ served' = {"data"} /\ r = "data"
        BY <2>1, <2>3
      <3> QED
        BY <3>1 DEF InTurn
    <2>4. CASE requests = <<"sim", "pause", "crash">> /\ served = {"data"}
      <3>1. requests' = <<"pause", "crash">> /\ served' = {"data", "sim"} /\ r = "sim"
        BY <2>1, <2>4
      <3> QED
        BY <3>1, <2>4 DEF InTurn
    <2>5. CASE requests = <<"pause", "crash">> /\ served = {"data", "sim"}
      <3>1. requests' = <<"crash">> /\ served' = {"data", "sim", "pause"} /\ r = "pause"
        BY <2>1, <2>5
      <3> QED
        BY <3>1, <2>5 DEF InTurn
    <2>6. CASE requests = <<"crash">> /\ served = {"data", "sim", "pause"}
      <3>1. requests' = <<>> /\ served' = Subscribed /\ r = "crash"
        BY <2>1, <2>6 DEF Subscribed
      <3> QED
        BY <3>1 DEF InTurn
    <2>7. CASE requests = <<"data">> /\ served = Subscribed
      <3>1. requests' = <<>> /\ served' = Subscribed /\ r = "data"
        BY <2>1, <2>7 DEF Subscribed
      <3> QED
        BY <3>1 DEF InTurn
    <2> QED
      BY <2>2, <2>3, <2>4, <2>5, <2>6, <2>7
  <1>4. CASE r \in {"data", "crash"}
    <2>1. messages' = messages
      <3>1. Answer(r) = <<>>
        BY <1>4 DEF Answer
      <3> QED
        BY <3>1, <1>1 DEF Serve
    <2>2. Shape' /\ Quiet'
      BY <1>1, <1>2, <2>1 DEF IInv, Shape, Quiet
    <2>3. Follows'
      BY <1>1, <1>2, <1>4, <2>1 DEF IInv, Follows
    <2>4. ReadRight' /\ PassedOn' /\ MenuIsNotLive'
      BY <1>1, <2>1 DEF IInv, ReadRight, PassedOn, MenuIsNotLive
    <2> QED
      BY <1>3, <2>2, <2>3, <2>4 DEF IInv
  <1>5. CASE r \in {"sim", "pause"}
    <2> DEFINE m == Message(r, IF r = "sim" THEN sim.flying ELSE sim.paused)
    <2>1. messages' = messages \o <<m>>
      <3>1. Answer(r) = <<m>>
        BY <1>5 DEF Answer
      <3> QED
        BY <3>1 DEF Serve
    <2>2. /\ m \in Messages /\ m.kind = r
          /\ r = "sim" => (m.value <=> sim.flying)
          /\ r = "pause" => (m.value <=> sim.paused)
      BY <1>2, KindsAre DEF Message, Messages, IInv, Shape
    <2> HIDE DEF m
    <2>3. /\ messages' = Append(messages, m)
          /\ n \in Nat /\ Len(messages') = n + 1
          /\ \A i \in 1..n : messages'[i] = messages[i]
          /\ messages'[n + 1] = m
      BY <2>1, <2>2, <1>1, AppendIsConcat
    <2>4. Shape' /\ Quiet' /\ MenuIsNotLive'
      <3>1. Shape'
        BY <1>1, <1>2, <2>2, <2>3 DEF IInv, Shape
      <3>2. Quiet' /\ MenuIsNotLive'
        BY <1>1 DEF IInv, Quiet, MenuIsNotLive
      <3> QED
        BY <3>1, <3>2
    <2>5. Follows'
      <3>4. inFlight \in BOOLEAN /\ simPaused \in BOOLEAN
        BY DEF IInv, Shape
      <3>1. "sim" \in served' => (Will(messages', "sim", inFlight, n + 1) <=> sim.flying)
        <4>1. CASE r = "sim"
          <5>1. Will(Append(messages, m), "sim", inFlight, n + 1) <=> m.value
            <6>1. /\ messages \in Seq(Messages) /\ m \in Messages /\ inFlight \in BOOLEAN
                  /\ m.kind = "sim"
              BY <3>4, <4>1, <1>1, <2>2
            <6> QED
              BY <6>1, WillWritten
          <5> QED
            BY <5>1, <4>1, <2>2, <2>3, Zenon
        <4>2. CASE r # "sim"
          <5>1. Will(messages', "sim", inFlight, n + 1) <=> Will(messages, "sim", inFlight, n)
            BY <4>2, <3>4, <1>1, <2>2, <2>3, WillAppend
          <5>2. "sim" \in served' => "sim" \in served
            BY <4>2, <1>2
          <5>3. "sim" \in served => (Will(messages, "sim", inFlight, n) <=> sim.flying)
            BY DEF IInv, Follows
          <5> QED
            BY <5>1, <5>2, <5>3, Zenon
        <4> QED
          BY <4>1, <4>2
      <3>2. "pause" \in served' => (Will(messages', "pause", simPaused, n + 1) <=> sim.paused)
        <4>1. CASE r = "pause"
          <5>1. Will(Append(messages, m), "pause", simPaused, n + 1) <=> m.value
            <6>1. /\ messages \in Seq(Messages) /\ m \in Messages /\ simPaused \in BOOLEAN
                  /\ m.kind = "pause"
              BY <3>4, <4>1, <1>1, <2>2
            <6> QED
              BY <6>1, WillWritten
          <5> QED
            BY <5>1, <4>1, <2>2, <2>3, Zenon
        <4>2. CASE r # "pause"
          <5>1. Will(messages', "pause", simPaused, n + 1) <=> Will(messages, "pause", simPaused, n)
            BY <4>2, <3>4, <1>1, <2>2, <2>3, WillAppend
          <5>2. "pause" \in served' => "pause" \in served
            BY <4>2, <1>2
          <5>3. "pause" \in served => (Will(messages, "pause", simPaused, n) <=> sim.paused)
            BY DEF IInv, Follows
          <5> QED
            BY <5>1, <5>2, <5>3, Zenon
        <4> QED
          BY <4>1, <4>2
      <3>3. "sim" \notin served' =>
               ~told /\ \A i \in 1..(n + 1) : messages'[i].kind # "sim"
        BY <1>1, <1>2, <2>2, <2>3 DEF IInv, Follows
      <3> QED
        BY <3>1, <3>2, <3>3, <1>1, <2>3 DEF Follows
    <2>6. ReadRight'
      BY <1>1, <1>5, <2>2, <2>3, Grows DEF IInv, mode
    <2>7. PassedOn'
      <3>1. \A k \in 1..n : k \in 1..(n + 1) /\ messages'[k] = messages[k]
        BY <2>3
      <3> QED
        BY <3>1, <1>1, <2>3 DEF IInv, PassedOn
    <2> QED
      BY <1>3, <2>4, <2>5, <2>6, <2>7 DEF IInv
  <1> QED
    BY <1>2, <1>4, <1>5 DEF Subscribed

\* The simulator is quit: there is one message more, and none of a state.
LEMMA Quits ==
    ASSUME IInv, QuitSim
    PROVE  IInv'
  <1> DEFINE m == Message("quit", TRUE)
             n == Len(messages)
  <1>1. /\ UNCHANGED <<pc, inFlight, simPaused, position, fresh, told, junk, crashed>>
        /\ sim' \in [up : BOOLEAN, flying : BOOLEAN, paused : BOOLEAN] /\ ~sim'.up
        /\ requests' = <<>> /\ served' = {} /\ messages \in Seq(Messages)
        /\ messages' = IF pc = "none" THEN messages ELSE Append(messages, m)
    BY DEF QuitSim, reader, mode, IInv, Shape
  <1>2. m \in Messages /\ m.kind = "quit"
    BY KindsAre DEF Message, Messages
  <1> HIDE DEF m
  <1>3. CASE pc = "none"
    <2>1. messages' = <<>>
      BY <1>1, <1>3 DEF IInv, Quiet
    <2> QED
      BY <1>1, <1>3, <2>1 DEF IInv, Shape, Quiet, InTurn, Follows, ReadRight, PassedOn,
        MenuIsNotLive
  <1>4. CASE pc # "none"
    <2>1. /\ messages' = Append(messages, m)
          /\ n \in Nat /\ Len(messages') = n + 1
          /\ \A i \in 1..n : messages'[i] = messages[i]
          /\ messages'[n + 1] = m
      BY <1>1, <1>4
    <2>2. Shape'
      BY <1>1, <1>2, <2>1 DEF IInv, Shape
    <2>3. Quiet' /\ InTurn' /\ Follows'
      BY <1>1, <1>2, <1>4, <2>1 DEF IInv, Quiet, InTurn, Follows, Subscribed
    <2>4. ReadRight'
      BY <1>1, <1>2, <2>1, Grows DEF IInv, mode
    <2>5. PassedOn' /\ MenuIsNotLive'
      BY <1>1 DEF IInv, PassedOn, MenuIsNotLive
    <2> QED
      BY <2>2, <2>3, <2>4, <2>5 DEF IInv
  <1> QED
    BY <1>3, <1>4

\* The connection is closed.
LEMMA Hangs ==
    ASSUME IInv, Hangup
    PROVE  IInv'
  <1>1. /\ UNCHANGED <<sim, inFlight, simPaused, position, fresh, told, junk, crashed>>
        /\ pc' = "none" /\ requests' = <<>> /\ served' = {} /\ messages' = <<>>
    BY DEF Hangup, reader, mode
  <1> QED
    BY <1>1 DEF IInv, Shape, Quiet, InTurn, Follows, ReadRight, PassedOn, MenuIsNotLive

\* Open: what it reads is the answers to its own questions.
LEMMA Opens ==
    ASSUME IInv, Dial \/ Opened \/ FlightRuns
    PROVE  IInv'
  <1> DEFINE n == Len(messages)
  <1>1. sim' = sim /\ pc # "running" /\ served' = {} /\ served = {}
    BY DEF Dial, Opened, FlightRuns, Arrives, IInv, Quiet
  <1>2. /\ messages' \in Seq(Messages)
        /\ \A k \in 1..Len(messages') : messages'[k].kind \notin Subscribed
    <2>1. CASE Dial
      BY <2>1 DEF Dial, IInv, Shape, Quiet
    <2>2. CASE Opened \/ FlightRuns
      <3>1. messages # <<>> /\ messages' = Tail(messages) /\ messages \in Seq(Messages)
        BY <2>2 DEF Opened, FlightRuns, Arrives, IInv, Shape
      <3>2. \A k \in 1..n : messages[k].kind \notin Subscribed
        BY <1>1 DEF IInv, Quiet
      <3> QED
        BY <3>1, <3>2
    <2> QED
      BY <2>1, <2>2
  <1>3. ReadRight'
    BY <1>2 DEF ReadRight, Subscribed
  <1>4. CASE Dial \/ Opened
    <2>1. /\ UNCHANGED <<inFlight, simPaused, position, fresh, told, junk, crashed>>
          /\ pc' \in {"opening", "asking"}
          /\ requests' \in {<<"open">>, <<"state">>}
      BY <1>4 DEF Dial, Opened, reader, mode
    <2> QED
      BY <1>1, <1>2, <1>3, <2>1 DEF IInv, Shape, Quiet, InTurn, Follows, PassedOn,
        MenuIsNotLive
  <1>5. CASE FlightRuns
    <2>1. /\ pc' = "running" /\ requests' = <<"data", "sim", "pause", "crash">>
          /\ inFlight' = TRUE /\ simPaused' = FALSE
          /\ position' = [paused |-> FALSE, crashed |-> FALSE]
          /\ fresh' = FALSE /\ told' = FALSE /\ junk' = "no" /\ crashed' = FALSE
      BY <1>5 DEF FlightRuns, Subscriptions
    <2>2. Shape'
      BY <1>1, <1>2, <2>1 DEF IInv, Shape
    <2>3. Quiet' /\ InTurn' /\ PassedOn' /\ MenuIsNotLive'
      BY <1>1, <2>1 DEF Quiet, InTurn, PassedOn, MenuIsNotLive
    <2>4. Follows'
      BY <1>1, <1>2, <2>1 DEF Follows, Subscribed
    <2> QED
      BY <1>3, <2>2, <2>3, <2>4 DEF IInv
  <1> QED
    BY <1>4, <1>5

-----------------------------------------------------------------------------
\* Nothing is open yet.
LEMMA Starts == Init => IInv
  <1> SUFFICES ASSUME Init PROVE IInv
    OBVIOUS
  <1>1. Shape
    <2>1. sim \in [up : BOOLEAN, flying : BOOLEAN, paused : BOOLEAN]
      BY DEF Init
    <2>2. position \in [paused : BOOLEAN, crashed : BOOLEAN]
      BY DEF Init
    <2>3. messages \in Seq(Messages) /\ served \subseteq Subscribed
      BY DEF Init
    <2>4. inFlight \in BOOLEAN /\ simPaused \in BOOLEAN
      BY DEF Init
    <2> QED
      BY <2>1, <2>2, <2>3, <2>4 DEF Shape
  <1>2. Quiet /\ InTurn /\ Follows /\ ReadRight
    BY DEF Init, Quiet, InTurn, Follows, ReadRight
  <1>3. PassedOn /\ MenuIsNotLive
    BY DEF Init, PassedOn, MenuIsNotLive
  <1> QED
    BY <1>1, <1>2, <1>3 DEF IInv

\* Every step keeps the invariant.
LEMMA Keeps == IInv /\ [Next]_vars => IInv'
  <1> SUFFICES ASSUME IInv, [Next]_vars PROVE IInv'
    OBVIOUS
  <1>1. ASSUME UNCHANGED <<sim, pipe, pc, reader, crashed>> PROVE IInv'
    BY <1>1 DEF pipe, reader, mode, IInv, Shape, Quiet, InTurn, Follows, ReadRight,
      PassedOn, MenuIsNotLive
  <1>2. CASE StartSim
    <2>1. /\ UNCHANGED <<pipe, pc, reader, crashed>> /\ ~sim.up /\ pc = "none"
          /\ sim' \in [up : BOOLEAN, flying : BOOLEAN, paused : BOOLEAN]
      BY <1>2 DEF StartSim
    <2>2. served = {}
      BY <2>1 DEF IInv, Quiet
    <2> QED
      BY <2>1, <2>2 DEF pipe, reader, mode, IInv, Shape, Quiet, InTurn, Follows,
        ReadRight, PassedOn, MenuIsNotLive
  <1>3. CASE ChangeFlight
    <2> DEFINE value == sim'.flying
    <2>1. /\ sim' = [sim EXCEPT !.flying = ~@] /\ Told("sim", value) /\ crashed' = crashed
          /\ sim.up
      BY <1>3 DEF ChangeFlight, Told
    <2>2. /\ sim' \in [up : {TRUE}, flying : BOOLEAN, paused : BOOLEAN]
          /\ sim'.paused = sim.paused
      BY <2>1 DEF IInv, Shape
    <2> QED
      BY <2>1, <2>2, ToldKeeps DEF Subscribed
  <1>4. CASE ChangePause
    <2> DEFINE value == sim'.paused
    <2>1. /\ sim' = [sim EXCEPT !.paused = ~@] /\ Told("pause", value) /\ crashed' = crashed
          /\ sim.up
      BY <1>4 DEF ChangePause, Told
    <2>2. /\ sim' \in [up : {TRUE}, flying : BOOLEAN, paused : BOOLEAN]
          /\ sim'.flying = sim.flying
      BY <2>1 DEF IInv, Shape
    <2> QED
      BY <2>1, <2>2, ToldKeeps DEF Subscribed
  <1>5. CASE Crash
    <2>1. /\ sim.flying /\ Told("crash", TRUE) /\ sim' = sim /\ sim.up
          /\ crashed' => crashed \/ (pc = "running" /\ requests = <<>>)
      BY <1>5 DEF Crash, Told
    <2>2. sim' \in [up : {TRUE}, flying : BOOLEAN, paused : BOOLEAN]
      BY <2>1 DEF IInv, Shape
    <2> QED
      BY <2>1, <2>2, ToldKeeps DEF Subscribed
  <1>6. CASE SendData
    <2>1. Told("data", sim.flying) /\ sim' = sim /\ crashed' = crashed /\ sim.up
      BY <1>6 DEF SendData, Told
    <2>2. /\ sim' \in [up : {TRUE}, flying : BOOLEAN, paused : BOOLEAN]
          /\ sim.flying \in BOOLEAN
      BY <2>1 DEF IInv, Shape
    <2> QED
      BY <2>1, <2>2, ToldKeeps DEF Subscribed
  <1>7. CASE Resubscribe
    <2>1. /\ pc = "running" /\ sim.up /\ requests = <<>> /\ requests' = <<"data">>
          /\ UNCHANGED <<sim, served, messages, pc, reader, crashed>>
      BY <1>7 DEF Resubscribe
    <2>2. InTurn'
      BY <2>1 DEF IInv, InTurn
    <2> QED
      BY <2>1, <2>2 DEF reader, mode, IInv, Shape, Quiet, Follows, ReadRight, PassedOn,
        MenuIsNotLive
  <1>8. CASE Pausing \/ UNCHANGED vars
    BY <1>1, <1>8 DEF Pausing, vars
  <1>9. CASE Serve
    BY <1>9, ServeBefore, ServeRunning
  <1>10. CASE Opening \/ ReadQuit \/ Close
    BY <1>10, Opens, Hangs DEF Opening, OpenFails, ReadQuit, Close
  <1>11. CASE Reader
    BY <1>10, <1>11, DataRead, SimRead, PauseReadKeeps, CrashRead DEF Reader
  <1>12. CASE QuitSim
    BY <1>12, Quits
  <1> QED
    BY <1>2, <1>3, <1>4, <1>5, <1>6, <1>7, <1>8, <1>9, <1>10, <1>11, <1>12
      DEF Next, Simulator

\* So it is of every behaviour.
LEMMA Invariant == Spec => []IInv
  BY Starts, Keeps, PTL DEF Spec

\* Whatever messages cross the changes they tell of, once all are read the reader
\* knows whether a flight runs and whether it is paused; so does the position,
\* and no crash is lost (msfs.go:181-259, msfs_test.go:123, 127).
THEOREM TheSimIsKnown == Spec => []KnowsTheSim
  <1>1. IInv => KnowsTheSim
    <2> SUFFICES ASSUME IInv, CaughtUp PROVE KnowsTheSim
      BY DEF KnowsTheSim
    <2>1. /\ pc = "running" /\ sim.up /\ Len(messages) = 0
          /\ "sim" \in served /\ "pause" \in served
      BY DEF CaughtUp, IInv, InTurn, Subscribed
    <2>2. (inFlight <=> sim.flying) /\ (simPaused <=> sim.paused)
      BY <2>1 DEF IInv, Follows, Will
    <2>3. /\ inFlight \in BOOLEAN /\ simPaused \in BOOLEAN
          /\ sim.flying \in BOOLEAN /\ sim.paused \in BOOLEAN
      BY DEF IInv, Shape
    <2>4. inFlight = sim.flying /\ simPaused = sim.paused
      BY <2>2, <2>3
    <2>5. crashed => position.crashed
      BY <2>1 DEF IInv, PassedOn
    <2> QED
      BY <2>4, <2>5 DEF KnowsTheSim, IInv, PassedOn
  <1> QED
    BY <1>1, Invariant, PTL

\* No data block of the main menu is passed on once the reader was told of a
\* flight (msfs.go:197-214, msfs_test.go:99).
THEOREM TheMenuIsNotLive == Spec => []MenuIsNotLive
  <1>1. IInv => MenuIsNotLive
    BY DEF IInv
  <1> QED
    BY <1>1, Invariant, PTL

-----------------------------------------------------------------------------
\* What an event of the pause says.
Words == BOOLEAN

\* What Pause waits for in the events of its own connection is there for a reason.
Reported ==
    /\ heard \in Seq(Words)
    /\ sim \in [up : BOOLEAN, flying : BOOLEAN, paused : BOOLEAN]
    /\ wasPaused \in BOOLEAN
    /\ pause = "ok" => wasPaused = TRUE
    /\ pause = "waiting" => \A k \in 1..Len(heard) : heard[k] = TRUE => wasPaused = TRUE

\* Pause succeeds only if the simulator was paused while it waited (msfs.go:113-119).
THEOREM PauseWasReal == Spec => []ConfirmedMeansPaused
  <1>1. Init => Reported
    <2> SUFFICES ASSUME Init PROVE Reported
      OBVIOUS
    <2>1. sim \in [up : BOOLEAN, flying : BOOLEAN, paused : BOOLEAN]
      BY DEF Init
    <2>2. heard = <<>> /\ pause = "none" /\ wasPaused = FALSE
      BY DEF Init
    <2>3. heard \in Seq(Words) /\ Len(heard) = 0
      BY <2>2
    <2> QED
      BY <2>1, <2>2, <2>3 DEF Reported
  <1>2. Reported /\ [Next]_vars => Reported'
    <2> SUFFICES ASSUME Reported, [Next]_vars PROVE Reported'
      OBVIOUS
    <2>1. ASSUME UNCHANGED pauser, sim' \in [up : BOOLEAN, flying : BOOLEAN, paused : BOOLEAN]
          PROVE  Reported'
      BY <2>1 DEF pauser, Reported
    <2>2. CASE StartSim \/ QuitSim \/ Serve \/ Opening \/ Reader \/ Resubscribe \/ Close
               \/ UNCHANGED vars
      <3>1. UNCHANGED pauser
        BY <2>2 DEF StartSim, QuitSim, Serve, Opening, Dial, Opened, FlightRuns, OpenFails,
          Hangup, Reader, ReadData, ReadSim, ReadPause, PauseRead, ReadCrash, ReadQuit,
          Resubscribe, Close, vars
      <3>2. sim' \in [up : BOOLEAN, flying : BOOLEAN, paused : BOOLEAN]
        BY <2>2 DEF StartSim, QuitSim, Serve, Opening, Dial, Opened, FlightRuns, OpenFails,
          Hangup, Reader, ReadData, ReadSim, ReadPause, PauseRead, ReadCrash, ReadQuit,
          Resubscribe, Close, vars, Reported
      <3> QED
        BY <2>1, <3>1, <3>2
    <2>3. CASE ChangeFlight \/ Crash \/ SendData
      <3>1. UNCHANGED pauser
        BY <2>3 DEF ChangeFlight, Crash, SendData, Told, pauser
      <3>2. sim' \in [up : BOOLEAN, flying : BOOLEAN, paused : BOOLEAN]
        BY <2>3 DEF ChangeFlight, Crash, SendData, Reported
      <3> QED
        BY <2>1, <3>1, <3>2
    <2>4. CASE ChangePause
      <3>1. /\ sim' = [sim EXCEPT !.paused = ~@]
            /\ heard' = IF pause = "waiting" THEN Append(heard, sim'.paused) ELSE heard
            /\ pause' = pause
            /\ wasPaused' = (wasPaused \/ (pause = "waiting" /\ sim'.paused))
        BY <2>4 DEF ChangePause, Told
      <3>2. /\ sim' \in [up : BOOLEAN, flying : BOOLEAN, paused : BOOLEAN]
            /\ sim'.paused \in BOOLEAN /\ wasPaused' \in BOOLEAN
        BY <3>1 DEF Reported
      <3>3. CASE pause = "waiting"
        <4>1. /\ Len(heard) \in Nat /\ Len(heard') = Len(heard) + 1 /\ heard' \in Seq(Words)
              /\ \A k \in 1..Len(heard) : heard'[k] = heard[k]
              /\ heard'[Len(heard) + 1] = sim'.paused
          <5>1. sim'.paused \in Words
            BY <3>2 DEF Words
          <5> QED
            BY <5>1, <3>1, <3>3 DEF Reported
        <4>2. sim'.paused = TRUE => wasPaused' = TRUE
          BY <3>1, <3>3
        <4>3. wasPaused = TRUE => wasPaused' = TRUE
          BY <3>1
        <4>4. ASSUME NEW k \in 1..Len(heard'), heard'[k] = TRUE PROVE wasPaused' = TRUE
          <5>1. CASE k = Len(heard) + 1
            <6>1. sim'.paused = TRUE
              BY <5>1, <4>1, <4>4
            <6> QED
              BY <6>1, <4>2, Zenon
          <5>2. CASE k \in 1..Len(heard)
            <6>1. heard[k] = TRUE
              BY <5>2, <4>1, <4>4
            <6>2. wasPaused = TRUE
              BY <6>1, <5>2, <3>3 DEF Reported
            <6> QED
              BY <6>2, <4>3, Zenon
          <5>3. k = Len(heard) + 1 \/ k \in 1..Len(heard)
            BY <4>1
          <5> QED
            BY <5>1, <5>2, <5>3, Zenon
        <4> QED
          BY <4>1, <4>4, <3>1, <3>2, <3>3 DEF Reported
      <3>4. CASE pause # "waiting"
        <4>1. heard' = heard /\ (wasPaused = TRUE => wasPaused' = TRUE)
          BY <3>1, <3>4
        <4> QED
          BY <4>1, <3>1, <3>2, <3>4 DEF Reported
      <3> QED
        BY <3>3, <3>4
    <2>5. CASE Pausing
      <3>1. UNCHANGED sim
        BY <2>5 DEF Pausing
      <3>2. CASE PauseSubscribed
        <4>1. /\ pause' = "waiting" /\ heard' = <<sim.paused>> /\ wasPaused' = sim.paused
              /\ sim.paused \in BOOLEAN
          BY <3>2 DEF PauseSubscribed, Reported
        <4>2. heard' \in Seq(Words)
          BY <4>1 DEF Words
        <4>3. Len(heard') = 1 /\ heard'[1] = wasPaused'
          BY <4>1
        <4> QED
          BY <3>1, <4>1, <4>2, <4>3 DEF Reported
      <3>3. CASE PauseHears
        <4>1. /\ pause = "waiting" /\ heard \in Seq(Words) /\ heard # <<>>
              /\ wasPaused' = wasPaused
              /\ \/ Head(heard) = TRUE /\ pause' = "ok" /\ heard' = <<>>
                 \/ pause' = "waiting" /\ heard' = Tail(heard)
          BY <3>3 DEF PauseHears, Confirms, Reported
        <4>2. /\ Head(heard) = heard[1] /\ Len(heard) \in Nat /\ Len(heard) > 0
              /\ Tail(heard) \in Seq(Words) /\ Len(Tail(heard)) = Len(heard) - 1
              /\ \A k \in 1..(Len(heard) - 1) : Tail(heard)[k] = heard[k + 1]
          <5>1. heard \in Seq(Words) /\ heard # <<>>
            BY <4>1
          <5> QED
            BY <5>1
        <4>3. \A k \in 1..Len(heard) : heard[k] = TRUE => wasPaused = TRUE
          BY <4>1 DEF Reported
        <4>4. CASE Head(heard) = TRUE /\ pause' = "ok" /\ heard' = <<>>
          <5>1. wasPaused = TRUE
            <6>1. 1 \in 1..Len(heard) /\ heard[1] = Head(heard)
              BY <4>2
            <6> QED
              BY <6>1, <4>3, <4>4, Zenon
          <5>2. heard' \in Seq(Words)
            BY <4>4, EmptySeq, Zenon
          <5> QED
            BY <5>1, <5>2, <3>1, <4>1, <4>4 DEF Reported
        <4>5. CASE pause' = "waiting" /\ heard' = Tail(heard)
          <5>1. \A k \in 1..(Len(heard) - 1) : k + 1 \in 1..Len(heard)
            BY <4>2
          <5> QED
            BY <5>1, <3>1, <4>1, <4>2, <4>3, <4>5 DEF Reported
        <4> QED
          BY <4>1, <4>4, <4>5
      <3>4. CASE PauseBegins \/ PauseFails \/ PauseOver
        <4>1. /\ pause' \notin {"ok", "waiting"} /\ heard' \in {heard, <<>>}
              /\ wasPaused' \in BOOLEAN
          BY <3>4 DEF PauseBegins, PauseFails, PauseOver, Reported
        <4> QED
          BY <3>1, <4>1, EmptySeq DEF Reported
      <3> QED
        BY <2>5, <3>2, <3>3, <3>4 DEF Pausing
    <2> QED
      BY <2>2, <2>3, <2>4, <2>5 DEF Next, Simulator
  <1>3. Reported => ConfirmedMeansPaused
    BY DEF Reported, ConfirmedMeansPaused
  <1> QED
    BY <1>1, <1>2, <1>3, PTL DEF Spec
=============================================================================
