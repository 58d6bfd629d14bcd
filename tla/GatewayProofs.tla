--------------------------- MODULE GatewayProofs ---------------------------
(***************************************************************************)
(* Proofs about Gateway, for any number of sessions, events and ends of    *)
(* the process: the bot always has exactly one way towards a connection,   *)
(* no message is skipped, the stored session can be resumed from, and what *)
(* is handled again was not covered by what was stored.                    *)
(*                                                                         *)
(* They follow from one inductive invariant, GatewayInv: the events on     *)
(* their way are exactly those after the number the bot has reached in the *)
(* connection's session (InboxInv), so what it takes over next is always   *)
(* the next one (DispatchEffect).                                          *)
(***************************************************************************)
EXTENDS Gateway, TLAPS, SequenceTheorems

(***************************************************************************)
(* The messages on their way: taking the first one, adding one at the end, *)
(* adding a run of events.                                                 *)
(***************************************************************************)

\* What is left of a sequence after its first element.
LEMMA TailSeq ==
    ASSUME NEW S, NEW q \in Seq(S), q # <<>>
    PROVE  /\ Tail(q) \in Seq(S) /\ DOMAIN q = 1 .. Len(q) /\ Head(q) = q[1] /\ 1 \in DOMAIN q
           /\ DOMAIN Tail(q) = 1 .. Len(q) - 1
           /\ \A i \in DOMAIN Tail(q) : Tail(q)[i] = q[i + 1] /\ i + 1 \in DOMAIN q
  OBVIOUS

\* A sequence with one more element.
LEMMA AppendSeq ==
    ASSUME NEW S, NEW q \in Seq(S), NEW m \in S
    PROVE  /\ Append(q, m) \in Seq(S)
           /\ DOMAIN Append(q, m) = 1 .. Len(q) + 1 /\ DOMAIN q = 1 .. Len(q)
           /\ \A i \in DOMAIN q : Append(q, m)[i] = q[i]
           /\ Append(q, m)[Len(q) + 1] = m
  OBVIOUS

\* Two sequences, one after the other.
LEMMA ConcatSeq ==
    ASSUME NEW S, NEW q \in Seq(S), NEW r \in Seq(S)
    PROVE  /\ q \o r \in Seq(S) /\ Len(q) \in Nat
           /\ DOMAIN (q \o r) = 1 .. Len(q) + Len(r) /\ DOMAIN q = 1 .. Len(q)
              /\ DOMAIN r = 1 .. Len(r)
           /\ \A i \in DOMAIN q : (q \o r)[i] = q[i]
           /\ \A i \in DOMAIN r : (q \o r)[Len(q) + i] = r[i]
           /\ \A i \in DOMAIN (q \o r) : i \in DOMAIN q
              \/ (i - Len(q) \in DOMAIN r /\ (q \o r)[i] = r[i - Len(q)])
  BY ConcatProperties

\* Taking a message that is not an event leaves the events as they are.
LEMMA TailOther ==
    ASSUME NEW q \in Seq(Message), q # <<>>, ~IsEvent(Head(q)), NEW s, NEW a \in Int, NEW b \in Int,
           EventsAre(q, s, a, b)
    PROVE  EventsAre(Tail(q), s, a, b)
<1> DEFINE t == Tail(q)
<1>1. /\ DOMAIN q = 1 .. Len(q) /\ ~IsEvent(q[1]) /\ Len(q) \in Nat
      /\ DOMAIN t = 1 .. Len(q) - 1
      /\ \A i \in DOMAIN t : t[i] = q[i + 1] /\ i + 1 \in DOMAIN q
  BY TailSeq
<1>2. \A i \in DOMAIN t : IsEvent(t[i]) => t[i].ev.session = s /\ t[i].ev.seq \in a .. b
  BY <1>1 DEF EventsAre
<1>3. ASSUME NEW i \in DOMAIN t, NEW k \in DOMAIN t, IsEvent(t[i]), IsEvent(t[k]), i < k
      PROVE  t[i].ev.seq < t[k].ev.seq
  <2>1. /\ i + 1 \in DOMAIN q /\ k + 1 \in DOMAIN q /\ i + 1 < k + 1
        /\ t[i] = q[i + 1] /\ t[k] = q[k + 1]
    BY <1>1, <1>3
  <2> QED
    BY <1>3, <2>1 DEF EventsAre
<1>4. ASSUME NEW n \in a .. b
      PROVE  \E i \in DOMAIN t : IsEvent(t[i]) /\ t[i].ev.seq = n
  <2>1. PICK i \in DOMAIN q : IsEvent(q[i]) /\ q[i].ev.seq = n
    BY DEF EventsAre
  <2>2. i - 1 \in DOMAIN t /\ t[i - 1] = q[i]
    BY <1>1, <2>1
  <2> QED
    BY <2>1, <2>2
<1> HIDE DEF t
<1> QED
  BY <1>2, <1>3, <1>4 DEF EventsAre, t

\* The first of the events a to b is a, and a + 1 to b are left.
LEMMA TailEvent ==
    ASSUME NEW q \in Seq(Message), q # <<>>, IsEvent(Head(q)), NEW s, NEW a \in Int, NEW b \in Int,
           EventsAre(q, s, a, b), \A m \in Message : IsEvent(m) => m.ev.seq \in Int
    PROVE  /\ Head(q).ev.session = s /\ Head(q).ev.seq = a /\ a <= b
           /\ EventsAre(Tail(q), s, a + 1, b)
<1> DEFINE t == Tail(q)
<1>1. /\ DOMAIN q = 1 .. Len(q) /\ Head(q) = q[1] /\ 1 \in DOMAIN q /\ Len(q) \in Nat
      /\ DOMAIN t = 1 .. Len(q) - 1
      /\ \A i \in DOMAIN t : t[i] = q[i + 1] /\ i + 1 \in DOMAIN q
  BY TailSeq
<1>2. IsEvent(q[1]) /\ q[1].ev.session = s /\ q[1].ev.seq \in a .. b
  BY <1>1 DEF EventsAre
<1>3. q[1].ev.seq = a
  <2>1. PICK i \in DOMAIN q : IsEvent(q[i]) /\ q[i].ev.seq = a
    BY <1>2 DEF EventsAre
  <2>2. i = 1 \/ 1 < i
    BY <1>1
  <2>3. 1 < i => q[1].ev.seq < a
    BY <1>1, <1>2, <2>1 DEF EventsAre
  <2> QED
    BY <1>2, <2>1, <2>2, <2>3
<1>4. ASSUME NEW i \in DOMAIN t, IsEvent(t[i])
      PROVE  t[i].ev.session = s /\ t[i].ev.seq \in a + 1 .. b
  <2>1. i + 1 \in DOMAIN q /\ t[i] = q[i + 1] /\ 1 < i + 1
    BY <1>1
  <2>2. q[1].ev.seq < q[i + 1].ev.seq
    BY <1>1, <1>2, <1>4, <2>1 DEF EventsAre
  <2>3. q[i + 1].ev.session = s /\ q[i + 1].ev.seq \in a .. b
    BY <1>4, <2>1 DEF EventsAre
  <2> QED
    BY <1>3, <2>1, <2>2, <2>3
<1>5. ASSUME NEW i \in DOMAIN t, NEW k \in DOMAIN t, IsEvent(t[i]), IsEvent(t[k]), i < k
      PROVE  t[i].ev.seq < t[k].ev.seq
  <2>1. /\ i + 1 \in DOMAIN q /\ k + 1 \in DOMAIN q /\ i + 1 < k + 1
        /\ t[i] = q[i + 1] /\ t[k] = q[k + 1]
    BY <1>1, <1>5
  <2> QED
    BY <1>5, <2>1 DEF EventsAre
<1>6. ASSUME NEW n \in a + 1 .. b
      PROVE  \E i \in DOMAIN t : IsEvent(t[i]) /\ t[i].ev.seq = n
  <2>1. n \in a .. b /\ n # a
    OBVIOUS
  <2>2. PICK i \in DOMAIN q : IsEvent(q[i]) /\ q[i].ev.seq = n
    BY <2>1 DEF EventsAre
  <2>3. i # 1
    BY <1>3, <2>1, <2>2
  <2>4. i - 1 \in DOMAIN t /\ t[i - 1] = q[i]
    BY <1>1, <2>2, <2>3
  <2> QED
    BY <2>2, <2>4
<1> HIDE DEF t
<1> QED
  BY <1>1, <1>2, <1>3, <1>4, <1>5, <1>6 DEF EventsAre, t

\* A message that is not an event leaves the events as they are.
LEMMA AppendOther ==
    ASSUME NEW q \in Seq(Message), NEW m \in Message, ~IsEvent(m), NEW s, NEW a \in Int,
           NEW b \in Int,
           EventsAre(q, s, a, b)
    PROVE  EventsAre(Append(q, m), s, a, b)
<1> DEFINE t == Append(q, m)
<1>1. /\ DOMAIN t = 1 .. Len(q) + 1 /\ DOMAIN q = 1 .. Len(q) /\ Len(q) \in Nat
      /\ \A i \in DOMAIN q : t[i] = q[i] /\ i \in DOMAIN t
      /\ t[Len(q) + 1] = m
  BY AppendSeq
<1> HIDE DEF t
<1>2. \A i \in DOMAIN t : IsEvent(t[i]) => i \in DOMAIN q /\ t[i] = q[i]
  BY <1>1
<1>3. \A n \in a .. b : \E i \in DOMAIN t : IsEvent(t[i]) /\ t[i].ev.seq = n
  BY <1>1 DEF EventsAre
<1> QED
  BY <1>2, <1>3 DEF EventsAre, t

\* What Events returns.
LEMMA EventsSeq ==
    ASSUME NEW s \in Sessions, NEW b \in Nat, NEW c \in 0 .. MaxSeq, b <= c
    PROVE  LET r == Events(s, b + 1, c) IN
           /\ r \in Seq(Message) /\ DOMAIN r = 1 .. c - b /\ Len(r) = c - b
           /\ \A i \in DOMAIN r : IsEvent(r[i]) /\ r[i].op = "event" /\ r[i].ev.session = s
              /\ r[i].ev.seq = b + i
<1> DEFINE r == Events(s, b + 1, c)
<1>1. c - b \in Nat /\ c - (b + 1) + 1 = c - b
  BY GatewayAssumption
<1>2. r = [i \in 1 .. c - b |-> [op |-> "event", ev |-> [session |-> s, seq |-> b + i]]]
  BY <1>1 DEF Events
<1>3. \A i \in 1 .. c - b : b + i \in Seqs
  BY GatewayAssumption DEF Seqs
<1>4. r \in [1 .. c - b -> Message]
  BY <1>2, <1>3 DEF Message, Event
<1>5. r \in Seq(Message) /\ Len(r) = c - b
  BY <1>1, <1>4
<1> QED
  BY <1>2, <1>5 DEF IsEvent

\* No events: those from b + 1 to b.
LEMMA NoEvents ==
    ASSUME NEW q, \A i \in DOMAIN q : ~IsEvent(q[i]), NEW s, NEW b \in Int
    PROVE  EventsAre(q, s, b + 1, b)
  BY DEF EventsAre

\* The events a to b and those from b + 1 to c are those from a to c.
LEMMA ConcatEvents ==
    ASSUME NEW q \in Seq(Message), NEW s \in Sessions, NEW a \in Nat, NEW b \in Nat, a <= b + 1,
           NEW c \in 0 .. MaxSeq, b <= c, EventsAre(q, s, a, b)
    PROVE  EventsAre(q \o Events(s, b + 1, c), s, a, c)
<1> DEFINE r == Events(s, b + 1, c)
           t == q \o r
<1>1. /\ r \in Seq(Message) /\ DOMAIN r = 1 .. c - b /\ Len(r) = c - b
      /\ \A i \in DOMAIN r : IsEvent(r[i]) /\ r[i].ev.session = s /\ r[i].ev.seq = b + i
  BY EventsSeq
<1> HIDE DEF r
<1>2. /\ DOMAIN t = 1 .. Len(q) + Len(r) /\ DOMAIN q = 1 .. Len(q) /\ Len(q) \in Nat
      /\ \A i \in DOMAIN q : t[i] = q[i]
      /\ \A i \in DOMAIN r : t[Len(q) + i] = r[i]
      /\ \A i \in DOMAIN t : i \in DOMAIN q \/ (i - Len(q) \in DOMAIN r /\ t[i] = r[i - Len(q)])
  <2>1. q \in Seq(Message) /\ r \in Seq(Message)
    BY <1>1
  <2> QED
    BY ONLY <2>1, ConcatSeq
<1> HIDE DEF t
<1>3. c \in Nat /\ c - b \in Nat
  BY GatewayAssumption
<1>4. ASSUME NEW i \in DOMAIN q, IsEvent(q[i])
      PROVE  q[i].ev.session = s /\ q[i].ev.seq \in a .. b
  BY <1>4 DEF EventsAre
<1>5. ASSUME NEW i \in DOMAIN t, IsEvent(t[i])
      PROVE  t[i].ev.session = s /\ t[i].ev.seq \in a .. c
  <2>1. CASE i \in DOMAIN q
    BY <1>2, <1>3, <1>4, <1>5, <2>1
  <2>2. CASE i - Len(q) \in DOMAIN r /\ t[i] = r[i - Len(q)]
    <3>1. i - Len(q) \in 1 .. c - b /\ t[i].ev.session = s /\ t[i].ev.seq = b + (i - Len(q))
      BY <1>1, <2>2
    <3> QED
      BY <1>3, <3>1
  <2> QED
    BY <1>2, <2>1, <2>2
<1>6. ASSUME NEW i \in DOMAIN t, NEW k \in DOMAIN t, IsEvent(t[i]), IsEvent(t[k]), i < k
      PROVE  t[i].ev.seq < t[k].ev.seq
  <2>1. CASE k \in DOMAIN q
    <3>1. i \in DOMAIN q /\ t[i] = q[i] /\ t[k] = q[k]
      BY <1>2, <1>6, <2>1
    <3> QED
      BY <1>6, <2>1, <3>1 DEF EventsAre
  <2>2. CASE k - Len(q) \in DOMAIN r /\ t[k] = r[k - Len(q)]
    <3>1. k - Len(q) \in 1 .. c - b /\ t[k].ev.seq = b + (k - Len(q))
      BY <1>1, <2>2
    <3>2. CASE i \in DOMAIN q
      BY <1>2, <1>4, <1>6, <3>1, <3>2
    <3>3. CASE i - Len(q) \in DOMAIN r /\ t[i] = r[i - Len(q)]
      <4>1. i - Len(q) \in 1 .. c - b /\ t[i].ev.seq = b + (i - Len(q))
        BY <1>1, <3>3
      <4> QED
        BY <1>2, <1>3, <1>6, <3>1, <4>1
    <3> QED
      BY <1>2, <3>2, <3>3
  <2> QED
    BY <1>2, <2>1, <2>2
<1>7. ASSUME NEW n \in a .. c
      PROVE  \E i \in DOMAIN t : IsEvent(t[i]) /\ t[i].ev.seq = n
  <2>1. CASE n <= b
    <3>1. PICK i \in DOMAIN q : IsEvent(q[i]) /\ q[i].ev.seq = n
      BY <2>1 DEF EventsAre
    <3>2. i \in DOMAIN t /\ t[i] = q[i]
      BY <1>1, <1>2, <1>3
    <3> QED
      BY <3>1, <3>2
  <2>2. CASE n > b
    <3>1. n - b \in DOMAIN r /\ Len(q) + (n - b) \in DOMAIN t
      BY <1>1, <1>2, <1>3, <2>2
    <3>2. t[Len(q) + (n - b)] = r[n - b]
      BY <1>2, <3>1
    <3>3. IsEvent(r[n - b]) /\ r[n - b].ev.seq = b + (n - b)
      BY <1>1, <3>1
    <3> QED
      BY <3>1, <3>2, <3>3
  <2> QED
    BY <1>3, <2>1, <2>2
<1> QED
  BY <1>5, <1>6, <1>7 DEF EventsAre, t, r

\* Taking a message adds none.
LEMMA TailMessages ==
    ASSUME NEW q \in Seq(Message), q # <<>>
    PROVE  Messages(Tail(q)) \subseteq Messages(q) /\ Head(q) \in Messages(q)
  BY TailSeq DEF Messages

\* Adding a message adds no other.
LEMMA AppendMessages ==
    ASSUME NEW q \in Seq(Message), NEW m \in Message
    PROVE  Messages(Append(q, m)) \subseteq Messages(q) \cup {m}
<1>1. \A i \in DOMAIN Append(q, m) : i \in DOMAIN q \/ i = Len(q) + 1
  BY AppendSeq
<1> QED
  BY <1>1, AppendSeq DEF Messages

\* Neither does adding several.
LEMMA ConcatMessages ==
    ASSUME NEW q \in Seq(Message), NEW r \in Seq(Message)
    PROVE  Messages(q \o r) \subseteq Messages(q) \cup Messages(r)
  BY ConcatSeq DEF Messages

\* After a hello or a refusal was taken there is no other.
LEMMA TailOpening ==
    ASSUME NEW q \in Seq(Message), q # <<>>, OneOpening(q)
    PROVE  /\ OneOpening(Tail(q))
           /\ IsOpening(Head(q)) => \A m \in Messages(Tail(q)) : ~IsOpening(m)
<1> DEFINE t == Tail(q)
<1>1. /\ Head(q) = q[1] /\ 1 \in DOMAIN q /\ DOMAIN t = 1 .. Len(q) - 1
      /\ \A i \in DOMAIN t : t[i] = q[i + 1] /\ i + 1 \in DOMAIN q
  BY TailSeq
<1>2. ASSUME NEW i \in DOMAIN t, NEW k \in DOMAIN t, IsOpening(t[i]), IsOpening(t[k])
      PROVE  i = k
  <2>1. i + 1 = k + 1
    BY <1>1, <1>2 DEF OneOpening
  <2> QED
    BY <1>1, <2>1
<1>3. ASSUME IsOpening(Head(q)), NEW i \in DOMAIN t PROVE ~IsOpening(t[i])
  <2>1. i + 1 # 1 /\ i + 1 \in DOMAIN q /\ t[i] = q[i + 1]
    BY <1>1
  <2> QED
    BY <1>1, <1>3, <2>1 DEF OneOpening
<1> HIDE DEF t
<1> QED
  BY <1>2, <1>3 DEF OneOpening, Messages, t

\* A sequence without a hello or a refusal has not two of them.
LEMMA NoOpening ==
    ASSUME NEW q, \A m \in Messages(q) : ~IsOpening(m)
    PROVE  OneOpening(q)
  BY DEF OneOpening, Messages

\* One may be added where there is none.
LEMMA AppendOpening ==
    ASSUME NEW q \in Seq(Message), NEW m \in Message, OneOpening(q),
           ~IsOpening(m) \/ \A x \in Messages(q) : ~IsOpening(x)
    PROVE  OneOpening(Append(q, m))
<1> DEFINE t == Append(q, m)
<1>1. /\ \A i \in DOMAIN t : i \in DOMAIN q \/ i = Len(q) + 1
      /\ \A i \in DOMAIN q : t[i] = q[i]
      /\ t[Len(q) + 1] = m
  BY AppendSeq
<1>2. \A i \in DOMAIN q : q[i] \in Messages(q)
  BY DEF Messages
<1> HIDE DEF t
<1> QED
  BY <1>1, <1>2 DEF OneOpening, t

\* A run of events holds events only.
LEMMA EventsMessages ==
    ASSUME NEW s \in Sessions, NEW b \in Nat, NEW c \in 0 .. MaxSeq, b <= c
    PROVE  \A m \in Messages(Events(s, b + 1, c)) : IsEvent(m) /\ m.op = "event"
<1> DEFINE r == Events(s, b + 1, c)
<1>1. \A i \in DOMAIN r : IsEvent(r[i]) /\ r[i].op = "event"
  BY EventsSeq
<1> HIDE DEF r
<1> QED
  BY <1>1 DEF Messages, r

\* The kinds of messages exclude each other.
LEMMA MessageKinds ==
    /\ \A m \in Message : IsEvent(m) => m.ev \in Event /\ m.ev.seq \in Int
    /\ \A m : m.op = "event" => ~IsOpening(m) /\ m.op # "invalid"
    /\ [op |-> "hello"] \in Message /\ [op |-> "heartbeat"] \in Message
    /\ [op |-> "ack"] \in Message /\ [op |-> "invalid"] \in Message
  BY GatewayAssumption DEF Message, Event, Seqs, IsEvent, IsOpening

-----------------------------------------------------------------------------
(***************************************************************************)
(* Types.                                                                  *)
(***************************************************************************)

\* What Discord answers is a sequence of messages, and its state stays in its
\* sets.
LEMMA SendTypes ==
    ASSUME TypeOK, SessionsInv, NEW rest \in Seq(Message)
    PROVE  /\ SendIdentify(rest) \/ SendResume(rest)
                => /\ inbox' \in Seq(Message) /\ online' \in 0 .. MaxSessions
                   /\ opened' \in 0 .. MaxSessions /\ alive' \subseteq Sessions
                   /\ sent' \in [Sessions -> 0 .. MaxSeq]
           /\ SendHeartbeat(rest) => inbox' \in Seq(Message) /\ hasReceivedACK' \in BOOLEAN
<1> USE GatewayAssumption
<1>0. /\ Append(rest, [op |-> "ack"]) \in Seq(Message)
      /\ Append(rest, [op |-> "invalid"]) \in Seq(Message)
  BY MessageKinds
<1>1. ASSUME SendHeartbeat(rest)
      PROVE  inbox' \in Seq(Message) /\ hasReceivedACK' \in BOOLEAN
  BY <1>1, <1>0 DEF SendHeartbeat
<1>2. ASSUME SendResume(rest)
      PROVE  inbox' \in Seq(Message) /\ UNCHANGED <<opened, alive, sent>>
             /\ online' \in 0 .. MaxSessions
  <2>1. CASE conf.token /\ sessionId \in alive /\ lastSeqReceived <= sent[sessionId]
    <3>1. sessionId \in Sessions /\ lastSeqReceived \in Nat /\ sent[sessionId] \in 0 .. MaxSeq
      BY <2>1 DEF TypeOK
    <3>2. Events(sessionId, lastSeqReceived + 1, sent[sessionId]) \in Seq(Message)
      BY <2>1, <3>1, EventsSeq
    <3>3. rest \o Events(sessionId, lastSeqReceived + 1, sent[sessionId]) \in Seq(Message)
      BY <3>2
    <3>4. /\ inbox' = rest \o Events(sessionId, lastSeqReceived + 1, sent[sessionId])
          /\ online' = sessionId /\ UNCHANGED <<opened, alive, sent>>
      BY <1>2, <2>1 DEF SendResume
    <3> QED
      BY <3>1, <3>3, <3>4 DEF Sessions
  <2>2. CASE ~(conf.token /\ sessionId \in alive /\ lastSeqReceived <= sent[sessionId])
    BY <1>0, <1>2, <2>2 DEF SendResume, TypeOK
  <2> QED
    BY <2>1, <2>2
<1>3. ASSUME SendIdentify(rest)
      PROVE  /\ inbox' \in Seq(Message) /\ online' \in 0 .. MaxSessions
             /\ opened' \in 0 .. MaxSessions /\ alive' \subseteq Sessions
             /\ sent' \in [Sessions -> 0 .. MaxSeq]
  <2>1. CASE conf.token /\ opened < MaxSessions
    <3>1. opened + 1 \in Sessions /\ opened + 1 \in 0 .. MaxSessions
      BY <2>1 DEF TypeOK, Sessions
    <3>2. 1 \in 0 .. MaxSeq /\ 0 \in Nat /\ 0 <= 1
      OBVIOUS
    <3>3. Events(opened + 1, 0 + 1, 1) \in Seq(Message)
      BY ONLY <3>1, <3>2, EventsSeq
    <3>4. rest \o Events(opened + 1, 1, 1) \in Seq(Message)
      BY <3>3
    <3> QED
      BY <1>3, <2>1, <3>1, <3>2, <3>4 DEF SendIdentify, TypeOK
  <2>2. CASE ~(conf.token /\ opened < MaxSessions)
    BY <1>3, <2>2 DEF SendIdentify, TypeOK
  <2> QED
    BY <2>1, <2>2
<1> QED
  BY <1>1, <1>2, <1>3 DEF TypeOK

Pairs == [session : Stored, seq : 0 .. MaxSeq, token : BOOLEAN]

\* What an end of the process without an exit leaves in the file.
LEMMA KilledFile ==
    ASSUME TypeOK, Killed
    PROVE  /\ EndProcess /\ conf' \in Pairs
           /\ \/ conf' = conf
              \/ /\ saving.pc = "seq" /\ conf'.session \in {0, Unknown, saving.session}
                 /\ conf'.seq \in 0 .. saving.seq
<1> USE GatewayAssumption DEF Pairs, Stored, Unknown
<1>1. EndProcess /\ conf \in Pairs /\ (conf' = conf \/ (saving.pc = "seq" /\ conf' \in Torn))
  BY DEF Killed, TypeOK
<1>2. saving.session \in Stored /\ saving.seq \in 0 .. MaxSeq /\ conf.token \in BOOLEAN
  BY DEF TypeOK
<1>3. ASSUME conf' \in Torn
      PROVE  /\ conf' \in Pairs /\ conf'.session \in {0, Unknown, saving.session}
             /\ conf'.seq \in 0 .. saving.seq
  <2>1. 0 .. saving.seq \subseteq 0 .. MaxSeq /\ {0, saving.seq} \subseteq 0 .. saving.seq
    BY <1>2
  <2>2. CASE conf' \in [session : {0, saving.session}, seq : 0 .. saving.seq,
                        token : {FALSE, conf.token}]
    <3>1. /\ conf'.session \in {0, saving.session} /\ conf'.seq \in 0 .. saving.seq
          /\ conf'.token \in {FALSE, conf.token}
          /\ conf' = [session |-> conf'.session, seq |-> conf'.seq, token |-> conf'.token]
      BY <2>2
    <3>2. conf'.session \in Stored /\ conf'.seq \in 0 .. MaxSeq
      BY <1>2, <2>1, <3>1
    <3>3. conf'.token \in BOOLEAN
      BY ONLY <1>2, <3>1, Zenon
    <3> QED
      BY <3>1, <3>2, <3>3
  <2>3. CASE conf' \in [session : {Unknown}, seq : {0, saving.seq}, token : {FALSE, conf.token}]
    BY <1>2, <2>1, <2>3
  <2> QED
    BY <1>3, <2>2, <2>3 DEF Torn
<1> QED
  BY <1>1, <1>3

\* Every step keeps the types; SessionsInv bounds the number of sessions.
LEMMA TypeStep == TypeOK /\ SessionsInv /\ [Next]_vars => TypeOK'
<1> SUFFICES ASSUME TypeOK, SessionsInv, [Next]_vars PROVE TypeOK'
  OBVIOUS
<1> USE GatewayAssumption DEF Free, Received, clientVars, serverVars, historyVars
<1>1. ASSUME inbox # <<>>
      PROVE  /\ Tail(inbox) \in Seq(Message) /\ Head(inbox) \in Message
             /\ Head(inbox).op = "event" => Head(inbox).ev \in Event /\ Head(inbox).ev.seq \in Seqs
  <2>1. Head(inbox) \in Message
    BY <1>1 DEF TypeOK
  <2> QED
    BY <1>1, <2>1 DEF TypeOK, Message, Event
<1>2. HandleDisconnect => nextReconnectDelay' \in InitialDelay .. MaxDelay
  BY DEF HandleDisconnect, TypeOK
<1>3. ASSUME EndProcess, conf' \in Pairs,
             handled' \subseteq Event, cut' \subseteq Event, forgotten' \subseteq Event
      PROVE  TypeOK'
  <2>1. inbox' \in Seq(Message) /\ ends' \in 0 .. MaxEnds /\ online' \in 0 .. MaxSessions
    BY <1>3 DEF EndProcess, TypeOK
  <2>2. link' \in {"none", "connecting", "open", "closing"}
    BY <1>3 DEF EndProcess
  <2>3. /\ running' \in BOOLEAN /\ ws' \in BOOLEAN /\ reconnectTimer' \in BOOLEAN
        /\ pingTimer' \in BOOLEAN /\ handling' = NoEvent
        /\ saving' = NotSaving
        /\ UNCHANGED <<nextReconnectDelay, hasReceivedACK, sessionId, lastSeqReceived,
                       opened, alive, sent>>
    BY <1>3 DEF EndProcess
  <2>4. NotSaving \in [pc : SavePC, session : Stored, seq : 0 .. MaxSeq]
    BY DEF NotSaving, SavePC, Stored
  <2> QED
    BY <1>3, <2>1, <2>2, <2>3, <2>4 DEF TypeOK, Pairs
<1>4. handling # NoEvent => handling \in Event /\ handling.session \in 0 .. MaxSessions
  BY DEF TypeOK, Event, Sessions
<1>5. CASE HandleHello
  BY <1>1, <1>5, SendTypes DEF HandleHello, TypeOK
<1>6. CASE HandleInvalidSession
  BY <1>1, <1>6, SendTypes DEF HandleInvalidSession, TypeOK
<1>7. CASE HandleHeartbeat
  BY <1>1, <1>7, SendTypes DEF HandleHeartbeat, TypeOK
<1>8. CASE HandleHeartbeatACK
  BY <1>1, <1>8 DEF HandleHeartbeatACK, TypeOK
<1>9. CASE DispatchSeq
  <2>1. Seqs \subseteq 0 .. MaxSeq
    BY DEF Seqs
  <2> QED
    BY <1>1, <1>9, <2>1 DEF DispatchSeq, TypeOK
<1>10. CASE DispatchReady
  BY <1>4, <1>10 DEF DispatchReady, TypeOK, Stored
<1>a. ASSUME DispatchMessage
      PROVE  handled' \subseteq Event /\ forgotten' \subseteq Event /\ handling' = NoEvent
  BY <1>4, <1>a DEF DispatchMessage, After, TypeOK
<1>11. CASE OnMessage
  BY <1>a, <1>11 DEF OnMessage, TypeOK
<1>12. CASE KillCommand
  BY <1>a, <1>12 DEF KillCommand, TypeOK
<1>13. CASE PingTick
  BY <1>13, SendTypes DEF PingTick, TypeOK
<1>14. CASE OnConnection
  <2>1. <<[op |-> "hello"]>> \in Seq(Message)
    BY MessageKinds
  <2>2. InitialDelay \in InitialDelay .. MaxDelay
    OBVIOUS
  <2> QED
    BY <1>14, <2>1, <2>2 DEF OnConnection, TypeOK
<1>15. CASE OnError
  BY <1>2, <1>15 DEF OnError, HandleDisconnect, TypeOK
<1>16. CASE OnDisconnection
  <2>1. inbox' \in Seq(Message) /\ nextReconnectDelay' \in InitialDelay .. MaxDelay
    BY <1>2, <1>16 DEF OnDisconnection
  <2>2. link' \in {"none", "connecting", "open", "closing"} /\ online' \in 0 .. MaxSessions
    BY <1>16 DEF OnDisconnection
  <2>3. ws' \in BOOLEAN /\ reconnectTimer' \in BOOLEAN /\ pingTimer' \in BOOLEAN
    BY <1>16 DEF OnDisconnection, HandleDisconnect
  <2> QED
    BY <1>16, <2>1, <2>2, <2>3 DEF OnDisconnection, TypeOK
<1>17. CASE Reconnect
  BY <1>17 DEF Reconnect, TypeOK
<1>18. CASE SendEvent
  <2>1. /\ online \in Sessions /\ sent[online] \in Nat
        /\ sent[online] + 1 \in 0 .. MaxSeq
    BY <1>18 DEF SendEvent, TypeOK, Sessions
  <2>2. Events(online, sent[online] + 1, sent[online] + 1) \in Seq(Message)
    BY <2>1, EventsSeq
  <2>3. inbox \o Events(online, sent[online] + 1, sent[online] + 1) \in Seq(Message)
    BY <2>2 DEF TypeOK
  <2> QED
    BY <1>18, <2>1, <2>3 DEF SendEvent, TypeOK
<1>19. CASE AskHeartbeat
  <2>1. Append(inbox, [op |-> "heartbeat"]) \in Seq(Message)
    BY MessageKinds DEF TypeOK
  <2> QED
    BY <1>19, <2>1 DEF AskHeartbeat, TypeOK
<1>20. ASSUME NEW s \in Sessions, Expire(s) PROVE TypeOK'
  BY <1>20 DEF Expire, TypeOK
<1>21. CASE Start
  <2>1. /\ conf.session \in Stored /\ conf.seq \in 0 .. MaxSeq
        /\ InitialDelay \in InitialDelay .. MaxDelay
    BY DEF TypeOK
  <2> QED
    BY <1>21, <2>1 DEF Start, TypeOK
<1>22. CASE Crash
  <2>1. conf' \in Pairs /\ EndProcess
    BY <1>22, KilledFile DEF Crash
  <2>2. handled' \subseteq Event /\ cut' \subseteq Event /\ forgotten' \subseteq Event
    BY <1>4, <1>22 DEF Crash, CutOff, After, TypeOK
  <2> QED
    BY <1>3, <2>1, <2>2
<1>23. CASE RestartCommand
  <2>1. conf' \in Pairs /\ EndProcess
    BY <1>23, KilledFile DEF RestartCommand
  <2>2. handled' \subseteq Event /\ cut' \subseteq Event /\ forgotten' \subseteq Event
    BY <1>4, <1>23 DEF RestartCommand, After, TypeOK
  <2> QED
    BY <1>3, <2>1, <2>2
<1>24. CASE SignalReadsSession
  <2>1. saving' \in [pc : SavePC, session : Stored, seq : 0 .. MaxSeq]
    BY <1>24 DEF SignalReadsSession, TypeOK, SavePC, Stored
  <2> QED
    BY <1>24, <2>1 DEF SignalReadsSession, TypeOK
<1>25. CASE SignalReadsSeq
  <2>1. saving' \in [pc : SavePC, session : Stored, seq : 0 .. MaxSeq]
    BY <1>25 DEF SignalReadsSeq, TypeOK, SavePC
  <2> QED
    BY <1>25, <2>1 DEF SignalReadsSeq, TypeOK
<1>27. CASE SignalWrites
  <2>1. saving' \in [pc : SavePC, session : Stored, seq : 0 .. MaxSeq]
    BY <1>27 DEF SignalWrites, TypeOK, SavePC
  <2>2. conf' \in Pairs
    BY <1>27 DEF SignalWrites, TypeOK, Pairs
  <2> QED
    BY <1>27, <2>1, <2>2 DEF SignalWrites, TypeOK, Pairs
<1>28. CASE SignalExits
  <2>1. conf' \in Pairs /\ EndProcess
    BY <1>28 DEF SignalExits, TypeOK, Pairs
  <2>2. handled' \subseteq Event /\ cut' \subseteq Event /\ forgotten' \subseteq Event
    BY <1>4, <1>28 DEF SignalExits, CutOff, TypeOK
  <2> QED
    BY <1>3, <2>1, <2>2
<1>26. CASE UNCHANGED vars
  BY <1>26 DEF vars, TypeOK
<1> QED
  BY <1>5, <1>6, <1>7, <1>8, <1>9, <1>10, <1>11, <1>12, <1>13, <1>14, <1>15, <1>16, <1>17,
     <1>18, <1>19, <1>20, <1>21, <1>22, <1>23, <1>24, <1>25, <1>26, <1>27, <1>28
  DEF Next, Handlers, Transport, Discord, Process

\* The four ways to get to a session, and what each does to Discord's side.
LEMMA IdentifyEffect ==
    ASSUME TypeOK, SessionsInv, NEW rest \in Seq(Message), SendIdentify(rest)
    PROVE  \/ /\ opened' = opened + 1 /\ online' = opened + 1 /\ opened + 1 \in Sessions
              /\ alive' = alive \cup {opened + 1}
              /\ sent'[opened + 1] = 1 /\ \A s \in alive : s # opened + 1 /\ sent'[s] = sent[s]
              /\ inbox' = rest \o Events(opened + 1, 1, 1)
           \/ UNCHANGED <<opened, online, alive, sent>> /\ inbox' = rest
<1>1. CASE conf.token /\ opened < MaxSessions
  <2>1. opened + 1 \in Sessions /\ alive \subseteq Sessions /\ sent \in [Sessions -> 0 .. MaxSeq]
    BY <1>1, GatewayAssumption DEF TypeOK, Sessions
  <2>2. \A s \in alive : s # opened + 1
    BY GatewayAssumption DEF TypeOK, SessionsInv
  <2> QED
    BY <1>1, <2>1, <2>2 DEF SendIdentify
<1>2. CASE ~(conf.token /\ opened < MaxSessions)
  BY <1>2 DEF SendIdentify
<1> QED
  BY <1>1, <1>2

-----------------------------------------------------------------------------
(***************************************************************************)
(* The steps, and what they do to the sessions.                            *)
(***************************************************************************)

\* Discord opens sessions and sends events, and never takes one back; a
\* session that ran out is not there again; nothing leaves the history.
LEMMA Monotone ==
    ASSUME TypeOK, SessionsInv, [Next]_vars
    PROVE  /\ opened <= opened'
           /\ \A s \in alive' : s <= opened => s \in alive /\ sent[s] <= sent'[s]
           /\ handled \subseteq handled' /\ cut \subseteq cut' /\ forgotten \subseteq forgotten'
<1> USE GatewayAssumption DEF Free, Received, clientVars, serverVars, historyVars
<1>a. \A s \in alive : sent[s] \in Nat
  BY DEF TypeOK
<1>b. opened \in Nat
  BY DEF TypeOK
<1>c. inbox # <<>> => Tail(inbox) \in Seq(Message)
  BY DEF TypeOK
<1>1. ASSUME UNCHANGED <<opened, alive, sent>>
      PROVE  opened <= opened' /\ \A s \in alive' : s <= opened => s \in alive
             /\ sent[s] <= sent'[s]
  BY <1>a, <1>b, <1>1
<1>2. ASSUME NEW rest \in Seq(Message), SendIdentify(rest)
      PROVE  opened <= opened' /\ \A s \in alive' : s <= opened => s \in alive
             /\ sent[s] <= sent'[s]
  <2>1. CASE opened' = opened
    BY <1>1, <1>2, <2>1, IdentifyEffect, <1>b
  <2>2. CASE /\ opened' = opened + 1 /\ alive' = alive \cup {opened + 1}
             /\ \A s \in alive : sent'[s] = sent[s]
    BY <1>a, <1>b, <2>2
  <2> QED
    BY <1>2, <2>1, <2>2, IdentifyEffect
<1>3. CASE HandleHello
  <2>1. UNCHANGED historyVars /\ Tail(inbox) \in Seq(Message)
    BY <1>3, <1>c DEF HandleHello
  <2>2. SendIdentify(Tail(inbox)) \/ UNCHANGED <<opened, alive, sent>>
    BY <1>3 DEF HandleHello, SendResume
  <2> QED
    BY <2>1, <2>2, <1>1, <1>2
<1>4. CASE HandleInvalidSession
  BY <1>c, <1>2, <1>4 DEF HandleInvalidSession
<1>5. CASE SendEvent
  <2>1. sent[online] \in Nat /\ sent' = [sent EXCEPT ![online] = @ + 1] /\ online \in alive
    BY <1>5, <1>a DEF SendEvent, SessionsInv
  <2>2. \A s \in alive : sent[s] <= sent'[s]
    BY <1>a, <2>1 DEF TypeOK
  <2> QED
    BY <1>5, <1>b, <2>2 DEF SendEvent
<1>6. ASSUME NEW s \in Sessions, Expire(s)
      PROVE  opened <= opened' /\ \A x \in alive' : x <= opened => x \in alive
             /\ sent[x] <= sent'[x]
  BY <1>6, <1>a, <1>b DEF Expire
<1>7. ASSUME EndProcess PROVE UNCHANGED <<opened, alive, sent>>
  BY <1>7 DEF EndProcess
<1>8. ASSUME ~(HandleHello \/ HandleInvalidSession \/ SendEvent), ~\E s \in Sessions : Expire(s)
      PROVE  UNCHANGED <<opened, alive, sent>>
  BY <1>7, <1>8 DEF Next, Handlers, Transport, Discord, Process, vars, HandleHeartbeat,
     HandleHeartbeatACK, DispatchSeq, DispatchReady, OnMessage, KillCommand, PingTick, OnConnection,
     OnError, OnDisconnection, Reconnect, AskHeartbeat, Start, Crash, RestartCommand, Killed,
     SignalReadsSession, SignalReadsSeq, SignalWrites, SignalExits
<1>9. /\ handled \subseteq handled' /\ cut \subseteq cut' /\ forgotten \subseteq forgotten'
  BY DEF Next, Handlers, Transport, Discord, Process, vars, HandleHello, HandleInvalidSession,
     HandleHeartbeat, HandleHeartbeatACK, DispatchSeq, DispatchReady, OnMessage, KillCommand,
     DispatchMessage, PingTick, OnConnection, OnError, OnDisconnection, Reconnect, SendEvent,
     AskHeartbeat, Expire, Start, Crash, RestartCommand, SignalReadsSession, SignalReadsSeq,
     SignalWrites, SignalExits
<1> QED
  BY <1>1, <1>3, <1>4, <1>5, <1>6, <1>8, <1>9

sessionVars == <<running, sessionId, lastSeqReceived, handling, saving, conf, online, opened,
                 alive, sent, historyVars>>

\* The steps that have to do with the connection only.
Aside == HandleHeartbeat \/ HandleHeartbeatACK \/ PingTick \/ OnConnection \/ OnError
         \/ Reconnect \/ AskHeartbeat \/ UNCHANGED vars

\* They change nothing that the history is about.
LEMMA AsideKeepsSessions == Aside => UNCHANGED sessionVars
  BY DEF Aside, sessionVars, historyVars, clientVars, serverVars, vars, HandleHeartbeat,
     HandleHeartbeatACK, PingTick, OnConnection, OnError, Reconnect, AskHeartbeat

\* The other steps, one by one.
LEMMA StepCases ==
    [Next]_vars => \/ Aside \/ HandleHello \/ HandleInvalidSession \/ DispatchSeq \/ DispatchReady
                   \/ OnMessage \/ KillCommand \/ OnDisconnection \/ SendEvent
                   \/ \E s \in Sessions : Expire(s)
                   \/ Start \/ Crash \/ RestartCommand \/ SignalExits
                   \/ SignalReadsSession \/ SignalReadsSeq \/ SignalWrites
  BY DEF Next, Handlers, Transport, Discord, Process, Aside

\* Every step keeps SessionsInv.
LEMMA SessionsStep ==
    TypeOK /\ ConnectionInv /\ SessionsInv /\ (running => HandlingInv) /\ DownInv /\ [Next]_vars
        => SessionsInv'
<1> SUFFICES ASSUME TypeOK, ConnectionInv, SessionsInv, running => HandlingInv, DownInv,
                    [Next]_vars
             PROVE  SessionsInv'
  OBVIOUS
<1> USE DEF Free, Received, clientVars, serverVars, historyVars
<1>a. /\ opened \in Nat /\ sessionId \in Int /\ conf.session \in Int /\ saving.session \in Int
      /\ alive \subseteq 1 .. opened /\ online \in {0} \cup alive /\ conf.seq \in Int
      /\ \A e \in handled : e.session \in Int /\ e.session <= opened
      /\ sessionId <= opened /\ conf.session <= opened
      /\ saving.session <= opened /\ lastSeqReceived \in Int
  BY GatewayAssumption DEF TypeOK, SessionsInv, Event, Sessions, Stored, Unknown
<1>b. inbox # <<>> => Tail(inbox) \in Seq(Message)
  BY DEF TypeOK
<1>c. running /\ handling # NoEvent => handling.session \in alive /\ handling.session <= opened
  BY <1>a DEF HandlingInv
<1>1. ASSUME UNCHANGED <<opened, alive, online, sessionId, conf, saving, handled>>,
             online # 0 => link' \in {"open", "closing"}
      PROVE  SessionsInv'
  BY <1>1 DEF SessionsInv
<1>2. CASE Aside
  <2>1. online # 0 => link' \in {"open", "closing"}
    BY <1>2 DEF Aside, SessionsInv, ConnectionInv, OneWayForward, vars, HandleHeartbeat,
       HandleHeartbeatACK, PingTick, OnConnection, OnError, Reconnect, AskHeartbeat
  <2> QED
    BY <1>1, <1>2, <2>1, AsideKeepsSessions DEF sessionVars
<1>3. ASSUME NEW rest \in Seq(Message), SendIdentify(rest), link = "open", link' = link,
             UNCHANGED <<sessionId, conf, saving, handled>>
      PROVE  SessionsInv'
  <2>1. CASE UNCHANGED <<opened, online, alive>>
    BY <1>1, <1>3, <2>1
  <2>2. CASE opened' = opened + 1 /\ online' = opened + 1 /\ alive' = alive \cup {opened + 1}
    BY <1>3, <1>a, <2>2 DEF SessionsInv
  <2> QED
    BY <1>3, <2>1, <2>2, IdentifyEffect
<1>4. CASE HandleHello
  <2>1. CASE sessionId # 0
    <3>1. /\ UNCHANGED <<opened, alive, sessionId, conf, saving, handled, link>>
          /\ online' \in {0} \cup alive /\ link = "open"
      BY <1>4, <1>a, <2>1 DEF HandleHello, SendResume
    <3> QED
      BY <3>1, <1>a DEF SessionsInv
  <2>2. CASE sessionId = 0
    BY <1>3, <1>4, <1>b, <2>2 DEF HandleHello
  <2> QED
    BY <2>1, <2>2
<1>5. CASE HandleInvalidSession
  BY <1>3, <1>5, <1>b DEF HandleInvalidSession
<1>6. CASE DispatchSeq
  BY <1>1, <1>6 DEF DispatchSeq, SessionsInv
<1>7. CASE DispatchReady
  BY <1>7, <1>c DEF DispatchReady, SessionsInv
<1>8. CASE OnMessage
  BY <1>8, <1>c DEF OnMessage, DispatchMessage, SessionsInv
<1>9. CASE KillCommand
  BY <1>9, <1>c DEF KillCommand, DispatchMessage, SessionsInv
<1>10. CASE OnDisconnection
  BY <1>10 DEF OnDisconnection, SessionsInv
<1>11. CASE SendEvent
  BY <1>1, <1>11 DEF SendEvent, SessionsInv
<1>12. ASSUME NEW s \in Sessions, Expire(s) PROVE SessionsInv'
  BY <1>12 DEF Expire, SessionsInv
<1>13. CASE Start
  BY <1>13 DEF Start, SessionsInv, DownInv
<1>14. ASSUME EndProcess, conf'.session <= opened, \A e \in handled' : e.session <= opened
       PROVE  SessionsInv'
  <2>1. online' = 0 /\ saving'.session = 0 /\ UNCHANGED <<sessionId, opened, alive>>
    BY <1>14 DEF EndProcess, NotSaving
  <2> QED
    BY <1>14, <1>a, <2>1 DEF SessionsInv
<1>d. Killed => EndProcess /\ conf'.session <= opened
  BY <1>a, KilledFile DEF Unknown
<1>15. CASE Crash
  BY <1>14, <1>15, <1>a, <1>d DEF Crash
<1>16. CASE RestartCommand
  BY <1>14, <1>16, <1>a, <1>c, <1>d DEF RestartCommand
<1>17. CASE SignalReadsSession
  <2>1. saving'.session \in {sessionId, Unknown}
    BY <1>17 DEF SignalReadsSession
  <2>2. saving'.session <= opened
    BY <1>a, <2>1 DEF Unknown
  <2> QED
    BY <1>17, <2>2 DEF SignalReadsSession, SessionsInv
<1>18. CASE SignalReadsSeq
  <2>1. saving'.session = saving.session
    BY <1>18 DEF SignalReadsSeq, TypeOK
  <2> QED
    BY <1>18, <2>1 DEF SignalReadsSeq, SessionsInv
<1>19. CASE SignalWrites
  <2>1. saving'.session = saving.session /\ conf'.session = saving.session
    BY <1>19 DEF SignalWrites, TypeOK
  <2> QED
    BY <1>19, <2>1 DEF SignalWrites, SessionsInv
<1>20. CASE SignalExits
  BY <1>14, <1>20, <1>a DEF SignalExits
<1> QED
  BY StepCases, <1>2, <1>4, <1>5, <1>6, <1>7, <1>8, <1>9, <1>10, <1>11, <1>12, <1>13, <1>15,
     <1>16, <1>17, <1>18, <1>19, <1>20

\* Every step keeps DownInv.
LEMMA DownStep == ConnectionInv /\ DownInv /\ [Next]_vars => DownInv'
<1> SUFFICES ASSUME ConnectionInv, DownInv, [Next]_vars, ~running' PROVE DownInv'
  BY DEF DownInv
<1>1. CASE EndProcess
  BY <1>1 DEF EndProcess, DownInv
<1>2. CASE ~EndProcess
  <2>1. ~running /\ link # "open"
    BY <1>2 DEF Next, Handlers, Transport, Discord, Process, vars, HandleHello,
       HandleInvalidSession, HandleHeartbeat, HandleHeartbeatACK, DispatchSeq, DispatchReady,
       OnMessage, KillCommand, DispatchMessage, PingTick, OnConnection, OnError, OnDisconnection,
       Reconnect, SendEvent, AskHeartbeat, Expire, Start, Crash, RestartCommand,
       SignalReadsSession, SignalReadsSeq, SignalWrites, SignalExits, Killed, Free, Received,
       clientVars, ConnectionInv, OneWayForward
  <2>2. (\E s \in Sessions : Expire(s)) \/ UNCHANGED vars
    BY <1>2, <2>1 DEF Next, Handlers, Transport, Discord, Process, HandleHello,
       HandleInvalidSession, HandleHeartbeat, HandleHeartbeatACK, DispatchSeq, DispatchReady,
       OnMessage, KillCommand, DispatchMessage, PingTick, OnConnection, OnError, OnDisconnection,
       Reconnect, SendEvent, AskHeartbeat, Start, Crash, RestartCommand,
       SignalReadsSession, SignalReadsSeq, SignalWrites, SignalExits, Killed, Free, Received
  <2>3. UNCHANGED <<online, inbox, handling, saving>>
    BY <2>2 DEF Expire, vars, clientVars, serverVars
  <2> QED
    BY <2>1, <2>3 DEF DownInv
<1> QED
  BY <1>1, <1>2

-----------------------------------------------------------------------------
(***************************************************************************)
(* InboxInv.                                                               *)
(***************************************************************************)

\* Taking a message that is not an event keeps InboxOf; after a hello or a
\* refusal only heartbeats are left.
LEMMA InboxTail ==
    ASSUME TypeOK, NEW q \in Seq(Message), InboxOf(q), q # <<>>, ~IsEvent(Head(q))
    PROVE  /\ InboxOf(Tail(q))
           /\ IsOpening(Head(q)) => \A m \in Messages(Tail(q)) : ~IsOpening(m) /\ ~IsEvent(m)
<1>1. OneOpening(Tail(q)) /\ (IsOpening(Head(q)) => \A m \in Messages(Tail(q)) : ~IsOpening(m))
  BY TailOpening DEF InboxOf
<1>2. Messages(Tail(q)) \subseteq Messages(q) /\ Head(q) \in Messages(q)
  BY TailMessages
<1>3. online # 0 => EventsAre(Tail(q), online, Position + 1, sent[online])
  <2>1. online # 0 => Position + 1 \in Int /\ sent[online] \in Int
    BY GatewayAssumption DEF TypeOK, Position, Sessions
  <2> QED
    BY <2>1, TailOther DEF InboxOf
<1> QED
  BY <1>1, <1>2, <1>3 DEF InboxOf

\* A heartbeat or an acknowledgement more keeps InboxOf.
LEMMA InboxAppend ==
    ASSUME TypeOK, NEW q \in Seq(Message), InboxOf(q),
           NEW m \in Message, m.op \in {"ack", "heartbeat"}
    PROVE  InboxOf(Append(q, m))
<1>1. ~IsOpening(m) /\ ~IsEvent(m) /\ m.op # "invalid"
  BY DEF IsOpening, IsEvent
<1>2. OneOpening(Append(q, m))
  BY <1>1, AppendOpening DEF InboxOf
<1>3. Messages(Append(q, m)) \subseteq Messages(q) \cup {m}
  BY AppendMessages
<1>4. online # 0 => EventsAre(Append(q, m), online, Position + 1, sent[online])
  <2>1. online # 0 => Position + 1 \in Int /\ sent[online] \in Int
    BY GatewayAssumption DEF TypeOK, Position, Sessions
  <2> QED
    BY <1>1, <2>1, AppendOther DEF InboxOf
<1> QED
  BY <1>1, <1>2, <1>3, <1>4 DEF InboxOf

\* What a session that was just identified or resumed finds on its way.
LEMMA Opened ==
    ASSUME TypeOK, NEW q \in Seq(Message), \A m \in Messages(q) : ~IsOpening(m) /\ ~IsEvent(m),
           NEW s \in Sessions, NEW b \in Nat, NEW c \in 0 .. MaxSeq, b <= c
    PROVE  LET r == q \o Events(s, b + 1, c) IN
           /\ \A m \in Messages(r) : ~IsOpening(m) /\ m.op # "invalid"
           /\ EventsAre(r, s, b + 1, c)
<1> DEFINE e == Events(s, b + 1, c)
           r == q \o e
<1>1. e \in Seq(Message) /\ \A m \in Messages(e) : IsEvent(m) /\ m.op = "event"
  BY EventsSeq, EventsMessages
<1>2. Messages(r) \subseteq Messages(q) \cup Messages(e)
  BY <1>1, ConcatMessages
<1>3. \A m : m.op = "event" => ~IsOpening(m) /\ m.op # "invalid"
  BY MessageKinds
<1>4. \A m : ~IsOpening(m) => m.op # "invalid"
  BY DEF IsOpening
<1>5. EventsAre(q, s, b + 1, b)
  BY NoEvents DEF Messages
<1>6. EventsAre(r, s, b + 1, c)
  BY <1>5, ConcatEvents
<1> HIDE DEF e, r
<1>7. \A m \in Messages(r) : ~IsOpening(m) /\ m.op # "invalid"
  BY <1>1, <1>2, <1>3, <1>4
<1> QED
  BY <1>6, <1>7 DEF e, r

\* InboxInv after a step that leaves the session and the position alone.
LEMMA InboxSame ==
    ASSUME NEW q \in Seq(Message), InboxOf(q), inbox' = q, online' = online,
           online # 0 => sent'[online] = sent[online] /\ Position' = Position,
           online = 0 => (sessionId' \in alive' => sessionId \in alive)
    PROVE  InboxInv'
<1>1. OneOpening(inbox') /\ Messages(inbox') = Messages(q)
  BY DEF InboxOf
<1>2. \A m \in Messages(q) : IsOpening(m) => online' = 0
  BY DEF InboxOf
<1>3. \A m \in Messages(q) : IsEvent(m) => online' # 0
  BY DEF InboxOf
<1>4. \A m \in Messages(q) : m.op = "invalid" => sessionId' \notin alive'
  BY DEF InboxOf, IsOpening
<1>5. online' # 0 => Position' <= sent'[online']
      /\ EventsAre(inbox', online', Position' + 1, sent'[online'])
  BY DEF InboxOf
<1> QED
  BY <1>1, <1>2, <1>3, <1>4, <1>5 DEF InboxInv, InboxOf

\* After an identification.
LEMMA InboxIdentified ==
    ASSUME TypeOK, SessionsInv, handling = NoEvent, online = 0, NEW rest \in Seq(Message),
           \A m \in Messages(rest) : ~IsOpening(m) /\ ~IsEvent(m),
           SendIdentify(rest), UNCHANGED <<sessionId, handling, lastSeqReceived>>
    PROVE  InboxInv'
<1>1. CASE /\ online' = opened + 1 /\ opened + 1 \in Sessions /\ sent'[opened + 1] = 1
           /\ inbox' = rest \o Events(opened + 1, 1, 1)
  <2>0. sessionId # opened + 1 /\ opened + 1 # 0 /\ 1 \in 0 .. MaxSeq /\ 0 \in Nat
    BY GatewayAssumption DEF TypeOK, SessionsInv
  <2>1. Position' = 0
    BY <1>1, <2>0 DEF Position, NoEvent
  <2>2. inbox' = rest \o Events(opened + 1, 0 + 1, 1)
    BY <1>1
  <2>3. /\ \A m \in Messages(inbox') : ~IsOpening(m) /\ m.op # "invalid"
        /\ EventsAre(inbox', opened + 1, 0 + 1, 1)
    BY <1>1, <2>0, <2>2, Opened
  <2>4. OneOpening(inbox')
    BY <2>3, NoOpening
  <2>5. EventsAre(inbox', online', Position' + 1, sent'[online'])
        /\ Position' <= sent'[online'] /\ online' # 0
    BY <1>1, <2>0, <2>1, <2>3
  <2> QED
    BY <2>3, <2>4, <2>5 DEF InboxInv, InboxOf
<1>2. CASE online' = online /\ inbox' = rest
  <2>1. OneOpening(inbox')
    BY <1>2, NoOpening
  <2> QED
    BY <1>2, <2>1 DEF InboxInv, InboxOf, IsOpening
<1> QED
  BY <1>1, <1>2, IdentifyEffect

\* The event that is taken over is the next one of the connection's session.
LEMMA DispatchEffect ==
    ASSUME TypeOK, InboxInv, DispatchSeq
    PROVE  /\ online # 0 /\ UNCHANGED <<online, sent, alive, sessionId, saving, historyVars>>
           /\ running' /\ handling = NoEvent
           /\ inbox # <<>> /\ inbox' = Tail(inbox) /\ Position' = Position + 1
           /\ Position + 1 <= sent[online]
           /\ EventsAre(inbox', online, Position + 1 + 1, sent[online])
           /\ lastSeqReceived' = Position + 1
           /\ handling' \in Event /\ handling'.session = online /\ handling'.seq = Position + 1
<1>1. /\ inbox # <<>> /\ IsEvent(Head(inbox)) /\ inbox' = Tail(inbox)
      /\ lastSeqReceived' = Head(inbox).ev.seq /\ handling' = Head(inbox).ev
      /\ UNCHANGED <<online, sent, alive, sessionId, saving, historyVars>>
      /\ running' /\ handling = NoEvent
  BY DEF DispatchSeq, IsEvent, Received, Free, historyVars
<1>2. inbox \in Seq(Message) /\ InboxOf(inbox) /\ Head(inbox) \in Message
  BY <1>1 DEF TypeOK, InboxInv
<1>3. Head(inbox) \in Messages(inbox)
  BY <1>1, <1>2, TailMessages
<1>4. online # 0 /\ EventsAre(inbox, online, Position + 1, sent[online])
  BY <1>1, <1>2, <1>3 DEF InboxOf
<1>5. Position + 1 \in Int /\ sent[online] \in Int /\ Position \in Int
  BY <1>4, GatewayAssumption DEF TypeOK, Position, Sessions
<1>6. /\ Head(inbox).ev.session = online /\ Head(inbox).ev.seq = Position + 1
      /\ Position + 1 <= sent[online]
      /\ EventsAre(inbox', online, Position + 1 + 1, sent[online])
  BY <1>1, <1>2, <1>4, <1>5, TailEvent, MessageKinds
<1>7. Position' = Position + 1
  BY <1>1, <1>6 DEF Position
<1> QED
  BY <1>1, <1>2, <1>4, <1>6, <1>7, MessageKinds

\* Every step keeps InboxInv.
LEMMA InboxStep ==
    /\ TypeOK /\ SessionsInv /\ InboxInv /\ (running => HandlingInv /\ ReceivedInv) /\ DownInv
    /\ [Next]_vars
    => InboxInv'
<1> SUFFICES ASSUME TypeOK, SessionsInv, InboxInv, running => HandlingInv /\ ReceivedInv, DownInv,
                    [Next]_vars
             PROVE  InboxInv'
  OBVIOUS
<1> USE DEF Free, Received, clientVars, serverVars, historyVars
<1>a. inbox \in Seq(Message) /\ InboxOf(inbox)
  BY DEF TypeOK, InboxInv
<1>b. /\ [op |-> "ack"] \in Message /\ [op |-> "heartbeat"] \in Message
      /\ [op |-> "hello"] \in Message /\ [op |-> "invalid"] \in Message
  BY MessageKinds
<1>c. ASSUME inbox # <<>>, ~IsEvent(Head(inbox))
      PROVE  /\ InboxOf(Tail(inbox)) /\ Tail(inbox) \in Seq(Message)
             /\ IsOpening(Head(inbox)) =>
                  online = 0 /\ \A m \in Messages(Tail(inbox)) : ~IsOpening(m) /\ ~IsEvent(m)
  <2>1. Head(inbox) \in Messages(inbox)
    BY <1>a, <1>c, TailMessages
  <2>2. IsOpening(Head(inbox)) => online = 0
    BY <1>a, <2>1 DEF InboxOf
  <2>3. Tail(inbox) \in Seq(Message)
    BY <1>a, <1>c
  <2> QED
    BY <1>a, <1>c, <2>2, <2>3, InboxTail
<1>d. ASSUME online' = 0, inbox' = <<>>
      PROVE  InboxInv'
  BY <1>d DEF InboxInv, InboxOf, OneOpening, Messages
<1>1. CASE Aside
  <2>1. UNCHANGED sessionVars
    BY <1>1, AsideKeepsSessions
  <2>2. UNCHANGED <<online, sent, alive, sessionId>> /\ Position' = Position
    BY <2>1 DEF sessionVars, Position
  <2>3. ASSUME NEW q \in Seq(Message), InboxOf(q), inbox' = q
        PROVE  InboxInv'
    BY <2>2, <2>3, InboxSame
  <2>4. ASSUME NEW q \in Seq(Message), InboxOf(q), SendHeartbeat(q)
        PROVE  InboxInv'
    <3>1. InboxOf(Append(q, [op |-> "ack"])) /\ Append(q, [op |-> "ack"]) \in Seq(Message)
      BY <1>b, <2>4, InboxAppend
    <3> QED
      BY <2>3, <2>4, <3>1 DEF SendHeartbeat
  <2>5. CASE HandleHeartbeat
    <3>1. inbox # <<>> /\ ~IsEvent(Head(inbox)) /\ SendHeartbeat(Tail(inbox))
      BY <2>5 DEF HandleHeartbeat, IsEvent
    <3> QED
      BY <3>1, <1>c, <2>4
  <2>6. CASE HandleHeartbeatACK
    <3>1. inbox # <<>> /\ ~IsEvent(Head(inbox)) /\ inbox' = Tail(inbox)
      BY <2>6 DEF HandleHeartbeatACK, IsEvent
    <3> QED
      BY <3>1, <1>c, <2>3
  <2>7. CASE PingTick
    <3>1. SendHeartbeat(inbox) \/ inbox' = inbox
      BY <2>7 DEF PingTick
    <3> QED
      BY <3>1, <1>a, <2>3, <2>4
  <2>8. CASE AskHeartbeat
    <3>1. InboxOf(Append(inbox, [op |-> "heartbeat"]))
          /\ Append(inbox, [op |-> "heartbeat"]) \in Seq(Message)
      BY <1>a, <1>b, InboxAppend
    <3> QED
      BY <2>3, <2>8, <3>1 DEF AskHeartbeat
  <2>9. CASE OnConnection
    <3>1. link = "connecting" /\ inbox' = <<[op |-> "hello"]>>
      BY <2>9 DEF OnConnection
    <3>2. online' = 0
      BY <2>2, <3>1 DEF SessionsInv
    <3>3. OneOpening(inbox') /\ \A m \in Messages(inbox') : m.op = "hello"
      BY <3>1 DEF OneOpening, Messages
    <3> QED
      BY <3>2, <3>3 DEF InboxInv, InboxOf, IsEvent
  <2>10. CASE OnError \/ Reconnect \/ UNCHANGED vars
    <3>1. inbox' = inbox
      BY <2>10 DEF OnError, Reconnect, vars
    <3> QED
      BY <3>1, <1>a, <2>3
  <2> QED
    BY <1>1, <2>5, <2>6, <2>7, <2>8, <2>9, <2>10 DEF Aside
<1>2. CASE HandleHello
  <2>0. /\ inbox # <<>> /\ IsOpening(Head(inbox)) /\ ~IsEvent(Head(inbox)) /\ running
        /\ handling = NoEvent /\ UNCHANGED <<sessionId, handling, lastSeqReceived>>
    BY <1>2 DEF HandleHello, IsOpening, IsEvent
  <2> DEFINE rest == Tail(inbox)
  <2>1. /\ rest \in Seq(Message) /\ online = 0
        /\ \A m \in Messages(rest) : ~IsOpening(m) /\ ~IsEvent(m)
    BY <1>c, <2>0
  <2>2. CASE sessionId = 0
    BY <1>2, <2>0, <2>1, <2>2, InboxIdentified DEF HandleHello
  <2>3. CASE sessionId # 0
    <3>1. SendResume(rest)
      BY <1>2, <2>3 DEF HandleHello
    <3> HIDE DEF rest
    <3>2. CASE conf.token /\ sessionId \in alive /\ lastSeqReceived <= sent[sessionId]
      <4>1. /\ online' = sessionId /\ sent' = sent
            /\ inbox' = rest \o Events(sessionId, lastSeqReceived + 1, sent[sessionId])
            /\ sessionId \in Sessions /\ sessionId # 0
        BY <2>3, <3>1, <3>2 DEF SendResume, TypeOK
      <4>2. lastSeqReceived \in Nat /\ sent[sessionId] \in 0 .. MaxSeq
        BY <4>1 DEF TypeOK
      <4>3. /\ \A m \in Messages(inbox') : ~IsOpening(m) /\ m.op # "invalid"
            /\ EventsAre(inbox', sessionId, lastSeqReceived + 1, sent[sessionId])
        BY <2>1, <3>2, <4>1, <4>2, Opened
      <4>4. OneOpening(inbox')
        BY <4>3, NoOpening
      <4>5. Position' = lastSeqReceived
        BY <2>0, <4>1 DEF Position
      <4> QED
        BY <3>2, <4>1, <4>3, <4>4, <4>5 DEF InboxInv, InboxOf
    <3>3. CASE conf.token /\ ~(sessionId \in alive /\ lastSeqReceived <= sent[sessionId])
      <4>1. /\ inbox' = Append(rest, [op |-> "invalid"]) /\ online' = 0 /\ alive' = alive
            /\ sessionId' = sessionId /\ sessionId \notin alive
        BY <2>0, <2>1, <3>1, <3>3 DEF SendResume, ReceivedInv
      <4>2. OneOpening(inbox')
        BY <1>b, <2>1, <4>1, AppendOpening, NoOpening
      <4>3. Messages(inbox') \subseteq Messages(rest) \cup {[op |-> "invalid"]}
        BY <1>b, <2>1, <4>1, AppendMessages
      <4>4. \A m \in Messages(inbox') : ~IsEvent(m)
        BY <2>1, <4>3 DEF IsEvent
      <4> QED
        BY <4>1, <4>2, <4>4 DEF InboxInv, InboxOf
    <3>4. CASE ~conf.token
      <4>1. inbox' = rest /\ online' = 0
        BY <2>1, <3>1, <3>4 DEF SendResume
      <4>2. OneOpening(inbox')
        BY <2>1, <4>1, NoOpening
      <4> QED
        BY <2>1, <4>1, <4>2 DEF InboxInv, InboxOf, IsOpening
    <3> QED
      BY <3>2, <3>3, <3>4
  <2> QED
    BY <2>2, <2>3
<1>3. CASE HandleInvalidSession
  <2>0. /\ inbox # <<>> /\ IsOpening(Head(inbox)) /\ ~IsEvent(Head(inbox))
        /\ handling = NoEvent /\ UNCHANGED <<sessionId, handling, lastSeqReceived>>
        /\ SendIdentify(Tail(inbox))
    BY <1>3 DEF HandleInvalidSession, IsOpening, IsEvent
  <2> QED
    BY <1>c, <2>0, InboxIdentified
<1>4. CASE DispatchSeq
  <2>1. /\ online # 0 /\ UNCHANGED <<online, sent, alive, sessionId>>
        /\ inbox # <<>> /\ inbox' = Tail(inbox) /\ Position' = Position + 1
        /\ Position + 1 <= sent[online]
        /\ EventsAre(inbox', online, Position + 1 + 1, sent[online])
    BY <1>4, DispatchEffect
  <2>2. Messages(inbox') \subseteq Messages(inbox)
    BY <1>a, <2>1, TailMessages
  <2>3. OneOpening(inbox')
    BY <1>a, <2>1, TailOpening DEF InboxOf
  <2> QED
    BY <1>a, <2>1, <2>2, <2>3 DEF InboxInv, InboxOf
<1>5. CASE DispatchReady \/ OnMessage \/ KillCommand
  <2>1. /\ running /\ handling # NoEvent
           /\ UNCHANGED <<inbox, online, alive, sent, lastSeqReceived>>
        /\ sessionId' = handling.session \/ (handling.seq > 1 /\ sessionId' = sessionId)
    BY <1>5 DEF DispatchReady, OnMessage, KillCommand, DispatchMessage
  <2>2. online # 0 /\ handling.session = online /\ sessionId' = online
    BY <2>1 DEF HandlingInv
  <2>3. Position' = Position
    BY <2>1, <2>2 DEF Position
  <2> QED
    BY <1>a, <2>1, <2>2, <2>3, InboxSame
<1>6. CASE OnDisconnection
  BY <1>d, <1>6 DEF OnDisconnection
<1>7. CASE SendEvent
  <2>1. /\ online # 0 /\ online \in Sessions /\ sent[online] \in Nat
        /\ sent' = [sent EXCEPT ![online] = sent[online] + 1] /\ sent[online] + 1 \in 0 .. MaxSeq
        /\ UNCHANGED <<online, alive, sessionId, handling, lastSeqReceived>>
        /\ inbox' = inbox \o Events(online, sent[online] + 1, sent[online] + 1)
    BY <1>7, GatewayAssumption DEF SendEvent, TypeOK, Sessions
  <2>2. Position \in Nat /\ Position' = Position
    BY <2>1 DEF Position, TypeOK
  <2>3. Position <= sent[online] /\ EventsAre(inbox, online, Position + 1, sent[online])
    BY <1>a, <2>1 DEF InboxOf
  <2>4. EventsAre(inbox', online, Position + 1, sent[online] + 1)
    <3>1. Position + 1 \in Nat /\ Position + 1 <= sent[online] + 1
          /\ sent[online] <= sent[online] + 1
      BY <2>1, <2>2, <2>3
    <3> QED
      BY <1>a, <2>1, <2>3, <3>1, ConcatEvents
  <2>5. sent'[online'] = sent[online] + 1
    BY <2>1 DEF TypeOK
  <2>6. /\ Events(online, sent[online] + 1, sent[online] + 1) \in Seq(Message)
        /\ \A m \in Messages(Events(online, sent[online] + 1, sent[online] + 1)) : m.op = "event"
    <3>1. /\ online \in Sessions /\ sent[online] \in Nat /\ sent[online] + 1 \in 0 .. MaxSeq
          /\ sent[online] <= sent[online] + 1
      BY <2>1
    <3>2. Events(online, sent[online] + 1, sent[online] + 1) \in Seq(Message)
      BY ONLY <3>1, EventsSeq
    <3>3. \A m \in Messages(Events(online, sent[online] + 1, sent[online] + 1)) : m.op = "event"
      BY ONLY <3>1, EventsMessages
    <3> QED
      BY <3>2, <3>3
  <2>7. Messages(inbox') \subseteq Messages(inbox)
        \cup Messages(Events(online, sent[online] + 1, sent[online] + 1))
    <3> DEFINE new == Events(online, sent[online] + 1, sent[online] + 1)
    <3>1. inbox' = inbox \o new /\ inbox \in Seq(Message) /\ new \in Seq(Message)
      BY <1>a, <2>1, <2>6
    <3> HIDE DEF new
    <3>2. Messages(inbox') \subseteq Messages(inbox) \cup Messages(new)
      BY ONLY <3>1, ConcatMessages
    <3> QED
      BY <3>2 DEF new
  <2>8. \A m \in Messages(inbox') : ~IsOpening(m)
    BY <1>a, <2>1, <2>6, <2>7, MessageKinds DEF InboxOf
  <2>9. OneOpening(inbox')
    BY <2>8, NoOpening
  <2>10. Position' <= sent'[online'] /\ EventsAre(inbox', online', Position' + 1, sent'[online'])
    BY <2>1, <2>2, <2>3, <2>4, <2>5
  <2> QED
    BY <2>1, <2>8, <2>9, <2>10 DEF InboxInv, InboxOf, IsOpening
<1>8. ASSUME NEW s \in Sessions, Expire(s) PROVE InboxInv'
  <2>1. Position' = Position /\ UNCHANGED <<inbox, online, sent, sessionId>>
        /\ alive' \subseteq alive
    BY <1>8 DEF Expire, Position
  <2> QED
    BY <1>a, <2>1, InboxSame
<1>9. CASE Start
  BY <1>d, <1>9 DEF Start, DownInv
<1>10. CASE Crash \/ RestartCommand \/ SignalExits
  BY <1>d, <1>10 DEF Crash, RestartCommand, SignalExits, Killed, EndProcess
<1>11. CASE SignalReadsSession \/ SignalReadsSeq \/ SignalWrites
  <2>1. Position' = Position /\ UNCHANGED <<inbox, online, sent, sessionId, alive>>
    BY <1>11 DEF SignalReadsSession, SignalReadsSeq, SignalWrites, Position
  <2> QED
    BY <1>a, <2>1, InboxSame
<1> QED
  BY StepCases, <1>1, <1>2, <1>3, <1>4, <1>5, <1>6, <1>7, <1>8, <1>9, <1>10, <1>11

-----------------------------------------------------------------------------
(***************************************************************************)
(* What is handled, received and stored.                                   *)
(***************************************************************************)

\* Every step keeps HandlingInv.
LEMMA HandlingStep ==
    /\ TypeOK /\ SessionsInv /\ InboxInv /\ (running => HandlingInv) /\ DownInv /\ [Next]_vars
    => (running' => HandlingInv')
<1> SUFFICES ASSUME TypeOK, SessionsInv, InboxInv, running => HandlingInv, DownInv,
                    [Next]_vars, running'
             PROVE  HandlingInv'
  OBVIOUS
<1> USE DEF Free, Received, clientVars, serverVars, historyVars
<1>a. \A e \in handled : e.session <= opened
  BY DEF SessionsInv
<1>1. ASSUME running, UNCHANGED <<online, handling, lastSeqReceived, sessionId, handled>>
      PROVE  HandlingInv'
  BY <1>1 DEF HandlingInv
<1>b. ASSUME NEW rest \in Seq(Message), SendIdentify(rest), running,
             UNCHANGED <<handling, lastSeqReceived, sessionId, handled>>, handling = NoEvent
      PROVE  HandlingInv'
  <2>1. CASE online' = online
    BY <1>1, <1>b, <2>1
  <2>2. CASE online' = opened + 1
    <3>1. \A e \in handled : e.session # opened + 1
      BY <1>a, GatewayAssumption DEF TypeOK, Event, Sessions
    <3> QED
      BY <1>b, <2>2, <3>1 DEF HandlingInv
  <2> QED
    BY <1>b, <2>1, <2>2, IdentifyEffect
<1>c. inbox # <<>> => Tail(inbox) \in Seq(Message)
  BY DEF TypeOK
<1>2. CASE Aside
  BY <1>1, <1>2, AsideKeepsSessions DEF sessionVars
<1>3. CASE HandleHello
  <2>1. /\ inbox # <<>> /\ running /\ handling = NoEvent
        /\ UNCHANGED <<handling, lastSeqReceived, sessionId, handled>>
    BY <1>3 DEF HandleHello
  <2>2. CASE SendIdentify(Tail(inbox))
    BY <2>1, <2>2, <1>b, <1>c
  <2>3. CASE SendResume(Tail(inbox))
    <3>1. online' = sessionId \/ online' = online
      BY <2>3 DEF SendResume
    <3> QED
      BY <1>1, <2>1, <3>1 DEF HandlingInv
  <2> QED
    BY <1>3, <2>2, <2>3 DEF HandleHello
<1>4. CASE HandleInvalidSession
  BY <1>4, <1>b, <1>c DEF HandleInvalidSession
<1>5. CASE DispatchSeq
  <2>1. /\ online # 0 /\ UNCHANGED <<online, sessionId, handled>> /\ running
        /\ lastSeqReceived' = Position + 1 /\ handling = NoEvent
        /\ handling'.session = online /\ handling'.seq = Position + 1
    BY <1>5, DispatchEffect DEF DispatchSeq
  <2>2. sessionId # online => Position = 0
    BY <2>1 DEF Position, NoEvent
  <2> QED
    BY <2>1, <2>2 DEF HandlingInv
<1>6. CASE DispatchReady
  BY <1>6 DEF DispatchReady, HandlingInv
<1>7. CASE OnMessage \/ KillCommand
  <2>1. /\ running /\ handling # NoEvent /\ handling.seq > 1 /\ handling' = NoEvent
        /\ UNCHANGED <<online, sessionId>>
    BY <1>7 DEF OnMessage, KillCommand, DispatchMessage
  <2> QED
    BY <2>1 DEF HandlingInv
<1>8. CASE OnDisconnection
  BY <1>8 DEF OnDisconnection, HandlingInv
<1>9. CASE SendEvent
  <2>1. running
    BY <1>9 DEF SendEvent, DownInv
  <2> QED
    BY <1>1, <1>9, <2>1 DEF SendEvent
<1>10. ASSUME NEW s \in Sessions, Expire(s) PROVE HandlingInv'
  BY <1>1, <1>10 DEF Expire
<1>11. CASE Start
  BY <1>11 DEF Start, DownInv, HandlingInv
<1>12. CASE Crash \/ RestartCommand \/ SignalExits
  BY <1>12 DEF Crash, RestartCommand, SignalExits, Killed, EndProcess
<1>13. CASE SignalReadsSession \/ SignalReadsSeq \/ SignalWrites
  BY <1>1, <1>13 DEF SignalReadsSession, SignalReadsSeq, SignalWrites
<1> QED
  BY StepCases, <1>2, <1>3, <1>4, <1>5, <1>6, <1>7, <1>8, <1>9, <1>10, <1>11, <1>12, <1>13

\* Every step keeps ReceivedInv: when READY renames the bot's session, no event
\* of it was handled before; a start takes over a pair that was safe to store.
LEMMA ReceivedStep ==
    /\ TypeOK /\ ConnectionInv /\ SessionsInv /\ InboxInv /\ (running => HandlingInv /\ ReceivedInv)
    /\ StoredInv /\ StoredPairIsSafe /\ DownInv /\ [Next]_vars
    => (running' => ReceivedInv')
<1> SUFFICES ASSUME TypeOK, ConnectionInv, SessionsInv, InboxInv, running => HandlingInv
                    /\ ReceivedInv,
                    StoredInv, StoredPairIsSafe, DownInv, [Next]_vars, running'
             PROVE  ReceivedInv'
  OBVIOUS
<1> USE DEF Free, Received, clientVars, serverVars, historyVars
<1>a. /\ opened \in Nat /\ sessionId \in Int /\ lastSeqReceived \in Nat
      /\ sessionId <= opened /\ alive \subseteq 1 .. opened
      /\ \A s \in alive : sent[s] \in Nat
      /\ \A e \in handled : e.seq \in Nat
  BY GatewayAssumption DEF TypeOK, SessionsInv, Stored, Unknown, Event, Seqs
<1>1. ASSUME running, UNCHANGED <<handling, lastSeqReceived, sessionId, historyVars>>,
             online' \in {0, online, sessionId},
             \A s \in alive' : s <= opened => s \in alive /\ sent[s] <= sent'[s],
             sessionId \in alive' => sessionId \in alive
      PROVE  ReceivedInv'
  <2>1. ReceivedInv
    BY <1>1
  <2>3. ASSUME sessionId' \in alive'
        PROVE  /\ online' \in {0, sessionId'} /\ Covered(sessionId, lastSeqReceived)'
               /\ \A e \in handled' : e.session = sessionId'
                  /\ (e.seq > lastSeqReceived' \/ e = handling')
                     => e \in forgotten'
    BY <1>1, <2>1, <2>3 DEF ReceivedInv, Covered
  <2>4. ASSUME sessionId' \in alive' PROVE lastSeqReceived' <= sent'[sessionId']
    <3>1. sessionId \in alive /\ sessionId \in alive' /\ sessionId \in 1 .. opened
      BY <1>1, <1>a, <2>4
    <3>2. lastSeqReceived <= sent[sessionId] /\ sent[sessionId] <= sent'[sessionId]
          /\ sent[sessionId] \in Nat
      BY <1>1, <1>a, <2>1, <3>1 DEF ReceivedInv
    <3>3. sent'[sessionId] \in Int
      <4>1. TypeOK'
        BY TypeStep
      <4> QED
        BY <3>1, <4>1, GatewayAssumption DEF TypeOK
    <3> QED
      BY <1>1, <1>a, <3>2, <3>3
  <2> QED
    BY <2>3, <2>4 DEF ReceivedInv
<1>b. \A s \in alive' : s <= opened => s \in alive /\ sent[s] <= sent'[s]
  BY Monotone
<1>2. CASE Aside
  <2>1. UNCHANGED sessionVars
    BY <1>2, AsideKeepsSessions
  <2> QED
    BY <1>1, <1>b, <2>1 DEF sessionVars
<1>c. ASSUME inbox # <<>>, SendIdentify(Tail(inbox)), running, sessionId \notin alive,
             UNCHANGED <<handling, lastSeqReceived, sessionId, historyVars>>
      PROVE  ReceivedInv'
  <2>1. Tail(inbox) \in Seq(Message)
    BY <1>c DEF TypeOK
  <2>2. sessionId' \notin alive'
    BY <1>a, <1>b, <1>c
  <2> QED
    BY <2>2 DEF ReceivedInv
<1>3. CASE HandleHello
  <2>1. /\ inbox # <<>> /\ running
        /\ UNCHANGED <<handling, lastSeqReceived, sessionId, historyVars>>
    BY <1>3 DEF HandleHello
  <2>2. CASE sessionId = 0
    <3>1. SendIdentify(Tail(inbox)) /\ sessionId \notin alive
      BY <1>3, <1>a, <2>2 DEF HandleHello
    <3> QED
      BY <1>c, <2>1, <3>1
  <2>3. CASE sessionId # 0
    <3>1. online' \in {online, sessionId} /\ alive' = alive
      BY <1>3, <2>3 DEF HandleHello, SendResume
    <3> QED
      BY <1>1, <1>b, <2>1, <3>1
  <2> QED
    BY <2>2, <2>3
<1>4. CASE HandleInvalidSession
  <2>1. /\ inbox # <<>> /\ running /\ Head(inbox).op = "invalid" /\ SendIdentify(Tail(inbox))
        /\ UNCHANGED <<handling, lastSeqReceived, sessionId, historyVars>>
    BY <1>4 DEF HandleInvalidSession
  <2>2. Head(inbox) \in Messages(inbox)
    BY <2>1, TailMessages DEF TypeOK
  <2>3. sessionId \notin alive
    BY <2>1, <2>2 DEF InboxInv, InboxOf
  <2> QED
    BY <1>c, <2>1, <2>3
<1>5. CASE DispatchSeq
  <2>1. /\ online # 0 /\ UNCHANGED <<online, sent, alive, sessionId, historyVars>>
        /\ running /\ handling = NoEvent /\ Position + 1 <= sent[online]
        /\ lastSeqReceived' = Position + 1
        /\ handling' \in Event /\ handling'.session = online /\ handling'.seq = Position + 1
    BY <1>5, DispatchEffect DEF DispatchSeq
  <2>2. ASSUME sessionId \in alive
        PROVE  online = sessionId /\ Position = lastSeqReceived
    BY <2>1, <2>2 DEF ReceivedInv, Position
  <2>3. ASSUME sessionId \in alive, NEW k \in 2 .. lastSeqReceived + 1
        PROVE  [session |-> sessionId, seq |-> k] \in handled \cup cut \cup {handling'}
    <3>1. CASE k = lastSeqReceived + 1
      BY <2>1, <2>2, <2>3, <3>1 DEF Event
    <3>2. CASE k # lastSeqReceived + 1
      <4>1. k \in 2 .. lastSeqReceived
        BY <1>a, <3>2
      <4>2. [session |-> sessionId, seq |-> k] \in handled \cup cut \cup {NoEvent}
        BY <2>1, <2>3, <4>1 DEF ReceivedInv, Covered
      <4>3. [session |-> sessionId, seq |-> k] # NoEvent
        BY <2>1, <2>2, <2>3 DEF NoEvent
      <4> QED
        BY <4>2, <4>3
    <3> QED
      BY <3>1, <3>2
  <2>4. ASSUME sessionId \in alive, NEW e \in handled, e.session = sessionId,
               e.seq > lastSeqReceived + 1 \/ e = handling'
        PROVE  e \in forgotten
    <3>1. e.seq > lastSeqReceived
      BY <1>a, <2>1, <2>2, <2>4
    <3> QED
      BY <2>1, <2>4, <3>1 DEF ReceivedInv
  <2>5. sessionId \in alive => Covered(sessionId, lastSeqReceived)'
    BY <2>1, <2>2, <2>3 DEF Covered
  <2> QED
    BY <2>1, <2>2, <2>4, <2>5 DEF ReceivedInv
<1>6. CASE DispatchReady
  <2>1. /\ running /\ handling # NoEvent /\ handling.seq = 1 /\ sessionId' = handling.session
        /\ handling' = NoEvent
           /\ UNCHANGED <<lastSeqReceived, online, alive, sent, historyVars>>
    BY <1>6 DEF DispatchReady
  <2>2. HandlingInv /\ ReceivedInv /\ online \in alive /\ handling.session = online
        /\ lastSeqReceived = 1 /\ online # 0
    BY <2>1 DEF HandlingInv, SessionsInv
  <2>3. lastSeqReceived <= sent[online]
    BY <2>2 DEF InboxInv, InboxOf, Position
  <2>5. ASSUME NEW e \in handled, e.session = online, e.seq > 1
        PROVE  e \in forgotten
    BY <2>2, <2>5 DEF HandlingInv, ReceivedInv
  <2>6. \A e \in handled : e.session = online => e # NoEvent
    BY <2>2 DEF NoEvent
  <2>7. Covered(sessionId, lastSeqReceived)'
    BY <2>1, <2>2 DEF Covered
  <2> QED
    BY <2>1, <2>2, <2>3, <2>5, <2>6, <2>7 DEF ReceivedInv
<1>7. CASE OnMessage \/ KillCommand
  <2>1. /\ running /\ handling # NoEvent /\ handled' = handled \cup {handling}
           /\ handling' = NoEvent
        /\ UNCHANGED <<lastSeqReceived, online, alive, sent, sessionId, cut>>
        /\ forgotten \subseteq forgotten'
    BY <1>7 DEF OnMessage, KillCommand, DispatchMessage
  <2>2. /\ HandlingInv /\ ReceivedInv /\ handling.seq = lastSeqReceived
    BY <2>1 DEF HandlingInv
  <2>3. Covered(sessionId, lastSeqReceived) => Covered(sessionId, lastSeqReceived)'
    BY <2>1 DEF Covered
  <2>4. ASSUME sessionId \in alive, NEW e \in handled', e.session = sessionId,
               e.seq > lastSeqReceived \/ e = NoEvent
        PROVE  e \in forgotten'
    <3>1. e # NoEvent
      BY <1>a, <2>4 DEF NoEvent
    <3>2. e # handling
      BY <1>a, <2>2, <2>4, <3>1
    <3> QED
      BY <2>1, <2>2, <2>4, <3>1, <3>2 DEF ReceivedInv
  <2> QED
    BY <2>1, <2>2, <2>3, <2>4 DEF ReceivedInv
<1>8. CASE OnDisconnection
  BY <1>1, <1>8, <1>b DEF OnDisconnection
<1>9. CASE SendEvent
  <2>1. running
    BY <1>9 DEF SendEvent, DownInv
  <2> QED
    BY <1>1, <1>9, <1>b, <2>1 DEF SendEvent
<1>10. ASSUME NEW s \in Sessions, Expire(s) PROVE ReceivedInv'
  <2>1. alive' \subseteq alive /\ online' = online
    BY <1>10 DEF Expire
  <2> QED
    BY <1>1, <1>10, <1>b, <2>1 DEF Expire
<1>11. CASE Start
  <2>1. /\ ~running /\ sessionId' = conf.session /\ lastSeqReceived' = conf.seq /\ online = 0
        /\ handling = NoEvent
        /\ UNCHANGED <<handling, online, alive, sent, historyVars>>
    BY <1>11 DEF Start, DownInv
  <2>3. ASSUME conf.session \in alive
        PROVE  Covered(sessionId, lastSeqReceived)'
    BY <2>1, <2>3 DEF StoredPairIsSafe, Covered
  <2>4. ASSUME conf.session \in alive, NEW e \in handled, e.session = conf.session,
               e.seq > conf.seq \/ e = NoEvent
        PROVE  e \in forgotten
    <3>1. e # NoEvent
      BY <1>a, <2>4 DEF NoEvent
    <3> QED
      BY <2>1, <2>4, <3>1 DEF StoredInv, After
  <2> QED
    BY <2>1, <2>3, <2>4 DEF ReceivedInv, StoredInv
<1>12. CASE Crash \/ RestartCommand \/ SignalExits
  BY <1>12 DEF Crash, RestartCommand, SignalExits, Killed, EndProcess
<1>13. CASE SignalReadsSession \/ SignalReadsSeq \/ SignalWrites
  BY <1>1, <1>b, <1>13 DEF SignalReadsSession, SignalReadsSeq, SignalWrites
<1> QED
  BY StepCases, <1>2, <1>3, <1>4, <1>5, <1>6, <1>7, <1>8, <1>9, <1>10, <1>11, <1>12, <1>13

\* Every step keeps SavingInv: the bot's session changes only when the one whose
\* id a signal has read cannot be resumed, and a late event is marked.
LEMMA SavingStep ==
    /\ TypeOK /\ SessionsInv /\ InboxInv /\ (running => HandlingInv /\ ReceivedInv /\ SavingInv)
    /\ DownInv /\ [Next]_vars
    => (running' => SavingInv')
<1> SUFFICES ASSUME TypeOK, SessionsInv, InboxInv,
                    running => HandlingInv /\ ReceivedInv /\ SavingInv,
                    DownInv, [Next]_vars, running'
             PROVE  SavingInv'
  OBVIOUS
<1> USE DEF Free, Received, clientVars, serverVars, historyVars
<1>a. /\ opened \in Nat /\ saving.session \in Int /\ saving.session <= opened
      /\ saving.seq \in Nat /\ lastSeqReceived \in Nat /\ alive \subseteq 1 .. opened
      /\ handling # NoEvent => handling.session \in Int
  BY GatewayAssumption DEF TypeOK, SessionsInv, Stored, Unknown, Event, Sessions
<1>b. /\ \A s \in alive' : s <= opened => s \in alive
      /\ forgotten \subseteq forgotten'
  BY Monotone
<1>c. lastSeqReceived' \in Nat
  <2>1. TypeOK'
    BY TypeStep
  <2> QED
    BY <2>1, GatewayAssumption DEF TypeOK
<1>1. ASSUME running, saving' = saving,
             NumberRead => After(handled', saving) \subseteq After(handled, saving) \cup forgotten',
             saving.session \in alive
                => sessionId' = sessionId /\ lastSeqReceived <= lastSeqReceived'
      PROVE  SavingInv'
  <2> SUFFICES ASSUME saving.session \in alive'
               PROVE  /\ saving.session = sessionId'
                      /\ NumberRead => /\ saving.seq <= lastSeqReceived'
                                       /\ After(handled', saving) \subseteq forgotten'
    BY <1>1 DEF SavingInv, NumberRead, After
  <2>1. saving.session \in alive
    BY <1>a, <1>b
  <2>2. /\ saving.session = sessionId
        /\ NumberRead => saving.seq <= lastSeqReceived /\ After(handled, saving) \subseteq forgotten
    BY <1>1, <2>1 DEF SavingInv
  <2>3. NumberRead => saving.seq <= lastSeqReceived'
    BY <1>1, <1>a, <1>c, <2>1, <2>2
  <2> QED
    BY <1>1, <1>b, <2>1, <2>2, <2>3
<1>2. ASSUME running, UNCHANGED <<saving, sessionId, lastSeqReceived, handled>>
      PROVE  SavingInv'
  BY <1>1, <1>2, <1>a
<1>3. CASE Aside
  BY <1>2, <1>3, AsideKeepsSessions DEF sessionVars
<1>4. CASE HandleHello \/ HandleInvalidSession \/ OnDisconnection
  BY <1>2, <1>4 DEF HandleHello, HandleInvalidSession, OnDisconnection
<1>5. CASE DispatchSeq
  <2>1. /\ online # 0 /\ UNCHANGED <<sessionId, saving, historyVars>> /\ running
        /\ lastSeqReceived' = Position + 1
    BY <1>5, DispatchEffect DEF DispatchSeq
  <2>2. saving.session \in alive => Position = lastSeqReceived
    BY <2>1 DEF SavingInv, ReceivedInv, Position
  <2> QED
    BY <1>1, <1>a, <2>1, <2>2
<1>6. CASE DispatchReady
  <2>1. /\ running /\ handling # NoEvent /\ sessionId' = handling.session
        /\ UNCHANGED <<lastSeqReceived, saving, historyVars>>
    BY <1>6 DEF DispatchReady
  <2>2. saving.session \in alive => sessionId' = sessionId
    BY <2>1 DEF SavingInv, ReceivedInv, HandlingInv
  <2> QED
    BY <1>1, <1>a, <2>1, <2>2
<1>7. CASE OnMessage \/ KillCommand
  <2>1. /\ running /\ handled' = handled \cup {handling}
        /\ UNCHANGED <<saving, sessionId, lastSeqReceived>>
        /\ NumberRead => forgotten' = forgotten \cup After({handling}, saving)
    BY <1>7 DEF OnMessage, KillCommand, DispatchMessage
  <2>2. After(handled', saving) = After(handled, saving) \cup After({handling}, saving)
    BY <2>1 DEF After
  <2> QED
    BY <1>1, <1>a, <2>1, <2>2
<1>8. CASE SendEvent
  <2>1. running
    BY <1>8 DEF SendEvent, DownInv
  <2> QED
    BY <1>2, <1>8, <2>1 DEF SendEvent
<1>9. ASSUME NEW s \in Sessions, Expire(s) PROVE SavingInv'
  BY <1>2, <1>9 DEF Expire
<1>10. CASE Start
  <2>1. saving'.session = 0 /\ alive' = alive
    BY <1>10 DEF Start, DownInv, NotSaving
  <2> QED
    BY <1>a, <2>1 DEF SavingInv
<1>11. CASE Crash \/ RestartCommand \/ SignalExits
  BY <1>11 DEF Crash, RestartCommand, SignalExits, Killed, EndProcess
<1>12. CASE SignalReadsSession
  <2>1. /\ saving'.pc = "session" /\ saving'.session \in {sessionId, Unknown}
        /\ UNCHANGED <<alive, sessionId>>
    BY <1>12 DEF SignalReadsSession
  <2>2. Unknown \notin alive
    BY <1>a DEF Unknown
  <2> QED
    BY <2>1, <2>2 DEF SavingInv, NumberRead
<1>13. CASE SignalReadsSeq
  <2>1. /\ running /\ saving'.session = saving.session /\ saving'.seq = lastSeqReceived
        /\ UNCHANGED <<alive, sessionId, lastSeqReceived, historyVars>>
    BY <1>13 DEF SignalReadsSeq, TypeOK
  <2>2. ASSUME saving.session \in alive
        PROVE  /\ saving.session = sessionId
               /\ \A e \in handled : e.session = sessionId /\ e.seq > lastSeqReceived
                    => e \in forgotten
    BY <2>1, <2>2 DEF SavingInv, ReceivedInv
  <2> QED
    BY <1>a, <2>1, <2>2 DEF SavingInv, After
<1>14. CASE SignalWrites
  <2>1. /\ running /\ NumberRead
        /\ saving'.session = saving.session /\ saving'.seq = saving.seq
        /\ UNCHANGED <<alive, sessionId, lastSeqReceived, historyVars>>
    BY <1>14 DEF SignalWrites, NumberRead, TypeOK
  <2> QED
    BY <2>1 DEF SavingInv, After
<1> QED
  BY StepCases, <1>3, <1>4, <1>5, <1>6, <1>7, <1>8, <1>9, <1>10, <1>11, <1>12, <1>13, <1>14

\* Every step keeps StoredInv and StoredPairIsSafe: a signal stores a number of
\* the session whose id it read, or the id of one that cannot be resumed, and
\* what is left of a torn write is no more than that.
LEMMA StoredStep ==
    /\ TypeOK /\ SessionsInv /\ (running => ReceivedInv /\ SavingInv)
    /\ StoredInv /\ StoredPairIsSafe /\ [Next]_vars
    => StoredInv' /\ StoredPairIsSafe'
<1> SUFFICES ASSUME TypeOK, SessionsInv, running => ReceivedInv /\ SavingInv,
                    StoredInv, StoredPairIsSafe, [Next]_vars
             PROVE  StoredInv' /\ StoredPairIsSafe'
  OBVIOUS
<1> USE DEF clientVars, serverVars, historyVars
<1>a. /\ opened \in Nat /\ conf.session \in Int /\ conf.seq \in Nat /\ lastSeqReceived \in Nat
      /\ conf.session <= opened /\ alive \subseteq 1 .. opened
      /\ \A s \in alive : sent[s] \in Nat
      /\ saving.session \in Int /\ saving.seq \in Nat
  BY GatewayAssumption DEF TypeOK, SessionsInv, Stored, Unknown
<1>b. /\ \A s \in alive' : s <= opened => s \in alive /\ sent[s] <= sent'[s]
      /\ handled \subseteq handled' /\ cut \subseteq cut' /\ forgotten \subseteq forgotten'
  BY Monotone
<1>c. \A s \in alive : sent'[s] \in Int
  <2>1. TypeOK'
    BY TypeStep
  <2> QED
    BY <2>1, GatewayAssumption DEF TypeOK
\* The number that a signal has read, of a session that can be resumed.
<1>d. ASSUME running, NumberRead, saving.session \in alive
      PROVE  /\ saving.seq <= sent[saving.session]
             /\ \A n \in 2 .. saving.seq :
                    [session |-> saving.session, seq |-> n] \in handled \cup cut \cup {handling}
             /\ After(handled, saving) \subseteq forgotten
  <2>1. /\ saving.session = sessionId /\ saving.seq <= lastSeqReceived
        /\ After(handled, saving) \subseteq forgotten
    BY <1>d DEF SavingInv
  <2>2. lastSeqReceived <= sent[sessionId] /\ Covered(sessionId, lastSeqReceived)
    BY <1>d, <2>1 DEF ReceivedInv
  <2>3. sent[sessionId] \in Nat /\ 2 .. saving.seq \subseteq 2 .. lastSeqReceived
    BY <1>a, <1>d, <2>1
  <2> QED
    BY <1>a, <2>1, <2>2, <2>3 DEF Covered
<1>1. ASSUME conf' = conf, saving'.pc = "written" => saving' = saving,
             ~running' => ~running /\ handled' = handled,
             handling.seq > 1 => handling \in handled' \cup {handling'}
      PROVE  StoredInv' /\ StoredPairIsSafe'
  <2>1. ASSUME conf.session \in alive'
        PROVE  conf.session \in alive /\ conf.seq <= sent'[conf.session]
    <3>1. conf.session \in alive /\ sent[conf.session] <= sent'[conf.session]
      BY <1>a, <1>b, <2>1
    <3>2. conf.seq <= sent[conf.session] /\ sent[conf.session] \in Nat
          /\ sent'[conf.session] \in Int
      BY <1>a, <1>c, <3>1 DEF StoredInv
    <3> QED
      BY <1>a, <3>1, <3>2
  <2>2. ASSUME conf.session \in alive', NEW n \in 2 .. conf.seq
        PROVE  [session |-> conf.session, seq |-> n] \in handled' \cup cut' \cup {handling'}
    <3>1. [session |-> conf.session, seq |-> n] \in handled \cup cut \cup {handling}
      BY <2>1, <2>2 DEF StoredPairIsSafe
    <3>2. n > 1
      BY <1>a, <2>2
    <3>3. [session |-> conf.session, seq |-> n] = handling => handling.seq > 1
      BY <3>2
    <3> QED
      BY <1>1, <1>b, <3>1, <3>3
  <2>3. StoredPairIsSafe'
    BY <1>1, <2>2 DEF StoredPairIsSafe
  <2>4. ASSUME conf.session \in alive', ~running' PROVE After(handled', conf') \subseteq forgotten'
    BY <1>1, <1>b, <2>1, <2>4 DEF StoredInv, After
  <2>5. saving'.pc = "written" => conf'.session = saving'.session /\ conf'.seq = saving'.seq
    BY <1>1 DEF StoredInv
  <2>6. StoredInv'
    BY <1>1, <2>1, <2>4, <2>5 DEF StoredInv
  <2> QED
    BY <2>3, <2>6
<1>2. ASSUME running, EndProcess,
             \/ conf' = conf
             \/ /\ NumberRead /\ conf'.session \in {0, Unknown, saving.session}
                /\ conf'.seq \in 0 .. saving.seq,
             conf'.session \in alive => After(handled', conf') \subseteq forgotten',
             handling \in CutOff => handling \in handled' \cup cut'
      PROVE  StoredInv' /\ StoredPairIsSafe'
  <2>1. UNCHANGED <<alive, sent>> /\ saving'.pc = "no" /\ ~running'
    BY <1>2 DEF EndProcess, NotSaving
  <2>2. ASSUME conf'.session \in alive
        PROVE  /\ conf'.seq <= sent[conf'.session]
               /\ \A n \in 2 .. conf'.seq :
                    [session |-> conf'.session, seq |-> n] \in handled \cup cut \cup {handling}
    <3>1. CASE conf' = conf
      BY <2>2, <3>1 DEF StoredInv, StoredPairIsSafe
    <3>2. CASE /\ NumberRead /\ conf'.session \in {0, Unknown, saving.session}
               /\ conf'.seq \in 0 .. saving.seq
      <4>1. conf'.session = saving.session
        BY <1>a, <2>2, <3>2 DEF Unknown
      <4>2. /\ saving.seq <= sent[saving.session] /\ sent[saving.session] \in Nat
            /\ \A n \in 2 .. saving.seq :
                [session |-> saving.session, seq |-> n] \in handled \cup cut \cup {handling}
        BY <1>2, <1>a, <1>d, <2>2, <3>2, <4>1
      <4>3. conf'.seq <= saving.seq /\ conf'.seq \in Nat
            /\ 2 .. conf'.seq \subseteq 2 .. saving.seq
        BY <1>a, <3>2
      <4> QED
        BY <1>a, <4>1, <4>2, <4>3
    <3> QED
      BY <1>2, <3>1, <3>2
  <2>3. ASSUME conf'.session \in alive, NEW n \in 2 .. conf'.seq
        PROVE  [session |-> conf'.session, seq |-> n] \in handled' \cup cut' \cup {handling'}
    <3> DEFINE e == [session |-> conf'.session, seq |-> n]
    <3>1. e \in handled \cup cut \cup {handling}
      BY <2>2, <2>3
    <3>2. CASE e = handling
      <4>1. n <= conf'.seq /\ n > 1
        <5>1. conf'.seq \in Int
          BY <1>2, <1>a
        <5> QED
          BY <2>3, <5>1
      <4>2. e.session = conf'.session /\ e.seq = n /\ e # NoEvent
        BY <4>1 DEF NoEvent
      <4>3. handling \in CutOff
        BY <3>2, <4>1, <4>2 DEF CutOff
      <4> QED
        BY <1>2, <3>2, <4>3
    <3> QED
      BY <1>b, <3>1, <3>2
  <2>4. StoredPairIsSafe'
    BY <2>1, <2>3 DEF StoredPairIsSafe
  <2>5. StoredInv'
    BY <1>2, <2>1, <2>2 DEF StoredInv
  <2> QED
    BY <2>4, <2>5
<1>3. ASSUME Killed
      PROVE  /\ EndProcess
             /\ \/ conf' = conf
                \/ /\ NumberRead /\ conf'.session \in {0, Unknown, saving.session}
                   /\ conf'.seq \in 0 .. saving.seq
  BY <1>3, KilledFile DEF NumberRead
<1>4. CASE Crash
  <2>1. running /\ After(handled', conf') \subseteq forgotten' /\ cut' = cut \cup CutOff
    BY <1>4 DEF Crash
  <2> QED
    BY <1>2, <1>3, <1>4, <2>1 DEF Crash
<1>5. CASE RestartCommand
  <2>1. running /\ After(handled', conf') \subseteq forgotten' /\ handling \in handled'
    BY <1>5 DEF RestartCommand
  <2> QED
    BY <1>2, <1>3, <1>5, <2>1 DEF RestartCommand
<1>6. CASE SignalExits
  <2>1. /\ running /\ NumberRead /\ EndProcess /\ cut' = cut \cup CutOff
        /\ UNCHANGED <<conf, handled, forgotten>>
    BY <1>6 DEF SignalExits, NumberRead
  <2>2. conf.session = saving.session /\ conf.seq = saving.seq
    BY <1>6 DEF SignalExits, StoredInv
  <2>3. conf.session \in alive => After(handled', conf') \subseteq forgotten'
    BY <1>d, <2>1, <2>2 DEF After
  <2> QED
    BY <1>2, <2>1, <2>3
<1>7. CASE SignalWrites
  <2>1. /\ running /\ running' /\ NumberRead
        /\ conf'.session = saving.session /\ conf'.seq = saving.seq
        /\ saving'.session = saving.session /\ saving'.seq = saving.seq
        /\ UNCHANGED <<alive, sent, handled, cut, handling>>
    BY <1>7 DEF SignalWrites, NumberRead, TypeOK
  <2>2. StoredInv'
    BY <1>d, <2>1 DEF StoredInv
  <2>3. StoredPairIsSafe'
    BY <1>d, <2>1 DEF StoredPairIsSafe
  <2> QED
    BY <2>2, <2>3
<1>8. CASE ~SignalExits /\ ~Crash /\ ~RestartCommand /\ ~SignalWrites
  <2>1. conf' = conf
    BY <1>8 DEF Next, Handlers, Transport, Discord, Process, vars, HandleHello,
       HandleInvalidSession, HandleHeartbeat, HandleHeartbeatACK, DispatchSeq, DispatchReady,
       OnMessage, KillCommand, PingTick, OnConnection, OnError, OnDisconnection, Reconnect,
       SendEvent, AskHeartbeat, Expire, Start, SignalReadsSession, SignalReadsSeq
  <2>2. ~running' => ~running /\ handled' = handled
    BY <1>8 DEF Next, Handlers, Transport, Discord, Process, vars, HandleHello,
       HandleInvalidSession, HandleHeartbeat, HandleHeartbeatACK, DispatchSeq, DispatchReady,
       OnMessage, KillCommand, DispatchMessage, PingTick, OnConnection, OnError, OnDisconnection,
       Reconnect, SendEvent, AskHeartbeat, Expire, Start, SignalReadsSession, SignalReadsSeq,
       Free, Received
  <2>3. saving'.pc = "written" => saving' = saving
    <3>1. CASE SignalReadsSession \/ SignalReadsSeq
      <4>1. saving'.pc \in {"session", "seq"}
        <5>1. CASE SignalReadsSession
          BY <5>1 DEF SignalReadsSession
        <5>2. CASE SignalReadsSeq
          <6>1. saving' = [saving EXCEPT !.pc = "seq", !.seq = lastSeqReceived]
            BY <5>2 DEF SignalReadsSeq
          <6>2. saving \in [pc : SavePC, session : Stored, seq : 0 .. MaxSeq]
            BY DEF TypeOK
          <6> QED
            BY ONLY <6>1, <6>2
        <5> QED
          BY <3>1, <5>1, <5>2
      <4> QED
        BY <4>1
    <3>2. CASE ~SignalReadsSession /\ ~SignalReadsSeq
      BY <1>8, <3>2 DEF Next, Handlers, Transport, Discord, Process, vars, HandleHello,
         HandleInvalidSession, HandleHeartbeat, HandleHeartbeatACK, DispatchSeq, DispatchReady,
         OnMessage, KillCommand, PingTick, OnConnection, OnError, OnDisconnection, Reconnect,
         SendEvent, AskHeartbeat, Expire, Start
    <3> QED
      BY <3>1, <3>2
  <2>4. handling.seq > 1 => handling \in handled' \cup {handling'}
    BY <1>8 DEF Next, Handlers, Transport, Discord, Process, vars, HandleHello,
       HandleInvalidSession, HandleHeartbeat, HandleHeartbeatACK, DispatchSeq, DispatchReady,
       OnMessage, KillCommand, DispatchMessage, PingTick, OnConnection, OnError, OnDisconnection,
       Reconnect, SendEvent, AskHeartbeat, Expire, Start, SignalReadsSession, SignalReadsSeq,
       Free, Received, NoEvent
  <2> QED
    BY <1>1, <2>1, <2>2, <2>3, <2>4
<1> QED
  BY <1>4, <1>5, <1>6, <1>7, <1>8

\* The message that is handled is of the bot's session, which can be resumed.
LEMMA HandledEvent ==
    ASSUME SessionsInv, HandlingInv, ReceivedInv, handling # NoEvent, handling.seq > 1
    PROVE  /\ handling.session = sessionId /\ sessionId \in alive /\ handling.seq = lastSeqReceived
           /\ Covered(handling.session, handling.seq)
           /\ handling \in handled => handling \in forgotten
  BY DEF SessionsInv, HandlingInv, ReceivedInv

\* Every step keeps NoMessageSkipped: what is handled is the next message.
LEMMA SkippedStep ==
    /\ SessionsInv /\ (running => HandlingInv /\ ReceivedInv) /\ NoMessageSkipped /\ [Next]_vars
    => NoMessageSkipped'
<1> SUFFICES ASSUME SessionsInv, running => HandlingInv /\ ReceivedInv, NoMessageSkipped,
                    [Next]_vars
             PROVE  NoMessageSkipped'
  OBVIOUS
<1>1. CASE handled' = handled /\ cut \subseteq cut'
  BY <1>1 DEF NoMessageSkipped
<1>2. CASE /\ running /\ handling # NoEvent /\ handling.seq > 1
           /\ handled' = handled \cup {handling} /\ cut' = cut
  <2>1. \A k \in 2 .. handling.seq :
            [session |-> handling.session, seq |-> k] \in handled' \cup cut'
    BY <1>2, HandledEvent DEF Covered
  <2> QED
    BY <1>2, <2>1 DEF NoMessageSkipped
<1>3. \/ handled' = handled /\ cut \subseteq cut'
      \/ /\ running /\ handling # NoEvent /\ handling.seq > 1
         /\ handled' = handled \cup {handling} /\ cut' = cut
  BY DEF Next, Handlers, Transport, Discord, Process, vars, HandleHello, HandleInvalidSession,
     HandleHeartbeat, HandleHeartbeatACK, DispatchSeq, DispatchReady, OnMessage, KillCommand,
     DispatchMessage, PingTick, OnConnection, OnError, OnDisconnection, Reconnect, SendEvent,
     AskHeartbeat, Expire, Start, Crash, RestartCommand, SignalReadsSession, SignalReadsSeq,
     SignalWrites, SignalExits, clientVars, serverVars, historyVars
<1> QED
  BY <1>1, <1>2, <1>3

\* Every step keeps ConnectionInv.
LEMMA ConnectionStep == ConnectionInv /\ [Next]_vars => ConnectionInv'
<1> SUFFICES ASSUME ConnectionInv, [Next]_vars PROVE ConnectionInv'
  OBVIOUS
<1> USE DEF NoEvent, ConnectionInv, OneWayForward, Free, Received, HandleDisconnect, EndProcess,
        DispatchMessage
<1>1. ASSUME Handlers PROVE ConnectionInv'
  <2>1. CASE HandleHello
    BY <2>1 DEF HandleHello
  <2>2. CASE HandleInvalidSession
    BY <2>2 DEF HandleInvalidSession, clientVars
  <2>3. CASE HandleHeartbeat
    BY <2>3 DEF HandleHeartbeat
  <2>4. CASE HandleHeartbeatACK
    BY <2>4 DEF HandleHeartbeatACK
  <2>5. CASE DispatchSeq
    BY <2>5 DEF DispatchSeq
  <2>6. CASE DispatchReady
    BY <2>6 DEF DispatchReady
  <2>7. CASE OnMessage
    BY <2>7 DEF OnMessage
  <2>8. CASE KillCommand
    BY <2>8 DEF KillCommand
  <2> QED
    BY <1>1, <2>1, <2>2, <2>3, <2>4, <2>5, <2>6, <2>7, <2>8 DEF Handlers
<1>2. ASSUME PingTick PROVE ConnectionInv'
  BY <1>2 DEF PingTick
<1>3. ASSUME Transport PROVE ConnectionInv'
  BY <1>3 DEF Transport, OnConnection, OnError, OnDisconnection, Reconnect
<1>4. ASSUME Discord PROVE ConnectionInv'
  BY <1>4 DEF Discord, SendEvent, AskHeartbeat, Expire, clientVars
<1>5. ASSUME Process PROVE ConnectionInv'
  BY <1>5 DEF Process, Start, Crash, RestartCommand, Killed, SignalReadsSession, SignalReadsSeq,
     SignalWrites, SignalExits
<1>6. ASSUME UNCHANGED vars PROVE ConnectionInv'
  BY <1>6 DEF vars, clientVars
<1> QED
  BY <1>1, <1>2, <1>3, <1>4, <1>5, <1>6 DEF Next

\* The invariant holds at the start.
LEMMA InitInv == Init => GatewayInv
<1> SUFFICES ASSUME Init PROVE GatewayInv
  OBVIOUS
<1> USE GatewayAssumption
<1>1. TypeOK
  <2>1. conf \in [session : Stored, seq : 0 .. MaxSeq, token : BOOLEAN]
    BY DEF Init, Stored
  <2>2. inbox \in Seq(Message) /\ sent \in [Sessions -> 0 .. MaxSeq]
    BY DEF Init
  <2>3. /\ nextReconnectDelay \in InitialDelay .. MaxDelay /\ alive \subseteq Sessions
        /\ handled \subseteq Event /\ cut \subseteq Event /\ forgotten \subseteq Event
        /\ saving \in [pc : SavePC, session : Stored, seq : 0 .. MaxSeq]
    BY DEF Init, NotSaving, SavePC, Stored
  <2>4. /\ sessionId \in Stored /\ lastSeqReceived \in 0 .. MaxSeq
        /\ online \in 0 .. MaxSessions /\ opened \in 0 .. MaxSessions /\ ends \in 0 .. MaxEnds
    BY DEF Init, Stored
  <2>5. link \in {"none", "connecting", "open", "closing"}
    BY DEF Init
  <2>6. /\ running \in BOOLEAN /\ ws \in BOOLEAN /\ reconnectTimer \in BOOLEAN
        /\ pingTimer \in BOOLEAN /\ hasReceivedACK \in BOOLEAN
    BY DEF Init
  <2> QED
    BY <2>1, <2>2, <2>3, <2>4, <2>5, <2>6 DEF Init, TypeOK
<1>2. ConnectionInv /\ DownInv /\ NoMessageSkipped
  BY DEF Init, ConnectionInv, OneWayForward, DownInv, NoMessageSkipped
<1>3. SessionsInv
  BY DEF Init, SessionsInv, NotSaving
<1>4. InboxInv
  BY DEF Init, InboxInv, InboxOf, OneOpening, Messages
<1>5. StoredInv /\ StoredPairIsSafe
  BY DEF Init, StoredInv, StoredPairIsSafe, NotSaving
<1> QED
  BY <1>1, <1>2, <1>3, <1>4, <1>5 DEF GatewayInv, Init

\* Every step keeps the invariant.
LEMMA GatewayStep == GatewayInv /\ [Next]_vars => GatewayInv'
<1> SUFFICES ASSUME GatewayInv, [Next]_vars PROVE GatewayInv'
  OBVIOUS
<1>1. /\ TypeOK /\ ConnectionInv /\ SessionsInv /\ InboxInv /\ StoredInv /\ NoMessageSkipped
      /\ StoredPairIsSafe /\ (running => HandlingInv /\ ReceivedInv /\ SavingInv)
      /\ DownInv
  BY DEF GatewayInv
<1>2. TypeOK' /\ ConnectionInv' /\ SessionsInv' /\ DownInv'
  BY <1>1, TypeStep, ConnectionStep, SessionsStep, DownStep
<1>3. InboxInv' /\ (running' => HandlingInv' /\ ReceivedInv' /\ SavingInv')
  BY <1>1, InboxStep, HandlingStep, ReceivedStep, SavingStep
<1>4. StoredInv' /\ StoredPairIsSafe' /\ NoMessageSkipped'
  BY <1>1, StoredStep, SkippedStep
<1> QED
  BY <1>2, <1>3, <1>4 DEF GatewayInv

-----------------------------------------------------------------------------
(***************************************************************************)
(* Theorems.                                                               *)
(***************************************************************************)

\* The inductive invariant of Gateway.
THEOREM Invariant == Spec => []GatewayInv
  BY InitInv, GatewayStep, PTL DEF Spec

\* One transport or one reconnect timer, never both and never neither, and a
\* heartbeat timer only on a socket.
THEOREM OneWay == Spec => []ConnectionInv
<1>1. GatewayInv => ConnectionInv
  BY DEF GatewayInv
<1> QED
  BY <1>1, Invariant, PTL

\* The messages of a session are handled in order and none is skipped, whatever
\* disconnects, resumes, restarts and signals come in between.
THEOREM InOrder == Spec => []NoMessageSkipped
<1>1. GatewayInv => NoMessageSkipped
  BY DEF GatewayInv
<1> QED
  BY <1>1, Invariant, PTL

\* Resuming from the stored pair skips no message, although a signal reads its
\* two halves at different moments and a kill may tear the file.
THEOREM StoredSafe == Spec => []StoredPairIsSafe
<1>1. GatewayInv => StoredPairIsSafe
  BY DEF GatewayInv
<1> QED
  BY <1>1, Invariant, PTL

\* A message is handled twice only if it was handled before an end of the
\* process that did not store its number, or after a signal's handler had read
\* the number that it stored.
THEOREM ReplaysExplained == Spec => ReplayHasACause
<1> DEFINE Explained ==
        \A e \in handled : handling = e /\ (OnMessage \/ KillCommand \/ RestartCommand)
            => e \in forgotten
<1>1. GatewayInv => Explained
  <2> SUFFICES ASSUME GatewayInv, handling \in handled,
                      OnMessage \/ KillCommand \/ RestartCommand
               PROVE  handling \in forgotten
    OBVIOUS
  <2>1. running /\ handling # NoEvent /\ handling.seq > 1
    BY DEF OnMessage, KillCommand, RestartCommand, DispatchMessage
  <2> QED
    BY <2>1, HandledEvent DEF GatewayInv
<1>2. GatewayInv /\ [Next]_vars => [Explained]_vars
  BY <1>1
<1> HIDE DEF Explained
<1>3. Spec => [][Explained]_vars
  BY <1>2, Invariant, PTL DEF Spec
<1> QED
  BY <1>3 DEF ReplayHasACause, Explained
=============================================================================
