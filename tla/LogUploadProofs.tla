-------------------------- MODULE LogUploadProofs ---------------------------
(***************************************************************************)
(* Proofs about LogUpload, for any number of lines, connections and        *)
(* crashes of the server: no line is forgotten by the two programs, and    *)
(* one that is in the file twice was written to two connections.           *)
(*                                                                         *)
(* UploadInv is inductive.  A line that is in the queue has not been       *)
(* written anywhere, one that is being sent not to the latest connection   *)
(* (ClientInv); so a connection never holds it twice, and next to a copy   *)
(* in the file it holds the second one (WireInv, FileInv).                 *)
(***************************************************************************)
EXTENDS LogUpload, TLAPS, FiniteSetTheorems

(***************************************************************************)
(* Sequences and their elements.                                           *)
(***************************************************************************)

\* What is left of a sequence after its first element.
LEMMA TailSeq ==
    ASSUME NEW S, NEW q \in Seq(S), q # <<>>
    PROVE  /\ Tail(q) \in Seq(S) /\ Head(q) \in S
           /\ DOMAIN q = 1 .. Len(q) /\ Head(q) = q[1] /\ 1 \in DOMAIN q
           /\ DOMAIN Tail(q) = 1 .. Len(q) - 1
           /\ \A i \in DOMAIN Tail(q) : Tail(q)[i] = q[i + 1] /\ i + 1 \in DOMAIN q /\ i + 1 # 1
           /\ ToSet(q) = ToSet(Tail(q)) \cup {Head(q)}
<1>1. /\ Tail(q) \in Seq(S) /\ Head(q) \in S
      /\ DOMAIN q = 1 .. Len(q) /\ Head(q) = q[1] /\ 1 \in DOMAIN q
      /\ DOMAIN Tail(q) = 1 .. Len(q) - 1
      /\ \A i \in DOMAIN Tail(q) : Tail(q)[i] = q[i + 1] /\ i + 1 \in DOMAIN q /\ i + 1 # 1
  OBVIOUS
<1>2. \A i \in DOMAIN q : i # 1 => i - 1 \in DOMAIN Tail(q) /\ Tail(q)[i - 1] = q[i]
  BY <1>1
<1> QED
  BY <1>1, <1>2 DEF ToSet

\* A sequence with one more element.
LEMMA AppendSeq ==
    ASSUME NEW S, NEW q \in Seq(S), NEW m \in S
    PROVE  /\ Append(q, m) \in Seq(S)
           /\ DOMAIN Append(q, m) = 1 .. Len(q) + 1 /\ DOMAIN q = 1 .. Len(q) /\ Len(q) \in Nat
           /\ \A i \in DOMAIN q : Append(q, m)[i] = q[i]
           /\ Append(q, m)[Len(q) + 1] = m
           /\ ToSet(Append(q, m)) = ToSet(q) \cup {m}
<1>1. /\ Append(q, m) \in Seq(S)
      /\ DOMAIN Append(q, m) = 1 .. Len(q) + 1 /\ DOMAIN q = 1 .. Len(q) /\ Len(q) \in Nat
      /\ \A i \in DOMAIN q : Append(q, m)[i] = q[i]
      /\ Append(q, m)[Len(q) + 1] = m
  OBVIOUS
<1>2. DOMAIN Append(q, m) = DOMAIN q \cup {Len(q) + 1}
  BY <1>1
<1> QED
  BY <1>1, <1>2 DEF ToSet

\* The beginning of a sequence, and what was cut off.
LEMMA PrefixSeq ==
    ASSUME NEW S, NEW q \in Seq(S), NEW k \in 0 .. Len(q)
    PROVE  /\ SubSeq(q, 1, k) \in Seq(S) /\ Len(SubSeq(q, 1, k)) = k
           /\ DOMAIN SubSeq(q, 1, k) = 1 .. k /\ 1 .. k \subseteq DOMAIN q
           /\ \A i \in 1 .. k : SubSeq(q, 1, k)[i] = q[i]
           /\ {q[i] : i \in (k + 1) .. Len(q)} \subseteq S
           /\ ToSet(q) = ToSet(SubSeq(q, 1, k)) \cup {q[i] : i \in (k + 1) .. Len(q)}
<1>1. /\ SubSeq(q, 1, k) \in Seq(S) /\ Len(SubSeq(q, 1, k)) = k
      /\ DOMAIN SubSeq(q, 1, k) = 1 .. k /\ DOMAIN q = 1 .. Len(q) /\ Len(q) \in Nat
      /\ \A i \in 1 .. k : SubSeq(q, 1, k)[i] = q[i]
      /\ \A i \in DOMAIN q : q[i] \in S
  OBVIOUS
<1>2. DOMAIN q = (1 .. k) \cup ((k + 1) .. Len(q))
  BY <1>1
<1> QED
  BY <1>1, <1>2 DEF ToSet
(***************************************************************************)
(* What the steps do.                                                      *)
(***************************************************************************)

\* The steps, one by one.
LEMMA Steps ==
    ASSUME [Next]_vars
    PROVE  \/ Emit \/ StopLogClient \/ Connect \/ Wake \/ Take \/ ConnectFails \/ Send \/ SendFails
           \/ Flush \/ Crash \/ Start \/ UNCHANGED vars
           \/ \E c \in Conns : Break(c) \/ LogPrint(c)
  BY DEF Next, Thread

\* A line is a number, and neither NoLine nor End.
LEMMA SetsOfLines ==
    /\ NoLine \notin Lines /\ End \notin Lines /\ NoLine # End
    /\ \A n \in Lines : n \in Nat
    /\ Conns \subseteq Nat /\ Lines \subseteq Lines \cup {End}
  BY UploadAssumption DEF Lines, Conns

\* A message that is sent is written to the latest connection, lost there, or
\* kept after an exception.
LEMMA SendEffect ==
    ASSUME TypeOK, ClientInv, Send \/ SendFails
    PROVE  /\ UNCHANGED <<emitted, before, stopped, queue, conn, broken, serverVars>>
           /\ thread = "connected" /\ thread' \in {"connected", "sleeping"}
           /\ msg \in Lines /\ conn \in Conns /\ conn \notin via[msg]
           /\ (msg' = NoLine /\ Send) \/ (msg' = msg /\ thread' = "sleeping")
           /\ \/ /\ wire' = wire /\ via' = via /\ dropped' \in {dropped, dropped \cup {msg}}
                 /\ msg \in dropped' \/ msg' = msg
              \/ /\ dropped' = dropped
                 /\ wire'[conn] = Append(wire[conn], msg)
                 /\ wire' \in [Conns -> Seq(Lines)]
                 /\ \A c \in Conns : c # conn => wire'[c] = wire[c]
                 /\ via'[msg] = via[msg] \cup {conn}
                 /\ \A n \in Lines : n # msg => via'[n] = via[n]
                 /\ via' \in [Lines -> SUBSET (1 .. conn)]
<1>1. /\ thread = "connected" /\ msg \in Lines /\ conn \in Conns /\ conn \notin via[msg]
      /\ conn \in 1 .. conn
  BY SetsOfLines DEF Send, SendFails, TypeOK, ClientInv, Conns
<1>2. /\ UNCHANGED <<emitted, before, stopped, queue, conn, broken, serverVars>>
      /\ thread' \in {"connected", "sleeping"}
      /\ (msg' = NoLine /\ Send) \/ (msg' = msg /\ thread' = "sleeping")
  BY <1>1 DEF Send, SendFails
<1>3. /\ wire[conn] \in Seq(Lines) /\ Append(wire[conn], msg) \in Seq(Lines)
  BY <1>1 DEF TypeOK
<1>4. CASE conn \in broken \/ (wire' = wire /\ via' = via /\ dropped' = dropped)
  <2>1. /\ wire' = wire /\ via' = via /\ dropped' \in {dropped, dropped \cup {msg}}
        /\ msg \in dropped' \/ msg' = msg
    BY <1>1, <1>3, <1>4 DEF Send, SendFails, Write, TypeOK
  <2> QED
    BY <1>1, <1>2, <2>1
<1>5. CASE conn \notin broken /\ ~(wire' = wire /\ via' = via /\ dropped' = dropped)
  <2>1. /\ wire' = [wire EXCEPT ![conn] = Append(wire[conn], msg)]
        /\ via' = [via EXCEPT ![msg] = via[msg] \cup {conn}]
        /\ dropped' = dropped
    BY <1>5 DEF Send, SendFails, Write
  <2>2. /\ wire'[conn] = Append(wire[conn], msg) /\ wire' \in [Conns -> Seq(Lines)]
        /\ \A c \in Conns : c # conn => wire'[c] = wire[c]
    BY <1>1, <1>3, <2>1 DEF TypeOK
  <2>3. /\ via'[msg] = via[msg] \cup {conn} /\ \A n \in Lines : n # msg => via'[n] = via[n]
        /\ via' \in [Lines -> SUBSET (1 .. conn)]
    BY <1>1, <2>1 DEF TypeOK
  <2> QED
    BY <1>1, <1>2, <2>1, <2>2, <2>3
<1> QED
  BY <1>4, <1>5

\* Every step keeps the types.
LEMMA TypeStep == TypeOK /\ ClientInv /\ [Next]_vars => TypeOK'
<1> SUFFICES ASSUME TypeOK, ClientInv, [Next]_vars PROVE TypeOK'
  OBVIOUS
<1> USE UploadAssumption DEF clientVars, serverVars
<1>1. CASE Emit
  <2>1. emitted + 1 \in Lines /\ emitted' \in 0 .. MaxLines
    BY <1>1 DEF Emit, TypeOK, Lines
  <2>2. queue' \in Seq(Lines \cup {End})
    BY <1>1, <2>1, AppendSeq DEF Emit, TypeOK
  <2>3. before' \subseteq Lines
    BY <1>1, <2>1 DEF Emit, TypeOK
  <2> QED
    BY <1>1, <2>1, <2>2, <2>3 DEF Emit, TypeOK
<1>2. CASE StopLogClient
  <2>1. queue' \in Seq(Lines \cup {End})
    BY <1>2, AppendSeq DEF StopLogClient, TypeOK
  <2> QED
    BY <1>2, <2>1 DEF StopLogClient, TypeOK
<1>3. CASE Connect
  <2>1. conn' \in 0 .. MaxConns /\ 1 .. conn \subseteq 1 .. conn'
    BY <1>3 DEF Connect, TypeOK
  <2>2. via' \in [Lines -> SUBSET (1 .. conn')] /\ broken' \subseteq 1 .. conn'
    BY <1>3, <2>1 DEF Connect, TypeOK
  <2> QED
    BY <1>3, <2>1, <2>2 DEF Connect, TypeOK
<1>4. CASE Wake \/ ConnectFails \/ Start
  BY <1>4 DEF Wake, ConnectFails, Start, TypeOK
<1>5. CASE Take
  <2>1. queue' \in Seq(Lines \cup {End}) /\ Head(queue) \in Lines \cup {End}
    BY <1>5, TailSeq DEF Take, TypeOK
  <2> QED
    BY <1>5, <2>1 DEF Take, TypeOK
<1>6. CASE Send \/ SendFails
  <2>1. /\ wire' \in [Conns -> Seq(Lines)] /\ via' \in [Lines -> SUBSET (1 .. conn)]
        /\ dropped' \subseteq Lines
    BY <1>6, SendEffect DEF TypeOK
  <2>2. /\ UNCHANGED <<emitted, before, stopped, queue, conn, broken, serverVars>>
        /\ thread' \in {"connected", "sleeping"} /\ msg' \in Lines \cup {NoLine}
    BY <1>6, SendEffect
  <2> QED
    BY <2>1, <2>2 DEF TypeOK
<1>7. CASE Flush
  <2>1. Len(file) \in Nat
    BY DEF TypeOK
  <2> QED
    BY <1>7, <2>1 DEF Flush, TypeOK
<1>8. CASE Crash
  <2>1. flushed \in 0 .. Len(file) /\ file \in Seq(Lines)
    BY DEF TypeOK
  <2>2. /\ SubSeq(file, 1, flushed) \in Seq(Lines) /\ Len(SubSeq(file, 1, flushed)) = flushed
        /\ {file[i] : i \in (flushed + 1) .. Len(file)} \subseteq Lines
    BY <2>1, PrefixSeq
  <2>3. /\ file' \in Seq(Lines) /\ flushed' \in 0 .. Len(file') /\ flushed' = flushed
    BY <1>8, <2>1, <2>2 DEF Crash
  <2>4. UNION {ToSet(wire[c]) : c \in Conns} \subseteq Lines
    <3>1. \A c \in Conns : ToSet(wire[c]) \subseteq Lines
      BY DEF TypeOK, ToSet
    <3> QED
      BY <3>1
  <2>5. dropped' \subseteq Lines
    BY <1>8, <2>2, <2>4 DEF Crash, TypeOK
  <2>6. wire' \in [Conns -> Seq(Lines)]
    BY <1>8 DEF Crash
  <2>7. crashes' \in 0 .. MaxCrashes
    <3>1. crashes \in 0 .. MaxCrashes /\ crashes < MaxCrashes /\ crashes' = crashes + 1
      BY <1>8 DEF Crash, TypeOK
    <3> QED
      BY ONLY <3>1, UploadAssumption
  <2>8. broken' \subseteq 1 .. conn' /\ up' \in BOOLEAN
    BY <1>8 DEF Crash, TypeOK
  <2> QED
    BY <1>8, <2>3, <2>5, <2>6, <2>7, <2>8 DEF Crash, TypeOK
<1>9. CASE UNCHANGED vars
  BY <1>9 DEF vars, TypeOK
<1>10. ASSUME NEW c \in Conns, Break(c) PROVE TypeOK'
  <2>1. PICK k \in 0 .. Len(wire[c]) :
            /\ wire' = [wire EXCEPT ![c] = SubSeq(wire[c], 1, k)]
            /\ dropped' = dropped \cup {wire[c][i] : i \in (k + 1) .. Len(wire[c])}
    BY <1>10 DEF Break
  <2>2. wire[c] \in Seq(Lines)
    BY DEF TypeOK
  <2>3. /\ SubSeq(wire[c], 1, k) \in Seq(Lines)
        /\ {wire[c][i] : i \in (k + 1) .. Len(wire[c])} \subseteq Lines
    BY <2>2, PrefixSeq
  <2>4. wire' \in [Conns -> Seq(Lines)] /\ dropped' \subseteq Lines
    BY <2>1, <2>3 DEF TypeOK
  <2>5. broken' \subseteq 1 .. conn
    BY <1>10 DEF Break, Conns, TypeOK
  <2> QED
    BY <1>10, <2>4, <2>5 DEF Break, TypeOK
<1>11. ASSUME NEW c \in Conns, LogPrint(c) PROVE TypeOK'
  <2>1. wire[c] \in Seq(Lines) /\ wire[c] # <<>> /\ file \in Seq(Lines)
        /\ flushed \in 0 .. Len(file)
    BY <1>11 DEF LogPrint, TypeOK
  <2>2. Tail(wire[c]) \in Seq(Lines) /\ Head(wire[c]) \in Lines
    BY <2>1, TailSeq
  <2>3. file' \in Seq(Lines) /\ flushed \in 0 .. Len(file')
    BY <1>11, <2>1, <2>2 DEF LogPrint
  <2>4. wire' = [wire EXCEPT ![c] = Tail(wire[c])]
    BY <1>11 DEF LogPrint
  <2>5. wire' \in [Conns -> Seq(Lines)]
    BY <2>2, <2>4 DEF TypeOK
  <2> QED
    BY <1>11, <2>3, <2>5 DEF LogPrint, TypeOK
<1> QED
  BY Steps, <1>1, <1>2, <1>3, <1>4, <1>5, <1>6, <1>7, <1>8, <1>9, <1>10, <1>11

\* Every step keeps EveryLineIsSomewhere: what leaves one place arrives at the
\* next one or is dropped by a connection or a crash.
LEMMA WhereStep == TypeOK /\ ClientInv /\ EveryLineIsSomewhere /\ [Next]_vars
                    => EveryLineIsSomewhere'
<1> DEFINE Place == ToSet(queue) \cup {msg} \cup OnTheWay \cup ToSet(file) \cup dropped
<1> SUFFICES ASSUME TypeOK, ClientInv, EveryLineIsSomewhere, [Next]_vars
             PROVE  EveryLineIsSomewhere'
  OBVIOUS
<1> USE DEF clientVars, serverVars
<1>a. /\ emitted \in Nat /\ \A n \in Nat : n # NoLine /\ n # End
      /\ \A n \in 1 .. emitted : n \in Place
  BY UploadAssumption DEF TypeOK, EveryLineIsSomewhere
<1>b. \A x : x \in OnTheWay <=> \E c \in Conns : x \in ToSet(wire[c])
  BY DEF OnTheWay
<1>c. \A x : x \in OnTheWay' <=> \E c \in Conns : x \in ToSet(wire'[c])
  BY DEF OnTheWay
<1>1. ASSUME emitted' = emitted, \A n \in Nat : n \in Place => n \in Place'
      PROVE  EveryLineIsSomewhere'
  BY <1>a, <1>1 DEF EveryLineIsSomewhere
<1>2. ASSUME emitted' = emitted, msg' = msg, dropped \subseteq dropped',
             \A n \in Nat : n \in ToSet(queue) => n \in ToSet(queue'),
             \A n \in Nat : n \in OnTheWay \/ n \in ToSet(file)
                            => n \in OnTheWay' \/ n \in ToSet(file') \/ n \in dropped'
      PROVE  EveryLineIsSomewhere'
  <2>1. \A n \in Nat : n \in Place => n \in Place'
    BY <1>2
  <2> QED
    BY <1>1, <1>2, <2>1
<1>3. CASE Emit
  <2>1. emitted + 1 \in Lines
    BY <1>3, UploadAssumption DEF Emit, TypeOK, Lines
  <2>2. ToSet(queue') = ToSet(queue) \cup {emitted + 1}
    BY <1>3, <2>1, AppendSeq DEF Emit, TypeOK
  <2>3. UNCHANGED <<msg, wire, file, dropped>> /\ emitted' = emitted + 1
    BY <1>3 DEF Emit
  <2>4. OnTheWay' = OnTheWay
    BY <2>3 DEF OnTheWay
  <2>5. \A n : n \in Place \/ n = emitted + 1 => n \in Place'
    BY <2>2, <2>3, <2>4
  <2>6. \A n \in 1 .. emitted' : n \in 1 .. emitted \/ n = emitted + 1
    BY <1>a, <2>3
  <2> QED
    BY <1>a, <2>5, <2>6 DEF EveryLineIsSomewhere
<1>4. CASE StopLogClient
  <2>1. ToSet(queue') = ToSet(queue) \cup {End}
    BY <1>4, AppendSeq DEF StopLogClient, TypeOK
  <2>2. UNCHANGED <<emitted, msg, wire, file, dropped>>
    BY <1>4 DEF StopLogClient
  <2> QED
    BY <1>2, <2>1, <2>2 DEF OnTheWay
<1>5. CASE Connect \/ Wake \/ ConnectFails \/ Start \/ Flush \/ UNCHANGED vars
  <2>1. UNCHANGED <<emitted, msg, wire, file, dropped, queue>>
    BY <1>5 DEF Connect, Wake, ConnectFails, Start, Flush, vars
  <2> QED
    BY <1>2, <2>1 DEF OnTheWay
<1>6. CASE Take
  <2>1. ToSet(queue) = ToSet(queue') \cup {Head(queue)}
    BY <1>6, TailSeq DEF Take, TypeOK
  <2>2. UNCHANGED <<emitted, wire, file, dropped>> /\ msg = NoLine
        /\ (Head(queue) = End \/ msg' = Head(queue))
    BY <1>6 DEF Take
  <2>3. OnTheWay' = OnTheWay
    BY <2>2 DEF OnTheWay
  <2>4. \A n \in Nat : n \in Place => n \in Place'
    BY <1>a, <2>1, <2>2, <2>3
  <2> QED
    BY <1>1, <2>2, <2>4
<1>7. CASE Send \/ SendFails
  <2>1. UNCHANGED <<emitted, queue, file>> /\ msg \in Lines /\ conn \in Conns
    BY <1>7, SendEffect
  <2>2. msg' = msg \/ msg \in dropped' \/ msg \in OnTheWay'
    <3>1. CASE dropped' = dropped /\ wire'[conn] = Append(wire[conn], msg)
      <4>1. msg \in ToSet(wire'[conn])
        BY <2>1, <3>1, AppendSeq DEF TypeOK
      <4> QED
        BY <1>c, <2>1, <4>1
    <3> QED
      BY <1>7, <3>1, SendEffect
  <2>3. OnTheWay \subseteq OnTheWay' /\ dropped \subseteq dropped'
    <3>1. CASE dropped' = dropped /\ wire'[conn] = Append(wire[conn], msg)
               /\ \A c \in Conns : c # conn => wire'[c] = wire[c]
      <4>1. ToSet(wire[conn]) \subseteq ToSet(wire'[conn])
        BY <2>1, <3>1, AppendSeq DEF TypeOK
      <4> QED
        BY <1>b, <1>c, <3>1, <4>1
    <3>2. CASE wire' = wire /\ dropped' \in {dropped, dropped \cup {msg}}
      BY <3>2 DEF OnTheWay
    <3> QED
      BY <1>7, <3>1, <3>2, SendEffect
  <2>4. \A n \in Nat : n \in Place => n \in Place'
    BY <2>1, <2>2, <2>3
  <2> QED
    BY <1>1, <2>1, <2>4
<1>8. CASE Crash
  <2>1. ToSet(file) = ToSet(file') \cup {file[i] : i \in (flushed + 1) .. Len(file)}
    BY <1>8, PrefixSeq DEF Crash, TypeOK
  <2>2. /\ UNCHANGED <<emitted, msg, queue>>
        /\ dropped' = dropped \cup {file[i] : i \in (flushed + 1) .. Len(file)} \cup OnTheWay
    BY <1>8 DEF Crash, OnTheWay
  <2> QED
    BY <1>2, <2>1, <2>2
<1>9. ASSUME NEW c \in Conns, Break(c) PROVE EveryLineIsSomewhere'
  <2>1. PICK k \in 0 .. Len(wire[c]) :
            /\ wire' = [wire EXCEPT ![c] = SubSeq(wire[c], 1, k)]
            /\ dropped' = dropped \cup {wire[c][i] : i \in (k + 1) .. Len(wire[c])}
    BY <1>9 DEF Break
  <2>2. wire'[c] = SubSeq(wire[c], 1, k) /\ \A d \in Conns : d # c => wire'[d] = wire[d]
    BY <2>1 DEF TypeOK
  <2>3. wire[c] \in Seq(Lines)
    BY DEF TypeOK
  <2>4. ToSet(wire[c]) \subseteq ToSet(wire'[c]) \cup dropped' /\ dropped \subseteq dropped'
    <3> DEFINE rest == {wire[c][i] : i \in (k + 1) .. Len(wire[c])}
    <3>1. ToSet(wire[c]) = ToSet(SubSeq(wire[c], 1, k)) \cup rest
      BY <2>3, PrefixSeq
    <3>2. dropped' = dropped \cup rest
      BY <2>1
    <3> HIDE DEF rest
    <3> QED
      BY <2>2, <3>1, <3>2
  <2>5. \A n : n \in OnTheWay => n \in OnTheWay' \/ n \in dropped'
    BY <1>b, <1>c, <2>2, <2>4
  <2>6. UNCHANGED <<emitted, msg, queue, file>>
    BY <1>9 DEF Break
  <2> QED
    BY <1>2, <2>4, <2>5, <2>6
<1>10. ASSUME NEW c \in Conns, LogPrint(c) PROVE EveryLineIsSomewhere'
  <2>1. /\ wire' = [wire EXCEPT ![c] = Tail(wire[c])] /\ file' = Append(file, Head(wire[c]))
        /\ wire[c] # <<>> /\ UNCHANGED <<emitted, msg, queue, dropped>>
    BY <1>10 DEF LogPrint
  <2>2. wire'[c] = Tail(wire[c]) /\ \A d \in Conns : d # c => wire'[d] = wire[d]
    BY <2>1 DEF TypeOK
  <2>3. wire[c] \in Seq(Lines) /\ file \in Seq(Lines)
    BY DEF TypeOK
  <2>4. Head(wire[c]) \in Lines /\ ToSet(wire[c]) = ToSet(wire'[c]) \cup {Head(wire[c])}
    BY <2>1, <2>2, <2>3, TailSeq
  <2>5. ToSet(file') = ToSet(file) \cup {Head(wire[c])}
    BY <2>1, <2>3, <2>4, AppendSeq
  <2>6. \A n : n \in OnTheWay => n \in OnTheWay' \/ n \in ToSet(file')
    BY <1>b, <1>c, <2>2, <2>4, <2>5
  <2> QED
    BY <1>2, <2>1, <2>5, <2>6
<1> QED
  BY Steps, <1>3, <1>4, <1>5, <1>6, <1>7, <1>8, <1>9, <1>10

\* Every step keeps ClientInv: a sending that failed is repeated on another
\* connection, for sleeping comes before the next Connect.
LEMMA ClientStep == TypeOK /\ ClientInv /\ [Next]_vars => ClientInv'
<1> SUFFICES ASSUME TypeOK, ClientInv, [Next]_vars PROVE ClientInv'
  OBVIOUS
<1> USE DEF clientVars, serverVars
<1>a. emitted \in Nat /\ conn \in Nat /\ \A i \in DOMAIN queue : queue[i] \in Lines \cup {End}
  BY DEF TypeOK
<1>1. ASSUME UNCHANGED <<emitted, queue, msg, via, conn>>,
             thread' \in {thread, "sleeping", "connecting"}
      PROVE  ClientInv'
  BY <1>1 DEF ClientInv
<1>2. CASE Emit
  <2>1. emitted + 1 \in Lines /\ emitted' = emitted + 1 /\ queue' = Append(queue, emitted + 1)
        /\ UNCHANGED <<msg, via, conn, thread>>
    BY <1>2, UploadAssumption DEF Emit, TypeOK, Lines
  <2>2. /\ DOMAIN queue' = 1 .. Len(queue) + 1 /\ DOMAIN queue = 1 .. Len(queue)
           /\ Len(queue) \in Nat
        /\ \A i \in DOMAIN queue : queue'[i] = queue[i]
        /\ queue'[Len(queue) + 1] = emitted + 1
    BY <2>1, AppendSeq DEF TypeOK
  <2>3. \A i \in DOMAIN queue' : i \in DOMAIN queue \/ i = Len(queue) + 1
    BY <2>2
  <2>4. msg # NoLine => msg \in Nat
    BY SetsOfLines DEF TypeOK
  <2>5. \A i \in DOMAIN queue : queue[i] # End => queue[i] \in Nat /\ queue[i] <= emitted
    BY <1>a, SetsOfLines DEF ClientInv
  <2>6. via[emitted + 1] = {} /\ msg # emitted + 1
    BY <1>a, <2>1, <2>4, SetsOfLines DEF ClientInv
  <2>7. \A i \in DOMAIN queue : queue[i] # emitted + 1
    BY <1>a, <2>1, <2>5, SetsOfLines
  <2>8. \A i \in DOMAIN queue' : queue'[i] # End =>
            queue'[i] <= emitted' /\ queue'[i] # msg /\ via[queue'[i]] = {}
    <3>1. ASSUME NEW i \in DOMAIN queue, queue[i] # End
          PROVE  queue[i] <= emitted' /\ queue[i] # msg /\ via[queue[i]] = {}
      BY <1>a, <2>1, <2>5, <3>1 DEF ClientInv
    <3>2. emitted + 1 <= emitted'
      BY <1>a, <2>1
    <3> QED
      BY <2>2, <2>3, <2>6, <3>1, <3>2
  <2>9. \A i, j \in DOMAIN queue' : i # j /\ queue'[i] = queue'[j] => queue'[i] = End
    BY <2>2, <2>3, <2>7 DEF ClientInv
  <2>10. (msg # NoLine => msg <= emitted') /\ \A n \in Lines : n > emitted' => via[n] = {}
    BY <1>a, <2>1, <2>4, SetsOfLines DEF ClientInv
  <2> QED
    BY <2>1, <2>8, <2>9, <2>10 DEF ClientInv
<1>3. CASE StopLogClient
  <2>1. queue' = Append(queue, End) /\ UNCHANGED <<emitted, msg, via, conn, thread>>
    BY <1>3 DEF StopLogClient
  <2>2. /\ DOMAIN queue' = 1 .. Len(queue) + 1 /\ DOMAIN queue = 1 .. Len(queue)
           /\ Len(queue) \in Nat
        /\ \A i \in DOMAIN queue : queue'[i] = queue[i]
        /\ queue'[Len(queue) + 1] = End
    BY <2>1, AppendSeq DEF TypeOK
  <2>3. \A i \in DOMAIN queue' : i \in DOMAIN queue \/ i = Len(queue) + 1
    BY <2>2
  <2> QED
    BY <2>1, <2>2, <2>3 DEF ClientInv
<1>4. CASE Connect
  <2>1. /\ conn' = conn + 1 /\ conn' \in Conns /\ UNCHANGED <<emitted, queue, msg, via>>
    BY <1>4, <1>a, UploadAssumption DEF Connect, Conns
  <2>2. msg # NoLine => conn' \notin via[msg]
    BY <1>a, <2>1 DEF TypeOK
  <2> QED
    BY <2>1, <2>2 DEF ClientInv
<1>5. CASE Wake \/ ConnectFails \/ Start \/ Flush \/ Crash \/ UNCHANGED vars
  BY <1>1, <1>5 DEF Wake, ConnectFails, Start, Flush, Crash, vars
<1>6. ASSUME NEW c \in Conns, Break(c) \/ LogPrint(c) PROVE ClientInv'
  BY <1>1, <1>6 DEF Break, LogPrint
<1>7. CASE Take
  <2>1. /\ msg = NoLine /\ queue # <<>> /\ queue' = Tail(queue) /\ UNCHANGED <<emitted, via, conn>>
        /\ thread = "connected"
        /\ (Head(queue) = End /\ msg' = NoLine) \/ (Head(queue) # End /\ msg' = Head(queue))
    BY <1>7 DEF Take
  <2>2. /\ Head(queue) = queue[1] /\ 1 \in DOMAIN queue
        /\ \A i \in DOMAIN queue' : queue'[i] = queue[i + 1] /\ i + 1 \in DOMAIN queue /\ i + 1 # 1
        /\ \A i \in DOMAIN queue' : i \in Nat
    BY <2>1, TailSeq DEF TypeOK
  <2>3. \A i, j \in DOMAIN queue' : i # j => i + 1 # j + 1
    BY <2>2
  <2>4. \A i \in DOMAIN queue' : queue'[i] # End => queue'[i] # queue[1]
    BY <2>2 DEF ClientInv
  <2>5. \A i \in DOMAIN queue' : queue'[i] # End => queue'[i] # NoLine
    BY <1>a, <2>2, SetsOfLines
  <2>6. \A i \in DOMAIN queue' : queue'[i] # End =>
            queue'[i] <= emitted /\ queue'[i] # msg' /\ via[queue'[i]] = {}
    BY <2>1, <2>2, <2>4, <2>5 DEF ClientInv
  <2>7. \A i, j \in DOMAIN queue' : i # j /\ queue'[i] = queue'[j] => queue'[i] = End
    BY <2>2, <2>3 DEF ClientInv
  <2>8. msg' # NoLine => msg' <= emitted /\ conn \notin via[msg']
    BY <2>1, <2>2 DEF ClientInv
  <2>9. thread' = "connected" => conn \in Conns
    BY <2>1 DEF ClientInv
  <2> QED
    BY <2>1, <2>6, <2>7, <2>8, <2>9 DEF ClientInv
<1>8. CASE Send \/ SendFails
  <2>1. /\ UNCHANGED <<emitted, queue, conn>> /\ msg \in Lines /\ conn \in Conns
        /\ msg' = NoLine \/ (msg' = msg /\ thread' = "sleeping")
        /\ \A n \in Lines : n # msg => via'[n] = via[n]
    BY <1>8, SendEffect
  <2>2. msg <= emitted
    BY <2>1, SetsOfLines DEF ClientInv
  <2>3. \A n \in Lines : n > emitted => via'[n] = {}
    BY <1>a, <2>1, <2>2, SetsOfLines DEF ClientInv
  <2>4. \A i \in DOMAIN queue : queue[i] # End =>
            queue[i] <= emitted /\ queue[i] # msg' /\ via'[queue[i]] = {}
    BY <1>a, <2>1, SetsOfLines DEF ClientInv
  <2>5. msg' # NoLine => msg' <= emitted /\ thread' # "connected"
    BY <2>1, <2>2
  <2> QED
    BY <2>1, <2>3, <2>4, <2>5 DEF ClientInv
<1> QED
  BY Steps, <1>2, <1>3, <1>4, <1>5, <1>6, <1>7, <1>8

\* What is on its way or in the file are lines.
LEMMA LinesHeld ==
    ASSUME TypeOK
    PROVE  /\ \A c \in Conns : \A i \in DOMAIN wire[c] : wire[c][i] \in Lines
           /\ \A i \in DOMAIN file : file[i] \in Lines
           /\ \A c \in Conns : wire[c] \in Seq(Lines)
           /\ file \in Seq(Lines)
  BY DEF TypeOK

\* The first line of a connection becomes the last one of the file.
LEMMA PrintEffect ==
    ASSUME TypeOK, NEW c \in Conns, LogPrint(c)
    PROVE  /\ UNCHANGED via /\ 1 \in DOMAIN wire[c]
           /\ \A d \in Conns : d # c => wire'[d] = wire[d]
           /\ \A i \in DOMAIN wire'[c] :
                wire'[c][i] = wire[c][i + 1] /\ i + 1 \in DOMAIN wire[c] /\ i + 1 # 1
           /\ \A i, j \in DOMAIN wire'[c] : i + 1 = j + 1 => i = j
           /\ DOMAIN file' = DOMAIN file \cup {Len(file) + 1} /\ Len(file) + 1 \notin DOMAIN file
           /\ \A i \in DOMAIN file : file'[i] = file[i]
           /\ file'[Len(file) + 1] = wire[c][1]
<1>1. /\ wire' = [wire EXCEPT ![c] = Tail(wire[c])] /\ file' = Append(file, Head(wire[c]))
      /\ wire[c] # <<>> /\ via' = via
  BY DEF LogPrint
<1>2. wire'[c] = Tail(wire[c]) /\ \A d \in Conns : d # c => wire'[d] = wire[d]
  BY <1>1 DEF TypeOK
<1>3. wire[c] \in Seq(Lines) /\ file \in Seq(Lines)
  BY LinesHeld
<1>4. /\ Head(wire[c]) = wire[c][1] /\ 1 \in DOMAIN wire[c] /\ Head(wire[c]) \in Lines
      /\ \A i \in DOMAIN wire'[c] :
            wire'[c][i] = wire[c][i + 1] /\ i + 1 \in DOMAIN wire[c] /\ i + 1 # 1
  <2> DEFINE q == wire[c]
             r == wire'[c]
  <2>1. q \in Seq(Lines) /\ q # <<>> /\ r = Tail(q)
    BY <1>1, <1>2, <1>3
  <2> HIDE DEF q, r
  <2>2. /\ Head(q) = q[1] /\ 1 \in DOMAIN q /\ Head(q) \in Lines
        /\ \A i \in DOMAIN r : r[i] = q[i + 1] /\ i + 1 \in DOMAIN q /\ i + 1 # 1
    BY <2>1, TailSeq
  <2> QED
    BY <2>2 DEF q, r
<1>8. \A i \in DOMAIN wire'[c] : i \in Nat
  <2>1. DOMAIN wire'[c] = 1 .. Len(wire[c]) - 1
    BY <1>1, <1>2, <1>3, TailSeq
  <2> QED
    BY <2>1
<1>5. /\ DOMAIN file' = 1 .. Len(file) + 1 /\ DOMAIN file = 1 .. Len(file) /\ Len(file) \in Nat
      /\ \A i \in DOMAIN file : file'[i] = file[i]
      /\ file'[Len(file) + 1] = wire[c][1]
  BY <1>1, <1>3, <1>4, AppendSeq
<1>6. DOMAIN file' = DOMAIN file \cup {Len(file) + 1} /\ Len(file) + 1 \notin DOMAIN file
  BY <1>5
<1>7. \A i, j \in DOMAIN wire'[c] : i + 1 = j + 1 => i = j
  BY <1>8
<1> QED
  BY <1>1, <1>2, <1>4, <1>5, <1>6, <1>7

\* The other steps write to no connection and only take away, from the end.
LEMMA QuietEffect ==
    ASSUME TypeOK,
           \/ Emit \/ StopLogClient \/ Connect \/ Wake \/ Take \/ ConnectFails
           \/ Flush \/ Crash \/ Start \/ UNCHANGED vars
           \/ \E c \in Conns : Break(c)
    PROVE  /\ via' = via
           /\ \A c \in Conns : \A i \in DOMAIN wire'[c] :
                i \in DOMAIN wire[c] /\ wire'[c][i] = wire[c][i]
           /\ \A i \in DOMAIN file' : i \in DOMAIN file /\ file'[i] = file[i]
<1> USE DEF clientVars, serverVars
<1>1. CASE \/ Emit \/ StopLogClient \/ Connect \/ Wake \/ Take \/ ConnectFails
           \/ Flush \/ Start \/ UNCHANGED vars
  BY <1>1 DEF Emit, StopLogClient, Connect, Wake, Take, ConnectFails, Flush, Start, vars
<1>2. CASE Crash
  <2>1. via' = via /\ file' = SubSeq(file, 1, flushed) /\ wire' = [c \in Conns |-> <<>>]
    BY <1>2 DEF Crash
  <2>2. file \in Seq(Lines) /\ flushed \in 0 .. Len(file)
    BY DEF TypeOK
  <2>3. \A i \in DOMAIN file' : i \in DOMAIN file /\ file'[i] = file[i]
    BY <2>1, <2>2, PrefixSeq
  <2>4. \A c \in Conns : DOMAIN wire'[c] = {}
    BY <2>1
  <2> QED
    BY <2>1, <2>3, <2>4
<1>3. ASSUME NEW c \in Conns, Break(c)
      PROVE  /\ via' = via /\ file' = file
             /\ \A d \in Conns : \A i \in DOMAIN wire'[d] :
                    i \in DOMAIN wire[d] /\ wire'[d][i] = wire[d][i]
  <2>1. PICK k \in 0 .. Len(wire[c]) : wire' = [wire EXCEPT ![c] = SubSeq(wire[c], 1, k)]
    BY <1>3 DEF Break
  <2>2. wire'[c] = SubSeq(wire[c], 1, k) /\ \A d \in Conns : d # c => wire'[d] = wire[d]
    BY <2>1 DEF TypeOK
  <2>3. wire[c] \in Seq(Lines)
    BY LinesHeld
  <2>4. \A i \in DOMAIN wire'[c] : i \in DOMAIN wire[c] /\ wire'[c][i] = wire[c][i]
    BY <2>2, <2>3, PrefixSeq
  <2>5. via' = via /\ file' = file
    BY <1>3 DEF Break
  <2> QED
    BY <2>2, <2>4, <2>5
<1> QED
  BY <1>1, <1>2, <1>3

\* A message that is written is the last one of the latest connection.
LEMMA WriteEffect ==
    ASSUME TypeOK, ClientInv, Send \/ SendFails, ~(wire' = wire /\ via' = via)
    PROVE  /\ msg \in Lines /\ conn \in Conns /\ conn \notin via[msg]
           /\ \A c \in Conns : c # conn => wire'[c] = wire[c]
           /\ DOMAIN wire'[conn] = DOMAIN wire[conn] \cup {Len(wire[conn]) + 1}
           /\ \A i \in DOMAIN wire[conn] : wire'[conn][i] = wire[conn][i]
           /\ wire'[conn][Len(wire[conn]) + 1] = msg
           /\ via'[msg] = via[msg] \cup {conn}
           /\ \A n \in Lines : n # msg => via'[n] = via[n]
<1>1. /\ msg \in Lines /\ conn \in Conns /\ conn \notin via[msg]
      /\ wire'[conn] = Append(wire[conn], msg)
      /\ \A c \in Conns : c # conn => wire'[c] = wire[c]
      /\ via'[msg] = via[msg] \cup {conn}
      /\ \A n \in Lines : n # msg => via'[n] = via[n]
  BY SendEffect
<1>2. wire[conn] \in Seq(Lines)
  BY <1>1, LinesHeld
<1>3. /\ DOMAIN wire'[conn] = 1 .. Len(wire[conn]) + 1 /\ DOMAIN wire[conn] = 1 .. Len(wire[conn])
      /\ Len(wire[conn]) \in Nat
      /\ \A i \in DOMAIN wire[conn] : wire'[conn][i] = wire[conn][i]
      /\ wire'[conn][Len(wire[conn]) + 1] = msg
  BY <1>1, <1>2, AppendSeq
<1>4. DOMAIN wire'[conn] = DOMAIN wire[conn] \cup {Len(wire[conn]) + 1}
  BY <1>3
<1> QED
  BY <1>1, <1>3, <1>4

(***************************************************************************)
(* The connections and the file.                                           *)
(***************************************************************************)

\* Every step keeps WireInv.
LEMMA WireStep == TypeOK /\ ClientInv /\ WireInv /\ FileInv /\ [Next]_vars => WireInv'
<1> SUFFICES ASSUME TypeOK, ClientInv, WireInv, FileInv, [Next]_vars PROVE WireInv'
  OBVIOUS
<1>1. ASSUME via' = via,
             \A c \in Conns : \A i \in DOMAIN wire'[c] :
                i \in DOMAIN wire[c] /\ wire'[c][i] = wire[c][i],
             \A i \in DOMAIN file' : i \in DOMAIN file /\ file'[i] = file[i]
      PROVE  WireInv'
  BY <1>1 DEF WireInv
<1>2. CASE Send \/ SendFails
  <2>1. file' = file
    BY <1>2, SendEffect DEF serverVars
  <2>2. CASE wire' = wire /\ via' = via
    BY <1>1, <2>1, <2>2
  <2>3. CASE ~(wire' = wire /\ via' = via)
    <3> DEFINE last == Len(wire[conn]) + 1
    <3>1. /\ msg \in Lines /\ conn \in Conns /\ conn \notin via[msg]
          /\ \A c \in Conns : c # conn => wire'[c] = wire[c]
          /\ DOMAIN wire'[conn] = DOMAIN wire[conn] \cup {last}
          /\ \A i \in DOMAIN wire[conn] : wire'[conn][i] = wire[conn][i]
          /\ wire'[conn][last] = msg
          /\ via'[msg] = via[msg] \cup {conn}
          /\ \A n \in Lines : n # msg => via'[n] = via[n]
      BY <1>2, <2>3, WriteEffect
    <3> HIDE DEF last
    <3>2. \A n \in Lines : via[n] \subseteq via'[n]
      BY <3>1
    <3>3. \A i \in DOMAIN wire[conn] : wire[conn][i] # msg
      BY <3>1 DEF WireInv
    <3>4. ASSUME NEW c \in Conns, NEW i \in DOMAIN wire[c]
          PROVE  /\ c \in via'[wire[c][i]]
                 /\ \A j \in DOMAIN file : file[j] = wire[c][i] => via'[file[j]] # {c}
      <4>1. wire[c][i] \in Lines /\ c \in via[wire[c][i]]
        BY LinesHeld DEF WireInv
      <4>2. CASE wire[c][i] = msg
        <5>1. c # conn
          BY <3>1, <4>1, <4>2
        <5> QED
          BY <3>1, <3>2, <4>1, <4>2, <5>1
      <4>3. CASE wire[c][i] # msg
        BY <3>1, <4>1, <4>3 DEF WireInv
      <4> QED
        BY <4>2, <4>3
    <3>5. \A j \in DOMAIN file : file[j] = msg => via'[file[j]] # {conn}
      BY <3>1 DEF FileInv
    <3>6. \A i, j \in DOMAIN wire'[conn] : wire'[conn][i] = wire'[conn][j] => i = j
      BY <3>1, <3>3 DEF WireInv
    <3>7. ASSUME NEW i \in DOMAIN wire'[conn]
          PROVE  /\ conn \in via'[wire'[conn][i]]
                 /\ \A j \in DOMAIN file : file[j] = wire'[conn][i] => via'[file[j]] # {conn}
      BY <3>1, <3>4, <3>5
    <3>8. ASSUME NEW c \in Conns, c # conn, NEW i \in DOMAIN wire'[c]
          PROVE  /\ c \in via'[wire'[c][i]]
                 /\ \A j \in DOMAIN wire'[c] : wire'[c][i] = wire'[c][j] => i = j
                 /\ \A j \in DOMAIN file : file[j] = wire'[c][i] => via'[file[j]] # {c}
      BY <3>1, <3>4, <3>8 DEF WireInv
    <3> QED
      BY <2>1, <3>6, <3>7, <3>8 DEF WireInv
  <2> QED
    BY <2>2, <2>3
<1>3. ASSUME NEW c \in Conns, LogPrint(c) PROVE WireInv'
  <2> DEFINE next == Len(file) + 1
  <2>1. /\ via' = via /\ 1 \in DOMAIN wire[c]
        /\ \A d \in Conns : d # c => wire'[d] = wire[d]
        /\ \A i \in DOMAIN wire'[c] :
                wire'[c][i] = wire[c][i + 1] /\ i + 1 \in DOMAIN wire[c] /\ i + 1 # 1
        /\ \A i, j \in DOMAIN wire'[c] : i + 1 = j + 1 => i = j
        /\ DOMAIN file' = DOMAIN file \cup {next}
        /\ \A i \in DOMAIN file : file'[i] = file[i]
        /\ file'[next] = wire[c][1]
    BY <1>3, PrintEffect
  <2> HIDE DEF next
  <2>2. ASSUME NEW i \in DOMAIN wire'[c]
        PROVE  /\ c \in via[wire'[c][i]]
               /\ \A j \in DOMAIN wire'[c] : wire'[c][i] = wire'[c][j] => i = j
               /\ \A j \in DOMAIN file : file[j] = wire'[c][i] => via[file[j]] # {c}
               /\ wire'[c][i] # wire[c][1]
    BY <2>1 DEF WireInv
  <2>3. c \in via[wire[c][1]]
    BY <2>1 DEF WireInv
  <2>4. ASSUME NEW i \in DOMAIN wire'[c]
        PROVE  \A j \in DOMAIN file' : file'[j] = wire'[c][i] => via[file'[j]] # {c}
    BY <2>1, <2>2
  <2>5. ASSUME NEW d \in Conns, d # c, NEW i \in DOMAIN wire'[d]
        PROVE  /\ d \in via[wire'[d][i]]
               /\ \A j \in DOMAIN wire'[d] : wire'[d][i] = wire'[d][j] => i = j
               /\ \A j \in DOMAIN file' : file'[j] = wire'[d][i] => via[file'[j]] # {d}
    BY <2>1, <2>3, <2>5 DEF WireInv
  <2> QED
    BY <2>1, <2>2, <2>4, <2>5 DEF WireInv
<1> QED
  BY Steps, QuietEffect, <1>1, <1>2, <1>3

\* Every step keeps FileInv: a line that is written again came from another
\* connection.
LEMMA FileStep == TypeOK /\ ClientInv /\ WireInv /\ FileInv /\ [Next]_vars => FileInv'
<1> SUFFICES ASSUME TypeOK, ClientInv, WireInv, FileInv, [Next]_vars PROVE FileInv'
  OBVIOUS
<1>1. ASSUME \A n \in Lines : via[n] \subseteq via'[n],
             \A i \in DOMAIN file' : i \in DOMAIN file /\ file'[i] = file[i]
      PROVE  FileInv'
  BY <1>1, LinesHeld DEF FileInv
<1>2. CASE Send \/ SendFails
  <2>1. file' = file
    BY <1>2, SendEffect DEF serverVars
  <2>2. \A n \in Lines : via[n] \subseteq via'[n]
    BY <1>2, WriteEffect, SendEffect
  <2> QED
    BY <1>1, <2>1, <2>2
<1>3. ASSUME NEW c \in Conns, LogPrint(c) PROVE FileInv'
  <2> DEFINE next == Len(file) + 1
  <2>1. /\ via' = via /\ 1 \in DOMAIN wire[c]
        /\ DOMAIN file' = DOMAIN file \cup {next}
        /\ \A i \in DOMAIN file : file'[i] = file[i]
        /\ file'[next] = wire[c][1]
    BY <1>3, PrintEffect
  <2> HIDE DEF next
  <2>2. c \in via[wire[c][1]]
    BY <2>1 DEF WireInv
  <2>3. \A i \in DOMAIN file : file[i] = wire[c][1] => via[file[i]] # {c}
    BY <2>1 DEF WireInv
  <2>4. \A i \in DOMAIN file : file[i] = wire[c][1] => \E d, e \in via[file[i]] : d # e
    BY <2>2, <2>3
  <2> QED
    BY <2>1, <2>2, <2>4 DEF FileInv
<1> QED
  BY Steps, QuietEffect, <1>1, <1>2, <1>3

(***************************************************************************)
(* The invariant, and what follows.                                        *)
(***************************************************************************)

\* The invariant holds at the start.
LEMMA InitInv == Init => UploadInv
<1> SUFFICES ASSUME Init PROVE UploadInv
  OBVIOUS
<1> USE UploadAssumption DEF Init
<1>1. TypeOK
  <2>1. /\ emitted \in 0 .. MaxLines /\ conn \in 0 .. MaxConns /\ crashes \in 0 .. MaxCrashes
    OBVIOUS
  <2>2. /\ queue \in Seq(Lines \cup {End}) /\ file \in Seq(Lines) /\ flushed \in 0 .. Len(file)
        /\ wire \in [Conns -> Seq(Lines)]
    OBVIOUS
  <2>3. via \in [Lines -> SUBSET (1 .. conn)] /\ broken \subseteq 1 .. conn
        /\ dropped \subseteq Lines
    OBVIOUS
  <2>4. stopped \in BOOLEAN /\ up \in BOOLEAN /\ before \subseteq Lines
    OBVIOUS
  <2> QED
    BY <2>1, <2>2, <2>3, <2>4 DEF TypeOK
<1>2. EveryLineIsSomewhere
  BY DEF EveryLineIsSomewhere
<1>3. ClientInv
  BY DEF ClientInv
<1>4. WireInv /\ FileInv
  BY DEF WireInv, FileInv
<1> QED
  BY <1>1, <1>2, <1>3, <1>4 DEF UploadInv

\* Every step keeps the invariant.
LEMMA UploadStep == UploadInv /\ [Next]_vars => UploadInv'
  BY TypeStep, WhereStep, ClientStep, WireStep, FileStep DEF UploadInv

\* A set with two members has more than one.
LEMMA TwoMembers ==
    ASSUME NEW k \in Nat, NEW S \in SUBSET (1 .. k), NEW a \in S, NEW b \in S, a # b
    PROVE  Cardinality(S) > 1
<1>1. IsFiniteSet(1 .. k)
  BY FS_Interval
<1>2. IsFiniteSet(S)
  BY <1>1, FS_Subset
<1>3. IsFiniteSet(S \ {a}) /\ Cardinality(S \ {a}) = Cardinality(S) - 1
  BY <1>2, FS_RemoveElement
<1>4. Cardinality(S \ {a}) # 0
  BY <1>3, FS_EmptySet
<1>5. Cardinality(S) \in Nat /\ Cardinality(S \ {a}) \in Nat
  BY <1>2, <1>3, FS_CardinalityType
<1> QED
  BY <1>3, <1>4, <1>5

\* The queue, the connections and the file fit each other in every behaviour.
THEOREM Invariant == Spec => []UploadInv
  BY InitInv, UploadStep, PTL DEF Spec

\* log_client: the message that could not be sent is kept, and no line is lost
\* but with a connection or the server's buffer.
THEOREM Somewhere == Spec => []EveryLineIsSomewhere
<1>1. UploadInv => EveryLineIsSomewhere
  BY DEF UploadInv
<1> QED
  BY <1>1, Invariant, PTL

\* log_client: the kept message is sent again only on the next connection, so
\* that a line is in the file twice only after a sending that failed too late.
THEOREM Repeated == Spec => []RepeatedMeansResent
<1>1. UploadInv => RepeatedMeansResent
  <2> SUFFICES ASSUME UploadInv, NEW i \in DOMAIN file, NEW j \in DOMAIN file, i < j,
                      file[i] = file[j]
               PROVE  Cardinality(via[file[i]]) > 1
    BY DEF RepeatedMeansResent
  <2>1. i # j
    <3>1. i \in Nat /\ j \in Nat
      BY DEF UploadInv, TypeOK
    <3> QED
      BY <3>1
  <2>2. \E c, d \in via[file[i]] : c # d
    BY <2>1 DEF UploadInv, FileInv
  <2>3. conn \in Nat /\ via[file[i]] \in SUBSET (1 .. conn)
    BY LinesHeld DEF UploadInv, TypeOK
  <2> QED
    BY <2>2, <2>3, TwoMembers
<1> QED
  BY <1>1, Invariant, PTL

=============================================================================
