--------------------------- MODULE LogViewProofs ----------------------------
(***************************************************************************)
(* Proofs about LogView, for any number of logs, lines, clicks and crashes *)
(* of the server: the page misses no readable line of its log, shows none  *)
(* more than twice, and lists every log.                                   *)
(*                                                                         *)
(* ViewInv is inductive.  When the requests have been answered the current *)
(* log is subscribed to (RequestInv), so a line of its file is in the      *)
(* queue, or on the page, or in a message, and no archive comes later that *)
(* lacks it (GapInv).  A line is sent on its own once (OnceInv), so what   *)
(* follows the archive on the page has no line twice (ShownInv).           *)
(***************************************************************************)
EXTENDS LogView, TLAPS, FiniteSetTheorems, WellFoundedInduction

(***************************************************************************)
(* Sequences.                                                              *)
(***************************************************************************)

\* A set of natural numbers that is not empty has a least one.
LEMMA MinProperties ==
    ASSUME NEW T \in SUBSET Nat, T # {}
    PROVE  Min(T) \in T /\ \A y \in T : Min(T) <= y
<1> DEFINE R == {p \in Nat \X Nat : p[1] < p[2]}
<1>1. IsWellFoundedOn(R, Nat)
  BY NatLessThanWellFounded DEF OpToRel
<1> HIDE DEF R
<1>2. PICK x \in T : \A y \in T : ~(<<y, x>> \in R)
  BY <1>1, WFMin
<1>3. ASSUME NEW y \in T PROVE x <= y
  <2>1. x \in Nat /\ y \in Nat
    OBVIOUS
  <2>2. y < x => <<y, x>> \in R
    BY <2>1 DEF R
  <2> QED
    BY <1>2, <2>1, <2>2
<1> QED
  BY <1>3 DEF Min

\* The elements of a sequence.
LEMMA Elements ==
    ASSUME NEW S, NEW s \in Seq(S)
    PROVE  /\ DOMAIN s = 1 .. Len(s) /\ Len(s) \in Nat
           /\ \A i \in DOMAIN s : s[i] \in S /\ s[i] \in ToSet(s)
           /\ \A x : x \in ToSet(s) <=> \E i \in DOMAIN s : s[i] = x
           /\ ToSet(s) \subseteq S
  BY DEF ToSet

\* A sequence with one element more.
LEMMA Appended ==
    ASSUME NEW S, NEW s \in Seq(S), NEW x \in S
    PROVE  /\ Append(s, x) \in Seq(S) /\ s \o <<x>> = Append(s, x)
           /\ Len(Append(s, x)) = Len(s) + 1
           /\ DOMAIN Append(s, x) = (DOMAIN s) \cup {Len(s) + 1}
           /\ Len(s) + 1 \notin DOMAIN s
           /\ \A i \in DOMAIN s : Append(s, x)[i] = s[i] /\ i < Len(s) + 1
           /\ Append(s, x)[Len(s) + 1] = x
           /\ ToSet(Append(s, x)) = ToSet(s) \cup {x}
<1>1. /\ Append(s, x) \in Seq(S) /\ s \o <<x>> = Append(s, x)
      /\ Len(Append(s, x)) = Len(s) + 1 /\ Len(s) \in Nat
  OBVIOUS
<1>2. /\ DOMAIN Append(s, x) = 1 .. Len(s) + 1 /\ DOMAIN s = 1 .. Len(s)
      /\ \A i \in 1 .. Len(s) : Append(s, x)[i] = s[i]
      /\ Append(s, x)[Len(s) + 1] = x
  OBVIOUS
<1>3. 1 .. Len(s) + 1 = (1 .. Len(s)) \cup {Len(s) + 1}
  BY <1>1
<1>4. ToSet(Append(s, x)) = ToSet(s) \cup {x}
  BY <1>2, <1>3 DEF ToSet
<1> QED
  BY <1>1, <1>2, <1>3, <1>4

\* A sequence without its first element.
LEMMA Shifted ==
    ASSUME NEW S, NEW s \in Seq(S), s # <<>>
    PROVE  /\ Tail(s) \in Seq(S) /\ Head(s) = s[1] /\ 1 \in DOMAIN s /\ Head(s) \in S
           /\ Len(Tail(s)) = Len(s) - 1
           /\ \A i \in DOMAIN Tail(s) : i + 1 \in DOMAIN s /\ Tail(s)[i] = s[i + 1] /\ i \in Nat
           /\ \A i \in DOMAIN s : i # 1 => i - 1 \in DOMAIN Tail(s) /\ Tail(s)[i - 1] = s[i]
           /\ ToSet(s) = ToSet(Tail(s)) \cup {Head(s)}
<1>1. /\ Tail(s) \in Seq(S) /\ Head(s) = s[1] /\ Len(s) \in Nat \ {0} /\ Head(s) \in S
      /\ Len(Tail(s)) = Len(s) - 1
  OBVIOUS
<1>2. /\ DOMAIN s = 1 .. Len(s) /\ DOMAIN Tail(s) = 1 .. Len(s) - 1
      /\ \A i \in 1 .. Len(s) - 1 : Tail(s)[i] = s[i + 1]
  BY <1>1
<1>3. \A i \in DOMAIN Tail(s) : i + 1 \in DOMAIN s /\ Tail(s)[i] = s[i + 1] /\ i \in Nat
  BY <1>1, <1>2
<1>4. \A i \in DOMAIN s : i # 1 => i - 1 \in DOMAIN Tail(s) /\ Tail(s)[i - 1] = s[i]
  BY <1>1, <1>2
<1>5. 1 \in DOMAIN s
  BY <1>1, <1>2
<1>6. ToSet(s) = ToSet(Tail(s)) \cup {Head(s)}
  <2>1. \A x \in ToSet(s) : x \in ToSet(Tail(s)) \cup {Head(s)}
    BY <1>1, <1>4 DEF ToSet
  <2>2. \A x \in ToSet(Tail(s)) : x \in ToSet(s)
    BY <1>3 DEF ToSet
  <2>3. Head(s) \in ToSet(s)
    BY <1>1, <1>5 DEF ToSet
  <2> QED
    BY <2>1, <2>2, <2>3
<1> QED
  BY <1>1, <1>3, <1>4, <1>5, <1>6

\* A sequence with two elements more.
LEMMA TwoMore ==
    ASSUME NEW S, NEW s \in Seq(S), NEW x \in S, NEW y \in S
    PROVE  /\ s \o <<x, y>> \in Seq(S) /\ Len(s \o <<x, y>>) = Len(s) + 2 /\ Len(s) \in Nat
           /\ (s \o <<x, y>>)[Len(s) + 1] = x /\ (s \o <<x, y>>)[Len(s) + 2] = y
<1>1. s \o <<x, y>> \in Seq(S) /\ Len(s \o <<x, y>>) = Len(s) + 2 /\ Len(s) \in Nat
  OBVIOUS
<1>2. (s \o <<x, y>>)[Len(s) + 1] = x
  BY <1>1
<1>3. (s \o <<x, y>>)[Len(s) + 2] = y
  BY <1>1
<1> QED
  BY <1>1, <1>2, <1>3

\* What the page can read of a file: everything before the first torn line.
LEMMA ParsedIs ==
    ASSUME NEW S, NEW f \in Seq(S)
    PROVE  \E k \in 0 .. Len(f) :
            /\ Parsed(f) = SubSeq(f, 1, k)
            /\ \A i \in 1 .. k : f[i] # Torn
            /\ k < Len(f) => f[k + 1] = Torn
<1> DEFINE bad == {i \in DOMAIN f : f[i] = Torn}
<1>1. Len(f) \in Nat /\ DOMAIN f = 1 .. Len(f)
  OBVIOUS
<1>2. CASE bad = {}
  <2>1. Parsed(f) = SubSeq(f, 1, Len(f))
    BY <1>2 DEF Parsed
  <2>2. Len(f) \in 0 .. Len(f) /\ ~(Len(f) < Len(f))
    BY <1>1
  <2>3. \A i \in 1 .. Len(f) : f[i] # Torn
    BY <1>1, <1>2
  <2> QED
    BY <2>1, <2>2, <2>3
<1>3. CASE bad # {}
  <2>1. bad \in SUBSET Nat
    BY <1>1
  <2>2. Min(bad) \in bad /\ \A y \in bad : Min(bad) <= y
    BY <1>3, <2>1, MinProperties
  <2>3. Parsed(f) = SubSeq(f, 1, Min(bad) - 1)
    BY <1>3 DEF Parsed
  <2> DEFINE m == Min(bad)
  <2> HIDE DEF m
  <2>4. m \in 1 .. Len(f) /\ f[m] = Torn
    BY <1>1, <2>2 DEF m
  <2>5. ASSUME NEW i \in 1 .. m - 1 PROVE f[i] # Torn
    <3>1. i \in DOMAIN f /\ ~(m <= i)
      BY <1>1, <2>4
    <3> QED
      BY <2>2, <3>1 DEF m
  <2>6. m - 1 \in 0 .. Len(f) /\ (m - 1) + 1 = m
    BY <1>1, <2>4
  <2> QED
    BY <2>3, <2>4, <2>5, <2>6 DEF m
<1> QED
  BY <1>2, <1>3

LEMMA ParsedProperties ==
    ASSUME NEW S, NEW f \in Seq(S)
    PROVE  /\ Parsed(f) \in Seq(S \ {Torn})
           /\ \A n : n \in ToSet(Parsed(f)) <=>
                \E i \in DOMAIN f : f[i] = n /\ \A k \in DOMAIN f : k <= i => f[k] # Torn
           /\ OnceIn(f) => \A i, k \in DOMAIN Parsed(f) : Parsed(f)[i] = Parsed(f)[k] => i = k
<1>1. PICK k \in 0 .. Len(f) :
            /\ Parsed(f) = SubSeq(f, 1, k)
            /\ \A i \in 1 .. k : f[i] # Torn
            /\ k < Len(f) => f[k + 1] = Torn
  BY ParsedIs
<1>2. k \in Nat /\ Len(f) \in Nat /\ k <= Len(f) /\ DOMAIN f = 1 .. Len(f)
  BY <1>1
<1>3. /\ DOMAIN Parsed(f) = 1 .. k /\ Len(Parsed(f)) = k
      /\ \A i \in 1 .. k : Parsed(f)[i] = f[i] /\ f[i] \in S
  BY <1>1, <1>2
<1>4. Parsed(f) \in Seq(S \ {Torn})
  BY <1>1, <1>2, <1>3
<1>5. ASSUME NEW n
      PROVE  n \in ToSet(Parsed(f)) <=>
                \E i \in DOMAIN f : f[i] = n /\ \A j \in DOMAIN f : j <= i => f[j] # Torn
  <2>1. n \in ToSet(Parsed(f)) <=> \E i \in 1 .. k : f[i] = n
    BY <1>3 DEF ToSet
  <2>2. ASSUME NEW i \in 1 .. k, f[i] = n
        PROVE  i \in DOMAIN f /\ \A j \in DOMAIN f : j <= i => f[j] # Torn
    BY <1>1, <1>2, <2>2
  <2>3. ASSUME NEW i \in DOMAIN f, \A j \in DOMAIN f : j <= i => f[j] # Torn
        PROVE  i \in 1 .. k
    <3>1. CASE ~(k < Len(f))
      BY <1>2, <3>1
    <3>2. CASE k < Len(f)
      <4>1. f[k + 1] = Torn /\ k + 1 \in DOMAIN f
        BY <1>1, <1>2, <3>2
      <4>2. ~(k + 1 <= i)
        BY <2>3, <4>1
      <4>3. i \in Nat /\ 1 <= i
        BY <1>2
      <4>4. k \in Nat
        BY <1>2
      <4>5. i \in 1 .. k
        BY ONLY <4>2, <4>3, <4>4
      <4> QED
        BY ONLY <4>5
    <3> QED
      BY <3>1, <3>2
  <2> QED
    BY <2>1, <2>2, <2>3
<1>6. ASSUME OnceIn(f), NEW i \in 1 .. k, NEW j \in 1 .. k, Parsed(f)[i] = Parsed(f)[j]
      PROVE  i = j
  BY <1>1, <1>2, <1>3, <1>6 DEF OnceIn
<1> QED
  BY <1>3, <1>4, <1>5, <1>6

(***************************************************************************)
(* The steps.                                                              *)
(***************************************************************************)

LEMMA Steps ==
    ASSUME [Next]_vars
    PROVE  \/ Crash \/ Start \/ ClosePage \/ SubscribeLogList \/ Subscribe \/ Unsubscribe
           \/ GetLog \/ ForwardList \/ OpenPage \/ ShowList \/ ShowLine \/ ShowArchive
           \/ UNCHANGED vars
           \/ \E l \in Logs : LogPrint(l) \/ Flush(l) \/ Forward(l) \/ Click(l)
  BY DEF Next, Handler, OnMessage

\* What a crash leaves of a file has no line twice either.
LEMMA CrashLeaves ==
    ASSUME TypeOK, NEW S, \A l \in Logs : file[l] \in Seq(S) /\ OnceIn(file[l]), Torn \in S, Crash
    PROVE  /\ file' \in [Logs -> Seq(S)] /\ \A l \in Logs : OnceIn(file'[l])
           /\ flushed' = [l \in Logs |-> Len(file'[l])]
<1>1. /\ file' \in [Logs -> UNION {AfterCrash(l) : l \in Logs}]
      /\ \A l \in Logs : file'[l] \in AfterCrash(l)
      /\ flushed' = [l \in Logs |-> Len(file'[l])]
  BY DEF Crash
<1>2. ASSUME NEW l \in Logs, NEW f \in AfterCrash(l) PROVE f \in Seq(S) /\ OnceIn(f)
  <2> DEFINE n == flushed[l]  kept == SubSeq(file[l], 1, n)
  <2>1. n \in Nat /\ n <= Len(file[l]) /\ Len(file[l]) \in Nat /\ file[l] \in Seq(S)
        /\ DOMAIN file[l] = 1 .. Len(file[l])
    BY DEF TypeOK
  <2>2. /\ kept \in Seq(S) /\ Len(kept) = n /\ DOMAIN kept = 1 .. n
        /\ \A i \in 1 .. n : kept[i] = file[l][i]
    BY <2>1
  <2>3. OnceIn(kept)
    BY <2>1, <2>2 DEF OnceIn
  <2>4. f = kept \/ f = Append(kept, Torn)
    BY <1>2 DEF AfterCrash
  <2> HIDE DEF n, kept
  <2>5. Append(kept, Torn) \in Seq(S) /\ OnceIn(Append(kept, Torn))
    <3>1. /\ Append(kept, Torn) \in Seq(S)
          /\ DOMAIN Append(kept, Torn) = (DOMAIN kept) \cup {Len(kept) + 1}
          /\ \A i \in DOMAIN kept : Append(kept, Torn)[i] = kept[i]
          /\ Append(kept, Torn)[Len(kept) + 1] = Torn
      BY <2>2, Appended
    <3> QED
      BY <2>3, <3>1 DEF OnceIn
  <2> QED
    BY <2>2, <2>3, <2>4, <2>5
<1>3. ASSUME NEW l \in Logs PROVE file'[l] \in Seq(S) /\ OnceIn(file'[l])
  BY <1>1, <1>2
<1> QED
  BY <1>1, <1>3

\* What a message on its way is.
LEMMA MessageIs ==
    ASSUME NEW m \in Message
    PROVE  \/ m.type = "list" /\ m.log = NoLog /\ m.data \subseteq known
           \/ m.type = "log" /\ m.log \in Logs /\ \E n \in 1 .. lines : m.data = <<n>>
           \/ m.type = "archive" /\ m.log \in Logs /\ m.data \in Seq((1 .. lines) \cup {Torn})
  BY DEF Message

\* Lines are numbers up to MaxLines.
LEMMA LinesAre ==
    ASSUME TypeOK
    PROVE  lines \in Nat /\ 1 .. lines \subseteq Line /\ Torn \notin 1 .. lines /\ Torn \notin Line
  BY ViewAssumption DEF TypeOK, Line

\* Every step keeps the types.
LEMMA TypeStep ==
    ASSUME TypeOK, MessageInv, OnceInv, [Next]_vars
    PROVE  TypeOK'
<1> USE DEF logVars, connVars, pageVars
<1> DEFINE Req == [type : {"list", "subscribe", "unsubscribe", "get"}, log : Logs \cup {NoLog}]
<1>a. /\ {MaxLines, MaxClicks, MaxCrashes} \subseteq Nat
      /\ lines \in Nat /\ 1 .. lines \subseteq Line /\ rep \in Seq(Message) /\ req \in Seq(Req)
  BY ViewAssumption, LinesAre DEF MessageInv, TypeOK
<1>b. ASSUME NEW l \in known, SetCurrentLog(l)
      PROVE  req' \in Seq(Req) /\ current' \in Logs /\ view' \in Seq(Line)
  <2>1. l \in Logs
    BY DEF TypeOK
  <2>2. Ask("unsubscribe", current) \in Req /\ Ask("subscribe", l) \in Req /\ Ask("get", l) \in Req
    BY <2>1 DEF Ask, TypeOK
  <2> HIDE DEF Req
  <2>3. /\ (IF current # NoLog THEN <<Ask("unsubscribe", current)>> ELSE <<>>) \in Seq(Req)
        /\ <<Ask("subscribe", l), Ask("get", l)>> \in Seq(Req)
    BY <2>2
  <2>4. req' \in Seq(Req)
    BY <1>a, <1>b, <2>3 DEF SetCurrentLog
  <2> QED
    BY <1>b, <2>1, <2>4 DEF SetCurrentLog
<1>c. \A S : <<>> \in Seq(S)
  OBVIOUS
<1>1. ASSUME NEW l \in Logs, LogPrint(l) PROVE TypeOK'
  <2>1. lines + 1 \in Line /\ lines' \in 0 .. MaxLines
    BY <1>1, <1>a DEF LogPrint, Line
  <2>2. file' \in [Logs -> Seq(Line \cup {Torn})] /\ \A k \in Logs : Len(file[k]) <= Len(file'[k])
    <3>1. file' = [file EXCEPT ![l] = Append(file[l], lines + 1)]
      BY <1>1 DEF LogPrint
    <3>2. file[l] \in Seq(Line \cup {Torn}) /\ lines + 1 \in Line \cup {Torn}
      BY <2>1 DEF TypeOK
    <3>3. /\ Append(file[l], lines + 1) \in Seq(Line \cup {Torn})
          /\ Len(Append(file[l], lines + 1)) = Len(file[l]) + 1
      BY <3>2, Appended
    <3>4. \A k \in Logs : Len(file[k]) \in Nat
      BY DEF TypeOK
    <3> QED
      BY <3>1, <3>3, <3>4 DEF TypeOK
  <2>3. flushed' = flushed /\ \A k \in Logs : flushed[k] <= Len(file'[k])
    <3>1. \A k \in Logs : flushed[k] \in Nat /\ Len(file[k]) \in Nat /\ Len(file'[k]) \in Nat
      BY <2>2 DEF TypeOK
    <3> QED
      BY <1>1, <2>2, <3>1 DEF LogPrint, TypeOK
  <2>4. queue' \in [Logs -> Seq(Line)]
    <3>1. queue[l] \in Seq(Line)
      BY DEF TypeOK
    <3>2. Append(queue[l], lines + 1) \in Seq(Line)
      BY <2>1, <3>1, Appended
    <3> QED
      BY <1>1, <3>2 DEF LogPrint, TypeOK
  <2>5. token' \in BOOLEAN
    <3>1. token' = (token \/ (l \notin known /\ listener # "none"))
      BY <1>1 DEF LogPrint
    <3> QED
      BY ONLY <3>1
  <2> QED
    BY <1>1, <2>1, <2>2, <2>3, <2>4, <2>5 DEF LogPrint, TypeOK
<1>2. ASSUME NEW l \in Logs, Flush(l) PROVE TypeOK'
  <2>1. \A k \in Logs : Len(file[k]) \in Nat /\ flushed[k] \in Nat /\ flushed[k] <= Len(file[k])
    BY DEF TypeOK
  <2>2. flushed' = [flushed EXCEPT ![l] = Len(file[l])] /\ file' = file
    BY <1>2 DEF Flush
  <2>3. flushed' \in [Logs -> Nat] /\ \A k \in Logs : flushed'[k] <= Len(file'[k])
    BY <2>1, <2>2 DEF TypeOK
  <2> QED
    BY <1>2, <2>3 DEF Flush, TypeOK
<1>3. ASSUME NEW l \in Logs, Forward(l) PROVE TypeOK'
  <2>1. queue[l] \in Seq(Line) /\ queue[l] # <<>>
    BY <1>3 DEF Forward, TypeOK
  <2>2. Tail(queue[l]) \in Seq(Line)
    BY <2>1, Shifted
  <2>3. queue' \in [Logs -> Seq(Line)]
    BY <1>3, <2>2 DEF Forward, TypeOK
  <2> QED
    BY <1>3, <2>3 DEF Forward, TypeOK
<1>4. ASSUME NEW l \in Logs, Click(l) PROVE TypeOK'
  <2>1. req' \in Seq(Req) /\ current' \in Logs /\ view' \in Seq(Line)
    BY <1>4, <1>b DEF Click, TypeOK
  <2>2. clicks' \in 0 .. MaxClicks
    BY <1>4, <1>a DEF Click, TypeOK
  <2> QED
    BY <1>4, <2>1, <2>2 DEF Click, TypeOK
<1>5. CASE Crash
  <2>1. \A l \in Logs : file[l] \in Seq(Line \cup {Torn}) /\ OnceIn(file[l])
    BY DEF TypeOK, OnceInv
  <2>2. file' \in [Logs -> Seq(Line \cup {Torn})] /\ flushed' = [l \in Logs |-> Len(file'[l])]
    BY <1>5, <2>1, CrashLeaves
  <2>3. flushed' \in [Logs -> Nat] /\ \A l \in Logs : flushed'[l] <= Len(file'[l])
    <3>1. \A l \in Logs : Len(file'[l]) \in Nat
      BY <2>2
    <3> QED
      BY <2>2, <3>1
  <2>4. crashes' \in 0 .. MaxCrashes
    <3>1. crashes \in Nat /\ crashes < MaxCrashes /\ crashes' = crashes + 1
      BY <1>5 DEF Crash, TypeOK
    <3> QED
      BY <1>a, <3>1
  <2>5. Disconnect /\ UNCHANGED <<known, lines, clicks>> /\ up' = FALSE
    BY <1>5 DEF Crash
  <2> QED
    BY <1>c, <2>2, <2>3, <2>4, <2>5 DEF Disconnect, TypeOK
<1>6. CASE Start
  BY <1>6 DEF Start, TypeOK
<1>7. CASE ClosePage
  <2>1. Disconnect /\ UNCHANGED <<logVars, clicks>>
    BY <1>7 DEF ClosePage
  <2> QED
    BY <1>c, <2>1 DEF Disconnect, TypeOK
<1>13. CASE UNCHANGED vars
  BY <1>13 DEF vars, TypeOK
<1>14. ASSUME NEW t \in {"list", "subscribe", "unsubscribe", "get"}, Request(t)
       PROVE  /\ req' \in Seq(Req)
              /\ t # "list" => Head(req).log \in known /\ Head(req).log \in Logs
  <2> HIDE DEF Req
  <2>1. req # <<>> /\ Head(req).type = t /\ req' = Tail(req)
    BY <1>14 DEF Request
  <2>2. Tail(req) \in Seq(Req) /\ Head(req) = req[1] /\ 1 \in DOMAIN req
    BY <1>a, <2>1, Shifted
  <2> QED
    BY <2>1, <2>2 DEF MessageInv, TypeOK
<1>15. CASE SubscribeLogList
  <2>1. req' \in Seq(Req)
    BY <1>14, <1>15 DEF SubscribeLogList
  <2> QED
    BY <1>15, <2>1 DEF SubscribeLogList, TypeOK
<1>16. CASE Subscribe \/ Unsubscribe
  <2> DEFINE l == Head(req).log
  <2>1. /\ req' \in Seq(Req) /\ l \in known /\ l \in Logs
    BY <1>14, <1>16 DEF Subscribe, Unsubscribe
  <2> HIDE DEF l
  <2>2. \/ subscribed' = subscribed \cup {l} \/ subscribed' = subscribed \ {l}
        \/ subscribed' = subscribed
    BY <1>16 DEF Subscribe, Unsubscribe, l
  <2>3. queue' = [queue EXCEPT ![l] = <<>>] \/ queue' = queue
    BY <1>16 DEF Subscribe, Unsubscribe, l
  <2>4. queue' \in [Logs -> Seq(Line)] /\ subscribed' \subseteq known
    BY <1>c, <2>1, <2>2, <2>3 DEF TypeOK
  <2>5. UNCHANGED <<logVars, open, rep, listener, token, pageVars, clicks>>
    BY <1>16 DEF Subscribe, Unsubscribe
  <2> QED
    BY <2>1, <2>4, <2>5 DEF TypeOK
<1>8. CASE GetLog
  <2> DEFINE l == Head(req).log
  <2>1. req' \in Seq(Req) /\ l \in Logs
    BY <1>8, <1>14 DEF GetLog
  <2>2. flushed' = [flushed EXCEPT ![l] = Len(file[l])]
    BY <1>8 DEF GetLog
  <2> HIDE DEF l
  <2>3. \A k \in Logs : Len(file[k]) \in Nat /\ flushed[k] \in Nat /\ flushed[k] <= Len(file[k])
    BY DEF TypeOK
  <2>4. flushed' \in [Logs -> Nat] /\ \A k \in Logs : flushed'[k] <= Len(file[k])
    BY <2>1, <2>2, <2>3 DEF TypeOK
  <2>5. UNCHANGED <<up, known, file, lines, crashes, open, connVars, pageVars, clicks>>
    BY <1>8 DEF GetLog
  <2> QED
    BY <2>1, <2>4, <2>5 DEF TypeOK
<1>9. CASE ForwardList
  BY <1>9 DEF ForwardList, TypeOK
<1>10. CASE OpenPage
  <2>1. req' \in Seq(Req)
    BY <1>10 DEF OpenPage, Ask
  <2> QED
    BY <1>10, <2>1 DEF OpenPage, TypeOK
<1>11. CASE ShowList
  <2>1. Head(rep) \in Message /\ Head(rep).type = "list"
    BY <1>11, <1>a DEF ShowList
  <2>2. sidebar' \subseteq known
    BY <1>11, <2>1, MessageIs DEF ShowList
  <2>3. req' \in Seq(Req) /\ current' \in Logs \cup {NoLog} /\ view' \in Seq(Line)
    <3>1. CASE \E l \in sidebar' : SetCurrentLog(l)
      BY <1>b, <2>2, <3>1
    <3>2. CASE UNCHANGED <<req, current, view>>
      BY <3>2 DEF TypeOK
    <3> QED
      BY <1>11, <3>1, <3>2 DEF ShowList
  <2> QED
    BY <1>11, <2>2, <2>3 DEF ShowList, TypeOK
<1>12. CASE ShowLine \/ ShowArchive
  <2>1. Head(rep) \in Message
    BY <1>12, <1>a DEF ShowLine, ShowArchive
  <2>2. CASE ShowLine
    <3>1. PICK n \in 1 .. lines : Head(rep).data = <<n>>
      BY <2>1, <2>2, MessageIs DEF ShowLine
    <3>2. view \o Head(rep).data \in Seq(Line)
      <4>1. <<n>> \in Seq(Line) /\ view \in Seq(Line)
        BY <1>a DEF TypeOK
      <4>2. view \o <<n>> \in Seq(Line)
        BY <4>1
      <4> QED
        BY <3>1, <4>2
    <3> QED
      BY <2>2, <3>2 DEF ShowLine, TypeOK
  <2>3. CASE ShowArchive
    <3>1. Head(rep).data \in Seq((1 .. lines) \cup {Torn})
      BY <2>1, <2>3, MessageIs DEF ShowArchive
    <3>2. Parsed(Head(rep).data) \in Seq(((1 .. lines) \cup {Torn}) \ {Torn})
      BY <3>1, ParsedProperties
    <3>3. ((1 .. lines) \cup {Torn}) \ {Torn} \subseteq Line
      BY <1>a
    <3>4. Parsed(Head(rep).data) \in Seq(Line)
      BY <3>2, <3>3
    <3> QED
      BY <2>3, <3>4 DEF ShowArchive, TypeOK
  <2> QED
    BY <1>12, <2>2, <2>3
<1> QED
  BY Steps, <1>1, <1>2, <1>3, <1>4, <1>5, <1>6, <1>7, <1>8, <1>9, <1>10, <1>11, <1>12, <1>13,
     <1>15, <1>16

\* Logs stay known, and lines are added.
LEMMA Grows ==
    ASSUME TypeOK, [Next]_vars
    PROVE  /\ known \subseteq known' /\ 1 .. lines \subseteq 1 .. lines'
           /\ Message \subseteq Message' /\ Seq(Message) \subseteq Seq(Message')
<1> USE DEF logVars, connVars, pageVars
<1>1. known \subseteq known' /\ (lines' = lines \/ lines' = lines + 1)
  <2>1. ASSUME NEW l \in Logs, LogPrint(l) PROVE known \subseteq known' /\ lines' = lines + 1
    BY <2>1 DEF LogPrint
  <2>2. ASSUME NEW l \in Logs, Flush(l) \/ Forward(l) \/ Click(l)
        PROVE  known' = known /\ lines' = lines
    BY <2>2 DEF Flush, Forward, Click
  <2>3. CASE Crash \/ Start \/ ClosePage \/ OpenPage \/ UNCHANGED vars
    BY <2>3 DEF Crash, Start, ClosePage, OpenPage, vars
  <2>4. CASE SubscribeLogList \/ Subscribe \/ Unsubscribe \/ GetLog \/ ForwardList
    BY <2>4 DEF SubscribeLogList, Subscribe, Unsubscribe, GetLog, ForwardList
  <2>5. CASE ShowList \/ ShowLine \/ ShowArchive
    BY <2>5 DEF ShowList, ShowLine, ShowArchive
  <2> QED
    BY Steps, <2>1, <2>2, <2>3, <2>4, <2>5
<1>2. 1 .. lines \subseteq 1 .. lines'
  <2>1. lines \in Nat
    BY LinesAre
  <2> QED
    BY <1>1, <2>1
<1>3. Message \subseteq Message'
  <2>1. {<<n>> : n \in 1 .. lines} \subseteq {<<n>> : n \in 1 .. lines'}
    BY <1>2
  <2>2. Seq((1 .. lines) \cup {Torn}) \subseteq Seq((1 .. lines') \cup {Torn})
    <3>1. (1 .. lines) \cup {Torn} \subseteq (1 .. lines') \cup {Torn}
      BY <1>2
    <3> HIDE <1>2
    <3> QED
      BY <3>1
  <2>3. SUBSET known \subseteq SUBSET known'
    BY <1>1
  <2> QED
    BY <2>1, <2>2, <2>3 DEF Message
<1> QED
  BY <1>1, <1>2, <1>3

\* What setCurrentLog asks for.
LEMMA Asked ==
    ASSUME TypeOK, MessageInv, RequestInv, NEW l \in known, SetCurrentLog(l)
    PROVE  /\ Len(req') \in Nat /\ Len(req') >= 2 /\ req' # <<>>
           /\ req'[Len(req')] = Ask("get", l) /\ req'[Len(req') - 1] = Ask("subscribe", l)
           /\ \A i \in DOMAIN req' : req'[i].type # "list" => req'[i].log \in known
<1> DEFINE U == IF current # NoLog THEN <<Ask("unsubscribe", current)>> ELSE <<>>
           A == <<Ask("subscribe", l), Ask("get", l)>>
           Req == [type : {"list", "subscribe", "unsubscribe", "get"}, log : Logs \cup {NoLog}]
           Good == {r \in Req : r.type # "list" => r.log \in known}
<1>1. req' = (req \o U) \o A
  BY DEF SetCurrentLog
<1>2. known \subseteq Logs
  BY DEF TypeOK
<1>3. Ask("subscribe", l) \in Good /\ Ask("get", l) \in Good
  BY <1>2 DEF Ask
<1>4. current # NoLog => Ask("unsubscribe", current) \in Good
  BY <1>2 DEF Ask, RequestInv
<1>5. req \in Seq(Good)
  <2>1. req \in Seq(Req)
    BY DEF TypeOK
  <2>2. ASSUME NEW i \in DOMAIN req PROVE req[i] \in Good
    <3>1. req[i].type # "list" => req[i].log \in known
      BY DEF MessageInv
    <3> HIDE DEF Req
    <3>2. req[i] \in Req
      BY <2>1
    <3> QED
      BY <3>1, <3>2
  <2> HIDE DEF Req, Good
  <2> QED
    BY <2>1, <2>2
<1> HIDE DEF Good, Req
<1>6. U \in Seq(Good)
  BY <1>4
<1> HIDE DEF U
<1> DEFINE B == req \o U
<1>7. B \in Seq(Good)
  BY <1>5, <1>6
<1> HIDE DEF B
<1>8. /\ B \o A \in Seq(Good) /\ Len(B \o A) = Len(B) + 2 /\ Len(B) \in Nat
      /\ (B \o A)[Len(B) + 1] = Ask("subscribe", l) /\ (B \o A)[Len(B) + 2] = Ask("get", l)
  BY <1>3, <1>7, TwoMore
<1> HIDE DEF A
<1>9. req' = B \o A
  BY <1>1 DEF B
<1>10. Len(req') = Len(B) + 2 /\ Len(req') - 1 = Len(B) + 1 /\ Len(req') \in Nat /\ Len(req') >= 2
  BY <1>8, <1>9
<1>11. \A i \in DOMAIN req' : req'[i] \in Good
  BY <1>8, <1>9
<1>12. req' # <<>>
  BY <1>8, <1>9, <1>10
<1> QED
  BY <1>8, <1>9, <1>10, <1>11, <1>12 DEF Good

\* The request that is answered; the page is connected then.
LEMMA Answered ==
    ASSUME TypeOK, MessageInv, RequestInv, NEW t, Request(t)
    PROVE  /\ open /\ Head(req) = req[1] /\ req[1].type = t /\ Len(req) \in Nat /\ Len(req) >= 1
           /\ t # "list" => req[1].log \in known /\ req[1].log \in Logs
           /\ Len(req') = Len(req) - 1
           /\ \A i \in DOMAIN req' : i + 1 \in DOMAIN req /\ req'[i] = req[i + 1]
           /\ current = NoLog => req' = <<>> /\ t = "list"
           /\ current # NoLog /\ Len(req) = 1 => req[1] = Ask("get", current) /\ t = "get"
           /\ current # NoLog /\ Len(req) = 2 =>
                req[1] = Ask("subscribe", current) /\ t = "subscribe"
           /\ current # NoLog /\ Len(req) >= 3 =>
                /\ req'[Len(req')] = Ask("get", current)
                /\ req'[Len(req') - 1] = Ask("subscribe", current)
<1> DEFINE Req == [type : {"list", "subscribe", "unsubscribe", "get"}, log : Logs \cup {NoLog}]
<1>1. req \in Seq(Req) /\ req # <<>> /\ Head(req).type = t /\ req' = Tail(req)
  BY DEF Request, TypeOK
<1> HIDE DEF Req
<1>2. /\ Head(req) = req[1] /\ 1 \in DOMAIN req /\ Len(Tail(req)) = Len(req) - 1
      /\ \A i \in DOMAIN Tail(req) : i + 1 \in DOMAIN req /\ Tail(req)[i] = req[i + 1]
  BY <1>1, Shifted
<1>3. Len(req) \in Nat /\ Len(req) >= 1
  BY <1>1
<1>4. open
  BY <1>1 DEF RequestInv
<1>5. t # "list" => req[1].log \in known /\ req[1].log \in Logs
  BY <1>1, <1>2 DEF MessageInv, TypeOK
<1>6. ASSUME current = NoLog PROVE req' = <<>> /\ t = "list"
  <2>1. req = <<Ask("list", NoLog)>>
    BY <1>1, <1>6 DEF RequestInv
  <2> QED
    BY <1>1, <2>1 DEF Ask
<1>7. ASSUME current # NoLog PROVE
        /\ req[Len(req)] = Ask("get", current)
        /\ Len(req) >= 2 => req[Len(req) - 1] = Ask("subscribe", current)
  BY <1>1, <1>7 DEF RequestInv
<1>8. ASSUME current # NoLog, Len(req) = 1 PROVE req[1] = Ask("get", current) /\ t = "get"
  BY <1>1, <1>2, <1>7, <1>8 DEF Ask
<1>9. ASSUME current # NoLog, Len(req) = 2
      PROVE  req[1] = Ask("subscribe", current) /\ t = "subscribe"
  BY <1>1, <1>2, <1>7, <1>9 DEF Ask
<1>10. ASSUME current # NoLog, Len(req) >= 3
       PROVE  /\ req'[Len(req')] = Ask("get", current)
              /\ req'[Len(req') - 1] = Ask("subscribe", current)
  <2> DEFINE n == Len(req)
  <2>1. n \in Nat /\ n >= 3 /\ Len(Tail(req)) = n - 1
    BY <1>2, <1>3, <1>10
  <2>2. Tail(req)[n - 1] = req[n] /\ Tail(req)[n - 2] = req[n - 1]
    BY <1>1, <2>1
  <2>3. req[n] = Ask("get", current) /\ req[n - 1] = Ask("subscribe", current)
    BY <1>7, <1>10, <2>1
  <2>4. (n - 1) - 1 = n - 2
    BY <2>1
  <2> HIDE DEF n
  <2> QED
    BY <1>1, <2>1, <2>2, <2>3, <2>4
<1> QED
  BY <1>1, <1>2, <1>3, <1>4, <1>5, <1>6, <1>8, <1>9, <1>10

\* What the server sends and the page takes.
LEMMA Replies ==
    ASSUME TypeOK, MessageInv, RequestInv, OnceInv, [Next]_vars
    PROVE  \/ rep' = rep
           \/ rep' = <<>> /\ Disconnect
           \/ rep' = Tail(rep) /\ rep # <<>>
           \/ \E m \in Message : rep' = Append(rep, m)
<1> USE DEF logVars, connVars, pageVars
<1>1. ASSUME NEW l \in Logs, LogPrint(l) \/ Flush(l) \/ Click(l) PROVE rep' = rep
  BY <1>1 DEF LogPrint, Flush, Click
<1>2. CASE Crash \/ ClosePage
  BY <1>2 DEF Crash, ClosePage, Disconnect
<1>3. CASE Start \/ SubscribeLogList \/ Subscribe \/ Unsubscribe \/ OpenPage \/ UNCHANGED vars
  BY <1>3 DEF Start, SubscribeLogList, Subscribe, Unsubscribe, OpenPage, vars
<1>4. CASE GetLog
  <2> DEFINE m == [type |-> "archive", log |-> Head(req).log, data |-> file[Head(req).log]]
  <2>1. Head(req).log \in Logs
    BY <1>4, Answered DEF GetLog
  <2>2. file[Head(req).log] \in Seq((1 .. lines) \cup {Torn})
    BY <2>1 DEF OnceInv
  <2>3. m \in Message
    BY <2>1, <2>2 DEF Message
  <2> QED
    BY <1>4, <2>3 DEF GetLog
<1>5. ASSUME NEW l \in Logs, Forward(l) PROVE \E m \in Message : rep' = Append(rep, m)
  <2> DEFINE m == [type |-> "log", log |-> l, data |-> <<Head(queue[l])>>]
  <2>1. queue[l] \in Seq(1 .. lines) /\ queue[l] # <<>>
    BY <1>5 DEF Forward, OnceInv
  <2>2. Head(queue[l]) \in 1 .. lines
    BY <2>1, Shifted
  <2>3. m \in Message
    BY <2>2 DEF Message
  <2> QED
    BY <1>5, <2>3 DEF Forward
<1>6. CASE ForwardList
  <2> DEFINE m == [type |-> "list", log |-> NoLog, data |-> known]
  <2>1. m \in Message
    BY DEF Message
  <2> QED
    BY <1>6, <2>1 DEF ForwardList
<1>7. CASE ShowList \/ ShowLine \/ ShowArchive
  BY <1>7 DEF ShowList, ShowLine, ShowArchive
<1> QED
  BY Steps, <1>1, <1>2, <1>3, <1>4, <1>5, <1>6, <1>7

\* What the page asks and the server answers.
LEMMA Requests ==
    ASSUME TypeOK, MessageInv, RequestInv, [Next]_vars
    PROVE  \/ UNCHANGED <<req, current, subscribed>>
           \/ req' = <<>> /\ current' = NoLog
           \/ ~open /\ req' = <<Ask("list", NoLog)>> /\ current' = current
           \/ /\ current' = current
              /\ \E t : /\ Request(t)
                        /\ t = "subscribe" => Head(req).log \in subscribed'
                        /\ t = "get" => subscribed' = subscribed
           \/ open /\ \E l \in known : SetCurrentLog(l)
<1> USE DEF logVars, connVars, pageVars
<1>1. ASSUME NEW l \in Logs, LogPrint(l) \/ Flush(l) \/ Forward(l)
      PROVE  UNCHANGED <<req, current, subscribed>>
  BY <1>1 DEF LogPrint, Flush, Forward
<1>2. ASSUME NEW l \in Logs, Click(l) PROVE open /\ \E k \in known : SetCurrentLog(k)
  BY <1>2 DEF Click, TypeOK
<1>3. CASE Crash \/ ClosePage
  BY <1>3 DEF Crash, ClosePage, Disconnect
<1>4. CASE SubscribeLogList
  BY <1>4 DEF SubscribeLogList
<1>5. CASE Subscribe
  <2>1. Head(req).log \in known
    BY <1>5, Answered DEF Subscribe
  <2> QED
    BY <1>5, <2>1 DEF Subscribe
<1>6. CASE Unsubscribe
  BY <1>6 DEF Unsubscribe
<1>7. CASE GetLog
  BY <1>7 DEF GetLog
<1>8. CASE OpenPage
  BY <1>8 DEF OpenPage
<1>9. CASE Start \/ ForwardList \/ ShowLine \/ ShowArchive \/ UNCHANGED vars
  BY <1>9 DEF Start, ForwardList, ShowLine, ShowArchive, vars
<1>10. CASE ShowList
  <2>1. Head(rep) \in Message /\ rep # <<>> /\ Head(rep).type = "list"
    BY <1>10 DEF ShowList, MessageInv
  <2>2. Head(rep).data \subseteq known
    BY <2>1, MessageIs
  <2>3. open
    BY <2>1 DEF RequestInv
  <2> QED
    BY <1>10, <2>2, <2>3 DEF ShowList
<1> QED
  BY Steps, <1>1, <1>2, <1>3, <1>4, <1>5, <1>6, <1>7, <1>8, <1>9, <1>10

LEMMA MessageStep ==
    ASSUME TypeOK, MessageInv, RequestInv, OnceInv, [Next]_vars
    PROVE  MessageInv'
<1>1. rep' \in Seq(Message')
  <2>1. rep \in Seq(Message)
    BY DEF MessageInv
  <2>2. rep' \in Seq(Message)
    <3>1. rep # <<>> => Tail(rep) \in Seq(Message)
      BY <2>1, Shifted
    <3>2. \A m \in Message : Append(rep, m) \in Seq(Message)
      BY <2>1, Appended
    <3>3. <<>> \in Seq(Message)
      OBVIOUS
    <3> QED
      BY <2>1, <3>1, <3>2, <3>3, Replies
  <2> QED
    BY <2>2, Grows
<1>2. \A i \in DOMAIN req' : req'[i].type # "list" => req'[i].log \in known
  <2>1. CASE req' = req
    BY <2>1 DEF MessageInv
  <2>2. CASE req' = <<>>
    BY <2>2
  <2>3. CASE req' = <<Ask("list", NoLog)>>
    BY <2>3 DEF Ask
  <2>4. ASSUME NEW t, Request(t)
        PROVE  \A i \in DOMAIN req' : req'[i].type # "list" => req'[i].log \in known
    BY <2>4, Answered DEF MessageInv
  <2>5. ASSUME NEW l \in known, SetCurrentLog(l)
        PROVE  \A i \in DOMAIN req' : req'[i].type # "list" => req'[i].log \in known
    BY <2>5, Asked
  <2> QED
    BY <2>1, <2>2, <2>3, <2>4, <2>5, Requests
<1>3. known \subseteq known'
  BY Grows
<1> QED
  BY <1>1, <1>2, <1>3 DEF MessageInv

\* Without a connection there is nothing of the page.
LEMMA ClosedStep ==
    ASSUME TypeOK, MessageInv, RequestInv, [Next]_vars, ~open'
    PROVE  /\ current' = NoLog /\ req' = <<>> /\ rep' = <<>>
           /\ listener' = "none" /\ ~token'
           /\ subscribed' = {} /\ \A l \in Logs : queue'[l] = <<>>
<1> USE DEF logVars, connVars, pageVars
<1> DEFINE Nothing == /\ current' = NoLog /\ req' = <<>> /\ rep' = <<>>
                      /\ listener' = "none" /\ ~token'
                      /\ subscribed' = {} /\ \A l \in Logs : queue'[l] = <<>>
<1>1. ASSUME NEW l \in Logs, LogPrint(l) PROVE Nothing
  BY <1>1 DEF LogPrint, RequestInv
<1>2. ASSUME NEW l \in Logs, Flush(l) \/ Forward(l) \/ Click(l) PROVE Nothing
  BY <1>2 DEF Flush, Forward, Click, RequestInv
<1>3. CASE Crash \/ ClosePage
  <2>1. Disconnect
    BY <1>3 DEF Crash, ClosePage
  <2> QED
    BY <2>1 DEF Disconnect
<1>4. CASE Start \/ ForwardList \/ OpenPage \/ UNCHANGED vars
  BY <1>4 DEF Start, ForwardList, OpenPage, vars, RequestInv
<1>5. CASE SubscribeLogList \/ Subscribe \/ Unsubscribe \/ GetLog
  <2>1. open' = open /\ \E t : Request(t)
    BY <1>5 DEF SubscribeLogList, Subscribe, Unsubscribe, GetLog
  <2> QED
    BY <2>1, Answered
<1>6. CASE ShowList \/ ShowLine \/ ShowArchive
  BY <1>6 DEF ShowList, ShowLine, ShowArchive, RequestInv
<1> QED
  BY Steps, <1>1, <1>2, <1>3, <1>4, <1>5, <1>6

LEMMA RequestStep ==
    ASSUME TypeOK, MessageInv, RequestInv, [Next]_vars
    PROVE  RequestInv'
<1>1. current' = NoLog => req' = <<>> \/ req' = <<Ask("list", NoLog)>>
  <2>1. ASSUME NEW t, Request(t), current' = current, current' = NoLog PROVE req' = <<>>
    BY <2>1, Answered
  <2>2. ASSUME NEW l \in known, SetCurrentLog(l) PROVE current' # NoLog
    BY <2>2, ViewAssumption DEF SetCurrentLog, TypeOK
  <2> QED
    BY <2>1, <2>2, Requests DEF RequestInv
<1>2. ASSUME current' # NoLog
      PROVE  /\ current' \in known
             /\ req' # <<>> => req'[Len(req')] = Ask("get", current')
             /\ IF Len(req') >= 2 THEN req'[Len(req') - 1] = Ask("subscribe", current')
                                  ELSE current' \in subscribed'
  <2>1. CASE UNCHANGED <<req, current, subscribed>>
    BY <1>2, <2>1 DEF RequestInv
  <2>2. CASE ~open /\ req' = <<Ask("list", NoLog)>> /\ current' = current
    BY <1>2, <2>2 DEF RequestInv
  <2>3. ASSUME current' = current, NEW t, Request(t),
               t = "subscribe" => Head(req).log \in subscribed',
               t = "get" => subscribed' = subscribed
        PROVE  /\ current' \in known
               /\ req' # <<>> => req'[Len(req')] = Ask("get", current')
               /\ IF Len(req') >= 2 THEN req'[Len(req') - 1] = Ask("subscribe", current')
                                    ELSE current' \in subscribed'
    <3>1. /\ Head(req) = req[1] /\ Len(req) \in Nat /\ Len(req) >= 1 /\ Len(req') = Len(req) - 1
          /\ Len(req) = 1 => req[1] = Ask("get", current) /\ t = "get"
          /\ Len(req) = 2 => req[1] = Ask("subscribe", current) /\ t = "subscribe"
          /\ Len(req) >= 3 => /\ req'[Len(req')] = Ask("get", current)
                              /\ req'[Len(req') - 1] = Ask("subscribe", current)
      BY <1>2, <2>3, Answered
    <3>2. current \in known
      BY <1>2, <2>3 DEF RequestInv
    <3>3. CASE Len(req) = 1
      <4>1. current \in subscribed /\ t = "get"
        BY <1>2, <2>3, <3>1, <3>3 DEF RequestInv
      <4>2. ~(Len(req') >= 2) /\ Len(req') = 0
        BY <3>1, <3>3
      <4>3. req' = Tail(req) /\ req \in Seq([type : {"list", "subscribe", "unsubscribe", "get"},
                                             log : Logs \cup {NoLog}])
        BY <2>3 DEF Request, TypeOK
      <4>4. req' = <<>>
        BY <3>3, <4>3
      <4> QED
        BY <2>3, <3>2, <4>1, <4>2, <4>4
    <3>4. CASE Len(req) = 2
      <4>1. t = "subscribe" /\ Head(req).log = current
        BY <3>1, <3>4 DEF Ask
      <4>2. ~(Len(req') >= 2) /\ Len(req') = 1
        BY <3>1, <3>4
      <4>3. req[2] = Ask("get", current)
        BY <1>2, <2>3, <3>4 DEF RequestInv, Request
      <4>4. req'[1] = req[2]
        <5>1. req' = Tail(req) /\ req \in Seq([type : {"list", "subscribe", "unsubscribe", "get"},
                                               log : Logs \cup {NoLog}])
          BY <2>3 DEF Request, TypeOK
        <5>2. 2 \in DOMAIN req /\ 2 # 1 /\ 2 - 1 = 1
          BY <3>4, <5>1
        <5>3. req # <<>>
          BY <2>3 DEF Request
        <5> QED
          BY <5>1, <5>2, <5>3, Shifted
      <4> QED
        BY <2>3, <3>2, <4>1, <4>2, <4>3, <4>4
    <3>5. CASE Len(req) >= 3
      <4>1. Len(req') >= 2
        BY <3>1, <3>5
      <4> QED
        BY <2>3, <3>1, <3>2, <3>5, <4>1
    <3>6. Len(req) = 1 \/ Len(req) = 2 \/ Len(req) >= 3
      BY <3>1
    <3> QED
      BY <3>3, <3>4, <3>5, <3>6
  <2>4. ASSUME NEW l \in known, SetCurrentLog(l)
        PROVE  /\ current' \in known
               /\ req' # <<>> => req'[Len(req')] = Ask("get", current')
               /\ IF Len(req') >= 2 THEN req'[Len(req') - 1] = Ask("subscribe", current')
                                    ELSE current' \in subscribed'
    <3>1. current' = l
      BY <2>4 DEF SetCurrentLog
    <3> QED
      BY <2>4, <3>1, Asked
  <2> QED
    BY <1>2, <2>1, <2>2, <2>3, <2>4, Requests
<1>3. known \subseteq known'
  BY Grows
<1> QED
  BY <1>1, <1>2, <1>3, ClosedStep DEF RequestInv, Ask

(***************************************************************************)
(* The list of the logs.                                                   *)
(***************************************************************************)
LEMMA ListStep ==
    ASSUME TypeOK, MessageInv, RequestInv, ListInv, [Next]_vars
    PROVE  ListInv'
<1> USE DEF logVars, connVars, pageVars
<1> DEFINE Goal == \/ sidebar' = known' /\ \A i \in DOMAIN rep' : rep'[i].type # "list"
                   \/ \E i \in DOMAIN rep' :
                        /\ rep'[i].type = "list" /\ rep'[i].data = known'
                        /\ \A k \in DOMAIN rep' : k > i => rep'[k].type # "list"
<1> SUFFICES ASSUME listener' = "waiting", ~token' PROVE Goal
  BY DEF ListInv
<1>r. rep \in Seq(Message)
  BY DEF MessageInv
\* Nothing that the list depends on.
<1>1. ASSUME UNCHANGED <<listener, token, known, sidebar, rep>> PROVE Goal
  BY <1>1 DEF ListInv
\* Another message is sent.
<1>2. ASSUME UNCHANGED <<listener, token, known, sidebar>>,
             NEW m, rep' = Append(rep, m), m.type # "list"
      PROVE  Goal
  <2>1. /\ DOMAIN rep' = (DOMAIN rep) \cup {Len(rep) + 1}
        /\ \A i \in DOMAIN rep : rep'[i] = rep[i]
        /\ rep'[Len(rep) + 1] = m
    <3>1. rep \in Seq(Message \cup {m})
      BY <1>r
    <3> QED
      BY <1>2, <3>1, Appended
  <2> QED
    BY <1>2, <2>1 DEF ListInv
\* The page takes the next message.
<1>3. ASSUME UNCHANGED <<listener, token, known>>, rep # <<>>, rep' = Tail(rep),
             sidebar' = IF Head(rep).type = "list" THEN Head(rep).data ELSE sidebar
      PROVE  Goal
  <2>1. /\ Head(rep) = rep[1] /\ 1 \in DOMAIN rep
        /\ \A i \in DOMAIN rep' : i + 1 \in DOMAIN rep /\ rep'[i] = rep[i + 1] /\ i \in Nat
        /\ \A i \in DOMAIN rep : i # 1 => i - 1 \in DOMAIN rep' /\ rep'[i - 1] = rep[i]
    BY <1>r, <1>3, Shifted
  <2>2. CASE sidebar = known /\ \A i \in DOMAIN rep : rep[i].type # "list"
    BY <1>3, <2>1, <2>2
  <2>3. CASE \E i \in DOMAIN rep :
                /\ rep[i].type = "list" /\ rep[i].data = known
                /\ \A k \in DOMAIN rep : k > i => rep[k].type # "list"
    <3>1. PICK i \in DOMAIN rep :
                /\ rep[i].type = "list" /\ rep[i].data = known
                /\ \A k \in DOMAIN rep : k > i => rep[k].type # "list"
      BY <2>3
    <3>2. /\ DOMAIN rep \subseteq Nat /\ DOMAIN rep' \subseteq Nat
          /\ \A k \in DOMAIN rep' : k >= 1
      <4>1. rep' \in Seq(Message)
        BY <1>r, <1>3, Shifted
      <4> QED
        BY <1>r, <4>1
    <3>3. CASE i = 1
      <4>1. \A k \in DOMAIN rep' : k + 1 > 1
        BY ONLY <3>2
      <4>2. \A k \in DOMAIN rep' : rep'[k].type # "list"
        BY <2>1, <3>1, <3>3, <4>1
      <4> QED
        BY <1>3, <2>1, <3>1, <3>3, <4>2
    <3>4. CASE i # 1
      <4>1. i - 1 \in DOMAIN rep' /\ rep'[i - 1] = rep[i]
        BY <2>1, <3>4
      <4>2. ASSUME NEW k \in DOMAIN rep', k > i - 1 PROVE rep'[k].type # "list"
        <5>1. k + 1 > i
          BY <2>1, <3>2, <4>2
        <5> QED
          BY <2>1, <3>1, <5>1
      <4> QED
        BY <1>3, <3>1, <4>1, <4>2
    <3> QED
      BY <3>3, <3>4
  <2> QED
    BY <1>3, <2>2, <2>3 DEF ListInv
<1> HIDE DEF Goal
<1>4. ASSUME NEW l \in Logs, LogPrint(l) PROVE Goal
  <2>1. l \in known
    BY <1>4 DEF LogPrint
  <2>2. UNCHANGED <<listener, known, sidebar, rep>>
    BY <1>4, <2>1 DEF LogPrint
  <2>3. ~token
    BY <1>4 DEF LogPrint
  <2>4. token' = token
    BY <1>4, <2>1, <2>3 DEF LogPrint, TypeOK
  <2> QED
    BY <1>1, <2>2, <2>4
<1>5. ASSUME NEW l \in Logs, Flush(l) \/ Click(l) PROVE Goal
  BY <1>1, <1>5 DEF Flush, Click
<1>6. ASSUME NEW l \in Logs, Forward(l) PROVE Goal
  BY <1>2, <1>6 DEF Forward
<1>7. CASE Crash \/ ClosePage
  BY <1>7 DEF Crash, ClosePage, Disconnect
<1>8. CASE Start \/ Subscribe \/ Unsubscribe \/ OpenPage \/ UNCHANGED vars
  BY <1>1, <1>8 DEF Start, Subscribe, Unsubscribe, OpenPage, vars
<1>9. CASE SubscribeLogList
  BY <1>1, <1>9 DEF SubscribeLogList
<1>10. CASE GetLog
  BY <1>2, <1>10 DEF GetLog
<1>11. CASE ForwardList
  <2> DEFINE m == [type |-> "list", log |-> NoLog, data |-> known]
  <2>1. rep' = Append(rep, m) /\ m.type = "list" /\ m.data = known /\ known' = known
    BY <1>11 DEF ForwardList
  <2>2. m \in Message
    BY DEF Message
  <2> HIDE DEF m
  <2>3. /\ DOMAIN rep' = (DOMAIN rep) \cup {Len(rep) + 1}
        /\ \A i \in DOMAIN rep : i < Len(rep) + 1
        /\ rep'[Len(rep) + 1] = m
    BY <1>r, <2>1, <2>2, Appended
  <2>4. \A i \in DOMAIN rep' : ~(i > Len(rep) + 1)
    <3>1. Len(rep) \in Nat /\ DOMAIN rep \subseteq Nat
      BY <1>r
    <3> QED
      BY <2>3, <3>1
  <2> QED
    BY <2>1, <2>3, <2>4 DEF Goal
<1>12. CASE ShowList \/ ShowLine \/ ShowArchive
  <2>1. UNCHANGED <<listener, token, known>> /\ rep # <<>> /\ rep' = Tail(rep)
    BY <1>12 DEF ShowList, ShowLine, ShowArchive
  <2>2. sidebar' = IF Head(rep).type = "list" THEN Head(rep).data ELSE sidebar
    BY <1>12 DEF ShowList, ShowLine, ShowArchive
  <2> QED
    BY <1>3, <2>1, <2>2
<1> QED
  BY Steps, <1>4, <1>5, <1>6, <1>7, <1>8, <1>9, <1>10, <1>11, <1>12 DEF Goal

(***************************************************************************)
(* No gap.                                                                 *)
(***************************************************************************)

\* What will be shown still will when another message is sent.
LEMMA Sending ==
    ASSUME MessageInv, NEW n, NEW m, UNCHANGED <<current, view>>, rep' = Append(rep, m),
           ~Replaces(m),
           n \in ToSet(queue[current]) => n \in ToSet(queue'[current]) \/ Carries(m, n),
           WillBeShown(n)
    PROVE  WillBeShown(n)'
<1>1. PICK e \in Nat :
        /\ DOMAIN rep' = (DOMAIN rep) \cup {e}
        /\ \A i \in DOMAIN rep : rep'[i] = rep[i] /\ i < e
        /\ rep'[e] = m
  <2>1. rep \in Seq(Message \cup {m}) /\ Len(rep) + 1 \in Nat
    BY DEF MessageInv
  <2> DEFINE d == Len(rep) + 1
  <2>2. /\ DOMAIN rep' = (DOMAIN rep) \cup {d}
        /\ \A i \in DOMAIN rep : rep'[i] = rep[i] /\ i < d
        /\ rep'[d] = m
    BY <2>1, Appended
  <2> HIDE DEF d
  <2>3. d \in Nat
    BY <2>1 DEF d
  <2> QED
    BY <2>2, <2>3
<1>2. ~(e > e)
  OBVIOUS
<1>3. DOMAIN rep \subseteq Nat
  BY DEF MessageInv
<1>4. \A i \in DOMAIN rep : ~(i > e)
  BY <1>1, <1>3
<1>5. CASE n \in ToSet(queue[current])
  <2>1. CASE n \in ToSet(queue'[current])
    BY <2>1 DEF WillBeShown
  <2>2. CASE Carries(m, n)
    <3>1. Carries(rep[e], n)' /\ e \in DOMAIN rep'
      BY <1>1, <2>2 DEF Carries
    <3>2. \A k \in DOMAIN rep' : ~(k > e)
      BY <1>1, <1>2, <1>4
    <3> QED
      BY <3>1, <3>2 DEF WillBeShown
  <2> QED
    BY <1>5, <2>1, <2>2
<1>6. \A k \in DOMAIN rep' : (k \in DOMAIN rep => ~Replaces(rep[k])) => ~Replaces(rep[k])'
  BY <1>1 DEF Replaces
<1>7. CASE n \in ToSet(view) /\ \A k \in DOMAIN rep : ~Replaces(rep[k])
  BY <1>6, <1>7 DEF WillBeShown
<1>8. CASE \E i \in DOMAIN rep :
            Carries(rep[i], n) /\ \A k \in DOMAIN rep : k > i => ~Replaces(rep[k])
  <2>1. PICK i \in DOMAIN rep :
            Carries(rep[i], n) /\ \A k \in DOMAIN rep : k > i => ~Replaces(rep[k])
    BY <1>8
  <2>2. Carries(rep[i], n)' /\ i \in DOMAIN rep'
    BY <1>1, <2>1 DEF Carries
  <2>3. \A k \in DOMAIN rep' : k > i => ~Replaces(rep[k])'
    BY <1>6, <2>1
  <2> QED
    BY <2>2, <2>3 DEF WillBeShown
<1> QED
  BY <1>5, <1>7, <1>8 DEF WillBeShown

\* The same when the page takes a message as it should.
LEMMA Taking ==
    ASSUME MessageInv, NEW n, UNCHANGED <<current, queue>>, rep # <<>>, rep' = Tail(rep),
           (n \in ToSet(view) /\ ~Replaces(Head(rep))) => n \in ToSet(view'),
           Carries(Head(rep), n) => n \in ToSet(view'),
           WillBeShown(n)
    PROVE  WillBeShown(n)'
<1>r. rep \in Seq(Message)
  BY DEF MessageInv
<1>1. /\ Head(rep) = rep[1] /\ 1 \in DOMAIN rep
      /\ \A i \in DOMAIN rep' : i + 1 \in DOMAIN rep /\ rep'[i] = rep[i + 1]
      /\ \A i \in DOMAIN rep : i # 1 => i - 1 \in DOMAIN rep' /\ rep'[i - 1] = rep[i]
  BY <1>r, Shifted
<1>2. /\ \A i \in DOMAIN rep' : i \in Nat /\ i >= 1
      /\ \A i \in DOMAIN rep : i \in Nat
  <2>1. rep' \in Seq(Message)
    BY <1>r, Shifted
  <2> QED
    BY <1>r, <2>1
<1>3. CASE n \in ToSet(queue[current])
  BY <1>3 DEF WillBeShown
<1>4. \A k \in DOMAIN rep' : ~Replaces(rep[k + 1]) => ~Replaces(rep[k])'
  BY <1>1 DEF Replaces
<1>5. CASE n \in ToSet(view) /\ \A k \in DOMAIN rep : ~Replaces(rep[k])
  BY <1>1, <1>4, <1>5 DEF WillBeShown
<1>6. CASE \E i \in DOMAIN rep :
            Carries(rep[i], n) /\ \A k \in DOMAIN rep : k > i => ~Replaces(rep[k])
  <2>1. PICK i \in DOMAIN rep :
            Carries(rep[i], n) /\ \A k \in DOMAIN rep : k > i => ~Replaces(rep[k])
    BY <1>6
  <2>2. CASE i = 1
    <3>1. n \in ToSet(view')
      BY <1>1, <2>1, <2>2
    <3>2. \A k \in DOMAIN rep' : k + 1 > 1
      BY ONLY <1>2
    <3>3. \A k \in DOMAIN rep' : ~Replaces(rep[k])'
      BY <1>1, <1>4, <2>1, <2>2, <3>2
    <3> QED
      BY <3>1, <3>3 DEF WillBeShown
  <2>3. CASE i # 1
    <3>1. i - 1 \in DOMAIN rep' /\ rep'[i - 1] = rep[i]
      BY <1>1, <2>3
    <3>2. Carries(rep[i - 1], n)'
      BY <2>1, <3>1 DEF Carries
    <3>3. ASSUME NEW k \in DOMAIN rep', k > i - 1 PROVE ~Replaces(rep[k])'
      <4>1. k \in Nat /\ i \in Nat
        BY <1>2
      <4>2. k + 1 > i
        BY ONLY <3>3, <4>1
      <4> QED
        BY <1>1, <1>4, <2>1, <4>2
    <3> QED
      BY <3>1, <3>2, <3>3 DEF WillBeShown
  <2> QED
    BY <2>2, <2>3
<1> QED
  BY <1>3, <1>5, <1>6 DEF WillBeShown

LEMMA GapStep ==
    ASSUME TypeOK, MessageInv, RequestInv, OnceInv, GapInv, [Next]_vars
    PROVE  GapInv'
<1> USE DEF logVars, connVars, pageVars
<1> SUFFICES ASSUME current' # NoLog, req' = <<>>, NEW n \in ToSet(Parsed(file'[current']))
             PROVE  WillBeShown(n)'
  BY DEF GapInv
<1> DEFINE Goal == WillBeShown(n)'
<1>r. rep \in Seq(Message) /\ current' \in Logs
  BY TypeStep DEF MessageInv, TypeOK
\* What has been asked for has been answered.
<1>a. ASSUME NEW t, Request(t), current' = current
      PROVE  t = "get" /\ Head(req) = Ask("get", current)
  <2>1. /\ Len(req) \in Nat /\ Len(req') = Len(req) - 1 /\ Head(req) = req[1]
        /\ Len(req) = 1 => req[1] = Ask("get", current) /\ t = "get"
    BY <1>a, Answered
  <2>2. Len(req) = 1
    <3>1. Len(req') = 0
      OBVIOUS
    <3> QED
      BY <2>1, <3>1
  <2> QED
    BY <2>1, <2>2
<1>b. ASSUME NEW l \in known, SetCurrentLog(l) PROVE FALSE
  BY <1>b, Asked
<1>c. ASSUME UNCHANGED <<current, req, file>> PROVE WillBeShown(n)
  BY <1>c DEF GapInv
<1>d. ASSUME UNCHANGED <<current, req, file, queue, view, rep>> PROVE Goal
  <2>1. WillBeShown(n)
    BY <1>c, <1>d
  <2> QED
    BY <1>d, <2>1 DEF WillBeShown, Carries, Replaces
<1>1. ASSUME NEW l \in Logs, LogPrint(l) PROVE Goal
  <2>1. UNCHANGED <<current, req, view, rep>>
    BY <1>1 DEF LogPrint
  <2>2. current \in subscribed /\ current \in Logs
    <3>1. Len(req) = 0
      BY <2>1
    <3> QED
      BY <1>r, <2>1, <3>1 DEF RequestInv
  <2>3. WillBeShown(n) => Goal
    <3>1. ToSet(queue[current]) \subseteq ToSet(queue'[current])
      <4>1. queue[l] \in Seq(Nat) /\ lines + 1 \in Nat
        BY LinesAre DEF OnceInv
      <4>2. ToSet(Append(queue[l], lines + 1)) = ToSet(queue[l]) \cup {lines + 1}
        BY <4>1, Appended
      <4> QED
        BY <1>1, <2>2, <4>2 DEF LogPrint, TypeOK
    <3> QED
      BY <2>1, <3>1 DEF WillBeShown, Carries, Replaces
  <2>4. CASE l # current
    <3>1. file'[current] = file[current]
      BY <1>1, <2>2, <2>4 DEF LogPrint, TypeOK
    <3>2. n \in ToSet(Parsed(file[current]))
      BY <2>1, <3>1
    <3> QED
      BY <2>1, <2>3, <3>2 DEF GapInv
  <2>5. CASE l = current
    <3> DEFINE f == file[current]
               x == lines + 1
    <3>1. f \in Seq(Nat \cup {Torn}) /\ x \in Nat \cup {Torn} /\ queue[current] \in Seq(Nat)
          /\ x \in Nat
      BY <2>2, LinesAre DEF OnceInv
    <3>2. file'[current'] = Append(f, x) /\ queue'[current] = Append(queue[current], x)
      BY <1>1, <2>1, <2>2, <2>5 DEF LogPrint, TypeOK
    <3> HIDE DEF f, x
    <3>3. /\ Append(f, x) \in Seq(Nat \cup {Torn})
          /\ DOMAIN Append(f, x) = (DOMAIN f) \cup {Len(f) + 1}
          /\ \A i \in DOMAIN f : Append(f, x)[i] = f[i]
          /\ Append(f, x)[Len(f) + 1] = x
      BY <3>1, Appended
    <3>4. PICK i \in DOMAIN Append(f, x) :
            /\ Append(f, x)[i] = n
            /\ \A k \in DOMAIN Append(f, x) : k <= i => Append(f, x)[k] # Torn
      <4> DEFINE g == Append(f, x)
      <4>1. g \in Seq(Nat \cup {Torn}) /\ n \in ToSet(Parsed(g))
        BY <3>2, <3>3
      <4> HIDE DEF g
      <4>2. \E i \in DOMAIN g : g[i] = n /\ \A k \in DOMAIN g : k <= i => g[k] # Torn
        BY <4>1, ParsedProperties
      <4> QED
        BY <4>2 DEF g
    <3>5. CASE i \in DOMAIN f
      <4>1. f[i] = n /\ \A k \in DOMAIN f : k <= i => f[k] # Torn
        BY <3>3, <3>4, <3>5
      <4>2. n \in ToSet(Parsed(f))
        BY <3>1, <3>5, <4>1, ParsedProperties
      <4> QED
        BY <2>1, <2>3, <4>2 DEF GapInv, f
    <3>6. CASE i = Len(f) + 1
      <4>1. n = x
        BY <3>3, <3>4, <3>6
      <4>2. n \in ToSet(queue'[current])
        BY <3>1, <3>2, <4>1, Appended
      <4> QED
        BY <2>1, <4>2 DEF WillBeShown
    <3> QED
      BY <3>3, <3>5, <3>6
  <2> QED
    BY <2>4, <2>5
<1>2. ASSUME NEW l \in Logs, Flush(l) PROVE Goal
  BY <1>2, <1>d DEF Flush
<1>3. ASSUME NEW l \in Logs, Click(l) PROVE Goal
  BY <1>3, <1>b DEF Click, TypeOK
<1>4. ASSUME NEW l \in Logs, Forward(l) PROVE Goal
  <2> DEFINE m == [type |-> "log", log |-> l, data |-> <<Head(queue[l])>>]
  <2>1. /\ rep' = Append(rep, m) /\ UNCHANGED <<current, req, file, view>>
        /\ queue' = [queue EXCEPT ![l] = Tail(queue[l])] /\ queue[l] # <<>>
    BY <1>4 DEF Forward
  <2>2. ~Replaces(m)
    BY DEF Replaces
  <2>3. n \in ToSet(queue[current]) => n \in ToSet(queue'[current]) \/ Carries(m, n)
    <3>1. CASE l # current
      BY <1>r, <2>1, <3>1 DEF TypeOK
    <3>2. CASE l = current
      <4>1. queue[l] \in Seq(1 .. lines) /\ queue'[l] = Tail(queue[l])
        BY <2>1 DEF OnceInv, TypeOK
      <4>2. ToSet(queue[l]) = ToSet(Tail(queue[l])) \cup {Head(queue[l])}
        BY <2>1, <4>1, Shifted
      <4> QED
        BY <3>2, <4>1, <4>2 DEF Carries
    <3> QED
      BY <3>1, <3>2
  <2>4. WillBeShown(n)
    BY <1>c, <2>1
  <2> HIDE DEF m
  <2> QED
    BY <2>1, <2>2, <2>3, <2>4, Sending
<1>5. CASE Crash \/ ClosePage
  BY <1>5 DEF Crash, ClosePage, Disconnect
<1>6. CASE Start \/ UNCHANGED vars
  BY <1>6, <1>d DEF Start, vars
<1>7. CASE SubscribeLogList
  BY <1>7, <1>a DEF SubscribeLogList
<1>8. CASE Subscribe \/ Unsubscribe
  BY <1>8, <1>a DEF Subscribe, Unsubscribe
<1>9. CASE GetLog
  <2> DEFINE m == [type |-> "archive", log |-> current, data |-> file[current]]
  <2>1. Request("get") /\ UNCHANGED <<current, file>>
    BY <1>9 DEF GetLog
  <2>2. Head(req).log = current
    BY <1>a, <2>1 DEF Ask
  <2>3. rep' = Append(rep, m)
    BY <1>9, <2>2 DEF GetLog
  <2>4. Carries(m, n) /\ m \notin {}
    BY <2>1 DEF Carries
  <2> HIDE DEF m
  <2>5. PICK e \in Nat : e \in DOMAIN rep' /\ rep'[e] = m /\ \A k \in DOMAIN rep' : ~(k > e)
    <3>1. rep \in Seq(Message \cup {m}) /\ Len(rep) + 1 \in Nat /\ DOMAIN rep \subseteq Nat
      BY <1>r
    <3> DEFINE d == Len(rep) + 1
    <3>2. /\ DOMAIN rep' = (DOMAIN rep) \cup {d}
          /\ \A i \in DOMAIN rep : i < d
          /\ rep'[d] = m
      BY <2>3, <3>1, Appended
    <3> HIDE DEF d
    <3>3. d \in Nat
      BY <3>1 DEF d
    <3>4. \A k \in DOMAIN rep' : ~(k > d)
      BY <3>1, <3>2, <3>3
    <3> QED
      BY <3>2, <3>3, <3>4
  <2>6. Carries(rep[e], n)'
    BY <2>1, <2>4, <2>5 DEF Carries
  <2> QED
    BY <2>5, <2>6 DEF WillBeShown
<1>10. CASE ForwardList
  <2> DEFINE m == [type |-> "list", log |-> NoLog, data |-> known]
  <2>1. rep' = Append(rep, m) /\ UNCHANGED <<current, req, file, view, queue>>
    BY <1>10 DEF ForwardList
  <2>2. ~Replaces(m)
    BY DEF Replaces
  <2>3. WillBeShown(n)
    BY <1>c, <2>1
  <2> HIDE DEF m
  <2> QED
    BY <2>1, <2>2, <2>3, Sending
<1>11. CASE OpenPage
  BY <1>11 DEF OpenPage
<1>12. CASE ShowList
  <2>1. rep # <<>> /\ Head(rep).type = "list" /\ rep' = Tail(rep) /\ UNCHANGED <<file, queue>>
    BY <1>12 DEF ShowList
  <2>2. UNCHANGED <<current, req, view>>
    <3>1. Head(rep).data \subseteq known
      BY <1>r, <2>1, MessageIs
    <3> QED
      BY <1>12, <1>b, <3>1 DEF ShowList
  <2>3. ~Carries(Head(rep), n)
    BY <2>1 DEF Carries
  <2>4. WillBeShown(n)
    BY <1>c, <2>1, <2>2
  <2> QED
    BY <2>1, <2>2, <2>3, <2>4, Taking
<1>13. CASE ShowLine
  <2>1. /\ rep # <<>> /\ Head(rep).type = "log" /\ rep' = Tail(rep)
        /\ UNCHANGED <<file, queue, current, req>>
        /\ view' = IF Head(rep).log = current THEN view \o Head(rep).data ELSE view
    BY <1>13 DEF ShowLine
  <2>2. PICK x \in 1 .. lines : Head(rep).data = <<x>>
    BY <1>r, <2>1, MessageIs
  <2>3. /\ n \in ToSet(view) => n \in ToSet(view')
        /\ Carries(Head(rep), n) => n \in ToSet(view')
    <3>1. view \in Seq(Line) /\ x \in Line
      BY LinesAre DEF TypeOK
    <3>2. view \o <<x>> = Append(view, x) /\ ToSet(Append(view, x)) = ToSet(view) \cup {x}
      BY <3>1, Appended
    <3>3. Carries(Head(rep), n) => Head(rep).log = current /\ n = x
      BY <2>1, <2>2 DEF Carries
    <3> QED
      BY <2>1, <2>2, <3>2, <3>3
  <2>4. WillBeShown(n)
    BY <1>c, <2>1
  <2> QED
    BY <2>1, <2>3, <2>4, Taking
<1>14. CASE ShowArchive
  <2>1. /\ rep # <<>> /\ Head(rep).type = "archive" /\ rep' = Tail(rep)
        /\ UNCHANGED <<file, queue, current, req>>
        /\ view' = IF Head(rep).log = current THEN Parsed(Head(rep).data) ELSE view
    BY <1>14 DEF ShowArchive
  <2>2. /\ n \in ToSet(view) /\ ~Replaces(Head(rep)) => n \in ToSet(view')
        /\ Carries(Head(rep), n) => n \in ToSet(view')
    BY <2>1 DEF Carries, Replaces
  <2>3. WillBeShown(n)
    BY <1>c, <2>1
  <2> QED
    BY <2>1, <2>2, <2>3, Taking
<1> QED
  BY Steps, <1>1, <1>2, <1>3, <1>4, <1>5, <1>6, <1>7, <1>8, <1>9, <1>10, <1>11, <1>12,
     <1>13, <1>14

(***************************************************************************)
(* Every line once.                                                        *)
(***************************************************************************)

\* A message that is sent.
LEMMA SendEffect ==
    ASSUME MessageInv, NEW m, rep' = Append(rep, m)
    PROVE  \E e \in Nat : /\ DOMAIN rep' = (DOMAIN rep) \cup {e} /\ e \notin DOMAIN rep
                          /\ \A i \in DOMAIN rep : rep'[i] = rep[i]
                          /\ rep'[e] = m
<1>1. rep \in Seq(Message \cup {m}) /\ Len(rep) + 1 \in Nat
  BY DEF MessageInv
<1> DEFINE e == Len(rep) + 1
<1>2. /\ DOMAIN rep' = (DOMAIN rep) \cup {e} /\ e \notin DOMAIN rep
      /\ \A i \in DOMAIN rep : rep'[i] = rep[i]
      /\ rep'[e] = m
  BY <1>1, Appended
<1>3. e \in Nat
  BY <1>1
<1> HIDE DEF e
<1> QED
  BY <1>2, <1>3

\* A message that is taken.
LEMMA TakeEffect ==
    ASSUME MessageInv, rep # <<>>, rep' = Tail(rep)
    PROVE  /\ Head(rep) = rep[1] /\ 1 \in DOMAIN rep /\ Head(rep) \in Message
           /\ DOMAIN rep \subseteq Int /\ DOMAIN rep' \subseteq Int
           /\ \A i \in DOMAIN rep' : i + 1 # 1 /\ i + 1 \in DOMAIN rep /\ rep'[i] = rep[i + 1]
<1>1. rep \in Seq(Message)
  BY DEF MessageInv
<1>2. /\ Head(rep) = rep[1] /\ 1 \in DOMAIN rep /\ Head(rep) \in Message
      /\ rep' \in Seq(Message)
      /\ \A i \in DOMAIN rep' : i + 1 \in DOMAIN rep /\ rep'[i] = rep[i + 1]
  BY <1>1, Shifted
<1>3. DOMAIN rep \subseteq Int /\ DOMAIN rep' \subseteq Int /\ \A i \in DOMAIN rep' : i >= 1
  BY <1>1, <1>2
<1>4. \A i \in DOMAIN rep' : i + 1 # 1
  BY ONLY <1>3
<1> QED
  BY <1>2, <1>3, <1>4

\* A line that has been sent has arrived.
LEMMA SentArrived ==
    ASSUME MessageInv, NEW n, NEW i \in DOMAIN rep, Sent(n, i)
    PROVE  n \in 1 .. lines
<1>1. rep[i] \in Message
  BY DEF MessageInv
<1>2. PICK x \in 1 .. lines : rep[i].data = <<x>>
  BY <1>1, MessageIs DEF Sent
<1> QED
  BY <1>2 DEF Sent

\* What is pending stays so or is new.
LEMMA QueueEffect ==
    ASSUME TypeOK, OnceInv, NEW l \in Logs, LogPrint(l)
    PROVE  /\ lines + 1 \notin 1 .. lines /\ lines' = lines + 1 /\ lines \in Nat
           /\ file' = [file EXCEPT ![l] = Append(file[l], lines + 1)]
           /\ queue' \in [Logs -> Seq(1 .. lines')]
           /\ \A k \in Logs : OnceIn(queue'[k])
           /\ \A k \in Logs : \A n \in ToSet(queue'[k]) :
                n \in ToSet(queue[k]) \/ (n = lines + 1 /\ k = l)
<1>1. /\ lines \in Nat /\ lines + 1 \notin 1 .. lines /\ lines' = lines + 1
      /\ 1 .. lines \subseteq 1 .. lines' /\ lines + 1 \in 1 .. lines'
      /\ file' = [file EXCEPT ![l] = Append(file[l], lines + 1)]
  BY LinesAre DEF LogPrint
<1>2. queue \in [Logs -> Seq(1 .. lines)]
  BY DEF TypeOK, OnceInv
<1>3. queue \in [Logs -> Seq(1 .. lines')]
  BY <1>1, <1>2
<1>4. CASE queue' = queue
  <2>1. \A k \in Logs : OnceIn(queue[k])
    BY DEF OnceInv
  <2>2. queue' \in [Logs -> Seq(1 .. lines')] /\ \A k \in Logs : OnceIn(queue'[k])
    BY <1>3, <1>4, <2>1
  <2>3. \A k \in Logs : queue'[k] = queue[k]
    BY <1>4
  <2> QED
    BY <1>1, <2>2, <2>3
<1>5. CASE queue' = [queue EXCEPT ![l] = Append(queue[l], lines + 1)]
  <2> DEFINE q == queue[l]
             x == lines + 1
  <2>1. q \in Seq(1 .. lines') /\ x \in 1 .. lines' /\ OnceIn(q) /\ ToSet(q) \subseteq 1 .. lines
    BY <1>1, <1>2, <1>3, Elements DEF OnceInv
  <2>2. x \notin ToSet(q)
    BY <1>1, <2>1
  <2> HIDE DEF q, x
  <2>3. /\ Append(q, x) \in Seq(1 .. lines') /\ DOMAIN Append(q, x) = (DOMAIN q) \cup {Len(q) + 1}
        /\ \A i \in DOMAIN q : Append(q, x)[i] = q[i]
        /\ Append(q, x)[Len(q) + 1] = x
        /\ ToSet(Append(q, x)) = ToSet(q) \cup {x}
    <3> DEFINE R == 1 .. lines'
    <3>1. q \in Seq(R) /\ x \in R
      BY <2>1
    <3> HIDE DEF R
    <3>2. /\ Append(q, x) \in Seq(R) /\ DOMAIN Append(q, x) = (DOMAIN q) \cup {Len(q) + 1}
          /\ \A i \in DOMAIN q : Append(q, x)[i] = q[i]
          /\ Append(q, x)[Len(q) + 1] = x
          /\ ToSet(Append(q, x)) = ToSet(q) \cup {x}
      BY <3>1, Appended
    <3> QED
      BY <3>2 DEF R
  <2>4. \A i \in DOMAIN q : q[i] # x
    BY <2>2 DEF ToSet
  <2>5. OnceIn(Append(q, x))
    BY <2>1, <2>3, <2>4 DEF OnceIn
  <2>6. queue' = [queue EXCEPT ![l] = Append(q, x)]
    BY <1>5 DEF q, x
  <2>7. queue'[l] = Append(q, x) /\ \A k \in Logs : k # l => queue'[k] = queue[k]
    BY <1>3, <2>6
  <2>8. queue' \in [Logs -> Seq(1 .. lines')]
    BY <1>3, <2>3, <2>6
  <2>9. \A k \in Logs : OnceIn(queue'[k])
    BY <2>5, <2>7 DEF OnceInv
  <2>10. \A k \in Logs : \A n \in ToSet(queue'[k]) :
            n \in ToSet(queue[k]) \/ (n = lines + 1 /\ k = l)
    BY <2>3, <2>7 DEF q, x
  <2> QED
    BY <1>1, <2>8, <2>9, <2>10
<1> QED
  BY <1>4, <1>5 DEF LogPrint

LEMMA OnceStep ==
    ASSUME TypeOK, MessageInv, RequestInv, OnceInv, [Next]_vars
    PROVE  OnceInv'
<1> USE DEF logVars, connVars, pageVars
\* The parts of the invariant.
<1> DEFINE
      Files == \A l \in Logs : file[l] \in Seq((1 .. lines) \cup {Torn}) /\ OnceIn(file[l])
      Archives == \A i \in DOMAIN rep : rep[i].type = "archive" => OnceIn(rep[i].data)
      Queues == \A l \in Logs : queue[l] \in Seq(1 .. lines) /\ OnceIn(queue[l])
      Apart == \A k, l \in Logs : ToSet(queue[k]) \cap ToSet(queue[l]) # {} => k = l
      QueuedOnly == \A l \in Logs : \A n \in ToSet(queue[l]), i \in DOMAIN rep : ~Sent(n, i)
      SentOnce == \A n \in 1 .. lines, i, k \in DOMAIN rep : Sent(n, i) /\ Sent(n, k) => i = k
<1>a. Files /\ Archives /\ Queues /\ Apart /\ QueuedOnly /\ SentOnce
  BY DEF OnceInv
<1>b. Files' /\ Archives' /\ Queues' /\ Apart' /\ QueuedOnly' /\ SentOnce' => OnceInv'
  BY DEF OnceInv
<1> DEFINE Goal == Files' /\ Archives' /\ Queues' /\ Apart' /\ QueuedOnly' /\ SentOnce'
<1> SUFFICES Goal
  BY <1>b
\* Nothing of it changes.
<1>1. ASSUME UNCHANGED <<file, lines, rep, queue>> PROVE Goal
  BY <1>1, <1>a DEF Sent
\* The queue of a log is emptied.
<1>2. ASSUME NEW l \in Logs, UNCHANGED <<file, lines, rep>>, queue' = [queue EXCEPT ![l] = <<>>]
      PROVE  Goal
  <2>1. \A k \in Logs : queue'[k] = queue[k] \/ queue'[k] = <<>>
    BY <1>2 DEF TypeOK
  <2>2. ToSet(<<>>) = {} /\ OnceIn(<<>>) /\ <<>> \in Seq(1 .. lines)
    BY DEF ToSet, OnceIn
  <2>3. \A k \in Logs : ToSet(queue'[k]) \subseteq ToSet(queue[k])
    BY <2>1, <2>2
  <2>4. Queues'
    BY <1>a, <1>2, <2>1, <2>2
  <2> QED
    BY <1>a, <1>2, <2>3, <2>4 DEF Sent
\* The connection ends.
<1>3. ASSUME rep' = <<>>, queue' = [l \in Logs |-> <<>>], Files', lines' \in Nat PROVE Goal
  <2>1. ToSet(<<>>) = {} /\ OnceIn(<<>>) /\ \A S : <<>> \in Seq(S)
    BY DEF ToSet, OnceIn
  <2>2. \A l \in Logs : queue'[l] = <<>>
    BY <1>3
  <2>3. Queues' /\ Apart' /\ QueuedOnly'
    BY <1>3, <2>1, <2>2
  <2> QED
    BY <1>3, <2>3
\* A message that is not a line is sent.
<1>4. ASSUME UNCHANGED <<file, lines, queue>>, NEW m, rep' = Append(rep, m), m.type # "log",
             m.type = "archive" => OnceIn(m.data)
      PROVE  Goal
  <2>1. PICK e \in Nat : /\ DOMAIN rep' = (DOMAIN rep) \cup {e} /\ e \notin DOMAIN rep
                         /\ \A i \in DOMAIN rep : rep'[i] = rep[i]
                         /\ rep'[e] = m
    BY <1>4, SendEffect
  <2>2. \A n : \A i \in DOMAIN rep' : Sent(n, i)' => i \in DOMAIN rep /\ Sent(n, i)
    BY <1>4, <2>1 DEF Sent
  <2>3. Archives'
    BY <1>a, <1>4, <2>1
  <2> QED
    BY <1>a, <1>4, <2>2, <2>3
\* The page takes a message.
<1>5. ASSUME UNCHANGED <<file, lines, queue>>, rep # <<>>, rep' = Tail(rep) PROVE Goal
  <2>1. /\ DOMAIN rep \subseteq Int /\ DOMAIN rep' \subseteq Int
        /\ \A i \in DOMAIN rep' : i + 1 \in DOMAIN rep /\ rep'[i] = rep[i + 1]
    BY <1>5, TakeEffect
  <2>2. \A n : \A i \in DOMAIN rep' : Sent(n, i)' => Sent(n, i + 1) /\ i + 1 \in DOMAIN rep
    BY <2>1 DEF Sent
  <2>3. Archives'
    BY <1>a, <2>1
  <2>4. QueuedOnly'
    BY <1>a, <1>5, <2>2
  <2>5. SentOnce'
    <3>1. ASSUME NEW n \in 1 .. lines, NEW i \in DOMAIN rep', NEW k \in DOMAIN rep',
                 Sent(n, i)', Sent(n, k)'
          PROVE  i = k
      <4>1. i + 1 = k + 1
        BY <1>a, <2>2, <3>1
      <4> QED
        BY <2>1, <4>1
    <3> QED
      BY <1>5, <3>1
  <2> QED
    BY <1>a, <1>5, <2>3, <2>4, <2>5
<1>6. ASSUME NEW l \in Logs, LogPrint(l) PROVE Goal
  <2>1. /\ lines + 1 \notin 1 .. lines /\ lines' = lines + 1 /\ lines \in Nat
        /\ file' = [file EXCEPT ![l] = Append(file[l], lines + 1)]
        /\ queue' \in [Logs -> Seq(1 .. lines')]
        /\ \A k \in Logs : OnceIn(queue'[k])
        /\ \A k \in Logs : \A n \in ToSet(queue'[k]) :
             n \in ToSet(queue[k]) \/ (n = lines + 1 /\ k = l)
    BY <1>6, QueueEffect
  <2>2. rep' = rep
    BY <1>6 DEF LogPrint
  <2>3. \A n : \A i \in DOMAIN rep : Sent(n, i) => n \in 1 .. lines
    BY SentArrived
  <2>4. \A n : \A i \in DOMAIN rep' : Sent(n, i)' => i \in DOMAIN rep /\ Sent(n, i)
    BY <2>2 DEF Sent
  <2>5. \A k \in Logs : ToSet(queue[k]) \subseteq 1 .. lines
    BY <1>a, Elements
  <2>6. Files'
    <3> DEFINE S == (1 .. lines) \cup {Torn}
               R == (1 .. lines') \cup {Torn}
               x == lines + 1
               f == file[l]
    <3>1. S \subseteq R /\ x \in R /\ x \notin S
      BY <2>1, LinesAre, ViewAssumption
    <3>2. file \in [Logs -> Seq(S)] /\ f \in Seq(S) /\ OnceIn(f)
      BY <1>a DEF TypeOK
    <3> HIDE DEF S, R, x, f
    <3>3. f \in Seq(R) /\ file \in [Logs -> Seq(R)] /\ ToSet(f) \subseteq S
      BY <3>1, <3>2, Elements
    <3>4. /\ Append(f, x) \in Seq(R) /\ DOMAIN Append(f, x) = (DOMAIN f) \cup {Len(f) + 1}
          /\ \A i \in DOMAIN f : Append(f, x)[i] = f[i]
          /\ Append(f, x)[Len(f) + 1] = x
      BY <3>1, <3>3, Appended
    <3>5. \A i \in DOMAIN f : f[i] # x
      BY <3>1, <3>3 DEF ToSet
    <3>6. OnceIn(Append(f, x))
      BY <3>2, <3>4, <3>5 DEF OnceIn
    <3>7. file' = [file EXCEPT ![l] = Append(f, x)]
      BY <2>1 DEF f, x
    <3>8. \A k \in Logs : file'[k] \in Seq(R) /\ OnceIn(file'[k])
      BY <1>a, <3>3, <3>4, <3>6, <3>7
    <3> QED
      BY <3>8 DEF R
  <2>7. Queues'
    BY <2>1
  <2>8. Apart'
    <3>1. ASSUME NEW k \in Logs, NEW j \in Logs, NEW n \in ToSet(queue'[k]), n \in ToSet(queue'[j])
          PROVE  k = j
      <4>1. /\ n \in ToSet(queue[k]) \/ (n = lines + 1 /\ k = l)
            /\ n \in ToSet(queue[j]) \/ (n = lines + 1 /\ j = l)
        BY <2>1, <3>1
      <4>2. lines + 1 \notin ToSet(queue[k]) /\ lines + 1 \notin ToSet(queue[j])
        BY <2>1, <2>5
      <4>3. n \in ToSet(queue[k]) /\ n \in ToSet(queue[j]) => k = j
        BY <1>a
      <4> QED
        BY ONLY <4>1, <4>2, <4>3
    <3> QED
      BY <3>1
  <2>9. QueuedOnly'
    BY <1>a, <2>1, <2>3, <2>4
  <2>10. SentOnce'
    BY <1>a, <2>3, <2>4
  <2> QED
    BY <1>a, <2>2, <2>6, <2>7, <2>8, <2>9, <2>10
<1>7. ASSUME NEW l \in Logs, Forward(l) PROVE Goal
  <2> DEFINE q == queue[l]
             x == Head(q)
             m == [type |-> "log", log |-> l, data |-> <<x>>]
  <2>1. /\ rep' = Append(rep, m) /\ UNCHANGED <<file, lines>> /\ q # <<>>
        /\ queue' = [queue EXCEPT ![l] = Tail(q)]
    BY <1>7 DEF Forward
  <2>2. q \in Seq(1 .. lines) /\ OnceIn(q) /\ Torn \notin 1 .. lines
    BY <1>a, LinesAre
  <2>3. m.type = "log" /\ \A n : m.data = <<n>> <=> n = x
    OBVIOUS
  <2> HIDE DEF q, x, m
  <2>4. /\ Tail(q) \in Seq(1 .. lines) /\ x = q[1] /\ 1 \in DOMAIN q /\ x \in 1 .. lines
        /\ \A i \in DOMAIN Tail(q) : i + 1 \in DOMAIN q /\ Tail(q)[i] = q[i + 1] /\ i \in Nat
        /\ ToSet(q) = ToSet(Tail(q)) \cup {x}
    BY <2>1, <2>2, Shifted DEF x
  <2>5. \A i \in DOMAIN Tail(q) : i >= 1 /\ i \in Nat
    BY <2>4
  <2>6. \A i \in DOMAIN Tail(q) : i + 1 # 1
    BY ONLY <2>5
  <2>7. OnceIn(Tail(q))
    <3>1. ASSUME NEW i \in DOMAIN Tail(q), NEW k \in DOMAIN Tail(q),
                 Tail(q)[i] = Tail(q)[k], Tail(q)[i] # Torn
          PROVE  i = k
      <4>1. i + 1 = k + 1
        BY <2>2, <2>4, <3>1 DEF OnceIn
      <4> QED
        BY <2>5, <4>1
    <3> QED
      BY <3>1 DEF OnceIn
  <2>8. x \notin ToSet(Tail(q))
    <3>1. ASSUME NEW i \in DOMAIN Tail(q), Tail(q)[i] = x PROVE FALSE
      <4>1. q[i + 1] = q[1] /\ q[1] # Torn /\ i + 1 \in DOMAIN q
        BY <2>2, <2>4, <3>1
      <4> QED
        BY <2>2, <2>4, <2>6, <4>1 DEF OnceIn
    <3> QED
      BY <3>1 DEF ToSet
  <2>9. /\ queue'[l] = Tail(q) /\ \A k \in Logs : k # l => queue'[k] = queue[k]
    BY <2>1 DEF TypeOK
  <2>10. Queues'
    BY <1>a, <2>1, <2>4, <2>7, <2>9
  <2>11. \A k \in Logs : ToSet(queue'[k]) \subseteq ToSet(queue[k]) /\ x \notin ToSet(queue'[k])
    <3>1. x \in ToSet(q) /\ ToSet(Tail(q)) \subseteq ToSet(q)
      BY <2>4
    <3>2. \A k \in Logs : k # l => x \notin ToSet(queue[k])
      BY <1>a, <3>1 DEF q
    <3> QED
      BY <2>8, <2>9, <3>1, <3>2 DEF q
  <2>12. Apart'
    BY <1>a, <2>11
  <2>13. PICK e \in Nat : /\ DOMAIN rep' = (DOMAIN rep) \cup {e} /\ e \notin DOMAIN rep
                          /\ \A i \in DOMAIN rep : rep'[i] = rep[i]
                          /\ rep'[e] = m
    BY <2>1, SendEffect
  <2>14. \A n : \A i \in DOMAIN rep' :
            Sent(n, i)' => (i \in DOMAIN rep /\ Sent(n, i)) \/ (i = e /\ n = x)
    BY <2>3, <2>13 DEF Sent
  <2>15. \A i \in DOMAIN rep : ~Sent(x, i)
    BY <1>a, <2>4 DEF q
  <2>16. QueuedOnly'
    <3>1. ASSUME NEW k \in Logs, NEW n \in ToSet(queue'[k]), NEW i \in DOMAIN rep', Sent(n, i)'
          PROVE  FALSE
      <4>1. n \in ToSet(queue[k]) /\ n # x
        BY <2>11
      <4>2. i \in DOMAIN rep /\ Sent(n, i)
        BY <2>14, <3>1, <4>1
      <4> QED
        BY <1>a, <4>1, <4>2
    <3> QED
      BY <3>1
  <2>17. SentOnce'
    BY <1>a, <2>1, <2>14, <2>15
  <2>18. Archives'
    BY <1>a, <2>3, <2>13
  <2> QED
    BY <1>a, <2>1, <2>10, <2>12, <2>16, <2>17, <2>18
<1> HIDE DEF Goal
<1>8. ASSUME NEW l \in Logs, Flush(l) \/ Click(l) PROVE Goal
  BY <1>1, <1>8 DEF Flush, Click
<1>9. CASE Crash
  <2>1. \A l \in Logs : file[l] \in Seq((1 .. lines) \cup {Torn}) /\ OnceIn(file[l])
    BY DEF OnceInv
  <2>2. lines' = lines /\ lines \in Nat /\ Disconnect
    BY <1>9, LinesAre DEF Crash
  <2>3. Files'
    <3>1. /\ file' \in [Logs -> Seq((1 .. lines) \cup {Torn})]
          /\ \A l \in Logs : OnceIn(file'[l])
      BY <1>9, <2>1, CrashLeaves
    <3> QED
      BY <2>2, <3>1
  <2> HIDE DEF Files
  <2> QED
    BY <1>3, <2>2, <2>3 DEF Disconnect
<1>10. CASE ClosePage
  <2>1. UNCHANGED <<file, lines>> /\ lines \in Nat /\ Disconnect
    BY <1>10, LinesAre DEF ClosePage
  <2>2. Files'
    BY <1>a, <2>1
  <2> HIDE DEF Files
  <2> QED
    BY <1>3, <2>1, <2>2 DEF Disconnect
<1>11. CASE Start \/ OpenPage \/ SubscribeLogList \/ UNCHANGED vars
  BY <1>1, <1>11 DEF Start, OpenPage, SubscribeLogList, vars
<1>12. CASE Subscribe
  <2>1. Head(req).log \in Logs
    BY <1>12, Answered DEF Subscribe
  <2> QED
    BY <1>1, <1>2, <1>12, <2>1 DEF Subscribe
<1>13. CASE Unsubscribe
  <2>1. Head(req).log \in Logs
    BY <1>13, Answered DEF Unsubscribe
  <2> QED
    BY <1>2, <1>13, <2>1 DEF Unsubscribe
<1>14. CASE GetLog
  <2> DEFINE m == [type |-> "archive", log |-> Head(req).log, data |-> file[Head(req).log]]
  <2>1. Head(req).log \in Logs
    BY <1>14, Answered DEF GetLog
  <2>2. m.type = "archive" /\ OnceIn(m.data)
    BY <1>a, <2>1
  <2>3. UNCHANGED <<file, lines, queue>> /\ rep' = Append(rep, m)
    BY <1>14 DEF GetLog
  <2> HIDE DEF m
  <2> QED
    BY <1>4, <2>2, <2>3
<1>15. CASE ForwardList
  <2> DEFINE m == [type |-> "list", log |-> NoLog, data |-> known]
  <2>1. m.type = "list" /\ UNCHANGED <<file, lines, queue>> /\ rep' = Append(rep, m)
    BY <1>15 DEF ForwardList
  <2> HIDE DEF m
  <2> QED
    BY <1>4, <2>1
<1>16. CASE ShowList \/ ShowLine \/ ShowArchive
  BY <1>5, <1>16 DEF ShowList, ShowLine, ShowArchive
<1> QED
  BY Steps, <1>6, <1>7, <1>8, <1>9, <1>10, <1>11, <1>12, <1>13, <1>14, <1>15, <1>16

(***************************************************************************)
(* Twice at most.                                                          *)
(***************************************************************************)

\* A line that has been dealt with does not come again.
LEMMA NotAgain ==
    ASSUME TypeOK, MessageInv, RequestInv, OnceInv, [Next]_vars, NEW n \in 1 .. lines, Pending(n)'
    PROVE  Pending(n)
<1> USE DEF logVars, connVars, pageVars
<1> DEFINE Queued == \E l \in Logs : n \in ToSet(queue[l])
           OnItsWay == \E i \in DOMAIN rep : Sent(n, i)
<1>a. Queued \/ OnItsWay => Pending(n)
  BY DEF Pending
<1>b. Queued' \/ OnItsWay'
  BY DEF Pending
<1> SUFFICES Queued \/ OnItsWay
  BY <1>a
<1>1. ASSUME UNCHANGED <<rep, queue>> PROVE Queued \/ OnItsWay
  BY <1>1, <1>b DEF Sent
<1>2. ASSUME NEW l \in Logs, UNCHANGED rep, queue' = [queue EXCEPT ![l] = <<>>]
      PROVE  Queued \/ OnItsWay
  <2>1. \A k \in Logs : queue'[k] = queue[k] \/ queue'[k] = <<>>
    BY <1>2 DEF TypeOK
  <2>2. ToSet(<<>>) = {}
    BY DEF ToSet
  <2> QED
    BY <1>2, <1>b, <2>1, <2>2 DEF Sent
<1>3. ASSUME UNCHANGED queue, NEW m, rep' = Append(rep, m), m.type # "log"
      PROVE  Queued \/ OnItsWay
  <2>1. PICK e \in Nat : /\ DOMAIN rep' = (DOMAIN rep) \cup {e}
                         /\ \A i \in DOMAIN rep : rep'[i] = rep[i]
                         /\ rep'[e] = m
    BY <1>3, SendEffect
  <2>2. \A i \in DOMAIN rep' : Sent(n, i)' => i \in DOMAIN rep /\ Sent(n, i)
    BY <1>3, <2>1 DEF Sent
  <2> QED
    BY <1>3, <1>b, <2>2
<1>4. ASSUME UNCHANGED queue, rep # <<>>, rep' = Tail(rep) PROVE Queued \/ OnItsWay
  <2>1. \A i \in DOMAIN rep' : i + 1 \in DOMAIN rep /\ rep'[i] = rep[i + 1]
    BY <1>4, TakeEffect
  <2>2. \A i \in DOMAIN rep' : Sent(n, i)' => Sent(n, i + 1) /\ i + 1 \in DOMAIN rep
    BY <2>1 DEF Sent
  <2> QED
    BY <1>4, <1>b, <2>2
<1>5. ASSUME NEW l \in Logs, LogPrint(l) PROVE Queued \/ OnItsWay
  <2>1. /\ lines + 1 \notin 1 .. lines
        /\ \A k \in Logs : \A x \in ToSet(queue'[k]) :
             x \in ToSet(queue[k]) \/ (x = lines + 1 /\ k = l)
    BY <1>5, QueueEffect
  <2>2. n # lines + 1
    BY <2>1
  <2>3. Queued' => Queued
    BY <2>1, <2>2
  <2>4. OnItsWay' => OnItsWay
    BY <1>5 DEF LogPrint, Sent
  <2> QED
    BY <1>b, <2>3, <2>4
<1>6. ASSUME NEW l \in Logs, Forward(l) PROVE Queued \/ OnItsWay
  <2> DEFINE q == queue[l]
             x == Head(q)
             m == [type |-> "log", log |-> l, data |-> <<x>>]
  <2>1. rep' = Append(rep, m) /\ q # <<>> /\ queue' = [queue EXCEPT ![l] = Tail(q)]
    BY <1>6 DEF Forward
  <2>2. q \in Seq(1 .. lines)
    BY DEF OnceInv
  <2>3. \A k : m.data = <<k>> => k = x
    OBVIOUS
  <2> HIDE DEF q, x, m
  <2>4. ToSet(q) = ToSet(Tail(q)) \cup {x}
    BY <2>1, <2>2, Shifted DEF x
  <2>5. \A k \in Logs : ToSet(queue'[k]) \subseteq ToSet(queue[k])
    BY <2>1, <2>4 DEF q, TypeOK
  <2>6. PICK e \in Nat : /\ DOMAIN rep' = (DOMAIN rep) \cup {e}
                         /\ \A i \in DOMAIN rep : rep'[i] = rep[i]
                         /\ rep'[e] = m
    BY <2>1, SendEffect
  <2>7. \A i \in DOMAIN rep' : Sent(n, i)' => (i \in DOMAIN rep /\ Sent(n, i)) \/ n = x
    BY <2>3, <2>6 DEF Sent
  <2>8. n = x => Queued
    BY <2>4 DEF q
  <2> QED
    BY <1>b, <2>5, <2>7, <2>8
<1>7. ASSUME NEW l \in Logs, Flush(l) \/ Click(l) PROVE Queued \/ OnItsWay
  BY <1>1, <1>7 DEF Flush, Click
<1>8. CASE Crash \/ ClosePage
  <2>1. rep' = <<>> /\ \A l \in Logs : queue'[l] = <<>>
    BY <1>8 DEF Crash, ClosePage, Disconnect
  <2>2. ToSet(<<>>) = {}
    BY DEF ToSet
  <2> QED
    BY <1>b, <2>1, <2>2
<1>9. CASE Start \/ OpenPage \/ SubscribeLogList \/ UNCHANGED vars
  BY <1>1, <1>9 DEF Start, OpenPage, SubscribeLogList, vars
<1>10. CASE Subscribe
  <2>1. Head(req).log \in Logs
    BY <1>10, Answered DEF Subscribe
  <2> QED
    BY <1>1, <1>2, <1>10, <2>1 DEF Subscribe
<1>11. CASE Unsubscribe
  <2>1. Head(req).log \in Logs
    BY <1>11, Answered DEF Unsubscribe
  <2> QED
    BY <1>2, <1>11, <2>1 DEF Unsubscribe
<1>12. CASE GetLog \/ ForwardList
  BY <1>3, <1>12 DEF GetLog, ForwardList
<1>13. CASE ShowList \/ ShowLine \/ ShowArchive
  BY <1>4, <1>13 DEF ShowList, ShowLine, ShowArchive
<1> QED
  BY Steps, <1>5, <1>6, <1>7, <1>8, <1>9, <1>10, <1>11, <1>12, <1>13

LEMMA ShownStep ==
    ASSUME TypeOK, MessageInv, RequestInv, OnceInv, ShownInv, [Next]_vars
    PROVE  ShownInv'
<1> USE DEF logVars, connVars, pageVars
<1>a. 1 .. lines \subseteq 1 .. lines' /\ view \in Seq(1 .. lines)
  BY Grows DEF ShownInv
<1>1. ASSUME view' = view PROVE ShownInv'
  <2>1. PICK w : w = view /\ w = view'
    BY <1>1
  <2>2. PICK p \in 0 .. Len(w) :
            /\ \A i, k \in 1 .. p : w[i] = w[k] => i = k
            /\ \A i, k \in p + 1 .. Len(w) : w[i] = w[k] => i = k
            /\ \A i \in p + 1 .. Len(w) : ~Pending(w[i])
    BY <2>1 DEF ShownInv
  <2>3. w \in Seq(1 .. lines) /\ p \in Nat /\ Len(w) \in Nat /\ DOMAIN w = 1 .. Len(w)
    BY <1>a, <2>1, <2>2
  <2>4. p + 1 .. Len(w) \subseteq DOMAIN w
    BY <2>3
  <2>5. ASSUME NEW i \in p + 1 .. Len(w) PROVE ~Pending(w[i])'
    <3>1. w[i] \in 1 .. lines
      BY <2>3, <2>4, Elements
    <3>2. ~Pending(w[i])
      BY <2>2
    <3> QED
      BY <3>1, <3>2, NotAgain
  <2>6. view' \in Seq(1 .. lines')
    <3> DEFINE A == 1 .. lines
               B == 1 .. lines'
    <3>1. A \subseteq B /\ view' \in Seq(A)
      BY <1>1, <1>a
    <3> HIDE DEF A, B
    <3>2. view' \in Seq(B)
      BY <3>1
    <3> QED
      BY <3>2 DEF B
  <2> QED
    BY <2>1, <2>2, <2>5, <2>6 DEF ShownInv, Pending, Sent
<1>2. ASSUME view' = <<>> PROVE ShownInv'
  <2>1. Len(view') = 0 /\ view' \in Seq(1 .. lines')
    BY <1>2
  <2>2. 0 \in 0 .. Len(view') /\ 1 .. 0 = {} /\ 0 + 1 .. Len(view') = {}
    BY <2>1
  <2> QED
    BY <2>1, <2>2 DEF ShownInv
<1>3. CASE ShowLine
  <2>1. /\ rep # <<>> /\ Head(rep).type = "log" /\ rep' = Tail(rep)
        /\ UNCHANGED <<queue, lines>>
        /\ view' = IF Head(rep).log = current THEN view \o Head(rep).data ELSE view
    BY <1>3 DEF ShowLine
  <2>2. /\ Head(rep) = rep[1] /\ 1 \in DOMAIN rep /\ Head(rep) \in Message
        /\ \A i \in DOMAIN rep' : i + 1 # 1 /\ i + 1 \in DOMAIN rep /\ rep'[i] = rep[i + 1]
    BY <2>1, TakeEffect
  <2>3. PICK n \in 1 .. lines : Head(rep).data = <<n>>
    BY <2>1, <2>2, MessageIs
  <2>4. Sent(n, 1)
    BY <2>1, <2>2, <2>3 DEF Sent
  <2>5. Pending(n)
    BY <2>2, <2>4 DEF Pending
  <2>6. ~Pending(n)'
    <3>1. \A l \in Logs : n \notin ToSet(queue'[l])
      BY <2>1, <2>2, <2>4 DEF OnceInv
    <3>2. ASSUME NEW i \in DOMAIN rep', Sent(n, i)' PROVE FALSE
      <4>1. Sent(n, i + 1) /\ i + 1 \in DOMAIN rep /\ i + 1 # 1
        BY <2>2, <3>2 DEF Sent
      <4> QED
        BY <2>2, <2>4, <4>1 DEF OnceInv
    <3> QED
      BY <3>1, <3>2 DEF Pending
  <2>7. CASE Head(rep).log # current
    BY <1>1, <2>1, <2>7
  <2>8. CASE Head(rep).log = current
    <3>1. PICK v, w : v = view /\ w = view'
      OBVIOUS
    <3>2. PICK p \in 0 .. Len(v) :
            /\ \A i, k \in 1 .. p : v[i] = v[k] => i = k
            /\ \A i, k \in p + 1 .. Len(v) : v[i] = v[k] => i = k
            /\ \A i \in p + 1 .. Len(v) : ~Pending(v[i])
      BY <3>1 DEF ShownInv
    <3> DEFINE R == 1 .. lines
    <3>3. v \in Seq(R) /\ n \in R
      BY <1>a, <3>1
    <3>4. w = v \o <<n>>
      BY <2>1, <2>3, <2>8, <3>1
    <3> HIDE DEF R
    <3>5. /\ w \in Seq(R) /\ Len(w) = Len(v) + 1
          /\ \A i \in DOMAIN v : w[i] = v[i]
          /\ w[Len(v) + 1] = n
      BY <3>3, <3>4, Appended
    <3>6. PICK e \in Nat : e = Len(v) /\ p \in Nat /\ p <= e /\ DOMAIN v = 1 .. e
      BY <3>2, <3>3
    <3>7. /\ 1 .. p \subseteq DOMAIN v /\ p + 1 .. e \subseteq DOMAIN v
          /\ p + 1 .. e + 1 = (p + 1 .. e) \cup {e + 1}
          /\ p \in 0 .. e + 1
      BY <3>6
    <3>8. \A i, k \in 1 .. p : w[i] = w[k] => i = k
      BY <3>2, <3>5, <3>7
    <3>9. \A i \in p + 1 .. e : w[i] = v[i] /\ w[i] # n /\ ~Pending(w[i]) /\ w[i] \in R
      BY <2>5, <3>2, <3>3, <3>5, <3>6, <3>7, Elements
    <3>10. \A i, k \in p + 1 .. e + 1 : w[i] = w[k] => i = k
      BY <3>2, <3>5, <3>6, <3>7, <3>9
    <3>11. ASSUME NEW i \in p + 1 .. e + 1 PROVE ~Pending(w[i])'
      <4>1. CASE i \in p + 1 .. e
        BY <3>9, <4>1, NotAgain DEF R
      <4>2. CASE i = e + 1
        <5>1. w[i] = n
          BY <3>5, <3>6, <4>2
        <5> QED
          BY <2>6, <5>1
      <4> QED
        BY <3>7, <4>1, <4>2
    <3>12. view' \in Seq(1 .. lines')
      BY <2>1, <3>1, <3>5 DEF R
    <3>13. Len(view') = e + 1
      BY <3>1, <3>5, <3>6
    <3> QED
      BY <3>1, <3>7, <3>8, <3>10, <3>11, <3>12, <3>13 DEF ShownInv, Pending, Sent
  <2> QED
    BY <2>7, <2>8
<1>4. CASE ShowArchive
  <2>1. /\ rep # <<>> /\ Head(rep).type = "archive" /\ rep' = Tail(rep) /\ lines' = lines
        /\ view' = IF Head(rep).log = current THEN Parsed(Head(rep).data) ELSE view
    BY <1>4 DEF ShowArchive
  <2>2. CASE Head(rep).log # current
    BY <1>1, <2>1, <2>2
  <2>3. CASE Head(rep).log = current
    <3> DEFINE f == Head(rep).data
               S == (1 .. lines) \cup {Torn}
    <3>1. Head(rep) = rep[1] /\ 1 \in DOMAIN rep /\ Head(rep) \in Message
      BY <2>1, TakeEffect
    <3>2. f \in Seq(S) /\ OnceIn(f)
      BY <2>1, <3>1, MessageIs DEF OnceInv
    <3>3. S \ {Torn} = 1 .. lines /\ view' = Parsed(f)
      BY <2>1, <2>3, LinesAre
    <3> HIDE DEF f, S
    <3>4. /\ view' \in Seq(1 .. lines)
          /\ \A i, k \in DOMAIN view' : view'[i] = view'[k] => i = k
      BY <3>2, <3>3, ParsedProperties
    <3>5. Len(view') \in Nat /\ DOMAIN view' = 1 .. Len(view')
      BY <3>4
    <3>6. Len(view') \in 0 .. Len(view') /\ Len(view') + 1 .. Len(view') = {}
      BY <3>5
    <3> QED
      BY <2>1, <3>4, <3>5, <3>6 DEF ShownInv
  <2> QED
    BY <2>2, <2>3
<1>5. ASSUME NEW l \in Logs, LogPrint(l) \/ Flush(l) \/ Forward(l) PROVE view' = view
  BY <1>5 DEF LogPrint, Flush, Forward
<1>6. ASSUME NEW l \in Logs, Click(l) PROVE view' = <<>>
  BY <1>6 DEF Click, SetCurrentLog
<1>7. CASE Crash \/ ClosePage
  BY <1>2, <1>7 DEF Crash, ClosePage, Disconnect
<1>8. CASE Start \/ OpenPage \/ SubscribeLogList \/ Subscribe \/ UNCHANGED vars
  BY <1>1, <1>8 DEF Start, OpenPage, SubscribeLogList, Subscribe, vars
<1>9. CASE Unsubscribe \/ GetLog \/ ForwardList
  BY <1>1, <1>9 DEF Unsubscribe, GetLog, ForwardList
<1>10. CASE ShowList
  BY <1>1, <1>2, <1>10 DEF ShowList, SetCurrentLog
<1> QED
  BY Steps, <1>1, <1>2, <1>3, <1>4, <1>5, <1>6, <1>7, <1>8, <1>9, <1>10

(***************************************************************************)
(* The theorems.                                                           *)
(***************************************************************************)

LEMMA InitInv == Init => ViewInv
<1> SUFFICES ASSUME Init PROVE ViewInv
  OBVIOUS
<1> USE DEF Init
<1>1. /\ \A S : <<>> \in Seq(S)
      /\ DOMAIN <<>> = {} /\ Len(<<>>) = 0 /\ ToSet(<<>>) = {} /\ OnceIn(<<>>)
  BY DEF ToSet, OnceIn
<1>2. TypeOK
  <2>1. lines \in 0 .. MaxLines /\ crashes \in 0 .. MaxCrashes /\ clicks \in 0 .. MaxClicks
    BY ViewAssumption
  <2>2. flushed \in [Logs -> Nat] /\ \A l \in Logs : flushed[l] <= Len(file[l])
    BY <1>1
  <2>3. /\ file \in [Logs -> Seq(Line \cup {Torn})] /\ queue \in [Logs -> Seq(Line)]
        /\ view \in Seq(Line)
        /\ req \in Seq([type : {"list", "subscribe", "unsubscribe", "get"},
                        log : Logs \cup {NoLog}])
    BY <1>1
  <2>4. up \in BOOLEAN /\ open \in BOOLEAN /\ (open => up) /\ token \in BOOLEAN
    OBVIOUS
  <2>5. /\ known \subseteq Logs /\ listener \in {"none", "starting", "waiting"}
        /\ subscribed \subseteq known /\ current \in Logs \cup {NoLog} /\ sidebar \subseteq known
    OBVIOUS
  <2> QED
    BY ONLY <2>1, <2>2, <2>3, <2>4, <2>5 DEF TypeOK
<1>3. MessageInv /\ RequestInv /\ GapInv /\ ListInv
  BY <1>1 DEF MessageInv, RequestInv, GapInv, ListInv
<1>4. OnceInv
  BY <1>1 DEF OnceInv
<1>5. ShownInv
  <2>1. 0 \in 0 .. Len(view) /\ 1 .. 0 = {} /\ 0 + 1 .. Len(view) = {}
    BY <1>1
  <2> QED
    BY <1>1, <2>1 DEF ShownInv
<1> QED
  BY <1>2, <1>3, <1>4, <1>5 DEF ViewInv

\* The invariant holds.
THEOREM Invariant == Spec => []ViewInv
<1>1. ViewInv /\ [Next]_vars => ViewInv'
  BY TypeStep, MessageStep, RequestStep, GapStep, OnceStep, ShownStep, ListStep DEF ViewInv
<1> QED
  BY InitInv, <1>1, PTL DEF Spec

\* TypeOK, for every number of logs, lines, clicks and crashes.
THEOREM TypesHold == Spec => []TypeOK
<1>1. ViewInv => TypeOK
  BY DEF ViewInv
<1> QED
  BY Invariant, <1>1, PTL

\* NoGap: when the page and the server have nothing more to say to each other,
\* every readable line of the selected log is on the page, whatever log_print,
\* subscribe, get_log and a change of the log did in between.
THEOREM NothingMissing == Spec => []NoGap
<1>1. ViewInv => NoGap
  <2> SUFFICES ASSUME ViewInv, Quiet, current # NoLog, NEW n \in ToSet(Parsed(file[current]))
               PROVE  n \in ToSet(view)
    BY DEF NoGap
  <2>1. WillBeShown(n)
    BY DEF ViewInv, GapInv, Quiet
  <2>2. current \in Logs /\ queue[current] = <<>> /\ rep = <<>>
    BY DEF ViewInv, TypeOK, Quiet
  <2>3. ToSet(<<>>) = {} /\ DOMAIN <<>> = {}
    BY DEF ToSet
  <2> QED
    BY <2>1, <2>2, <2>3 DEF WillBeShown
<1> QED
  BY Invariant, <1>1, PTL

\* ShownAtMostTwice: a line is on the page once from the archive and once on its
\* own, never more often.
THEOREM TwiceAtMost == Spec => []ShownAtMostTwice
<1>1. ViewInv => ShownAtMostTwice
  <2> SUFFICES ASSUME ViewInv, NEW n \in ToSet(view)
               PROVE  Cardinality({i \in DOMAIN view : view[i] = n}) <= 2
    BY DEF ShownAtMostTwice
  <2>1. PICK p \in 0 .. Len(view) :
            /\ \A i, k \in 1 .. p : view[i] = view[k] => i = k
            /\ \A i, k \in p + 1 .. Len(view) : view[i] = view[k] => i = k
    BY DEF ViewInv, ShownInv
  <2>2. view \in Seq(1 .. lines)
    BY DEF ViewInv, ShownInv
  <2>3. DOMAIN view = (1 .. p) \cup (p + 1 .. Len(view))
    <3>1. p \in Nat /\ Len(view) \in Nat /\ p <= Len(view) /\ DOMAIN view = 1 .. Len(view)
      BY <2>1, <2>2
    <3> QED
      BY ONLY <3>1
  <2> DEFINE A == {i \in 1 .. p : view[i] = n}
             B == {i \in p + 1 .. Len(view) : view[i] = n}
  <2>4. {i \in DOMAIN view : view[i] = n} = A \cup B
    BY <2>3
  <2>5. \E a : A \subseteq {a}
    BY <2>1
  <2>6. \E b : B \subseteq {b}
    BY <2>1
  <2> HIDE DEF A, B
  <2>7. PICK a, b : A \cup B \subseteq {a, b}
    <3>1. PICK a : A \subseteq {a}
      BY <2>5
    <3>2. PICK b : B \subseteq {b}
      BY <2>6
    <3>3. A \cup B \subseteq {a, b}
      BY <3>1, <3>2
    <3> QED
      BY <3>3
  <2>8. IsFiniteSet({a, b}) /\ Cardinality({a, b}) <= 2
    <3>1. IsFiniteSet({a}) /\ Cardinality({a}) = 1
      BY FS_Singleton
    <3>2. {a, b} = {a} \cup {b}
      OBVIOUS
    <3>3. /\ IsFiniteSet({a} \cup {b})
          /\ Cardinality({a} \cup {b}) = IF b \in {a} THEN 1 ELSE 1 + 1
      BY <3>1, FS_AddElement
    <3> QED
      BY <3>2, <3>3
  <2>9. /\ Cardinality(A \cup B) <= Cardinality({a, b})
        /\ Cardinality(A \cup B) \in Nat /\ Cardinality({a, b}) \in Nat
    BY <2>7, <2>8, FS_Subset, FS_CardinalityType
  <2>10. Cardinality(A \cup B) <= 2
    BY ONLY <2>8, <2>9
  <2> QED
    BY <2>4, <2>10
<1> QED
  BY Invariant, <1>1, PTL

\* ListIsComplete: when everything has been delivered, the page's list has every
\* log, the ones included that log_print created while the list was sent.
THEOREM ListComplete == Spec => []ListIsComplete
<1>1. ViewInv => ListIsComplete
  <2> SUFFICES ASSUME ViewInv, Quiet, listener = "waiting", ~token PROVE sidebar = known
    BY DEF ListIsComplete
  <2>1. DOMAIN rep = {}
    BY DEF Quiet
  <2> QED
    BY <2>1 DEF ViewInv, ListInv
<1> QED
  BY Invariant, <1>1, PTL
=============================================================================
