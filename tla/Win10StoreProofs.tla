-------------------------- MODULE Win10StoreProofs --------------------------
(***************************************************************************)
(* Proofs about the thread that follows the Windows store, for any updates, *)
(* any bounds and any place of the crashes: about Win10Store and VersionDb, *)
(* and at the end about StoreProtocol.                                     *)
(*                                                                         *)
(* First the database as data: versions.txt is read back as it was written, *)
(* what is read of a torn one are beginnings of its lists, and the JSON form *)
(* has the first x64 entry of each version.  Write and Read are recursive  *)
(* functions: what they compute is proved with sets of numbers that contain *)
(* 0 and, with n - 1, also n.                                              *)
(*                                                                         *)
(* Then StoreInv is inductive.  Only the database callback and a torn write *)
(* change the database (DatabaseStep), a callback adds to the ends of the  *)
(* lists, and what is known is on its way through file, commit and push.   *)
(***************************************************************************)
EXTENDS Win10Store, StoreCounts, TLAPS, FiniteSetTheorems, FunctionTheorems,
        SequenceTheorems, WellFoundedInduction

(***************************************************************************)
(* Recursive functions on numbers.                                         *)
(***************************************************************************)

\* Induction, with a set for the formula: what holds of 0 and goes from n - 1
\* to n holds up to N.
LEMMA Climbing ==
    ASSUME NEW N \in Nat, NEW T, 0 \in T, \A n \in 1 .. N : n - 1 \in T => n \in T
    PROVE  0 .. N \subseteq T
<1> DEFINE R == {p \in Nat \X Nat : p[1] < p[2]}
           Bad == (0 .. N) \ T
<1>1. IsWellFoundedOn(R, Nat)
  BY NatLessThanWellFounded DEF OpToRel
<1>2. Bad \subseteq Nat
  OBVIOUS
<1> SUFFICES ASSUME Bad # {} PROVE FALSE
  OBVIOUS
<1> HIDE DEF R
<1>3. PICK x \in Bad : \A y \in Bad : ~(<<y, x>> \in R)
  BY <1>1, <1>2, WFMin
<1>4. x \in 1 .. N /\ x - 1 \notin T
  OBVIOUS
<1>5. x - 1 \in Bad /\ x - 1 \in Nat /\ x \in Nat /\ x - 1 < x
  BY <1>4
<1>6. <<x - 1, x>> \in R
  BY <1>5 DEF R
<1> QED
  BY <1>3, <1>5, <1>6

\* A function that starts with d and applies the steps g[1], g[2]... of D.
Steps(g, N, D) == \A n \in 1 .. N : \A x \in D : g[n][x] \in D
Iterate(f, d, g, N, D) == /\ f \in [0 .. N -> D] /\ f[0] = d
                          /\ \A n \in 1 .. N : f[n] = g[n][f[n - 1]]

\* There is such a function.
LEMMA Iterates ==
    ASSUME NEW N \in Nat, NEW D, NEW d \in D, NEW g, Steps(g, N, D)
    PROVE  \E f : Iterate(f, d, g, N, D)
<1> DEFINE Upto(m) == \E f \in [0 .. m -> D] :
                        f[0] = d /\ \A n \in 1 .. m : f[n] = g[n][f[n - 1]]
           T == {m \in 0 .. N : Upto(m)}
<1>1. 0 \in T
  <2> DEFINE f == [i \in 0 .. 0 |-> d]
  <2>1. f \in [0 .. 0 -> D] /\ f[0] = d /\ \A n \in 1 .. 0 : f[n] = g[n][f[n - 1]]
    OBVIOUS
  <2> HIDE DEF f
  <2>2. Upto(0)
    BY <2>1
  <2> HIDE DEF Upto
  <2> QED
    BY <2>2
<1>2. ASSUME NEW m \in 1 .. N, m - 1 \in T PROVE m \in T
  <2>1. PICK f \in [0 .. (m - 1) -> D] :
            f[0] = d /\ \A n \in 1 .. (m - 1) : f[n] = g[n][f[n - 1]]
    BY <1>2
  <2> DEFINE h == [i \in 0 .. m |-> IF i = m THEN g[m][f[m - 1]] ELSE f[i]]
  <2>2. f[m - 1] \in D /\ g[m][f[m - 1]] \in D
    BY DEF Steps
  <2>3. h \in [0 .. m -> D]
    BY <2>2
  <2>4. h[0] = d
    BY <2>1
  <2>5. ASSUME NEW n \in 1 .. m PROVE h[n] = g[n][h[n - 1]]
    <3>1. n - 1 \in 0 .. m /\ n - 1 # m
      OBVIOUS
    <3>2. h[n - 1] = f[n - 1]
      BY <3>1
    <3>3. CASE n = m
      BY <3>2, <3>3
    <3>4. CASE n # m
      <4>1. n \in 1 .. (m - 1) /\ h[n] = f[n]
        BY <3>4
      <4> QED
        BY <2>1, <3>2, <4>1
    <3> QED
      BY <3>3, <3>4
  <2>6. m \in 0 .. N
    OBVIOUS
  <2> HIDE DEF h
  <2> QED
    BY <2>3, <2>4, <2>5, <2>6
<1> HIDE DEF T
<1>3. 0 .. N \subseteq T
  BY <1>1, <1>2, Climbing
<1>4. PICK f \in [0 .. N -> D] : f[0] = d /\ \A n \in 1 .. N : f[n] = g[n][f[n - 1]]
  BY <1>3 DEF T
<1>5. Iterate(f, d, g, N, D)
  BY <1>4 DEF Iterate
<1> QED
  BY <1>5

\* Which list the lines belong to.
ListStep(line, c) ==
    IF line = "Releases" THEN "release"
    ELSE IF line = "Beta" THEN "beta"
    ELSE IF line = "Preview" THEN "preview" ELSE c

\* ListAt goes by its steps.
LEMMA ListSteps ==
    ASSUME NEW lines, Len(lines) \in Nat
    PROVE  /\ ListAt(lines) \in [0 .. Len(lines) -> Channels]
           /\ ListAt(lines)[0] = "release"
           /\ \A n \in 1 .. Len(lines) :
                ListAt(lines)[n] = ListStep(lines[n], ListAt(lines)[n - 1])
<1> PICK N \in Nat : N = Len(lines)
  OBVIOUS
<1> DEFINE Body(at) == [n \in 0 .. N |-> IF n = 0 THEN "release"
                                    ELSE IF lines[n] = "Releases" THEN "release"
                                    ELSE IF lines[n] = "Beta"     THEN "beta"
                                    ELSE IF lines[n] = "Preview"  THEN "preview"
                                    ELSE at[n - 1]]
           Is(at) == at = Body(at)
<1>1. ListAt(lines) = CHOOSE at : Is(at)
  BY DEF ListAt
<1>2. PICK g \in [1 .. N -> [Channels -> Channels]] :
        \A n \in 1 .. N, c \in Channels : g[n][c] = ListStep(lines[n], c)
  <2> DEFINE h == [n \in 1 .. N |-> [c \in Channels |-> ListStep(lines[n], c)]]
  <2>1. h \in [1 .. N -> [Channels -> Channels]]
    BY DEF Channels, ListStep
  <2>2. \A n \in 1 .. N, c \in Channels : h[n][c] = ListStep(lines[n], c)
    OBVIOUS
  <2> HIDE DEF h
  <2> QED
    BY <2>1, <2>2
<1>3. "release" \in Channels
  BY DEF Channels
<1>4. PICK f \in [0 .. N -> Channels] :
        f[0] = "release" /\ \A n \in 1 .. N : f[n] = g[n][f[n - 1]]
  <2>1. Steps(g, N, Channels)
    BY DEF Steps
  <2>2. PICK f : Iterate(f, "release", g, N, Channels)
    BY <2>1, <1>3, Iterates
  <2> QED
    BY <2>2 DEF Iterate
<1>5. ASSUME NEW n \in 1 .. N PROVE f[n] = ListStep(lines[n], f[n - 1])
  <2>1. n - 1 \in 0 .. N
    OBVIOUS
  <2>2. f[n - 1] \in Channels /\ f[n] = g[n][f[n - 1]]
    BY <1>4, <2>1
  <2> QED
    BY <2>2, <1>2
<1>6. Is(f)
  <2>1. \A n \in 0 .. N : f[n] = Body(f)[n]
    BY <1>4, <1>5 DEF ListStep
  <2>2. DOMAIN Body(f) = 0 .. N /\ DOMAIN f = 0 .. N
    OBVIOUS
  <2> QED
    BY <2>1, <2>2
<1>7. PICK at : at = ListAt(lines) /\ Is(at)
  BY <1>1, <1>6
<1>8. at[0] = "release"
  BY <1>7
<1>9. \A n \in 1 .. N : at[n] = ListStep(lines[n], at[n - 1])
  BY <1>7 DEF ListStep
<1>10. at \in [0 .. N -> Channels]
  <2> DEFINE T == {n \in 0 .. N : at[n] \in Channels}
  <2>1. 0 \in T
    BY <1>8, <1>3
  <2>2. ASSUME NEW n \in 1 .. N, n - 1 \in T PROVE n \in T
    BY <2>2, <1>9 DEF ListStep, Channels
  <2>3. 0 .. N \subseteq T
    <3> HIDE DEF T
    <3> QED
      BY <2>1, <2>2, Climbing
  <2> QED
    BY <1>7, <2>3
<1> QED
  BY <1>7, <1>8, <1>9, <1>10

\* What has been read.
ReadStep(line, c, db) ==
    IF line \in Entries THEN [db EXCEPT ![c] = Append(@, line)] ELSE db

\* ReadUpTo goes by its steps.
LEMMA ReadSteps ==
    ASSUME NEW lines, Len(lines) \in Nat
    PROVE  /\ ReadUpTo(lines) \in [0 .. Len(lines) -> Lists]
           /\ ReadUpTo(lines)[0] = Empty
           /\ \A n \in 1 .. Len(lines) :
                ReadUpTo(lines)[n] = ReadStep(lines[n], ListAt(lines)[n], ReadUpTo(lines)[n - 1])
<1> PICK N \in Nat : N = Len(lines)
  OBVIOUS
<1> DEFINE Body(db) == [n \in 0 .. N |->
                IF n = 0 THEN Empty
                ELSE IF lines[n] \in Entries
                     THEN [db[n - 1] EXCEPT ![ListAt(lines)[n]] = Append(@, lines[n])]
                     ELSE db[n - 1]]
           Is(db) == db = Body(db)
<1>1. ReadUpTo(lines) = CHOOSE db : Is(db)
  BY DEF ReadUpTo
<1>2. \A n \in 1 .. N : ListAt(lines)[n] \in Channels
  BY ListSteps
<1>3. ASSUME NEW n \in 1 .. N, NEW d \in Lists
      PROVE  ReadStep(lines[n], ListAt(lines)[n], d) \in Lists
  <2>1. PICK c \in Channels : c = ListAt(lines)[n]
    BY <1>2
  <2>2. PICK line : line = lines[n]
    OBVIOUS
  <2>3. ReadStep(line, c, d) \in Lists
    <3>1. CASE line \in Entries
      <4>1. d[c] \in Seq(Entries)
        BY DEF Lists
      <4>2. Append(d[c], line) \in Seq(Entries)
        BY <3>1, <4>1
      <4> QED
        BY <3>1, <4>2 DEF ReadStep, Lists
    <3>2. CASE line \notin Entries
      BY <3>2 DEF ReadStep
    <3> QED
      BY <3>1, <3>2
  <2> QED
    BY <2>1, <2>2, <2>3
<1>4. PICK g \in [1 .. N -> [Lists -> Lists]] :
        \A n \in 1 .. N, d \in Lists : g[n][d] = ReadStep(lines[n], ListAt(lines)[n], d)
  <2> DEFINE h == [n \in 1 .. N |-> [d \in Lists |-> ReadStep(lines[n], ListAt(lines)[n], d)]]
  <2>1. h \in [1 .. N -> [Lists -> Lists]]
    BY <1>3
  <2>2. \A n \in 1 .. N, d \in Lists : h[n][d] = ReadStep(lines[n], ListAt(lines)[n], d)
    OBVIOUS
  <2> HIDE DEF h
  <2> QED
    BY <2>1, <2>2
<1>5. Empty \in Lists
  <2>1. <<>> \in Seq(Entries)
    OBVIOUS
  <2> QED
    BY <2>1 DEF Empty, Lists
<1>6. PICK f \in [0 .. N -> Lists] :
        f[0] = Empty /\ \A n \in 1 .. N : f[n] = g[n][f[n - 1]]
  <2>1. Steps(g, N, Lists)
    BY DEF Steps
  <2>2. PICK f : Iterate(f, Empty, g, N, Lists)
    BY <2>1, <1>5, Iterates
  <2> QED
    BY <2>2 DEF Iterate
<1>7. ASSUME NEW n \in 1 .. N
      PROVE  f[n] = ReadStep(lines[n], ListAt(lines)[n], f[n - 1])
  <2>1. n - 1 \in 0 .. N
    OBVIOUS
  <2>2. f[n - 1] \in Lists /\ f[n] = g[n][f[n - 1]]
    BY <1>6, <2>1
  <2> QED
    BY <2>2, <1>4
<1>8. Is(f)
  <2>1. ASSUME NEW n \in 0 .. N PROVE f[n] = Body(f)[n]
    <3>1. CASE n = 0
      BY <1>6, <3>1
    <3>2. CASE n # 0
      <4>1. n \in 1 .. N
        BY <3>2
      <4>2. f[n] = ReadStep(lines[n], ListAt(lines)[n], f[n - 1])
        BY <1>7, <4>1
      <4> QED
        BY <3>2, <4>2, Zenon DEF ReadStep
    <3> QED
      BY <3>1, <3>2
  <2>2. DOMAIN Body(f) = 0 .. N /\ DOMAIN f = 0 .. N
    OBVIOUS
  <2> QED
    BY <2>1, <2>2
<1>9. PICK db : db = ReadUpTo(lines) /\ Is(db)
  BY <1>1, <1>8
<1>10. db[0] = Empty
  BY <1>9
<1>11. ASSUME NEW n \in 1 .. N
       PROVE  db[n] = ReadStep(lines[n], ListAt(lines)[n], db[n - 1])
  <2>1. n # 0 /\ n \in 0 .. N
    OBVIOUS
  <2>2. db[n] = Body(db)[n]
    BY <1>9
  <2> QED
    BY <2>1, <2>2, Zenon DEF ReadStep
<1>12. db \in [0 .. N -> Lists]
  <2> DEFINE T == {n \in 0 .. N : db[n] \in Lists}
  <2>1. 0 \in T
    BY <1>10, <1>5
  <2>2. ASSUME NEW n \in 1 .. N, n - 1 \in T PROVE n \in T
    BY <2>2, <1>11, <1>3
  <2>3. 0 .. N \subseteq T
    <3> HIDE DEF T
    <3> QED
      BY <2>1, <2>2, Climbing
  <2> QED
    BY <1>9, <2>3
<1> QED
  BY <1>9, <1>10, <1>11, <1>12

-----------------------------------------------------------------------------
LEMMA ReadIsLists == ASSUME NEW lines, Len(lines) \in Nat PROVE Read(lines) \in Lists
<1>1. Len(lines) \in 0 .. Len(lines)
  OBVIOUS
<1> QED
  BY <1>1, ReadSteps DEF Read

(***************************************************************************)
(* Where the lines are that Write writes.                                  *)
(***************************************************************************)
Lines == Entries \cup {"Releases", "Beta", "Preview", ""}

HeadingAt(d, c) ==
    IF c = "release" THEN 1
    ELSE IF c = "beta" THEN Len(d["release"]) + 3
    ELSE Len(d["release"]) + Len(d["beta"]) + 5

SectionOf(d, n) ==
    IF n < HeadingAt(d, "beta") THEN "release"
    ELSE IF n < HeadingAt(d, "preview") THEN "beta" ELSE "preview"

\* How many entries of a list are among the first n lines.
Among(d, c, n) ==
    IF n < HeadingAt(d, c) THEN 0
    ELSE IF n - HeadingAt(d, c) > Len(d[c]) THEN Len(d[c])
    ELSE n - HeadingAt(d, c)

\* A heading, the entries, an empty line.
LEMMA SectionLines ==
    ASSUME NEW S, NEW h \in S, NEW z \in S, NEW e \in Seq(S)
    PROVE  /\ (<<h>> \o e) \o <<z>> \in Seq(S)
           /\ Len((<<h>> \o e) \o <<z>>) = Len(e) + 2 /\ Len(e) \in Nat
           /\ ((<<h>> \o e) \o <<z>>)[1] = h
           /\ \A i \in 1 .. Len(e) : ((<<h>> \o e) \o <<z>>)[1 + i] = e[i]
           /\ ((<<h>> \o e) \o <<z>>)[Len(e) + 2] = z
<1>1. /\ <<h>> \in Seq(S) /\ Len(<<h>>) = 1 /\ <<h>>[1] = h
      /\ <<z>> \in Seq(S) /\ Len(<<z>>) = 1 /\ <<z>>[1] = z
      /\ Len(e) \in Nat
  OBVIOUS
<1> DEFINE s == <<h>> \o e
           t == s \o <<z>>
<1>2. /\ s \in Seq(S) /\ Len(s) = 1 + Len(e)
      /\ \A i \in 1 .. 1 + Len(e) : s[i] = IF i <= 1 THEN <<h>>[i] ELSE e[i - 1]
  BY <1>1, ConcatProperties
<1> HIDE DEF s
<1>3. /\ t \in Seq(S) /\ Len(t) = Len(s) + 1
      /\ \A i \in 1 .. Len(s) + 1 : t[i] = IF i <= Len(s) THEN s[i] ELSE <<z>>[i - Len(s)]
  BY <1>1, <1>2, ConcatProperties
<1> HIDE DEF t
<1>4. t[1] = h
  <2>1. 1 \in 1 .. Len(s) + 1 /\ 1 <= Len(s) /\ 1 \in 1 .. 1 + Len(e) /\ 1 <= 1
    BY <1>1, <1>2
  <2> QED
    BY <1>1, <1>2, <1>3, <2>1
<1>5. ASSUME NEW i \in 1 .. Len(e) PROVE t[1 + i] = e[i]
  <2>1. /\ 1 + i \in 1 .. Len(s) + 1 /\ 1 + i <= Len(s) /\ 1 + i \in 1 .. 1 + Len(e)
        /\ ~(1 + i <= 1) /\ (1 + i) - 1 = i
    BY <1>1, <1>2
  <2> QED
    BY <1>2, <1>3, <2>1
<1>6. t[Len(e) + 2] = z
  <2>1. /\ Len(e) + 2 \in 1 .. Len(s) + 1 /\ ~(Len(e) + 2 <= Len(s))
        /\ (Len(e) + 2) - Len(s) = 1
    BY <1>1, <1>2
  <2> QED
    BY <1>1, <1>3, <2>1
<1> QED
  BY <1>1, <1>2, <1>3, <1>4, <1>5, <1>6 DEF s, t

\* Three sections one after the other.
LEMMA ThreeParts ==
    ASSUME NEW S, NEW r \in Seq(S), NEW b \in Seq(S), NEW p \in Seq(S)
    PROVE  /\ r \o b \o p \in Seq(S)
           /\ Len(r) \in Nat /\ Len(b) \in Nat /\ Len(p) \in Nat
           /\ Len(r \o b \o p) = Len(r) + Len(b) + Len(p)
           /\ \A i \in 1 .. Len(r) : (r \o b \o p)[i] = r[i]
           /\ \A i \in 1 .. Len(b) : (r \o b \o p)[Len(r) + i] = b[i]
           /\ \A i \in 1 .. Len(p) : (r \o b \o p)[Len(r) + Len(b) + i] = p[i]
<1> DEFINE s == r \o b
           t == s \o p
<1>1. Len(r) \in Nat /\ Len(b) \in Nat /\ Len(p) \in Nat
  OBVIOUS
<1>2. /\ s \in Seq(S) /\ Len(s) = Len(r) + Len(b)
      /\ \A i \in 1 .. Len(r) + Len(b) : s[i] = IF i <= Len(r) THEN r[i] ELSE b[i - Len(r)]
  BY ConcatProperties
<1> HIDE DEF s
<1>3. /\ t \in Seq(S) /\ Len(t) = Len(s) + Len(p)
      /\ \A i \in 1 .. Len(s) + Len(p) : t[i] = IF i <= Len(s) THEN s[i] ELSE p[i - Len(s)]
  <2>1. s \in Seq(S) /\ p \in Seq(S)
    BY <1>2
  <2> QED
    BY ONLY <2>1, ConcatProperties
<1> HIDE DEF t
<1>4. ASSUME NEW i \in 1 .. Len(r) PROVE t[i] = r[i]
  BY <1>1, <1>2, <1>3
<1>5. ASSUME NEW i \in 1 .. Len(b) PROVE t[Len(r) + i] = b[i]
  <2>1. /\ Len(r) + i \in 1 .. Len(r) + Len(b) /\ Len(r) + i \in 1 .. Len(s) + Len(p)
        /\ Len(r) + i <= Len(s) /\ ~(Len(r) + i <= Len(r)) /\ (Len(r) + i) - Len(r) = i
    BY <1>1, <1>2
  <2> QED
    BY <1>2, <1>3, <2>1
<1>6. ASSUME NEW i \in 1 .. Len(p) PROVE t[Len(r) + Len(b) + i] = p[i]
  <2>1. /\ Len(r) + Len(b) + i \in 1 .. Len(s) + Len(p)
        /\ ~(Len(r) + Len(b) + i <= Len(s)) /\ (Len(r) + Len(b) + i) - Len(s) = i
    BY <1>1, <1>2
  <2> QED
    BY <1>2, <1>3, <2>1
<1> QED
  BY <1>1, <1>2, <1>3, <1>4, <1>5, <1>6 DEF s, t

LEMMA HeadingIs == /\ Heading["release"] = "Releases" /\ Heading["beta"] = "Beta"
                   /\ Heading["preview"] = "Preview"
  BY DEF Heading

\* Which line each heading, entry and empty line is.
LEMMA LinesOfWrite ==
    ASSUME NEW d \in Lists
    PROVE  /\ Write(d) \in Seq(Lines)
           /\ Len(Write(d)) = Len(d["release"]) + Len(d["beta"]) + Len(d["preview"]) + 6
           /\ \A c \in Channels :
                /\ Write(d)[HeadingAt(d, c)] = Heading[c]
                /\ \A i \in 1 .. Len(d[c]) : Write(d)[HeadingAt(d, c) + i] = d[c][i]
                /\ Write(d)[HeadingAt(d, c) + Len(d[c]) + 1] = ""
<1> DEFINE Sec(c) == Section(c, d[c])
           W == Write(d)
<1>1. ASSUME NEW c \in Channels
      PROVE  /\ Sec(c) \in Seq(Lines) /\ Len(Sec(c)) = Len(d[c]) + 2 /\ Len(d[c]) \in Nat
             /\ Sec(c)[1] = Heading[c]
             /\ \A i \in 1 .. Len(d[c]) : Sec(c)[1 + i] = d[c][i]
             /\ Sec(c)[Len(d[c]) + 2] = ""
  <2>1. Heading[c] \in Lines /\ "" \in Lines
    BY HeadingIs DEF Lines, Channels
  <2>2. d[c] \in Seq(Entries) /\ Entries \subseteq Lines
    BY DEF Lists, Lines
  <2>3. d[c] \in Seq(Lines)
    BY <2>2, SeqMonotonic
  <2>4. Sec(c) = (<<Heading[c]>> \o d[c]) \o <<"">>
    BY DEF Section
  <2>5. PICK h \in Lines, z \in Lines, e \in Seq(Lines) : h = Heading[c] /\ z = "" /\ e = d[c]
    BY <2>1, <2>3
  <2> HIDE DEF Sec
  <2>6. Sec(c) = (<<h>> \o e) \o <<z>>
    BY <2>4, <2>5
  <2> DEFINE Laid(t, k, w, l) ==
            /\ t \in Seq(Lines) /\ Len(t) = Len(l) + 2 /\ Len(l) \in Nat
            /\ t[1] = k /\ t[Len(l) + 2] = w
            /\ \A i \in 1 .. Len(l) : t[1 + i] = l[i]
  <2>7. Laid((<<h>> \o e) \o <<z>>, h, z, e)
    BY SectionLines
  <2>8. Laid(Sec(c), Heading[c], "", d[c])
    <3> HIDE DEF Laid
    <3> QED
      BY <2>5, <2>6, <2>7
  <2> QED
    BY <2>8
<1>2. "release" \in Channels /\ "beta" \in Channels /\ "preview" \in Channels
  BY DEF Channels
<1>3. W = Sec("release") \o Sec("beta") \o Sec("preview")
  BY DEF Write
<1> DEFINE r == Sec("release")  b == Sec("beta")  p == Sec("preview")
<1> HIDE DEF Sec, W
<1>4. /\ W \in Seq(Lines) /\ Len(W) = Len(r) + Len(b) + Len(p)
      /\ \A i \in 1 .. Len(r) : W[i] = r[i]
      /\ \A i \in 1 .. Len(b) : W[Len(r) + i] = b[i]
      /\ \A i \in 1 .. Len(p) : W[Len(r) + Len(b) + i] = p[i]
  <2>1. r \in Seq(Lines) /\ b \in Seq(Lines) /\ p \in Seq(Lines)
    BY <1>1, <1>2
  <2>2. W = r \o b \o p
    BY <1>3
  <2> HIDE DEF r, b, p
  <2> QED
    BY ONLY <2>1, <2>2, ThreeParts
<1> HIDE DEF r, b, p
<1>x. PICK x \in Nat, y \in Nat, z \in Nat :
        x = Len(d["release"]) /\ y = Len(d["beta"]) /\ z = Len(d["preview"])
  BY <1>1, <1>2
<1>5. Len(r) = x + 2 /\ Len(b) = y + 2 /\ Len(p) = z + 2
  BY <1>1, <1>2, <1>x DEF r, b, p
<1>6. /\ r[1] = Heading["release"] /\ r[x + 2] = ""
      /\ \A i \in 1 .. x : r[1 + i] = d["release"][i]
  BY <1>1, <1>2, <1>x DEF r
<1>7. /\ b[1] = Heading["beta"] /\ b[y + 2] = ""
      /\ \A i \in 1 .. y : b[1 + i] = d["beta"][i]
  BY <1>1, <1>2, <1>x DEF b
<1>8. /\ p[1] = Heading["preview"] /\ p[z + 2] = ""
      /\ \A i \in 1 .. z : p[1 + i] = d["preview"][i]
  BY <1>1, <1>2, <1>x DEF p
<1> DEFINE At(c) == /\ W[HeadingAt(d, c)] = Heading[c]
                    /\ \A i \in 1 .. Len(d[c]) : W[HeadingAt(d, c) + i] = d[c][i]
                    /\ W[HeadingAt(d, c) + Len(d[c]) + 1] = ""
<1>9. At("release")
  <2>1. HeadingAt(d, "release") = 1
    BY DEF HeadingAt
  <2>2. W[1] = Heading["release"]
    <3>1. 1 \in 1 .. Len(r)
      BY <1>5
    <3> QED
      BY <1>4, <1>6, <3>1
  <2>3. ASSUME NEW i \in 1 .. x PROVE W[1 + i] = d["release"][i]
    <3>1. 1 + i \in 1 .. Len(r)
      BY <1>5
    <3> QED
      BY <1>4, <1>6, <3>1
  <2>4. W[1 + x + 1] = ""
    <3>1. x + 2 \in 1 .. Len(r) /\ 1 + x + 1 = x + 2
      BY <1>5
    <3> QED
      BY <1>4, <1>6, <3>1
  <2> QED
    BY <1>x, <2>1, <2>2, <2>3, <2>4
<1>10. At("beta")
  <2>1. HeadingAt(d, "beta") = x + 3
    BY <1>x DEF HeadingAt
  <2>2. W[x + 3] = Heading["beta"]
    <3>1. 1 \in 1 .. Len(b) /\ Len(r) + 1 = x + 3
      BY <1>5
    <3> QED
      BY <1>4, <1>7, <3>1
  <2>3. ASSUME NEW i \in 1 .. y PROVE W[x + 3 + i] = d["beta"][i]
    <3>1. 1 + i \in 1 .. Len(b) /\ Len(r) + (1 + i) = x + 3 + i
      BY <1>5
    <3> QED
      BY <1>4, <1>7, <3>1
  <2>4. W[x + 3 + y + 1] = ""
    <3>1. y + 2 \in 1 .. Len(b) /\ Len(r) + (y + 2) = x + 3 + y + 1
      BY <1>5
    <3> QED
      BY <1>4, <1>7, <3>1
  <2> QED
    BY <1>x, <2>1, <2>2, <2>3, <2>4
<1>11. At("preview")
  <2>1. HeadingAt(d, "preview") = x + y + 5
    BY <1>x DEF HeadingAt
  <2>2. W[x + y + 5] = Heading["preview"]
    <3>1. 1 \in 1 .. Len(p) /\ Len(r) + Len(b) + 1 = x + y + 5
      BY <1>5
    <3> QED
      BY <1>4, <1>8, <3>1
  <2>3. ASSUME NEW i \in 1 .. z PROVE W[x + y + 5 + i] = d["preview"][i]
    <3>1. 1 + i \in 1 .. Len(p) /\ Len(r) + Len(b) + (1 + i) = x + y + 5 + i
      BY <1>5
    <3> QED
      BY <1>4, <1>8, <3>1
  <2>4. W[x + y + 5 + z + 1] = ""
    <3>1. z + 2 \in 1 .. Len(p) /\ Len(r) + Len(b) + (z + 2) = x + y + 5 + z + 1
      BY <1>5
    <3> QED
      BY <1>4, <1>8, <3>1
  <2> QED
    BY <1>x, <2>1, <2>2, <2>3, <2>4
<1>12. \A c \in Channels : At(c)
  <2> HIDE DEF At
  <2> QED
    BY <1>9, <1>10, <1>11 DEF Channels
<1>13. Len(W) = x + y + z + 6
  BY <1>4, <1>5
<1> QED
  BY <1>4, <1>12, <1>13, <1>x DEF W

\* What the n-th line is.
LEMMA LineIs ==
    ASSUME NEW d \in Lists, NEW n \in 1 .. Len(Write(d))
    PROVE  LET c == SectionOf(d, n)  h == HeadingAt(d, c) IN
           /\ c \in Channels /\ h \in Nat
           /\ n = h \/ (n - h \in 1 .. Len(d[c]) + 1 /\ SectionOf(d, n - 1) = c)
           /\ \A x \in Channels : \/ Among(d, x, n) = Among(d, x, n - 1)
                                  \/ x = c /\ n - h \in 1 .. Len(d[c])
           /\ n - h \in 1 .. Len(d[c]) =>
                Among(d, c, n) = n - h /\ Among(d, c, n - 1) = n - h - 1
<1>1. PICK x \in Nat, y \in Nat, z \in Nat :
        x = Len(d["release"]) /\ y = Len(d["beta"]) /\ z = Len(d["preview"])
  BY DEF Lists, Channels
<1>2. n \in 1 .. x + y + z + 6
  BY <1>1, LinesOfWrite
<1>3. /\ HeadingAt(d, "release") = 1 /\ HeadingAt(d, "beta") = x + 3
      /\ HeadingAt(d, "preview") = x + y + 5
  BY <1>1 DEF HeadingAt
<1>0. ASSUME NEW c \in Channels, NEW k \in Nat,  NEW h \in Nat, NEW m \in Nat,
             HeadingAt(d, c) = h, Len(d[c]) = m
      PROVE  /\ k < h => Among(d, c, k) = 0
             /\ k >= h /\ k - h > m => Among(d, c, k) = m
             /\ k >= h /\ k - h <= m => Among(d, c, k) = k - h
  BY <1>0 DEF Among
<1>4. CASE n < x + 3
  <2>1. SectionOf(d, n) = "release"
    BY <1>3, <1>4 DEF SectionOf
  <2>2. SectionOf(d, n - 1) = "release"
    BY <1>2, <1>3, <1>4 DEF SectionOf
  <2>3. /\ Among(d, "beta", n) = 0 /\ Among(d, "beta", n - 1) = 0
        /\ Among(d, "preview", n) = 0 /\ Among(d, "preview", n - 1) = 0
    BY <1>2, <1>3, <1>4 DEF Among
  <2>4. /\ n - 1 \in 1 .. x => Among(d, "release", n) = n - 1 /\ Among(d, "release", n - 1) = n - 2
        /\ n - 1 \notin 1 .. x => Among(d, "release", n) = Among(d, "release", n - 1)
    BY <1>1, <1>2, <1>3, <1>4 DEF Among
  <2>5. n = 1 \/ n - 1 \in 1 .. x + 1
    BY <1>2, <1>4
  <2> QED
    BY <1>1, <1>2, <1>3, <2>1, <2>2, <2>3, <2>4, <2>5 DEF Channels
<1>5. CASE x + 3 <= n /\ n < x + y + 5
  <2>1. SectionOf(d, n) = "beta"
    BY <1>2, <1>3, <1>5 DEF SectionOf
  <2>2. n = x + 3 \/ SectionOf(d, n - 1) = "beta"
    BY <1>2, <1>3, <1>5 DEF SectionOf
  <2>3. /\ Among(d, "release", n) = x /\ Among(d, "release", n - 1) = x
        /\ Among(d, "preview", n) = 0 /\ Among(d, "preview", n - 1) = 0
    <3>1. n \in Nat /\ n - 1 \in Nat /\ n - 1 >= 1 /\ (n - 1) - 1 > x /\ n >= 1 /\ n - 1 > x
      BY <1>2, <1>5
    <3>2. n < x + y + 5 /\ n - 1 < x + y + 5 /\ x + y + 5 \in Nat
      BY <1>2, <1>5
    <3> QED
      BY <1>0, <1>1, <1>3, <3>1, <3>2 DEF Channels
  <2>4. /\ n - (x + 3) \in 1 .. y => /\ Among(d, "beta", n) = n - (x + 3)
                                     /\ Among(d, "beta", n - 1) = n - (x + 3) - 1
        /\ n - (x + 3) \notin 1 .. y => Among(d, "beta", n) = Among(d, "beta", n - 1)
    BY <1>1, <1>2, <1>3, <1>5 DEF Among
  <2>5. n = x + 3 \/ n - (x + 3) \in 1 .. y + 1
    BY <1>2, <1>5
  <2> QED
    BY <1>1, <1>2, <1>3, <2>1, <2>2, <2>3, <2>4, <2>5 DEF Channels
<1>6. CASE x + y + 5 <= n
  <2>0. PICK h \in Nat : h = x + y + 5
    OBVIOUS
  <2>1. SectionOf(d, n) = "preview"
    BY <1>2, <1>3, <1>6, <2>0 DEF SectionOf
  <2>2. n = h \/ SectionOf(d, n - 1) = "preview"
    BY <1>2, <1>3, <1>6, <2>0 DEF SectionOf
  <2>3. /\ Among(d, "release", n) = x /\ Among(d, "release", n - 1) = x
        /\ Among(d, "beta", n) = y /\ Among(d, "beta", n - 1) = y
    <3>1. n \in Nat /\ n - 1 \in Nat /\ n - 1 >= 1 /\ (n - 1) - 1 > x /\ n >= 1 /\ n - 1 > x
      BY <1>2, <1>6
    <3>2. /\ n >= x + 3 /\ n - (x + 3) > y /\ n - 1 >= x + 3 /\ (n - 1) - (x + 3) > y
          /\ x + 3 \in Nat
      BY <1>2, <1>6
    <3> QED
      BY <1>0, <1>1, <1>3, <3>1, <3>2 DEF Channels
  <2>4. /\ n - h \in 1 .. z => /\ Among(d, "preview", n) = n - h
                               /\ Among(d, "preview", n - 1) = n - h - 1
        /\ n - h \notin 1 .. z => Among(d, "preview", n) = Among(d, "preview", n - 1)
    <3>1. /\ n \in Nat /\ n - 1 \in Nat /\ HeadingAt(d, "preview") = h
          /\ Len(d["preview"]) = z /\ "preview" \in Channels
      <4>1. n \in Nat /\ n - 1 \in Nat
        BY <1>2
      <4>2. "preview" \in Channels
        BY DEF Channels
      <4> QED
        BY <1>1, <1>3, <2>0, <4>1, <4>2
    <3>2. ASSUME NEW k \in Nat
          PROVE  /\ k < h => Among(d, "preview", k) = 0
                 /\ k >= h /\ k - h > z => Among(d, "preview", k) = z
                 /\ k >= h /\ k - h <= z => Among(d, "preview", k) = k - h
      BY <1>0, <3>1
    <3>3. CASE n - h \in 1 .. z
      BY <3>1, <3>2, <3>3
    <3>4. CASE n - h \notin 1 .. z
      <4>1. CASE n = h
        <5>1. Among(d, "preview", n) = 0
          BY <3>1, <3>2, <4>1
        <5>2. Among(d, "preview", n - 1) = 0
          BY <3>1, <3>2, <4>1
        <5> QED
          BY <3>4, <5>1, <5>2
      <4>2. CASE n # h
        <5>1. n - h > z /\ (n - 1) - h >= z
          BY <1>2, <1>6, <2>0, <3>4, <4>2
        <5>2. Among(d, "preview", n) = z
          BY <3>1, <3>2, <5>1
        <5>3. Among(d, "preview", n - 1) = z
          BY <3>1, <3>2, <5>1
        <5> QED
          BY <3>4, <5>2, <5>3
      <4> QED
        BY <4>1, <4>2
    <3> QED
      BY <3>3, <3>4
  <2>5. n = h \/ n - h \in 1 .. z + 1
    BY <1>2, <1>6, <2>0
  <2> QED
    BY <1>1, <1>2, <1>3, <2>0, <2>1, <2>2, <2>3, <2>4, <2>5 DEF Channels
<1> QED
  BY <1>2, <1>4, <1>5, <1>6

(***************************************************************************)
(* What is written is read, up to where a crash cut it off.                *)
(***************************************************************************)
Headings == {"Releases", "Beta", "Preview", ""}

\* The database that the first n lines of Write(d) hold.
Part(d, n) == [c \in Channels |-> SubSeq(d[c], 1, Among(d, c, n))]

LEMMA NotEntries ==
    ASSUME NEW c \in Channels
    PROVE  Heading[c] \notin Entries /\ "" \notin Entries /\ Heading[c] \in Headings
  BY Win10Assumption, HeadingIs DEF Channels, Headings

LEMMA ListIs ==
    ASSUME NEW d \in Lists, NEW c \in Channels
    PROVE  /\ d[c] \in Seq(Entries) /\ Len(d[c]) \in Nat
           /\ HeadingAt(d, c) \in Nat /\ HeadingAt(d, c) > 0
<1>1. \A x \in Channels : d[x] \in Seq(Entries)
  BY DEF Lists
<1>2. \A x \in Channels : Len(d[x]) \in Nat
  BY <1>1
<1>3. Len(d["release"]) \in Nat /\ Len(d["beta"]) \in Nat
  BY <1>2 DEF Channels
<1>4. HeadingAt(d, c) \in Nat /\ HeadingAt(d, c) > 0
  <2>1. PICK x \in Nat, y \in Nat : x = Len(d["release"]) /\ y = Len(d["beta"])
    BY <1>3
  <2>2. HeadingAt(d, c) \in {1, x + 3, x + y + 5}
    BY <2>1 DEF HeadingAt
  <2> QED
    BY <2>2
<1> QED
  BY <1>1, <1>2, <1>4

LEMMA LengthOfWrite == ASSUME NEW d \in Lists PROVE Len(Write(d)) \in Nat
<1>1. Write(d) \in Seq(Lines)
  BY LinesOfWrite
<1> QED
  BY <1>1

\* The recursive functions on the lines of Write(d).
LEMMA StepsThere ==
    /\ \A c, x \in Channels : ListStep(Heading[c], x) = c
    /\ \A x \in Channels : ListStep("", x) = x
    /\ \A e \in Entries, x \in Channels : ListStep(e, x) = x
<1>1. \A c, x \in Channels : ListStep(Heading[c], x) = c
  BY HeadingIs DEF ListStep, Channels
<1>2. \A x \in Channels : ListStep("", x) = x
  BY DEF ListStep
<1>3. \A e \in Entries, x \in Channels : ListStep(e, x) = x
  BY Win10Assumption DEF ListStep
<1> QED
  BY <1>1, <1>2, <1>3

\* A list with one entry more.
LEMMA OneMore ==
    ASSUME NEW S, NEW s \in Seq(S), NEW k \in 1 .. Len(s)
    PROVE  Append(SubSeq(s, 1, k - 1), s[k]) = SubSeq(s, 1, k)
<1>1. SubSeq(s, 1, k) = SubSeq(s, 1, k - 1) \o <<s[k]>>
  BY SubSeqRecursiveSecond
<1>2. k - 1 \in Int /\ \A i \in 1 .. k - 1 : s[i] \in S
  OBVIOUS
<1>3. SubSeq(s, 1, k - 1) \in Seq(S) /\ s[k] \in S
  BY <1>2, SubSeqProperties
<1> QED
  BY <1>1, <1>3, AppendIsConcat

\* A line of Write(d) belongs to the list of its section.
LEMMA ListsThere ==
    ASSUME NEW d \in Lists, NEW lines, Len(lines) \in Nat, NEW m \in 0 .. Len(Write(d)),
           m <= Len(lines), \A i \in 1 .. m : lines[i] = Write(d)[i]
    PROVE  \A n \in 1 .. m : ListAt(lines)[n] = SectionOf(d, n)
<1> DEFINE T == {n \in 0 .. m : n = 0 \/ ListAt(lines)[n] = SectionOf(d, n)}
<1>0. Len(Write(d)) \in Nat /\ m \in Nat
  BY LengthOfWrite
<1>1. 0 \in T
  BY <1>0
<1>2. ASSUME NEW n \in 1 .. m, n - 1 \in T PROVE n \in T
  <2>1. n \in 1 .. Len(Write(d)) /\ n \in 1 .. Len(lines) /\ n \in Nat
    BY <1>0
  <2>2. PICK c \in Channels, h \in Nat : c = SectionOf(d, n) /\ h = HeadingAt(d, c)
    BY <2>1, LineIs
  <2>3. ListAt(lines)[n] = ListStep(lines[n], ListAt(lines)[n - 1])
    BY <2>1, ListSteps
  <2>4. ListAt(lines)[n - 1] \in Channels
    <3>1. n - 1 \in 0 .. Len(lines)
      BY <2>1
    <3> QED
      BY <3>1, ListSteps
  <2>5. lines[n] = Write(d)[n]
    OBVIOUS
  <2>6. CASE n = h
    <3>1. lines[n] = Heading[c]
      BY <2>2, <2>5, <2>6, LinesOfWrite
    <3>2. ListAt(lines)[n] = c
      BY <2>3, <2>4, <3>1, StepsThere
    <3> QED
      BY <2>2, <3>2
  <2>7. CASE n - h \in 1 .. Len(d[c]) + 1 /\ SectionOf(d, n - 1) = c
    <3>1. n # 1
      BY <2>1, <2>7, <2>2 DEF HeadingAt
    <3>2. ListAt(lines)[n - 1] = c
      BY <1>2, <2>7, <3>1
    <3>3. lines[n] \in Entries \/ lines[n] = ""
      <4>1. Len(d[c]) \in Nat /\ d[c] \in Seq(Entries)
        BY ListIs
      <4>2. CASE n - h = Len(d[c]) + 1
        <5>1. n = h + Len(d[c]) + 1
          BY <2>1, <4>1, <4>2
        <5>2. Write(d)[h + Len(d[c]) + 1] = ""
          BY <2>2, LinesOfWrite
        <5> QED
          BY <2>5, <5>1, <5>2
      <4>3. CASE n - h # Len(d[c]) + 1
        <5>1. PICK i \in 1 .. Len(d[c]) : n = h + i
          BY <2>1, <2>7, <4>1, <4>3
        <5>2. Write(d)[h + i] = d[c][i]
          BY <2>2, LinesOfWrite
        <5>3. d[c][i] \in Entries
          BY <4>1, ElementOfSeq
        <5> QED
          BY <2>5, <5>1, <5>2, <5>3
      <4> QED
        BY <4>2, <4>3
    <3>4. ListAt(lines)[n] = c
      BY <2>3, <3>2, <3>3, StepsThere
    <3> QED
      BY <2>2, <3>4
  <2> QED
    BY <2>1, <2>2, <2>6, <2>7, LineIs
<1>3. 0 .. m \subseteq T
  <2> HIDE DEF T
  <2> QED
    BY <1>0, <1>1, <1>2, Climbing
<1> QED
  BY <1>0, <1>3

\* After n lines of Write(d), Part(d, n) has been read.
LEMMA PartsThere ==
    ASSUME NEW d \in Lists, NEW lines, Len(lines) \in Nat, NEW m \in 0 .. Len(Write(d)),
           m <= Len(lines), \A i \in 1 .. m : lines[i] = Write(d)[i]
    PROVE  \A n \in 0 .. m : ReadUpTo(lines)[n] = Part(d, n)
<1> DEFINE T == {n \in 0 .. m : ReadUpTo(lines)[n] = Part(d, n)}
<1>0. /\ Len(Write(d)) \in Nat /\ m \in Nat
      /\ \A c \in Channels : d[c] \in Seq(Entries) /\ Len(d[c]) \in Nat
  BY LengthOfWrite, ListIs
<1>1. 0 \in T
  <2>1. ASSUME NEW c \in Channels PROVE Among(d, c, 0) = 0
    <3>1. HeadingAt(d, c) > 0 /\ HeadingAt(d, c) \in Nat
      BY ListIs
    <3> QED
      BY <3>1 DEF Among
  <2>2. ASSUME NEW c \in Channels PROVE SubSeq(d[c], 1, 0) = <<>>
    BY <1>0, SubSeqEmpty
  <2>3. Part(d, 0) = Empty
    BY <2>1, <2>2 DEF Part, Empty
  <2>4. ReadUpTo(lines)[0] = Empty
    BY ReadSteps
  <2> QED
    BY <1>0, <2>3, <2>4
<1>2. ASSUME NEW n \in 1 .. m, n - 1 \in T PROVE n \in T
  <2>1. n \in 1 .. Len(Write(d)) /\ n \in 1 .. Len(lines) /\ n \in Nat
    BY <1>0
  <2>2. PICK c \in Channels, h \in Nat : c = SectionOf(d, n) /\ h = HeadingAt(d, c)
    BY <2>1, LineIs
  <2>3. ListAt(lines)[n] = c
    BY <2>2, ListsThere
  <2>4. ReadUpTo(lines)[n] = ReadStep(lines[n], c, Part(d, n - 1))
    BY <1>2, <2>1, <2>3, ReadSteps
  <2>5. lines[n] = Write(d)[n]
    OBVIOUS
  <2>6. CASE n - h \in 1 .. Len(d[c])
    <3>1. PICK i \in 1 .. Len(d[c]) : n = h + i /\ i = n - h
      BY <1>0, <2>1, <2>6
    <3>2. lines[n] = d[c][i] /\ d[c][i] \in Entries
      <4>1. Write(d)[h + i] = d[c][i]
        BY <2>2, LinesOfWrite
      <4>2. d[c][i] \in Entries
        BY <1>0, ElementOfSeq
      <4> QED
        BY <2>5, <3>1, <4>1, <4>2
    <3>3. Among(d, c, n) = i /\ Among(d, c, n - 1) = i - 1
      BY <2>1, <2>2, <2>6, <3>1, LineIs
    <3>4. \A x \in Channels \ {c} : Among(d, x, n) = Among(d, x, n - 1)
      BY <2>1, <2>2, LineIs
    <3>5. Append(SubSeq(d[c], 1, i - 1), d[c][i]) = SubSeq(d[c], 1, i)
      BY <1>0, OneMore
    <3>6. ReadUpTo(lines)[n] = [Part(d, n - 1) EXCEPT ![c] = Append(@, d[c][i])]
      BY <2>4, <3>2 DEF ReadStep
    <3>7. Part(d, n) = [Part(d, n - 1) EXCEPT ![c] = Append(@, d[c][i])]
      BY <3>3, <3>4, <3>5 DEF Part
    <3>8. ReadUpTo(lines)[n] = Part(d, n)
      BY <3>6, <3>7
    <3> QED
      BY <3>8
  <2>7. CASE n - h \notin 1 .. Len(d[c])
    <3>1. \A x \in Channels : Among(d, x, n) = Among(d, x, n - 1)
      BY <2>1, <2>2, <2>7, LineIs
    <3>2. Part(d, n) = Part(d, n - 1)
      BY <3>1 DEF Part
    <3>3. lines[n] \notin Entries
      <4>1. n = h \/ n - h \in 1 .. Len(d[c]) + 1
        BY <2>1, <2>2, LineIs
      <4>2. n = h \/ n = h + Len(d[c]) + 1
        BY <1>0, <2>1, <2>7, <4>1
      <4>3. Write(d)[h] = Heading[c] /\ Write(d)[h + Len(d[c]) + 1] = ""
        BY <2>2, LinesOfWrite
      <4> QED
        BY <2>5, <4>2, <4>3, NotEntries
    <3> QED
      BY <2>4, <3>2, <3>3 DEF ReadStep
  <2> QED
    BY <2>6, <2>7
<1>3. 0 .. m \subseteq T
  <2> HIDE DEF T
  <2> QED
    BY <1>0, <1>1, <1>2, Climbing
<1> QED
  BY <1>3

LEMMA AmongIs ==
    ASSUME NEW d \in Lists, NEW c \in Channels, NEW n \in Nat
    PROVE  Among(d, c, n) \in 0 .. Len(d[c])
<1>1. PICK h \in Nat, k \in Nat : h = HeadingAt(d, c) /\ k = Len(d[c])
  BY ListIs
<1> QED
  BY <1>1 DEF Among

\* versions.txt is read back as it was written: the same entries under the same
\* headings in the same order, whatever the three lists hold.
THEOREM ReadWrite ==
    ASSUME NEW d \in Lists
    PROVE  Read(Write(d)) = d
<1> DEFINE W == Write(d)
<1>1. Len(W) \in Nat /\ Len(W) \in 0 .. Len(W)
  BY LengthOfWrite
<1>2. Read(W) = Part(d, Len(W))
  <2> HIDE DEF W
  <2>1. \A n \in 0 .. Len(W) : ReadUpTo(W)[n] = Part(d, n)
    BY <1>1, PartsThere DEF W
  <2> QED
    BY <1>1, <2>1 DEF Read
<1>3. ASSUME NEW c \in Channels PROVE Among(d, c, Len(W)) = Len(d[c])
  <2>1. PICK x \in Nat, y \in Nat, z \in Nat :
            x = Len(d["release"]) /\ y = Len(d["beta"]) /\ z = Len(d["preview"])
    BY ListIs DEF Channels
  <2>2. Len(W) = x + y + z + 6
    BY <2>1, LinesOfWrite
  <2>3. \/ HeadingAt(d, c) = 1 /\ Len(d[c]) = x
        \/ HeadingAt(d, c) = x + 3 /\ Len(d[c]) = y
        \/ HeadingAt(d, c) = x + y + 5 /\ Len(d[c]) = z
    BY <2>1 DEF HeadingAt, Channels
  <2>4. PICK h \in Nat, k \in Nat, w \in Nat : h = HeadingAt(d, c) /\ k = Len(d[c]) /\ w = Len(W)
    BY <1>1, ListIs
  <2>5. ~(w < h) /\ w - h > k
    BY <2>2, <2>3, <2>4
  <2> QED
    BY <2>4, <2>5 DEF Among
<1>4. \A c \in Channels : SubSeq(d[c], 1, Len(d[c])) = d[c]
  BY ListIs, SubSeqFull
<1>5. Part(d, Len(W)) = [c \in Channels |-> d[c]]
  BY <1>3, <1>4 DEF Part
<1>6. d = [c \in Channels |-> d[c]]
  BY DEF Lists
<1> QED
  BY <1>2, <1>5, <1>6

\* What is read of a torn file: a beginning of each list, and perhaps a fragment.
LEMMA ReadTorn ==
    ASSUME NEW d \in Lists, NEW lines \in Torn(Write(d))
    PROVE  /\ Len(lines) \in Nat /\ Read(lines) \in Lists
           /\ \A c \in Channels : \E k \in 0 .. Len(d[c]) :
                \/ Read(lines)[c] = SubSeq(d[c], 1, k)
                \/ Read(lines)[c] = Append(SubSeq(d[c], 1, k), Fragment)
<1> DEFINE W == Write(d)
<1>0. W \in Seq(Lines) /\ Len(W) \in Nat /\ DOMAIN W = 1 .. Len(W)
  <2>1. W \in Seq(Lines)
    BY LinesOfWrite
  <2> QED
    BY <2>1, LenProperties
<1>a. ASSUME NEW n \in 0 .. Len(W)
      PROVE  /\ Len(SubSeq(W, 1, n)) = n /\ SubSeq(W, 1, n) \in Seq(Lines)
             /\ \A i \in 1 .. n : SubSeq(W, 1, n)[i] = W[i]
  BY <1>0
<1>1. CASE lines \in Prefixes(W)
  <2>1. PICK n \in 0 .. Len(W) : lines = SubSeq(W, 1, n)
    BY <1>1 DEF Prefixes
  <2>2. Len(lines) = n /\ n \in Nat /\ \A i \in 1 .. n : lines[i] = W[i]
    BY <1>0, <1>a, <2>1
  <2>3. Len(lines) \in Nat /\ n <= Len(lines) /\ n \in 0 .. n
    BY <2>2
  <2>4. \A i \in 0 .. n : ReadUpTo(lines)[i] = Part(d, i)
    BY <2>2, <2>3, PartsThere
  <2>5. Read(lines) = Part(d, n)
    BY <2>2, <2>3, <2>4 DEF Read
  <2>6. ASSUME NEW c \in Channels
        PROVE  \E k \in 0 .. Len(d[c]) : Read(lines)[c] = SubSeq(d[c], 1, k)
    BY <2>2, <2>5, AmongIs DEF Part
  <2>7. Read(lines) \in Lists
    BY <2>3, ReadIsLists
  <2> QED
    BY <2>3, <2>6, <2>7
<1>2. CASE lines \notin Prefixes(W)
  <2>1. PICK n \in 1 .. Len(W) : lines = Append(SubSeq(W, 1, n - 1), Fragment)
    BY <1>0, <1>2 DEF Torn
  <2> DEFINE s == SubSeq(W, 1, n - 1)
  <2>2. n - 1 \in 0 .. Len(W) /\ n \in Nat /\ n - 1 \in Nat
    BY <1>0
  <2>3. Len(s) = n - 1 /\ s \in Seq(Lines) /\ \A i \in 1 .. n - 1 : s[i] = W[i]
    BY <1>a, <2>2
  <2> HIDE DEF s
  <2>4. Fragment \in Entries /\ Fragment \in Lines
    BY DEF Entries, Lines
  <2>5. /\ Len(lines) = Len(s) + 1 /\ lines[Len(s) + 1] = Fragment
        /\ \A i \in 1 .. Len(s) : lines[i] = s[i]
    BY <2>1, <2>3, <2>4, AppendProperties DEF s
  <2>6. Len(lines) = n /\ lines[n] = Fragment /\ \A i \in 1 .. n - 1 : lines[i] = W[i]
    BY <2>2, <2>3, <2>5
  <2>7. Len(lines) \in Nat /\ n - 1 <= Len(lines) /\ n \in 1 .. Len(lines) /\ n - 1 \in 0 .. n - 1
    BY <2>2, <2>6
  <2>8. \A i \in 0 .. n - 1 : ReadUpTo(lines)[i] = Part(d, i)
    BY <2>2, <2>6, <2>7, PartsThere
  <2>9. PICK c \in Channels : c = ListAt(lines)[n]
    <3>1. n \in 0 .. Len(lines)
      BY <2>7
    <3> QED
      BY <2>7, <3>1, ListSteps
  <2>10. Read(lines) = ReadStep(Fragment, c, Part(d, n - 1))
    BY <2>6, <2>7, <2>8, <2>9, ReadSteps DEF Read
  <2>11. Read(lines) = [Part(d, n - 1) EXCEPT ![c] = Append(@, Fragment)]
    BY <2>4, <2>10 DEF ReadStep
  <2>12. ASSUME NEW x \in Channels
        PROVE  \E k \in 0 .. Len(d[x]) :
                    \/ Read(lines)[x] = SubSeq(d[x], 1, k)
                    \/ Read(lines)[x] = Append(SubSeq(d[x], 1, k), Fragment)
    <3>1. Among(d, x, n - 1) \in 0 .. Len(d[x])
      BY <2>2, AmongIs
    <3>2. \/ Read(lines)[x] = SubSeq(d[x], 1, Among(d, x, n - 1))
          \/ Read(lines)[x] = Append(SubSeq(d[x], 1, Among(d, x, n - 1)), Fragment)
      BY <2>11 DEF Part
    <3> QED
      BY <3>1, <3>2
  <2>13. Read(lines) \in Lists
    BY <2>7, ReadIsLists
  <2> QED
    BY <2>7, <2>12, <2>13
<1> QED
  BY <1>1, <1>2

(***************************************************************************)
(* How often an entry is in a list.                                        *)
(***************************************************************************)
LEMMA CountIs ==
    ASSUME NEW S, NEW s \in Seq(S), NEW u
    PROVE  /\ Count(s, u) \in Nat /\ IsFiniteSet({i \in DOMAIN s : s[i] = u})
           /\ DOMAIN s = 1 .. Len(s) /\ Len(s) \in Nat
<1>1. DOMAIN s = 1 .. Len(s) /\ Len(s) \in Nat
  OBVIOUS
<1>2. IsFiniteSet(1 .. Len(s))
  BY <1>1, FS_Interval
<1>3. {i \in DOMAIN s : s[i] = u} \in SUBSET (1 .. Len(s))
  BY <1>1
<1>4. IsFiniteSet({i \in DOMAIN s : s[i] = u})
  BY <1>2, <1>3, FS_Subset
<1> QED
  BY <1>1, <1>4, FS_CardinalityType DEF Count

\* A beginning has no more of it, another entry makes no difference, and new
\* entries that are all different have at most one of it.
LEMMA CountOfPart ==
    ASSUME NEW S, NEW s \in Seq(S), NEW u, NEW k \in 0 .. Len(s)
    PROVE  Count(SubSeq(s, 1, k), u) <= Count(s, u)
<1>1. /\ DOMAIN s = 1 .. Len(s) /\ Len(s) \in Nat
      /\ DOMAIN SubSeq(s, 1, k) = 1 .. k /\ \A i \in 1 .. k : SubSeq(s, 1, k)[i] = s[i]
  OBVIOUS
<1>2. {i \in DOMAIN SubSeq(s, 1, k) : SubSeq(s, 1, k)[i] = u}
        \in SUBSET {i \in DOMAIN s : s[i] = u}
  BY <1>1
<1>3. IsFiniteSet({i \in DOMAIN s : s[i] = u})
  BY CountIs
<1> QED
  BY <1>2, <1>3, FS_Subset, Zenon DEF Count

LEMMA CountAppended ==
    ASSUME NEW S, NEW s \in Seq(S), NEW u, NEW x \in S, x # u
    PROVE  Count(Append(s, x), u) = Count(s, u)
<1>1. /\ DOMAIN s = 1 .. Len(s) /\ Len(s) \in Nat
      /\ DOMAIN Append(s, x) = 1 .. Len(s) + 1
      /\ \A i \in 1 .. Len(s) : Append(s, x)[i] = s[i]
      /\ Append(s, x)[Len(s) + 1] = x
  OBVIOUS
<1>2. {i \in DOMAIN Append(s, x) : Append(s, x)[i] = u} = {i \in DOMAIN s : s[i] = u}
  <2>1. 1 .. Len(s) + 1 = (1 .. Len(s)) \cup {Len(s) + 1}
    BY <1>1
  <2> QED
    BY <1>1, <2>1
<1> QED
  BY <1>2 DEF Count

LEMMA CountJoined ==
    ASSUME NEW S, NEW s \in Seq(S), NEW t \in Seq(S), NEW u,
           \A i, j \in 1 .. Len(t) : t[i] = t[j] => i = j
    PROVE  /\ Count(s \o t, u) <= Count(s, u) + 1
           /\ ~Contains(t, u) => Count(s \o t, u) = Count(s, u)
<1> DEFINE j == s \o t
           A == {i \in DOMAIN s : s[i] = u}
           B == {i \in DOMAIN j : j[i] = u}
<1>1. /\ DOMAIN s = 1 .. Len(s) /\ Len(s) \in Nat /\ Len(t) \in Nat
      /\ j \in Seq(S) /\ Len(j) = Len(s) + Len(t) /\ DOMAIN j = 1 .. Len(s) + Len(t)
  OBVIOUS
<1>2. \A i \in 1 .. Len(s) + Len(t) : j[i] = IF i <= Len(s) THEN s[i] ELSE t[i - Len(s)]
  BY ConcatProperties
<1> HIDE DEF j
<1>3. IsFiniteSet(A) /\ Count(s, u) = Cardinality(A) /\ Count(j, u) = Cardinality(B)
      /\ Cardinality(A) \in Nat
  <2>1. IsFiniteSet(A) /\ Count(s, u) \in Nat
    BY CountIs
  <2>2. Count(s, u) = Cardinality(A)
    BY DEF Count
  <2>3. Count(j, u) = Cardinality(B)
    BY DEF Count
  <2> QED
    BY <2>1, <2>2, <2>3
<1>4. ASSUME NEW i \in 1 .. Len(s) PROVE i \in B <=> i \in A
  BY <1>1, <1>2
<1>5. A \subseteq 1 .. Len(s) /\ B \subseteq 1 .. Len(s) + Len(t)
  BY <1>1
<1>6. CASE ~Contains(t, u)
  <2>1. ASSUME NEW i \in B PROVE i <= Len(s)
    <3>1. i \in Nat /\ i \in 1 .. Len(s) + Len(t) /\ j[i] = u
      BY <1>1, <1>5
    <3>2. SUFFICES ASSUME ~(i <= Len(s)) PROVE FALSE
      BY <3>1
    <3>3. i - Len(s) \in 1 .. Len(t) /\ t[i - Len(s)] = u
      BY <1>1, <1>2, <3>1, <3>2
    <3> QED
      BY <1>6, <3>3 DEF Contains
  <2>2. A = B
    <3>1. \A i \in B : i \in 1 .. Len(s)
      BY <1>1, <1>5, <2>1
    <3> HIDE DEF A, B
    <3> QED
      BY <1>4, <1>5, <3>1
  <2>3. Count(j, u) = Count(s, u) /\ Count(s, u) <= Count(s, u) + 1
    <3> HIDE DEF A, B
    <3> QED
      BY <1>3, <2>2
  <2> QED
    BY <2>3 DEF j
<1>7. CASE Contains(t, u)
  <2>1. PICK k \in 1 .. Len(t) : t[k] = u
    BY <1>7 DEF Contains
  <2>2. ASSUME NEW i \in B, ~(i <= Len(s)) PROVE i = Len(s) + k
    <3>1. i \in Nat /\ i \in 1 .. Len(s) + Len(t) /\ j[i] = u
      BY <1>1, <1>5
    <3>2. i - Len(s) \in 1 .. Len(t) /\ t[i - Len(s)] = u
      BY <1>1, <1>2, <3>1, <2>2
    <3>3. i - Len(s) = k
      BY <2>1, <3>2
    <3> QED
      BY <1>1, <3>1, <3>3
  <2>3. Len(s) + k \in B /\ Len(s) + k \notin A
    <3>1. Len(s) + k \in 1 .. Len(s) + Len(t) /\ ~(Len(s) + k <= Len(s))
          /\ (Len(s) + k) - Len(s) = k
      BY <1>1
    <3>2. j[Len(s) + k] = u
      BY <1>2, <2>1, <3>1
    <3> QED
      BY <1>1, <3>1, <3>2
  <2>4. B = A \cup {Len(s) + k}
    <3>1. \A i \in B : i \in 1 .. Len(s) \/ i = Len(s) + k
      BY <1>1, <1>5, <2>2
    <3> HIDE DEF A, B
    <3> QED
      BY <1>4, <1>5, <2>3, <3>1
  <2>5. Count(j, u) <= Count(s, u) + 1
    <3> HIDE DEF A, B
    <3>1. Cardinality(B) = Cardinality(A) + 1
      BY <1>3, <2>3, <2>4, FS_AddElement
    <3> QED
      BY <1>3, <3>1
  <2> QED
    BY <1>7, <2>5 DEF j
<1> QED
  BY <1>6, <1>7

(***************************************************************************)
(* Beginnings of sequences.                                                *)
(***************************************************************************)
LEMMA PrefixIs ==
    ASSUME NEW S, NEW s \in Seq(S), NEW t \in Seq(S)
    PROVE  IsPrefix(s, t) <=> Len(s) <= Len(t) /\ \A i \in 1 .. Len(s) : s[i] = t[i]
<1>1. Len(s) \in Nat /\ Len(t) \in Nat /\ SubSeq(s, 1, Len(s)) = s
  BY SubSeqFull
<1>2. CASE Len(s) <= Len(t)
  <2> DEFINE p == SubSeq(t, 1, Len(s))
  <2>1. p \in Seq(S) /\ Len(p) = Len(s) /\ \A i \in 1 .. Len(s) : p[i] = t[i]
    BY <1>1, <1>2
  <2> HIDE DEF p
  <2>2. (\A i \in 1 .. Len(s) : s[i] = t[i]) => s = p
    BY <2>1, SeqEqual
  <2>3. s = p => \A i \in 1 .. Len(s) : s[i] = t[i]
    BY <2>1
  <2>4. IsPrefix(s, t) <=> s = p
    BY <1>1, <1>2 DEF IsPrefix, p
  <2> QED
    BY <1>2, <2>2, <2>3, <2>4
<1>3. CASE ~(Len(s) <= Len(t))
  BY <1>3 DEF IsPrefix
<1> QED
  BY <1>2, <1>3

LEMMA PrefixRefl == ASSUME NEW S, NEW s \in Seq(S) PROVE IsPrefix(s, s)
<1>1. Len(s) <= Len(s)
  OBVIOUS
<1> QED
  BY <1>1, PrefixIs

LEMMA PrefixTrans ==
    ASSUME NEW S, NEW s \in Seq(S), NEW t \in Seq(S), NEW w \in Seq(S),
           IsPrefix(s, t), IsPrefix(t, w)
    PROVE  IsPrefix(s, w)
<1>1. Len(s) \in Nat /\ Len(t) \in Nat /\ Len(w) \in Nat
  OBVIOUS
<1>2. Len(s) <= Len(t) /\ \A i \in 1 .. Len(s) : s[i] = t[i]
  BY PrefixIs
<1>3. Len(t) <= Len(w) /\ \A i \in 1 .. Len(t) : t[i] = w[i]
  BY PrefixIs
<1>4. Len(s) <= Len(w) /\ \A i \in 1 .. Len(s) : i \in 1 .. Len(t)
  BY <1>1, <1>2, <1>3
<1> QED
  BY <1>2, <1>3, <1>4, PrefixIs

LEMMA PrefixJoined ==
    ASSUME NEW S, NEW s \in Seq(S), NEW t \in Seq(S)
    PROVE  s \o t \in Seq(S) /\ IsPrefix(s, s \o t)
<1>1. /\ s \o t \in Seq(S) /\ Len(s \o t) = Len(s) + Len(t)
      /\ Len(s) \in Nat /\ Len(t) \in Nat
      /\ \A i \in 1 .. Len(s) + Len(t) : (s \o t)[i] = IF i <= Len(s) THEN s[i] ELSE t[i - Len(s)]
  BY ConcatProperties
<1>2. \A i \in 1 .. Len(s) : s[i] = (s \o t)[i]
  BY <1>1
<1>3. Len(s) <= Len(s \o t)
  BY <1>1
<1> QED
  BY <1>1, <1>2, <1>3, PrefixIs

\* What is in the beginning, or in the end, is in the whole.
LEMMA ContainsMore ==
    ASSUME NEW S, NEW s \in Seq(S), NEW t \in Seq(S), IsPrefix(s, t), NEW u, Contains(s, u)
    PROVE  Contains(t, u)
<1>1. Len(s) \in Nat /\ Len(t) \in Nat
  OBVIOUS
<1>2. Len(s) <= Len(t) /\ \A i \in 1 .. Len(s) : s[i] = t[i]
  BY PrefixIs
<1>3. PICK i \in 1 .. Len(s) : s[i] = u
  BY DEF Contains
<1>4. i \in 1 .. Len(t) /\ t[i] = u
  BY <1>1, <1>2, <1>3
<1> QED
  BY <1>4 DEF Contains

LEMMA ContainsJoined ==
    ASSUME NEW S, NEW s \in Seq(S), NEW t \in Seq(S), NEW u, Contains(t, u)
    PROVE  Contains(s \o t, u)
<1>1. /\ Len(s \o t) = Len(s) + Len(t)
      /\ Len(s) \in Nat /\ Len(t) \in Nat
      /\ \A i \in 1 .. Len(s) + Len(t) : (s \o t)[i] = IF i <= Len(s) THEN s[i] ELSE t[i - Len(s)]
  BY ConcatProperties
<1>2. PICK i \in 1 .. Len(t) : t[i] = u
  BY DEF Contains
<1>3. /\ Len(s) + i \in 1 .. Len(s) + Len(t) /\ ~(Len(s) + i <= Len(s))
      /\ (Len(s) + i) - Len(s) = i
  BY <1>1
<1>4. (s \o t)[Len(s) + i] = u
  BY <1>1, <1>2, <1>3
<1> QED
  BY <1>1, <1>3, <1>4 DEF Contains

\* The new updates in order: each once.
LEMMA InOrderIs ==
    ASSUME NEW T, IsFiniteSet(T), NEW s \in SetToSeqs(T)
    PROVE  /\ s \in Seq(T)
           /\ \A i, j \in 1 .. Len(s) : s[i] = s[j] => i = j
           /\ \A u : u \in T <=> Contains(s, u)
<1> DEFINE n == Cardinality(T)
<1>1. n \in Nat
  BY FS_CardinalityType
<1>2. s \in [1 .. n -> T] /\ \A i, j \in 1 .. n : i # j => s[i] # s[j]
  BY DEF SetToSeqs
<1>3. s \in Seq(T) /\ Len(s) = n
  BY <1>1, <1>2
<1>4. s \in Injection(1 .. n, T)
  BY <1>2, Fun_IsInj
<1>5. Cardinality(1 .. n) = n
  <2> HIDE DEF n
  <2>1. 1 \in Int /\ n \in Int /\ (IF 1 > n THEN 0 ELSE n - 1 + 1) = n
    BY <1>1
  <2> QED
    BY <2>1, FS_Interval
<1>6. s \in Surjection(1 .. n, T)
  <2>1. IsFiniteSet(T) /\ Cardinality(1 .. n) = Cardinality(T)
    BY <1>5
  <2> HIDE DEF n
  <2> QED
    BY ONLY <1>4, <2>1, FS_Injection
<1>7. \A u \in T : \E i \in 1 .. n : s[i] = u
  BY <1>6 DEF Surjection
<1> QED
  BY <1>2, <1>3, <1>7 DEF Contains

-----------------------------------------------------------------------------
(***************************************************************************)
(* The JSON form.                                                          *)
(***************************************************************************)
Element == [version : {Version(e) : e \in Entries}, uuid : Entries, list : Channels]
Added   == SUBSET Element
Turns   == Seq([list : Channels, entry : Entries])

AddStep(all, n, added) == AddVersion(added, all[n].list, all[n].entry)

LEMMA AddStepIs ==
    ASSUME NEW all \in Turns, NEW n \in 1 .. Len(all), NEW added \in Added
    PROVE  /\ AddStep(all, n, added) \in Added
           /\ all[n].list \in Channels /\ all[n].entry \in Entries
<1>1. all[n] \in [list : Channels, entry : Entries]
  <2> DEFINE S == [list : Channels, entry : Entries]
  <2>1. all \in Seq(S)
    BY DEF Turns
  <2> HIDE DEF S
  <2>2. all[n] \in S
    BY <2>1
  <2> QED
    BY <2>2 DEF S
<1>2. all[n].list \in Channels /\ all[n].entry \in Entries
  BY <1>1
<1>3. [version |-> Version(all[n].entry), uuid |-> all[n].entry, list |-> all[n].list] \in Element
  BY <1>2 DEF Element
<1>4. AddStep(all, n, added) = added
      \/ AddStep(all, n, added) = added \cup
            {[version |-> Version(all[n].entry), uuid |-> all[n].entry, list |-> all[n].list]}
  BY DEF AddStep, AddVersion
<1> QED
  BY <1>2, <1>3, <1>4 DEF Added

\* AddUpTo goes by its steps.
LEMMA AddSteps ==
    ASSUME NEW all \in Turns
    PROVE  /\ AddUpTo(all)[0] = {} /\ Len(all) \in Nat
           /\ \A n \in 1 .. Len(all) : AddUpTo(all)[n] = AddStep(all, n, AddUpTo(all)[n - 1])
<1> PICK N \in Nat : N = Len(all)
  BY DEF Turns
<1> DEFINE Body(f) == [n \in 0 .. N |->
                IF n = 0 THEN {} ELSE AddVersion(f[n - 1], all[n].list, all[n].entry)]
           Is(f) == f = Body(f)
<1>1. AddUpTo(all) = CHOOSE f : Is(f)
  BY DEF AddUpTo
<1>2. PICK g \in [1 .. N -> [Added -> Added]] :
        \A n \in 1 .. N, x \in Added : g[n][x] = AddStep(all, n, x)
  <2> DEFINE h == [n \in 1 .. N |-> [x \in Added |-> AddStep(all, n, x)]]
  <2>1. h \in [1 .. N -> [Added -> Added]]
    BY AddStepIs
  <2>2. \A n \in 1 .. N, x \in Added : h[n][x] = AddStep(all, n, x)
    OBVIOUS
  <2> HIDE DEF h
  <2> QED
    BY <2>1, <2>2
<1>3. {} \in Added
  BY DEF Added
<1>4. PICK f \in [0 .. N -> Added] :
        f[0] = {} /\ \A n \in 1 .. N : f[n] = g[n][f[n - 1]]
  <2>1. Steps(g, N, Added)
    BY DEF Steps
  <2>2. PICK f : Iterate(f, {}, g, N, Added)
    BY <2>1, <1>3, Iterates
  <2> QED
    BY <2>2 DEF Iterate
<1>5. ASSUME NEW n \in 1 .. N PROVE f[n] = AddStep(all, n, f[n - 1])
  <2>1. n - 1 \in 0 .. N
    OBVIOUS
  <2>2. f[n - 1] \in Added /\ f[n] = g[n][f[n - 1]]
    BY <1>4, <2>1
  <2> QED
    BY <2>2, <1>2
<1>6. Is(f)
  <2>1. ASSUME NEW n \in 0 .. N PROVE f[n] = Body(f)[n]
    <3>1. CASE n = 0
      BY <1>4, <3>1
    <3>2. CASE n # 0
      <4>1. n \in 1 .. N
        BY <3>2
      <4>2. f[n] = AddStep(all, n, f[n - 1])
        BY <1>5, <4>1
      <4> QED
        BY <3>2, <4>2, Zenon DEF AddStep
    <3> QED
      BY <3>1, <3>2
  <2>2. DOMAIN Body(f) = 0 .. N /\ DOMAIN f = 0 .. N
    OBVIOUS
  <2> QED
    BY <2>1, <2>2
<1>7. PICK a : a = AddUpTo(all) /\ Is(a)
  BY <1>1, <1>6
<1>8. a[0] = {}
  BY <1>7
<1>9. ASSUME NEW n \in 1 .. N PROVE a[n] = AddStep(all, n, a[n - 1])
  <2>1. n # 0 /\ n \in 0 .. N
    OBVIOUS
  <2>2. a[n] = Body(a)[n]
    BY <1>7
  <2> QED
    BY <2>1, <2>2, Zenon DEF AddStep
<1> QED
  BY <1>7, <1>8, <1>9

\* The least of a set of numbers.
LEMMA Least == ASSUME NEW S \in SUBSET Nat, S # {} PROVE \E x \in S : \A y \in S : x <= y
<1> DEFINE R == {p \in Nat \X Nat : p[1] < p[2]}
<1>1. IsWellFoundedOn(R, Nat)
  BY NatLessThanWellFounded DEF OpToRel
<1> HIDE DEF R
<1>2. PICK x \in S : \A y \in S : ~(<<y, x>> \in R)
  BY <1>1, WFMin
<1>3. ASSUME NEW y \in S PROVE x <= y
  <2>1. x \in Nat /\ y \in Nat /\ ~(<<y, x>> \in R)
    BY <1>2
  <2> QED
    BY <2>1 DEF R
<1> QED
  BY <1>3

\* The entries among the first n that are x64, and the first of them of their
\* version.
X64(all, n)   == {i \in 1 .. n : NameOf(all[i].entry).x64}
First(all, n) == {i \in X64(all, n) : \A k \in X64(all, n) :
                    k < i => Version(all[k].entry) # Version(all[i].entry)}
ElementAt(all, i) ==
    [version |-> Version(all[i].entry), uuid |-> all[i].entry, list |-> all[i].list]
Elements(all, n)  == {ElementAt(all, i) : i \in First(all, n)}

\* The next entry is the first of its version if no element has that version.
LEMMA NextFirst ==
    ASSUME NEW all, NEW n \in Nat, n > 0
    PROVE  Elements(all, n) = AddStep(all, n, Elements(all, n - 1))
<1> DEFINE m == n - 1
           is == NameOf(all[n].entry).x64
           new == is /\ \A k \in X64(all, m) : Version(all[k].entry) # Version(all[n].entry)
<1>1. \A i : i \in 1 .. n <=> i \in 1 .. m \/ i = n
  OBVIOUS
<1>2. \A i : i \in X64(all, n) <=> i \in X64(all, m) \/ (i = n /\ is)
  BY <1>1 DEF X64
<1>3. \A i \in X64(all, m) : i \in Nat /\ i < n
  BY DEF X64
<1>4. \A i \in X64(all, m) : i \in First(all, n) <=> i \in First(all, m)
  BY <1>2, <1>3 DEF First
<1>5. n \notin X64(all, m) /\ ~(n < n)
  BY <1>3
<1>6. n \in First(all, n) <=> new
  BY <1>2, <1>3, <1>5 DEF First
<1>7. \A i : i \in First(all, n) <=> i \in First(all, m) \/ (i = n /\ new)
  BY <1>2, <1>4, <1>6 DEF First
<1>8. Elements(all, n) = IF new THEN Elements(all, m) \cup {ElementAt(all, n)}
                                ELSE Elements(all, m)
  BY <1>7 DEF Elements
<1>9. ASSUME NEW k \in X64(all, m)
      PROVE  \E i \in First(all, m) : Version(all[i].entry) = Version(all[k].entry)
  <2> DEFINE S == {i \in X64(all, m) : Version(all[i].entry) = Version(all[k].entry)}
  <2>1. S \in SUBSET Nat /\ S # {}
    BY <1>3
  <2>2. PICK i \in S : \A j \in S : i <= j
    BY <2>1, Least
  <2>3. \A j \in X64(all, m) : j < i => Version(all[j].entry) # Version(all[i].entry)
    BY <1>3, <2>2
  <2> QED
    BY <2>2, <2>3 DEF First
<1>10. new <=> is /\ \A el \in Elements(all, m) : el.version # Version(all[n].entry)
  <2>1. ASSUME NEW i PROVE ElementAt(all, i).version = Version(all[i].entry)
    BY DEF ElementAt
  <2>2. (\A el \in Elements(all, m) : el.version # Version(all[n].entry))
        <=> \A i \in First(all, m) : Version(all[i].entry) # Version(all[n].entry)
    BY <2>1 DEF Elements
  <2>3. \A i \in First(all, m) : i \in X64(all, m)
    BY DEF First
  <2> QED
    BY <1>9, <2>2, <2>3
<1>11. AddStep(all, n, Elements(all, m)) =
        IF is /\ \A el \in Elements(all, m) : el.version # Version(all[n].entry)
        THEN Elements(all, m) \cup {ElementAt(all, n)} ELSE Elements(all, m)
  BY DEF AddStep, AddVersion, ElementAt
<1> HIDE DEF new, is
<1> QED
  BY <1>8, <1>10, <1>11

\* So the first x64 entries of all versions are added.
LEMMA AddUpToIs == ASSUME NEW all \in Turns PROVE AddUpTo(all)[Len(all)] = FirstsOf(all)
<1> PICK N \in Nat : N = Len(all)
  BY DEF Turns
<1> DEFINE T == {n \in 0 .. N : AddUpTo(all)[n] = Elements(all, n)}
<1>1. 0 \in T
  <2>1. Elements(all, 0) = {}
    BY DEF Elements, First, X64
  <2>2. AddUpTo(all)[0] = {}
    BY AddSteps
  <2> QED
    BY <2>1, <2>2
<1>2. ASSUME NEW n \in 1 .. N, n - 1 \in T PROVE n \in T
  <2>1. AddUpTo(all)[n] = AddStep(all, n, AddUpTo(all)[n - 1])
    BY AddSteps
  <2>2. AddUpTo(all)[n - 1] = Elements(all, n - 1)
    BY <1>2
  <2>3. Elements(all, n) = AddStep(all, n, Elements(all, n - 1))
    BY NextFirst
  <2> QED
    BY <2>1, <2>2, <2>3
<1>3. 0 .. N \subseteq T
  <2> HIDE DEF T
  <2> QED
    BY <1>1, <1>2, Climbing
<1>4. AddUpTo(all)[N] = Elements(all, N)
  BY <1>3
<1>5. DOMAIN all = 1 .. N
  BY DEF Turns
<1>6. Elements(all, N) = FirstsOf(all)
  BY <1>5 DEF Elements, First, X64, ElementAt, FirstsOf
<1> QED
  BY <1>4, <1>6

LEMMA InTurnIs == ASSUME NEW d \in Lists PROVE InTurn(d) \in Turns
<1>1. ASSUME NEW c \in Channels PROVE Tagged(d, c) \in Turns
  <2>1. d[c] \in Seq(Entries)
    BY ListIs
  <2>2. PICK n \in Nat : DOMAIN d[c] = 1 .. n /\ \A i \in 1 .. n : d[c][i] \in Entries
    BY <2>1
  <2>3. \A i \in 1 .. n :
            [list |-> c, entry |-> d[c][i]] \in [list : Channels, entry : Entries]
    BY <2>2
  <2>4. Tagged(d, c) \in [1 .. n -> [list : Channels, entry : Entries]]
    BY <2>2, <2>3 DEF Tagged
  <2> QED
    BY <2>4, SeqDef DEF Turns
<1>2. /\ Tagged(d, "release") \in Turns /\ Tagged(d, "beta") \in Turns
      /\ Tagged(d, "preview") \in Turns
  BY <1>1 DEF Channels
<1> QED
  BY <1>2, ConcatProperties DEF InTurn, Turns

\* writeJson takes the first x64 entry of every version, and no other.
LEMMA JsonIs == ASSUME NEW d \in Lists PROVE Json(d) = FirstsOf(InTurn(d))
  BY InTurnIs, AddUpToIs DEF Json

\* The turn of the k-th entry of a list among all entries.
Before(d, c) ==
    IF c = "release" THEN 0
    ELSE IF c = "beta" THEN Len(d["release"])
    ELSE Len(d["release"]) + Len(d["beta"])

Spot(d, c, k) == Before(d, c) + k

\* The k-th entry of c's list has its turn before the m-th of b's.
Sooner(c, k, b, m) == Turn[c] < Turn[b] \/ (c = b /\ k < m)

LEMMA Turns3 == Turn["release"] = 1 /\ Turn["beta"] = 2 /\ Turn["preview"] = 3
  BY DEF Turn

\* Every entry has a turn, every turn an entry, and turns come list by list.
LEMMA Spots ==
    ASSUME NEW d \in Lists
    PROVE  /\ \A c \in Channels : \A k \in 1 .. Len(d[c]) :
                Spot(d, c, k) \in DOMAIN InTurn(d)
                /\ InTurn(d)[Spot(d, c, k)].list = c
                /\ InTurn(d)[Spot(d, c, k)].entry = d[c][k]
           /\ \A i \in DOMAIN InTurn(d) : \E c \in Channels : \E k \in 1 .. Len(d[c]) :
                i = Spot(d, c, k)
           /\ \A c, b \in Channels : \A k \in 1 .. Len(d[c]), m \in 1 .. Len(d[b]) :
                Spot(d, c, k) < Spot(d, b, m) <=> Sooner(c, k, b, m)
<1> DEFINE Turned == [list : Channels, entry : Entries]
           r == Tagged(d, "release")
           b == Tagged(d, "beta")
           p == Tagged(d, "preview")
           R == Len(d["release"])
           B == Len(d["beta"])
           P3 == Len(d["preview"])
<1>1. ASSUME NEW c \in Channels
      PROVE  /\ Tagged(d, c) \in Seq(Turned) /\ Len(Tagged(d, c)) = Len(d[c])
             /\ Len(d[c]) \in Nat
             /\ \A k \in 1 .. Len(d[c]) : Tagged(d, c)[k] = [list |-> c, entry |-> d[c][k]]
  <2>1. PICK n \in Nat : DOMAIN d[c] = 1 .. n /\ n = Len(d[c])
                         /\ \A k \in 1 .. n : d[c][k] \in Entries
    BY ListIs
  <2>2. \A k \in 1 .. n : [list |-> c, entry |-> d[c][k]] \in Turned
    BY <2>1
  <2>3. Tagged(d, c) = [k \in 1 .. n |-> [list |-> c, entry |-> d[c][k]]]
    BY <2>1 DEF Tagged
  <2> HIDE DEF Turned
  <2>4. Tagged(d, c) \in [1 .. n -> Turned]
    BY <2>2, <2>3
  <2>5. Tagged(d, c) \in Seq(Turned) /\ Len(Tagged(d, c)) = n
    BY <2>4, SeqDef
  <2> QED
    BY <2>1, <2>3, <2>5
<1>2. /\ r \in Seq(Turned) /\ b \in Seq(Turned) /\ p \in Seq(Turned)
      /\ Len(r) = R /\ Len(b) = B /\ Len(p) = P3
      /\ R \in Nat /\ B \in Nat /\ P3 \in Nat
      /\ \A k \in 1 .. R : r[k] = [list |-> "release", entry |-> d["release"][k]]
      /\ \A k \in 1 .. B : b[k] = [list |-> "beta", entry |-> d["beta"][k]]
      /\ \A k \in 1 .. P3 : p[k] = [list |-> "preview", entry |-> d["preview"][k]]
  <2>1. "release" \in Channels /\ "beta" \in Channels /\ "preview" \in Channels
    BY DEF Channels
  <2> HIDE DEF Turned
  <2> QED
    BY <1>1, <2>1
<1>3. InTurn(d) = r \o b \o p
  BY DEF InTurn
<1> HIDE DEF Turned, r, b, p, R, B, P3
<1>4. /\ InTurn(d) \in Seq(Turned) /\ Len(InTurn(d)) = R + B + P3
      /\ \A i \in 1 .. R : InTurn(d)[i] = r[i]
      /\ \A i \in 1 .. B : InTurn(d)[R + i] = b[i]
      /\ \A i \in 1 .. P3 : InTurn(d)[R + B + i] = p[i]
  <2>1. /\ r \o b \o p \in Seq(Turned) /\ Len(r \o b \o p) = Len(r) + Len(b) + Len(p)
        /\ \A i \in 1 .. Len(r) : (r \o b \o p)[i] = r[i]
        /\ \A i \in 1 .. Len(b) : (r \o b \o p)[Len(r) + i] = b[i]
        /\ \A i \in 1 .. Len(p) : (r \o b \o p)[Len(r) + Len(b) + i] = p[i]
    <3>1. r \in Seq(Turned) /\ b \in Seq(Turned) /\ p \in Seq(Turned)
      BY <1>2
    <3> QED
      BY ONLY <3>1, ThreeParts, SMTT(20)
  <2> QED
    BY <1>2, <1>3, <2>1
<1>5. DOMAIN InTurn(d) = 1 .. R + B + P3
  BY <1>4
<1>6. ASSUME NEW c \in Channels, NEW k \in 1 .. Len(d[c])
      PROVE  /\ Spot(d, c, k) \in DOMAIN InTurn(d)
             /\ InTurn(d)[Spot(d, c, k)].list = c
             /\ InTurn(d)[Spot(d, c, k)].entry = d[c][k]
  <2>1. InTurn(d)[Spot(d, c, k)] = [list |-> c, entry |-> d[c][k]]
        /\ Spot(d, c, k) \in 1 .. R + B + P3
    <3>1. CASE c = "release"
      <4>1. k \in 1 .. R /\ Spot(d, c, k) = k /\ k \in 1 .. R + B + P3
        BY <1>2, <3>1 DEF Spot, Before, R
      <4> QED
        BY <1>2, <1>4, <3>1, <4>1
    <3>2. CASE c = "beta"
      <4>1. k \in 1 .. B /\ Spot(d, c, k) = R + k
        BY <3>2 DEF Spot, Before, B, R
      <4>2. R + k \in 1 .. R + B + P3
        BY <1>2, <4>1
      <4> QED
        BY <1>2, <1>4, <3>2, <4>1, <4>2
    <3>3. CASE c = "preview"
      <4>1. k \in 1 .. P3 /\ Spot(d, c, k) = R + B + k
        BY <3>3 DEF Spot, Before, B, R, P3
      <4>2. R + B + k \in 1 .. R + B + P3
        BY <1>2, <4>1
      <4> QED
        BY <1>2, <1>4, <3>3, <4>1, <4>2
    <3> QED
      BY <3>1, <3>2, <3>3 DEF Channels
  <2> QED
    BY <1>5, <2>1
<1>7. ASSUME NEW i \in DOMAIN InTurn(d)
      PROVE  \E c \in Channels : \E k \in 1 .. Len(d[c]) : i = Spot(d, c, k)
  <2>1. i \in 1 .. R + B + P3
    BY <1>5
  <2>2. CASE i <= R
    <3>1. i \in 1 .. Len(d["release"]) /\ i = Spot(d, "release", i)
      BY <1>2, <2>1, <2>2 DEF R, Spot, Before
    <3> QED
      BY <3>1 DEF Channels
  <2>3. CASE i > R /\ i <= R + B
    <3>1. i - R \in 1 .. B /\ i = R + (i - R)
      BY <1>2, <2>1, <2>3
    <3>2. i - R \in 1 .. Len(d["beta"]) /\ i = Spot(d, "beta", i - R)
      BY <3>1 DEF R, B, Spot, Before
    <3> QED
      BY <3>2 DEF Channels
  <2>4. CASE i > R + B
    <3>1. i - R - B \in 1 .. P3 /\ i = R + B + (i - R - B)
      BY <1>2, <2>1, <2>4
    <3>2. i - R - B \in 1 .. Len(d["preview"]) /\ i = Spot(d, "preview", i - R - B)
      BY <3>1 DEF R, B, P3, Spot, Before
    <3> QED
      BY <3>2 DEF Channels
  <2> QED
    BY <1>2, <2>1, <2>2, <2>3, <2>4
<1>8. ASSUME NEW c \in Channels, NEW e \in Channels,
             NEW k \in 1 .. Len(d[c]), NEW m \in 1 .. Len(d[e])
      PROVE  Spot(d, c, k) < Spot(d, e, m) <=> Sooner(c, k, e, m)
  <2>1. /\ Before(d, "release") = 0 /\ Before(d, "beta") = R /\ Before(d, "preview") = R + B
        /\ Len(d["release"]) = R /\ Len(d["beta"]) = B
    BY DEF Before, R, B
  <2>2. ASSUME NEW x \in Channels, NEW y \in Channels, Turn[x] < Turn[y]
        PROVE  Before(d, x) + Len(d[x]) <= Before(d, y)
    BY <1>2, <2>1, <2>2, Turns3 DEF Channels
  <2>3. /\ Before(d, c) \in Nat /\ Before(d, e) \in Nat
        /\ k \in Nat /\ k > 0 /\ m \in Nat /\ m > 0
        /\ Len(d[c]) \in Nat /\ k <= Len(d[c]) /\ Len(d[e]) \in Nat /\ m <= Len(d[e])
    <3>1. Before(d, c) \in Nat /\ Before(d, e) \in Nat
      BY <1>2, <2>1 DEF Channels
    <3> QED
      BY <1>1, <3>1
  <2>4. CASE Turn[c] < Turn[e]
    <3>1. Spot(d, c, k) < Spot(d, e, m)
      BY <2>2, <2>3, <2>4 DEF Spot
    <3> QED
      BY <2>4, <3>1 DEF Sooner
  <2>5. CASE Turn[e] < Turn[c]
    <3>1. ~(Spot(d, c, k) < Spot(d, e, m))
      BY <2>2, <2>3, <2>5 DEF Spot
    <3>2. ~(Turn[c] < Turn[e]) /\ c # e
      BY <2>5, Turns3 DEF Channels
    <3> QED
      BY <3>1, <3>2 DEF Sooner
  <2>6. CASE c = e
    <3>1. ~(Turn[c] < Turn[e])
      BY <2>6, Turns3 DEF Channels
    <3> QED
      BY <2>3, <2>6, <3>1 DEF Sooner, Spot
  <2>7. Turn[c] < Turn[e] \/ Turn[e] < Turn[c] \/ c = e
    BY Turns3 DEF Channels
  <2> QED
    BY <2>4, <2>5, <2>6, <2>7
<1> QED
  BY <1>6, <1>7, <1>8

LEMMA EntryThere ==
    ASSUME NEW d \in Lists, NEW c \in Channels, NEW k \in 1 .. Len(d[c])
    PROVE  /\ Spot(d, c, k) \in DOMAIN InTurn(d)
           /\ InTurn(d)[Spot(d, c, k)].list = c /\ InTurn(d)[Spot(d, c, k)].entry = d[c][k]
  BY Spots

LEMMA SpotThere ==
    ASSUME NEW d \in Lists, NEW i \in DOMAIN InTurn(d)
    PROVE  \E c \in Channels : \E k \in 1 .. Len(d[c]) : i = Spot(d, c, k)
  BY Spots

LEMMA SpotOrder ==
    ASSUME NEW d \in Lists, NEW c \in Channels, NEW b \in Channels,
           NEW k \in 1 .. Len(d[c]), NEW m \in 1 .. Len(d[b])
    PROVE  Spot(d, c, k) < Spot(d, b, m) <=> Sooner(c, k, b, m)
  BY Spots

\* The k-th entry of c's list is the first x64 entry of its version.
Comes(d, c, k) ==
    /\ NameOf(d[c][k]).x64
    /\ \A b \in Channels : \A m \in 1 .. Len(d[b]) :
        NameOf(d[b][m]).x64 /\ Sooner(b, m, c, k) => Version(d[b][m]) # Version(d[c][k])

Made(c, e) == [version |-> Version(e), uuid |-> e, list |-> c]

\* The elements of the JSON, list by list.
LEMMA JsonMembers ==
    ASSUME NEW d \in Lists, NEW el
    PROVE  el \in FirstsOf(InTurn(d)) <=>
                \E c \in Channels : \E k \in 1 .. Len(d[c]) : Comes(d, c, k) /\ el = Made(c, d[c][k])
<1> DEFINE all == InTurn(d)
           x64(i) == NameOf(all[i].entry).x64
           first(i) == x64(i) /\ \A k \in DOMAIN all :
                x64(k) /\ k < i => Version(all[k].entry) # Version(all[i].entry)
<1>1. el \in FirstsOf(all) <=>
        \E i \in DOMAIN all : first(i) /\ el = Made(all[i].list, all[i].entry)
  BY DEF FirstsOf, Made
<1>2. ASSUME NEW c \in Channels, NEW k \in 1 .. Len(d[c])
      PROVE  /\ Spot(d, c, k) \in DOMAIN all
             /\ all[Spot(d, c, k)].list = c /\ all[Spot(d, c, k)].entry = d[c][k]
  BY EntryThere
<1>3. ASSUME NEW c \in Channels, NEW k \in 1 .. Len(d[c])
      PROVE  first(Spot(d, c, k)) <=> Comes(d, c, k)
  <2>1. ASSUME NEW i \in DOMAIN all
        PROVE  \E b \in Channels : \E m \in 1 .. Len(d[b]) : i = Spot(d, b, m)
    BY SpotThere
  <2>2. ASSUME NEW b \in Channels, NEW m \in 1 .. Len(d[b])
        PROVE  Spot(d, b, m) < Spot(d, c, k) <=> Sooner(b, m, c, k)
    BY SpotOrder
  <2> HIDE DEF all
  <2>3. CASE first(Spot(d, c, k))
    BY <1>2, <2>2, <2>3 DEF Comes
  <2>4. CASE Comes(d, c, k)
    BY <1>2, <2>1, <2>2, <2>4 DEF Comes
  <2> QED
    BY <2>3, <2>4
<1>4. ASSUME NEW i \in DOMAIN all
      PROVE  \E c \in Channels : \E k \in 1 .. Len(d[c]) : i = Spot(d, c, k)
  BY SpotThere
<1> HIDE DEF all, first
<1>5. ASSUME el \in FirstsOf(all)
      PROVE  \E c \in Channels : \E k \in 1 .. Len(d[c]) : Comes(d, c, k) /\ el = Made(c, d[c][k])
  <2>1. PICK i \in DOMAIN all : first(i) /\ el = Made(all[i].list, all[i].entry)
    BY <1>1, <1>5
  <2>2. PICK c \in Channels : \E k \in 1 .. Len(d[c]) : i = Spot(d, c, k)
    BY <1>4
  <2>3. PICK k \in 1 .. Len(d[c]) : i = Spot(d, c, k)
    BY <2>2
  <2>4. all[i].list = c /\ all[i].entry = d[c][k] /\ Comes(d, c, k)
    BY <1>2, <1>3, <2>1, <2>3
  <2> QED
    BY <2>1, <2>4
<1>6. ASSUME NEW c \in Channels, NEW k \in 1 .. Len(d[c]), Comes(d, c, k),
             el = Made(c, d[c][k])
      PROVE  el \in FirstsOf(all)
  <2>1. first(Spot(d, c, k))
    BY <1>3, <1>6
  <2> QED
    BY <1>1, <1>2, <1>6, <2>1
<1>7. InTurn(d) = all
  BY DEF all
<1> QED
  BY <1>5, <1>6, <1>7

\* Of the x64 entries of a version one is the first; no other is sooner.
LEMMA Earliest ==
    ASSUME NEW d \in Lists, NEW c \in Channels, NEW k \in 1 .. Len(d[c]), NameOf(d[c][k]).x64
    PROVE  \E b \in Channels : \E m \in 1 .. Len(d[b]) :
                /\ Comes(d, b, m)
                /\ Version(d[b][m]) = Version(d[c][k])
                /\ Sooner(b, m, c, k) \/ (b = c /\ m = k)
<1> DEFINE all == InTurn(d)
           v == Version(d[c][k])
           S == {i \in DOMAIN all : NameOf(all[i].entry).x64 /\ Version(all[i].entry) = v}
           at == Spot(d, c, k)
<1>1. at \in DOMAIN all /\ all[at].entry = d[c][k]
  BY EntryThere
<1>2. DOMAIN all \subseteq Nat
  BY InTurnIs DEF Turns
<1>3. at \in S /\ S \in SUBSET Nat /\ S # {}
  BY <1>1, <1>2
<1>4. PICK i \in S : \A j \in S : i <= j
  BY <1>3, Least
<1>5a. PICK b \in Channels : \E m \in 1 .. Len(d[b]) : i = Spot(d, b, m)
  BY <1>4, SpotThere
<1>5. PICK m \in 1 .. Len(d[b]) : i = Spot(d, b, m)
  BY <1>5a
<1>6. all[i].entry = d[b][m]
  BY <1>5, EntryThere
<1>7. NameOf(d[b][m]).x64 /\ Version(d[b][m]) = v
  BY <1>4, <1>6
<1>8. ASSUME NEW b2 \in Channels, NEW m2 \in 1 .. Len(d[b2]),
             NameOf(d[b2][m2]).x64, Sooner(b2, m2, b, m)
      PROVE  Version(d[b2][m2]) # v
  <2> DEFINE j == Spot(d, b2, m2)
  <2>1. j \in DOMAIN all /\ all[j].entry = d[b2][m2]
    BY EntryThere
  <2>2. j < i
    BY <1>5, <1>8, SpotOrder
  <2>3. j \in Nat /\ i \in Nat
    BY <1>2, <1>3, <2>1
  <2> HIDE DEF j, all
  <2> QED
    BY <1>4, <1>8, <2>1, <2>2, <2>3
<1>9. Comes(d, b, m)
  BY <1>7, <1>8 DEF Comes
<1>10. Sooner(b, m, c, k) \/ (b = c /\ m = k)
  <2>1. i <= at /\ i \in Nat /\ at \in Nat
    BY <1>3, <1>4
  <2>2. ~(at < i)
    BY <2>1
  <2>3. ~Sooner(c, k, b, m)
    BY <1>5, <2>2, SpotOrder
  <2>4. k \in Nat /\ m \in Nat
    BY ListIs
  <2>5. Turn[b] < Turn[c] \/ Turn[c] < Turn[b] \/ b = c
    BY Turns3 DEF Channels
  <2> QED
    BY <2>3, <2>4, <2>5 DEF Sooner
<1> QED
  BY <1>7, <1>9, <1>10

\* writeJson makes one element for each version of an x64 entry: none is
\* missing, and none is there twice, so that sorting them by version leaves no
\* choice.
THEOREM OnePerVersion ==
    ASSUME NEW d \in Lists
    PROVE  /\ \A c \in Channels : \A k \in 1 .. Len(d[c]) : NameOf(d[c][k]).x64 =>
                \E el \in Json(d) : el.version = Version(d[c][k])
           /\ \A el, nel \in Json(d) : el.version = nel.version => el = nel
<1>1. ASSUME NEW c \in Channels, NEW k \in 1 .. Len(d[c]), NameOf(d[c][k]).x64
      PROVE  \E el \in Json(d) : el.version = Version(d[c][k])
  <2>1a. PICK b \in Channels : \E m \in 1 .. Len(d[b]) :
            Comes(d, b, m) /\ Version(d[b][m]) = Version(d[c][k])
    BY <1>1, Earliest
  <2>1. PICK m \in 1 .. Len(d[b]) : Comes(d, b, m) /\ Version(d[b][m]) = Version(d[c][k])
    BY <2>1a
  <2>2. Made(b, d[b][m]) \in Json(d)
    BY <2>1, JsonIs, JsonMembers
  <2> QED
    BY <2>1, <2>2 DEF Made
<1>2. ASSUME NEW el \in Json(d), NEW nel \in Json(d), el.version = nel.version
      PROVE  el = nel
  <2>1a. PICK c \in Channels : \E k \in 1 .. Len(d[c]) :
            Comes(d, c, k) /\ el = Made(c, d[c][k])
    BY JsonIs, JsonMembers
  <2>1. PICK k \in 1 .. Len(d[c]) : Comes(d, c, k) /\ el = Made(c, d[c][k])
    BY <2>1a
  <2>2a. PICK b \in Channels : \E m \in 1 .. Len(d[b]) :
            Comes(d, b, m) /\ nel = Made(b, d[b][m])
    BY JsonIs, JsonMembers
  <2>2. PICK m \in 1 .. Len(d[b]) : Comes(d, b, m) /\ nel = Made(b, d[b][m])
    BY <2>2a
  <2>3. Version(d[c][k]) = Version(d[b][m])
    BY <1>2, <2>1, <2>2 DEF Made
  <2>4. ~Sooner(c, k, b, m) /\ ~Sooner(b, m, c, k)
    BY <2>1, <2>2, <2>3 DEF Comes
  <2>5. Turn[b] < Turn[c] \/ Turn[c] < Turn[b] \/ b = c
    BY Turns3 DEF Channels
  <2>6. b = c /\ k = m
    <3>1. k \in Int /\ m \in Int
      OBVIOUS
    <3> QED
      BY <2>4, <2>5, <3>1 DEF Sooner
  <2> QED
    BY <2>1, <2>2, <2>6
<1> QED
  BY <1>1, <1>2

\* convertVersion gives two package numbers one version only if they are of
\* its two schemes of 0.x, the one with a minor below 1000 and the other not.
THEOREM SameVersion ==
    ASSUME NEW m \in Nat \X Nat \X Nat, NEW n \in Nat \X Nat \X Nat,
           convertVersion(m) = convertVersion(n)
    PROVE  m = n \/ (m[1] = 0 /\ n[1] = 0 /\ (m[2] < 1000 <=> n[2] >= 1000))
<1>1. /\ m = <<m[1], m[2], m[3]>> /\ m[1] \in Nat /\ m[2] \in Nat /\ m[3] \in Nat
      /\ n = <<n[1], n[2], n[3]>> /\ n[1] \in Nat /\ n[2] \in Nat /\ n[3] \in Nat
  OBVIOUS
<1>2. ASSUME NEW a \in Nat, NEW b \in Nat
      PROVE  /\ a \div 100 = b \div 100 /\ a % 100 = b % 100 => a = b
             /\ a \div 10 = b \div 10 /\ a % 10 = b % 10 => a = b
  OBVIOUS
<1>3. m[1] = n[1]
  BY <1>1 DEF convertVersion
<1>4. CASE m[1] # 0
  BY <1>1, <1>2, <1>3, <1>4 DEF convertVersion
<1>5. CASE m[1] = 0 /\ m[2] < 1000 /\ n[2] < 1000
  BY <1>1, <1>2, <1>3, <1>5 DEF convertVersion
<1>6. CASE m[1] = 0 /\ m[2] >= 1000 /\ n[2] >= 1000
  BY <1>1, <1>2, <1>3, <1>6 DEF convertVersion
<1> QED
  BY <1>1, <1>3, <1>4, <1>5, <1>6

-----------------------------------------------------------------------------
(***************************************************************************)
(* The invariant: what a step changes.                                     *)
(***************************************************************************)
USE DEF dbVars, fileVars, processVars, historyVars

\* Torn lines hold beginnings of the lists.
LEMMA TornLists ==
    ASSUME NEW d \in Lists, NEW lines \in Torn(Write(d))
    PROVE  /\ Read(lines) \in Lists
           /\ \A c \in Channels, u \in Updates : Count(Read(lines)[c], u) <= Count(d[c], u)
<1>1. Read(lines) \in Lists
  BY ReadTorn
<1>2. ASSUME NEW c \in Channels, NEW u \in Updates
      PROVE  Count(Read(lines)[c], u) <= Count(d[c], u)
  <2>1. PICK k \in 0 .. Len(d[c]) : \/ Read(lines)[c] = SubSeq(d[c], 1, k)
                                   \/ Read(lines)[c] = Append(SubSeq(d[c], 1, k), Fragment)
    BY ReadTorn
  <2>2. d[c] \in Seq(Entries) /\ Len(d[c]) \in Nat
    BY ListIs
  <2>3. Count(SubSeq(d[c], 1, k), u) <= Count(d[c], u)
    BY <2>2, CountOfPart
  <2>4. Fragment \in Entries /\ Fragment # u
    BY Win10Assumption DEF Entries
  <2>5. SubSeq(d[c], 1, k) \in Seq(Entries)
    BY <2>2
  <2>6. Count(Append(SubSeq(d[c], 1, k), Fragment), u) = Count(SubSeq(d[c], 1, k), u)
    BY <2>4, <2>5, CountAppended
  <2> QED
    BY <2>1, <2>3, <2>6
<1> QED
  BY <1>1, <1>2

\* Only the database callback and a torn write change the database.
DatabaseChange ==
    \/ Database' = Database
    \/ DbRead
    \/ /\ torn' /\ pc' = "off" /\ crashes' = crashes + 1
       /\ \A c \in Channels, u \in Updates : Count(Database'[c], u) <= Count(Database[c], u)

LEMMA EmptyIsLists == Empty \in Lists
<1>1. <<>> \in Seq(Entries)
  OBVIOUS
<1> QED
  BY <1>1 DEF Empty, Lists

\* The callback appends the new updates, each once.
LEMMA DbReadAppends ==
    ASSUME TypeOK, FileInv, DbRead
    PROVE  \E new \in Seq(Entries) :
            /\ draft' = [draft EXCEPT ![channel] = @ \o new]
            /\ draft' \in Lists /\ channel \in Channels /\ draft \in Lists
            /\ \A i, j \in 1 .. Len(new) : new[i] = new[j] => i = j
            /\ \A u \in Updates : u \in fresh <=> Contains(new, u)
<1>1. PICK new \in InOrder(fresh) : draft' = [Read(text) EXCEPT ![channel] = @ \o new]
  BY DEF DbRead
<1>2. Read(text) = draft /\ pc = "read"
  BY DEF DbRead, FileInv
<1>3. draft \in Lists /\ channel \in Channels
  BY <1>2 DEF TypeOK, Database
<1>4. new \in SetToSeqs(fresh)
  BY <1>1 DEF InOrder
<1>5. fresh \subseteq out /\ out \subseteq Updates /\ IsFiniteSet(fresh)
  BY FS_Subset DEF TypeOK
<1>6. /\ new \in Seq(fresh) /\ \A i, j \in 1 .. Len(new) : new[i] = new[j] => i = j
      /\ \A u : u \in fresh <=> Contains(new, u)
  BY <1>4, <1>5, InOrderIs
<1>7. new \in Seq(Entries)
  BY <1>5, <1>6, SeqMonotonic DEF Entries
<1>8. draft[channel] \o new \in Seq(Entries)
  BY <1>3, <1>7, ListIs, PrefixJoined
<1>9. draft' \in Lists
  BY <1>1, <1>2, <1>3, <1>8 DEF Lists
<1> QED
  BY <1>1, <1>2, <1>3, <1>6, <1>7, <1>9

LEMMA FileStep == TypeOK /\ FileInv /\ [Next]_vars => FileInv'
<1> SUFFICES ASSUME TypeOK, FileInv, [Next]_vars PROVE FileInv'
  OBVIOUS
<1>0. Database \in Lists
  BY DEF TypeOK
<1>1. CASE Start
  BY <1>1 DEF Start, FileInv
<1>2. CASE Booted
  <2>1. Read(Write(draft)) = draft
    <3>1. Database = draft
      BY <1>2 DEF Booted, Database
    <3> QED
      BY <1>0, <3>1, ReadWrite
  <2> QED
    BY <1>2, <2>1 DEF Booted, WriteFiles, Gone, FileInv, Database
<1>3. CASE Lock
  BY <1>3 DEF Lock, FileInv
<1>4. CASE TokenFails
  BY <1>4 DEF TokenFails, FileInv
<1>5. CASE SyncFails
  BY <1>5 DEF SyncFails, Advance, FileInv
<1>6. CASE SyncConfigChanged
  BY <1>6 DEF SyncConfigChanged, FileInv
<1>7. ASSUME NEW listed \in SUBSET Available, SyncAnswers(listed) PROVE FileInv'
  BY <1>7 DEF SyncAnswers, FileInv
<1>8. CASE DbRead
  BY <1>8 DEF DbRead, FileInv
<1>9. CASE DbWrite
  <2>1. Read(Write(draft)) = draft
    <3>1. Database = draft
      BY <1>9 DEF DbWrite, Database
    <3> QED
      BY <1>0, <3>1, ReadWrite
  <2> QED
    BY <1>9, <2>1 DEF DbWrite, WriteFiles, Gone, FileInv, Database
<1>10. CASE DbCommit
  BY <1>10 DEF DbCommit, FileInv
<1>11. CASE DbPush
  BY <1>11 DEF DbPush, FileInv
<1>12. CASE NotifyUrls
  BY <1>12 DEF NotifyUrls, FileInv
<1>13. CASE NotifySend
  BY <1>13 DEF NotifySend, FileInv
<1>14. CASE Save
  BY <1>14 DEF Save, Advance, FileInv
<1>15. CASE Wake
  BY <1>15 DEF Wake, FileInv
<1>16. CASE Crash
  BY <1>16 DEF Crash, Gone, FileInv
<1>17. CASE LinkBegin
  BY <1>17 DEF LinkBegin, FileInv
<1>18. CASE LinkEnd
  BY <1>18 DEF LinkEnd, FileInv
<1>19. ASSUME NEW x \in Updates, PutOut(x) PROVE FileInv'
  BY <1>19 DEF PutOut, FileInv
<1>20. CASE UNCHANGED vars
  BY <1>20 DEF vars, FileInv
<1> QED
  BY <1>1, <1>2, <1>3, <1>4, <1>5, <1>6, <1>7, <1>8, <1>9, <1>10, <1>11,
     <1>12, <1>13, <1>14, <1>15, <1>16, <1>17, <1>18, <1>19, <1>20
     DEF Next, Thread, Sync, Callbacks

LEMMA DatabaseStep == TypeOK /\ FileInv /\ [Next]_vars => DatabaseChange /\ Database' \in Lists
<1> SUFFICES ASSUME TypeOK, FileInv, [Next]_vars PROVE DatabaseChange /\ Database' \in Lists
  OBVIOUS
<1>0. Database \in Lists
  BY DEF TypeOK
<1> DEFINE Same == Database' = Database
           Goal == DatabaseChange /\ Database' \in Lists
<1> SUFFICES Same \/ Goal
  BY <1>0 DEF DatabaseChange
<1>1. CASE Start
  BY <1>1 DEF Start, Database
<1>2. CASE Booted
  <2>1. Read(Write(draft)) = draft /\ Database = draft /\ draft \in Lists
    BY <1>2, <1>0, ReadWrite DEF Database, Booted
  <2>2. Database' = draft
    BY <1>2, <2>1 DEF Booted, WriteFiles, Gone, Database
  <2> QED
    BY <2>1, <2>2
<1>3. CASE Lock
  BY <1>3 DEF Lock, Database
<1>4. CASE TokenFails
  BY <1>4 DEF TokenFails, Database
<1>5. CASE SyncFails
  BY <1>5 DEF SyncFails, Advance, Database
<1>6. CASE SyncConfigChanged
  BY <1>6 DEF SyncConfigChanged, Database
<1>7. ASSUME NEW listed \in SUBSET Available, SyncAnswers(listed) PROVE Same \/ Goal
  BY <1>7 DEF SyncAnswers, Database
<1>8. CASE DbRead
  <2>1. draft' \in Lists
    BY <1>8, DbReadAppends
  <2>2. Database' = draft'
    BY <1>8 DEF DbRead, Database
  <2> QED
    BY <1>8, <2>1, <2>2 DEF DatabaseChange
<1>9. CASE DbWrite
  <2>1. Read(Write(draft)) = draft /\ Database = draft /\ draft \in Lists
    BY <1>9, <1>0, ReadWrite DEF Database, DbWrite
  <2>2. Database' = draft
    BY <1>9, <2>1 DEF DbWrite, WriteFiles, Gone, Database
  <2> QED
    BY <2>1, <2>2
<1>10. CASE DbCommit
  BY <1>10 DEF DbCommit, Database
<1>11. CASE DbPush
  BY <1>11 DEF DbPush, Database
<1>12. CASE NotifyUrls
  BY <1>12 DEF NotifyUrls, Database
<1>13. CASE NotifySend
  BY <1>13 DEF NotifySend, Database
<1>14. CASE Save
  BY <1>14 DEF Save, Advance, Database
<1>15. CASE Wake
  BY <1>15 DEF Wake, Database
<1>16. CASE Crash
  <2>1. Database = draft /\ draft \in Lists
    BY <1>16, <1>0 DEF Crash, Database
  <2>2. Database' = Read(text')
    BY <1>16 DEF Crash, Gone, Database
  <2>3. CASE pc \notin {"boot", "write"}
    BY <1>16, <2>1, <2>2, <2>3 DEF Crash, FileInv
  <2>4. CASE pc \in {"boot", "write"}
    <3>1. text' \in Torn(Write(draft)) /\ torn' = (torn \/ text' # Write(draft))
      BY <1>16, <2>4 DEF Crash
    <3>2. CASE text' = Write(draft)
      BY <2>1, <2>2, <3>2, ReadWrite
    <3>3. CASE text' # Write(draft)
      <4>1. PICK lines \in Torn(Write(draft)) : lines = text'
        BY <3>1
      <4>2. /\ Read(lines) \in Lists
            /\ \A c \in Channels, u \in Updates : Count(Read(lines)[c], u) <= Count(draft[c], u)
        BY <2>1, TornLists
      <4>3. torn' /\ pc' = "off" /\ crashes' = crashes + 1
        BY <1>16, <3>1, <3>3 DEF Crash, Gone
      <4>4. Database' = Read(lines)
        BY <2>2, <4>1
      <4> QED
        BY <2>1, <4>2, <4>3, <4>4 DEF DatabaseChange
    <3> QED
      BY <3>2, <3>3
  <2> QED
    BY <2>3, <2>4
<1>17. CASE LinkBegin
  BY <1>17 DEF LinkBegin, Database
<1>18. CASE LinkEnd
  BY <1>18 DEF LinkEnd, Database
<1>19. ASSUME NEW x \in Updates, PutOut(x) PROVE Same \/ Goal
  BY <1>19 DEF PutOut, Database
<1>20. CASE UNCHANGED vars
  BY <1>20 DEF vars, Database
<1> QED
  BY <1>1, <1>2, <1>3, <1>4, <1>5, <1>6, <1>7, <1>8, <1>9, <1>10, <1>11,
     <1>12, <1>13, <1>14, <1>15, <1>16, <1>17, <1>18, <1>19, <1>20
     DEF Next, Thread, Sync, Callbacks

\* What a step may do to the variables that few actions change.
Changes ==
    /\ (head' = head /\ pushed' = pushed) \/ DbCommit \/ DbPush
    /\ conf' = conf \/ (conf' = known /\ pc \in {"sync", "save"})
    /\ announced \subseteq announced'
    /\ changes' = changes \/ SyncConfigChanged
    /\ crashes' = crashes \/ crashes' = crashes + 1
    /\ (crashes' = crashes /\ torn' = torn) \/ Crash
    /\ newMoniker' = newMoniker \/ newMoniker' \in BOOLEAN

LEMMA StepChanges == [Next]_vars => Changes
<1> SUFFICES ASSUME [Next]_vars PROVE Changes
  OBVIOUS
<1>1. CASE Start
  BY <1>1 DEF Start, Changes
<1>2. CASE Booted
  BY <1>2 DEF Booted, WriteFiles, Gone, Changes
<1>3. CASE Lock
  BY <1>3 DEF Lock, Changes
<1>4. CASE TokenFails
  BY <1>4 DEF TokenFails, Changes
<1>5. CASE SyncFails
  BY <1>5 DEF SyncFails, Advance, Changes
<1>6. CASE SyncConfigChanged
  BY <1>6 DEF SyncConfigChanged, Changes
<1>7. ASSUME NEW listed \in SUBSET Available, SyncAnswers(listed) PROVE Changes
  BY <1>7 DEF SyncAnswers, Changes
<1>8. CASE DbRead
  BY <1>8 DEF DbRead, Changes
<1>9. CASE DbWrite
  BY <1>9 DEF DbWrite, WriteFiles, Gone, Changes
<1>10. CASE DbCommit
  BY <1>10 DEF DbCommit, Changes
<1>11. CASE DbPush
  BY <1>11 DEF DbPush, Changes
<1>12. CASE NotifyUrls
  BY <1>12 DEF NotifyUrls, Changes
<1>13. CASE NotifySend
  BY <1>13 DEF NotifySend, Changes
<1>14. CASE Save
  BY <1>14 DEF Save, Advance, Changes
<1>15. CASE Wake
  BY <1>15 DEF Wake, Changes
<1>16. CASE Crash
  <2>1. crashes' = crashes + 1 /\ UNCHANGED <<head, pushed, conf, announced, changes>>
    BY <1>16 DEF Crash
  <2>2. newMoniker' \in BOOLEAN
    BY <1>16 DEF Crash, Gone
  <2> QED
    BY <1>16, <2>1, <2>2 DEF Changes
<1>17. CASE LinkBegin
  BY <1>17 DEF LinkBegin, Changes
<1>18. CASE LinkEnd
  BY <1>18 DEF LinkEnd, Changes
<1>19. ASSUME NEW x \in Updates, PutOut(x) PROVE Changes
  BY <1>19 DEF PutOut, Changes
<1>20. CASE UNCHANGED vars
  BY <1>20 DEF vars, Changes
<1> QED
  BY <1>1, <1>2, <1>3, <1>4, <1>5, <1>6, <1>7, <1>8, <1>9, <1>10, <1>11,
     <1>12, <1>13, <1>14, <1>15, <1>16, <1>17, <1>18, <1>19, <1>20
     DEF Next, Thread, Sync, Callbacks

\* TypeOK in parts: sets of updates, numbers, the thread, the flags.
SetsOK ==
    /\ out \subseteq Updates /\ IsFiniteSet(out)
    /\ conf \in [Sources -> SUBSET out] /\ known \in [Sources -> SUBSET out]
    /\ fresh \subseteq out /\ announced \subseteq out

NumbersOK == changes \in 0 .. MaxChanges /\ crashes \in 0 .. MaxCrashes

ThreadOK == pc \in PC /\ channel \in Channels /\ owner \in {"free", "check", "command"}

FlagsOK == newMoniker \in BOOLEAN /\ torn \in BOOLEAN

CommitsOK == head.db \in Lists /\ pushed.db \in Lists

LEMMA TypeParts ==
    TypeOK <=> (SetsOK /\ NumbersOK /\ ThreadOK /\ FlagsOK /\ CommitsOK /\ Database \in Lists)
  BY ZenonT(30) DEF TypeOK, SetsOK, NumbersOK, ThreadOK, FlagsOK, CommitsOK

LEMMA SetsStep == SetsOK /\ ThreadOK /\ [Next]_vars => SetsOK'
<1> SUFFICES ASSUME SetsOK, ThreadOK, [Next]_vars PROVE SetsOK'
  OBVIOUS
<1>1. CASE Start
  BY <1>1 DEF Start, SetsOK
<1>2. CASE Booted
  <2>1. (known' = known /\ fresh' = fresh) \/ (known' = Nothing /\ fresh' = {})
    BY <1>2 DEF Booted, WriteFiles, Gone
  <2>2. Nothing \in [Sources -> SUBSET out]
    BY DEF Nothing
  <2> QED
    BY <1>2, <2>1, <2>2 DEF Booted, SetsOK
<1>3. CASE Lock
  BY <1>3 DEF Lock, SetsOK
<1>4. CASE TokenFails
  BY <1>4 DEF TokenFails, SetsOK
<1>5. CASE SyncFails
  BY <1>5 DEF SyncFails, Advance, SetsOK
<1>6. CASE SyncConfigChanged
  BY <1>6 DEF SyncConfigChanged, SetsOK
<1>7. ASSUME NEW listed \in SUBSET Available, SyncAnswers(listed) PROVE SetsOK'
  <2>1. channel \in Channels /\ Source(channel) \in Sources
    BY DEF ThreadOK, Source, Sources
  <2>2. listed \ known[Source(channel)] \subseteq out
    BY DEF Available
  <2>3. known' \in [Sources -> SUBSET out] /\ fresh' \subseteq out
    BY <1>7, <2>1, <2>2 DEF SyncAnswers, NewAmong, SetsOK
  <2> QED
    BY <1>7, <2>3 DEF SyncAnswers, SetsOK
<1>8. CASE DbRead
  BY <1>8 DEF DbRead, SetsOK
<1>9. CASE DbWrite
  <2>1. (known' = known /\ fresh' = fresh) \/ (known' = Nothing /\ fresh' = {})
    BY <1>9 DEF DbWrite, WriteFiles, Gone
  <2>2. Nothing \in [Sources -> SUBSET out]
    BY DEF Nothing
  <2> QED
    BY <1>9, <2>1, <2>2 DEF DbWrite, SetsOK
<1>10. CASE DbCommit
  BY <1>10 DEF DbCommit, SetsOK
<1>11. CASE DbPush
  BY <1>11 DEF DbPush, SetsOK
<1>12. CASE NotifyUrls
  BY <1>12 DEF NotifyUrls, SetsOK
<1>13. CASE NotifySend
  BY <1>13 DEF NotifySend, SetsOK
<1>14. CASE Save
  BY <1>14 DEF Save, Advance, SetsOK
<1>15. CASE Wake
  BY <1>15 DEF Wake, SetsOK
<1>16. CASE Crash
  <2>1. Nothing \in [Sources -> SUBSET out]
    BY DEF Nothing
  <2> QED
    BY <1>16, <2>1 DEF Crash, Gone, SetsOK
<1>17. CASE LinkBegin
  BY <1>17 DEF LinkBegin, SetsOK
<1>18. CASE LinkEnd
  BY <1>18 DEF LinkEnd, SetsOK
<1>19. ASSUME NEW x \in Updates, PutOut(x) PROVE SetsOK'
  <2>1. out' = out \cup {x} /\ out \subseteq out' /\ out' \subseteq Updates
    BY <1>19 DEF PutOut, SetsOK
  <2>2. IsFiniteSet(out')
    BY <2>1, FS_AddElement DEF SetsOK
  <2>3. conf' \in [Sources -> SUBSET out'] /\ known' \in [Sources -> SUBSET out']
    BY <1>19, <2>1 DEF PutOut, SetsOK
  <2> QED
    BY <1>19, <2>1, <2>2, <2>3 DEF PutOut, SetsOK
<1>20. CASE UNCHANGED vars
  BY <1>20 DEF vars, SetsOK
<1> QED
  BY <1>1, <1>2, <1>3, <1>4, <1>5, <1>6, <1>7, <1>8, <1>9, <1>10, <1>11,
     <1>12, <1>13, <1>14, <1>15, <1>16, <1>17, <1>18, <1>19, <1>20
     DEF Next, Thread, Sync, Callbacks

LEMMA NumbersStep == NumbersOK /\ [Next]_vars => NumbersOK'
<1> SUFFICES ASSUME NumbersOK, [Next]_vars PROVE NumbersOK'
  OBVIOUS
<1>1. MaxCrashes \in Nat /\ MaxChanges \in Nat
  BY Win10Assumption
<1>2. changes' = changes \/ (changes' = changes + 1 /\ changes < MaxChanges)
  BY StepChanges DEF Changes, SyncConfigChanged
<1>3. crashes' = crashes \/ (crashes' = crashes + 1 /\ crashes < MaxCrashes)
  BY StepChanges DEF Changes, Crash
<1> QED
  BY <1>1, <1>2, <1>3 DEF NumbersOK

LEMMA ThreadStep == ThreadOK /\ [Next]_vars => ThreadOK'
<1> SUFFICES ASSUME ThreadOK, [Next]_vars PROVE ThreadOK'
  OBVIOUS
<1>1. CASE Start
  BY <1>1 DEF Start, ThreadOK, PC, Channels
<1>2. CASE Booted
  BY <1>2 DEF Booted, WriteFiles, Gone, ThreadOK, PC, Channels
<1>3. CASE Lock
  BY <1>3 DEF Lock, ThreadOK, PC, Channels
<1>4. CASE TokenFails
  BY <1>4 DEF TokenFails, ThreadOK, PC, Channels
<1>5. CASE SyncFails
  BY <1>5 DEF SyncFails, Advance, ThreadOK, PC, Channels
<1>6. CASE SyncConfigChanged
  BY <1>6 DEF SyncConfigChanged, ThreadOK, PC, Channels
<1>7. ASSUME NEW listed \in SUBSET Available, SyncAnswers(listed) PROVE ThreadOK'
  BY <1>7 DEF SyncAnswers, ThreadOK, PC, Channels
<1>8. CASE DbRead
  BY <1>8 DEF DbRead, ThreadOK, PC, Channels
<1>9. CASE DbWrite
  BY <1>9 DEF DbWrite, WriteFiles, Gone, ThreadOK, PC, Channels
<1>10. CASE DbCommit
  BY <1>10 DEF DbCommit, ThreadOK, PC, Channels
<1>11. CASE DbPush
  BY <1>11 DEF DbPush, ThreadOK, PC, Channels
<1>12. CASE NotifyUrls
  BY <1>12 DEF NotifyUrls, ThreadOK, PC, Channels
<1>13. CASE NotifySend
  BY <1>13 DEF NotifySend, ThreadOK, PC, Channels
<1>14. CASE Save
  BY <1>14 DEF Save, Advance, ThreadOK, PC, Channels
<1>15. CASE Wake
  BY <1>15 DEF Wake, ThreadOK, PC, Channels
<1>16. CASE Crash
  BY <1>16 DEF Crash, Gone, ThreadOK, PC, Channels
<1>17. CASE LinkBegin
  BY <1>17 DEF LinkBegin, ThreadOK, PC, Channels
<1>18. CASE LinkEnd
  BY <1>18 DEF LinkEnd, ThreadOK, PC, Channels
<1>19. ASSUME NEW x \in Updates, PutOut(x) PROVE ThreadOK'
  BY <1>19 DEF PutOut, ThreadOK, PC, Channels
<1>20. CASE UNCHANGED vars
  BY <1>20 DEF vars, ThreadOK, PC, Channels
<1> QED
  BY <1>1, <1>2, <1>3, <1>4, <1>5, <1>6, <1>7, <1>8, <1>9, <1>10, <1>11,
     <1>12, <1>13, <1>14, <1>15, <1>16, <1>17, <1>18, <1>19, <1>20
     DEF Next, Thread, Sync, Callbacks

LEMMA FlagsStep == FlagsOK /\ [Next]_vars => FlagsOK'
<1> SUFFICES ASSUME FlagsOK, [Next]_vars PROVE FlagsOK'
  OBVIOUS
<1>1. torn' = torn \/ torn' \in BOOLEAN
  BY StepChanges DEF Changes, Crash
<1>2. newMoniker' = newMoniker \/ newMoniker' \in BOOLEAN
  BY StepChanges DEF Changes
<1> QED
  BY <1>1, <1>2 DEF FlagsOK

LEMMA CommitsStep == TypeOK /\ FileInv /\ [Next]_vars => CommitsOK'
<1> SUFFICES ASSUME TypeOK, FileInv, [Next]_vars PROVE CommitsOK'
  OBVIOUS
<1>1. CASE head' = head /\ pushed' = pushed
  BY <1>1 DEF CommitsOK, TypeOK
<1>2. CASE DbCommit
  <2>1. Read(text) = draft /\ Database = draft
    BY <1>2 DEF DbCommit, FileInv, Database
  <2> QED
    BY <1>2, <2>1 DEF DbCommit, CommitsOK, TypeOK
<1>3. CASE DbPush
  BY <1>3 DEF DbPush, CommitsOK, TypeOK
<1> QED
  BY <1>1, <1>2, <1>3, StepChanges DEF Changes

LEMMA TypeStep == TypeOK /\ FileInv /\ [Next]_vars => TypeOK'
<1> SUFFICES ASSUME TypeOK, FileInv, [Next]_vars PROVE TypeOK'
  OBVIOUS
<1>1. SetsOK /\ NumbersOK /\ ThreadOK /\ FlagsOK
  BY TypeParts
<1>2. SetsOK' /\ NumbersOK' /\ ThreadOK' /\ FlagsOK' /\ CommitsOK'
  BY <1>1, SetsStep, NumbersStep, ThreadStep, FlagsStep, CommitsStep
<1>3. Database' \in Lists
  BY DatabaseStep
<1>4. TypeOK' <=> (SetsOK /\ NumbersOK /\ ThreadOK /\ FlagsOK /\ CommitsOK /\ Database \in Lists)'
  BY TypeParts, PTL
<1> QED
  BY <1>2, <1>3, <1>4

-----------------------------------------------------------------------------
(***************************************************************************)
(* The database, its commits and pushes.                                   *)
(***************************************************************************)
\* Each list of d is the beginning of that of e.
Continues(e, d) == \A c \in Channels : IsPrefix(d[c], e[c])

LEMMA ContinuesRefl == ASSUME NEW d \in Lists PROVE Continues(d, d)
  BY ListIs, PrefixRefl DEF Continues

LEMMA ContinuesTrans ==
    ASSUME NEW d \in Lists, NEW e \in Lists, NEW f \in Lists, Continues(e, d), Continues(f, e)
    PROVE  Continues(f, d)
<1> SUFFICES ASSUME NEW c \in Channels PROVE IsPrefix(d[c], f[c])
  BY DEF Continues
<1>1. d[c] \in Seq(Entries) /\ e[c] \in Seq(Entries) /\ f[c] \in Seq(Entries)
  BY ListIs
<1>2. IsPrefix(d[c], e[c]) /\ IsPrefix(e[c], f[c])
  BY DEF Continues
<1> QED
  BY <1>1, <1>2, PrefixTrans

LEMMA PrefixInvIs ==
    PrefixInv <=> \/ torn
                  \/ /\ Continues(head.db, pushed.db) /\ Continues(Database, pushed.db)
                     /\ Continues(Database, head.db)
  BY ZenonT(30) DEF PrefixInv, Continues

\* The callback only adds to the database.
LEMMA DbReadContinues ==
    ASSUME TypeOK, FileInv, DbRead
    PROVE  /\ Continues(Database', Database)
           /\ \A u \in fresh : Contains(draft'[channel], u)
<1>1. PICK new \in Seq(Entries) :
        /\ draft' = [draft EXCEPT ![channel] = @ \o new]
        /\ draft' \in Lists /\ channel \in Channels /\ draft \in Lists
        /\ \A u \in Updates : u \in fresh <=> Contains(new, u)
  BY DbReadAppends
<1>2. Database = draft /\ Database' = draft'
  BY DEF DbRead, Database
<1>3. draft[channel] \in Seq(Entries) /\ DOMAIN draft = Channels
  BY <1>1, ListIs DEF Lists
<1>4. draft'[channel] = draft[channel] \o new
  BY <1>1, <1>3
<1>5. ASSUME NEW c \in Channels PROVE IsPrefix(draft[c], draft'[c])
  <2>1. CASE c = channel
    BY <1>1, <1>3, <1>4, <2>1, PrefixJoined
  <2>2. CASE c # channel
    <3>1. draft'[c] = draft[c] /\ draft[c] \in Seq(Entries)
      BY <1>1, <1>3, <2>2, ListIs
    <3> QED
      BY <3>1, PrefixRefl
  <2> QED
    BY <2>1, <2>2
<1>6. ASSUME NEW u \in fresh PROVE Contains(draft'[channel], u)
  <2>1. u \in Updates
    BY DEF TypeOK
  <2>2. Contains(new, u)
    BY <1>1, <2>1
  <2> QED
    BY <1>1, <1>3, <1>4, <2>2, ContainsJoined
<1> QED
  BY <1>2, <1>5, <1>6 DEF Continues

LEMMA TornStays == [Next]_vars => (torn => torn')
  BY StepChanges DEF Changes, Crash

LEMMA PrefixStep == TypeOK /\ FileInv /\ PrefixInv /\ [Next]_vars => PrefixInv'
<1> SUFFICES ASSUME TypeOK, FileInv, PrefixInv, [Next]_vars, ~torn' PROVE PrefixInv'
  BY DEF PrefixInv
<1>0. PrefixInv' <=> (\/ torn
                      \/ /\ Continues(head.db, pushed.db) /\ Continues(Database, pushed.db)
                         /\ Continues(Database, head.db))'
  BY PrefixInvIs, PTL
<1>1. (head' = head /\ pushed' = pushed) \/ DbCommit \/ DbPush
  BY StepChanges DEF Changes
<1>2. /\ Continues(head.db, pushed.db) /\ Continues(Database, pushed.db)
      /\ Continues(Database, head.db)
  BY TornStays, PrefixInvIs
<1>3. /\ head.db \in Lists /\ pushed.db \in Lists /\ Database \in Lists
      /\ Database' \in Lists
  BY DatabaseStep DEF TypeOK
<1>4. CASE DbRead
  <2>1. Continues(Database', Database) /\ head' = head /\ pushed' = pushed
    BY <1>4, DbReadContinues DEF DbRead
  <2>2. PICK d \in Lists : d = Database'
    BY <1>3
  <2>3. PICK e \in Lists : e = Database
    BY <1>3
  <2>4. Continues(d, pushed.db) /\ Continues(d, head.db)
    BY <1>2, <1>3, <2>1, <2>2, <2>3, ContinuesTrans
  <2> QED
    BY <1>0, <1>2, <2>1, <2>2, <2>4
<1>5. CASE Database' = Database /\ head' = head /\ pushed' = pushed
  BY <1>0, <1>2, <1>5
<1>6. CASE DbCommit
  <2>1. Read(text) = draft /\ Database = draft /\ Database' = draft
    BY <1>6 DEF DbCommit, FileInv, Database
  <2>2. pushed' = pushed /\ head'.db = Database
    BY <1>6, <2>1 DEF DbCommit
  <2>3. PICK e \in Lists : e = Database
    BY <1>3
  <2>4. Continues(Database, Database)
    BY <2>3, ContinuesRefl
  <2> QED
    BY <1>0, <1>2, <2>1, <2>2, <2>4
<1>7. CASE DbPush
  <2>1. pushed' = head /\ head' = head /\ Database' = Database
    BY <1>7 DEF DbPush, Database
  <2>2. Continues(head.db, head.db)
    BY <1>3, ContinuesRefl
  <2> QED
    BY <1>0, <1>2, <2>1, <2>2
<1>8. Database' = Database \/ DbRead
  BY DatabaseStep DEF DatabaseChange
<1> QED
  BY <1>1, <1>4, <1>5, <1>6, <1>7, <1>8

\* A push publishes a continuation of what is published.
LEMMA PushContinues ==
    ASSUME TypeOK, FileInv, PrefixInv, [Next]_vars
    PROVE  torn \/ Continues(pushed'.db, pushed.db)
<1> SUFFICES ASSUME ~torn PROVE Continues(pushed'.db, pushed.db)
  OBVIOUS
<1>1. Continues(head.db, pushed.db)
  BY PrefixInvIs
<1>2. Continues(pushed.db, pushed.db)
  BY ContinuesRefl DEF TypeOK
<1>3. pushed' = pushed \/ pushed' = head
  BY StepChanges DEF Changes, DbCommit, DbPush
<1> QED
  BY <1>1, <1>2, <1>3

\* A database that goes on from another one keeps the versions of its JSON.
LEMMA JsonKeeps ==
    ASSUME NEW d \in Lists, NEW e \in Lists, Continues(e, d)
    PROVE  KeepsVersions(Json(d), Json(e))
<1> SUFFICES ASSUME NEW el \in Json(d)
             PROVE  \E nel \in Json(e) : nel.version = el.version
                        /\ (nel = el \/ Turn[nel.list] < Turn[el.list])
  BY DEF KeepsVersions
<1>1a. PICK c \in Channels : \E k \in 1 .. Len(d[c]) : Comes(d, c, k) /\ el = Made(c, d[c][k])
  BY JsonIs, JsonMembers
<1>1. PICK k \in 1 .. Len(d[c]) : Comes(d, c, k) /\ el = Made(c, d[c][k])
  BY <1>1a
<1>2. ASSUME NEW b \in Channels
      PROVE  /\ Len(d[b]) \in Nat /\ Len(e[b]) \in Nat /\ Len(d[b]) <= Len(e[b])
             /\ \A m \in 1 .. Len(d[b]) : d[b][m] = e[b][m]
  <2>1. d[b] \in Seq(Entries) /\ e[b] \in Seq(Entries) /\ IsPrefix(d[b], e[b])
    BY ListIs DEF Continues
  <2> QED
    BY <2>1, PrefixIs
<1>3. k \in 1 .. Len(e[c]) /\ e[c][k] = d[c][k] /\ NameOf(e[c][k]).x64
  BY <1>1, <1>2 DEF Comes
<1>4a. PICK b \in Channels : \E m \in 1 .. Len(e[b]) :
            /\ Comes(e, b, m) /\ Version(e[b][m]) = Version(e[c][k])
            /\ Sooner(b, m, c, k) \/ (b = c /\ m = k)
  BY <1>3, Earliest
<1>4. PICK m \in 1 .. Len(e[b]) :
            /\ Comes(e, b, m) /\ Version(e[b][m]) = Version(e[c][k])
            /\ Sooner(b, m, c, k) \/ (b = c /\ m = k)
  BY <1>4a
<1> DEFINE nel == Made(b, e[b][m])
<1>5. nel \in Json(e) /\ nel.version = el.version
  <2>1. nel \in Json(e)
    BY <1>4, JsonIs, JsonMembers
  <2> QED
    BY <2>1, <1>1, <1>3, <1>4 DEF Made
<1>6. nel.list = b /\ el.list = c
  BY <1>1 DEF Made
<1>7. CASE Turn[b] < Turn[c]
  BY <1>5, <1>6, <1>7
<1>8. CASE b = c /\ m = k
  <2>1. nel = el
    BY <1>1, <1>3, <1>8
  <2> QED
    BY <1>5, <2>1
<1>9. CASE b = c /\ m < k
  <2>1. m \in 1 .. Len(d[c]) /\ e[c][m] = d[c][m]
    BY <1>2, <1>9
  <2>2. NameOf(d[c][m]).x64 /\ Version(d[c][m]) = Version(d[c][k])
    BY <1>3, <1>4, <1>9, <2>1 DEF Comes
  <2>3. Sooner(c, m, c, k)
    BY <1>9 DEF Sooner
  <2> QED
    BY <1>1, <2>1, <2>2, <2>3 DEF Comes
<1> QED
  BY <1>4, <1>7, <1>8, <1>9 DEF Sooner

LEMMA JsonStep == FileInv /\ JsonInv /\ [Next]_vars => JsonInv'
<1> SUFFICES ASSUME FileInv, JsonInv, [Next]_vars PROVE JsonInv'
  OBVIOUS
<1>1. CASE Start
  BY <1>1 DEF Start, JsonInv
<1>2. CASE Booted
  <2>1. pc' # "commit" /\ head' = head /\ pushed' = pushed
    BY <1>2 DEF Booted, WriteFiles, Gone
  <2> QED
    BY <2>1 DEF JsonInv
<1>3. CASE Lock
  BY <1>3 DEF Lock, JsonInv
<1>4. CASE TokenFails
  BY <1>4 DEF TokenFails, JsonInv
<1>5. CASE SyncFails
  BY <1>5 DEF SyncFails, Advance, JsonInv
<1>6. CASE SyncConfigChanged
  BY <1>6 DEF SyncConfigChanged, JsonInv
<1>7. ASSUME NEW listed \in SUBSET Available, SyncAnswers(listed) PROVE JsonInv'
  BY <1>7 DEF SyncAnswers, JsonInv
<1>8. CASE DbRead
  BY <1>8 DEF DbRead, JsonInv
<1>9. CASE DbWrite
  <2>1. head' = head /\ pushed' = pushed
    BY <1>9 DEF DbWrite
  <2>2. CASE Readable(draft)
    BY <1>9, <2>1, <2>2 DEF DbWrite, WriteFiles, JsonInv
  <2>3. CASE ~Readable(draft)
    BY <1>9, <2>1, <2>3 DEF DbWrite, WriteFiles, Gone, JsonInv
  <2> QED
    BY <2>2, <2>3
<1>10. CASE DbCommit
  <2>1. Read(text) = draft /\ json = Json(draft) /\ Readable(draft)
    BY <1>10 DEF DbCommit, FileInv, JsonInv
  <2>2. head'.db = draft /\ head'.json = json /\ pc' = "push" /\ pushed' = pushed
    BY <1>10, <2>1 DEF DbCommit
  <2> QED
    BY <2>1, <2>2 DEF JsonInv
<1>11. CASE DbPush
  BY <1>11 DEF DbPush, JsonInv
<1>12. CASE NotifyUrls
  BY <1>12 DEF NotifyUrls, JsonInv
<1>13. CASE NotifySend
  BY <1>13 DEF NotifySend, JsonInv
<1>14. CASE Save
  BY <1>14 DEF Save, Advance, JsonInv
<1>15. CASE Wake
  BY <1>15 DEF Wake, JsonInv
<1>16. CASE Crash
  BY <1>16 DEF Crash, Gone, JsonInv
<1>17. CASE LinkBegin
  BY <1>17 DEF LinkBegin, JsonInv
<1>18. CASE LinkEnd
  BY <1>18 DEF LinkEnd, JsonInv
<1>19. ASSUME NEW x \in Updates, PutOut(x) PROVE JsonInv'
  BY <1>19 DEF PutOut, JsonInv
<1>20. CASE UNCHANGED vars
  BY <1>20 DEF vars, JsonInv
<1> QED
  BY <1>1, <1>2, <1>3, <1>4, <1>5, <1>6, <1>7, <1>8, <1>9, <1>10, <1>11,
     <1>12, <1>13, <1>14, <1>15, <1>16, <1>17, <1>18, <1>19, <1>20
     DEF Next, Thread, Sync, Callbacks

LEMMA FreshStep == TypeOK /\ FileInv /\ FreshInv /\ [Next]_vars => FreshInv'
<1> SUFFICES ASSUME TypeOK, FileInv, FreshInv, [Next]_vars PROVE FreshInv'
  OBVIOUS
<1>1. CASE Start
  BY <1>1 DEF Start, FreshInv
<1>2. CASE Booted
  BY <1>2 DEF Booted, WriteFiles, Gone, FreshInv
<1>3. CASE Lock
  BY <1>3 DEF Lock, FreshInv
<1>4. CASE TokenFails
  BY <1>4 DEF TokenFails, FreshInv
<1>5. CASE SyncFails
  BY <1>5 DEF SyncFails, Advance, FreshInv
<1>6. CASE SyncConfigChanged
  BY <1>6 DEF SyncConfigChanged, FreshInv
<1>7. ASSUME NEW listed \in SUBSET Available, SyncAnswers(listed) PROVE FreshInv'
  <2>1. Source(channel) \in Sources /\ known \in [Sources -> SUBSET out]
    BY DEF TypeOK, Source, Sources
  <2>2. fresh' \subseteq known'[Source(channel)] /\ channel' = channel
    BY <1>7, <2>1 DEF SyncAnswers
  <2> QED
    BY <1>7, <2>2 DEF SyncAnswers, FreshInv
<1>8. CASE DbRead
  <2>1. /\ pc' = "write" /\ fresh' = fresh /\ known' = known /\ channel' = channel /\ pc = "read"
    BY <1>8 DEF DbRead
  <2>2. \A u \in fresh : Contains(draft'[channel], u)
    BY <1>8, DbReadContinues
  <2> QED
    BY <2>1, <2>2 DEF FreshInv
<1>9. CASE DbWrite
  BY <1>9 DEF DbWrite, WriteFiles, Gone, FreshInv
<1>10. CASE DbCommit
  <2>1. head'.db = draft
    BY <1>10 DEF DbCommit, FileInv
  <2> QED
    BY <1>10, <2>1 DEF DbCommit, FreshInv
<1>11. CASE DbPush
  BY <1>11 DEF DbPush, FreshInv
<1>12. CASE NotifyUrls
  BY <1>12 DEF NotifyUrls, FreshInv
<1>13. CASE NotifySend
  BY <1>13 DEF NotifySend, FreshInv
<1>14. CASE Save
  BY <1>14 DEF Save, Advance, FreshInv
<1>15. CASE Wake
  BY <1>15 DEF Wake, FreshInv
<1>16. CASE Crash
  BY <1>16 DEF Crash, Gone, FreshInv
<1>17. CASE LinkBegin
  BY <1>17 DEF LinkBegin, FreshInv
<1>18. CASE LinkEnd
  BY <1>18 DEF LinkEnd, FreshInv
<1>19. ASSUME NEW x \in Updates, PutOut(x) PROVE FreshInv'
  BY <1>19 DEF PutOut, FreshInv
<1>20. CASE UNCHANGED vars
  BY <1>20 DEF vars, FreshInv
<1> QED
  BY <1>1, <1>2, <1>3, <1>4, <1>5, <1>6, <1>7, <1>8, <1>9, <1>10, <1>11,
     <1>12, <1>13, <1>14, <1>15, <1>16, <1>17, <1>18, <1>19, <1>20
     DEF Next, Thread, Sync, Callbacks

-----------------------------------------------------------------------------
(***************************************************************************)
(* What is known, and what is repeated.                                    *)
(***************************************************************************)
\* What is published stays published.
LEMMA RemoteStays ==
    ASSUME TypeOK, FileInv, PrefixInv, [Next]_vars, NEW s, NEW u, InRemote(s, u)
    PROVE  InRemote(s, u)'
<1> SUFFICES ASSUME ~torn' PROVE InRemote(s, u)'
  BY DEF InRemote
<1>1. ~torn /\ Continues(pushed'.db, pushed.db)
  BY TornStays, PushContinues
<1>2. PICK c \in Channels : Source(c) = s /\ Contains(pushed.db[c], u)
  BY <1>1 DEF InRemote
<1>3. PICK d \in Lists : d = pushed.db
  BY DEF TypeOK
<1>4. PICK e \in Lists : e = pushed'.db
  <2>1. pushed' = pushed \/ pushed' = head
    BY StepChanges DEF Changes, DbCommit, DbPush
  <2> QED
    BY <2>1 DEF TypeOK
<1>5. d[c] \in Seq(Entries) /\ e[c] \in Seq(Entries) /\ IsPrefix(d[c], e[c]) /\ Contains(d[c], u)
  BY <1>1, <1>2, <1>3, <1>4, ListIs DEF Continues
<1>6. Contains(e[c], u)
  BY <1>5, ContainsMore
<1> QED
  BY <1>2, <1>4, <1>6 DEF InRemote

LEMMA ToldStays == ASSUME [Next]_vars, NEW u, Told(u) PROVE Told(u)'
  BY StepChanges DEF Changes, Told

\* The two halves of PublishedInv.
Kept(s, u)  == InRemote(s, u) \/ (pc \in {"read", "write", "commit", "push"} /\ u \in New(s))
Heard(s, u) == Told(u) \/ (/\ pc \in {"read", "write", "commit", "push", "notify", "tell"}
                           /\ newMoniker /\ u \in New(s))

LEMMA PublishedInvIs ==
    PublishedInv <=> \A s \in Sources : \A u \in known[s] : Kept(s, u) /\ Heard(s, u)
  BY ZenonT(30) DEF PublishedInv, Kept, Heard

LEMMA KnownIs ==
    KnownMeansPublished <=> \A s \in Sources : \A u \in conf[s] : InRemote(s, u) /\ Told(u)
  BY ZenonT(30) DEF KnownMeansPublished, InRemote, Told

LEMMA KnownStep ==
    ASSUME TypeOK, FileInv, PrefixInv, PublishedInv, KnownMeansPublished, [Next]_vars
    PROVE  KnownMeansPublished'
<1>1. KnownMeansPublished' <=>
        (\A s \in Sources : \A u \in conf[s] : InRemote(s, u) /\ Told(u))'
  BY KnownIs, PTL
<1> SUFFICES ASSUME NEW s \in Sources, NEW u \in conf'[s]
             PROVE  InRemote(s, u)' /\ Told(u)'
  BY <1>1
<1> SUFFICES InRemote(s, u) /\ Told(u)
  BY RemoteStays, ToldStays
<1>2. CASE conf' = conf
  BY <1>2, KnownIs
<1>3. CASE conf' = known /\ pc \in {"sync", "save"}
  <2>1. Kept(s, u) /\ Heard(s, u)
    BY <1>3, PublishedInvIs
  <2> QED
    BY <1>3, <2>1 DEF Kept, Heard
<1>4. conf' = conf \/ (conf' = known /\ pc \in {"sync", "save"})
  BY StepChanges DEF Changes
<1> QED
  BY <1>2, <1>3, <1>4

LEMMA PublishedStep ==
    ASSUME TypeOK, FileInv, PrefixInv, FreshInv, PublishedInv, KnownMeansPublished, [Next]_vars
    PROVE  PublishedInv'
<1>k. PublishedInv' <=>
        (\A s \in Sources : \A u \in known[s] : Kept(s, u) /\ Heard(s, u))'
  BY PublishedInvIs, PTL
<1> SUFFICES ASSUME NEW s \in Sources, NEW u \in known'[s]
             PROVE  Kept(s, u)' /\ Heard(s, u)'
  BY <1>k
<1> DEFINE Goal == Kept(s, u)' /\ Heard(s, u)'
<1> SUFFICES Goal
  OBVIOUS
<1>r. InRemote(s, u) => InRemote(s, u)'
  BY RemoteStays
<1>t. Told(u) => Told(u)'
  BY ToldStays
<1>p. u \in known[s] => Kept(s, u) /\ Heard(s, u)
  BY PublishedInvIs
<1>1. CASE Start
  <2>1. u \in conf[s]
    BY <1>1 DEF Start
  <2> QED
    BY <2>1, <1>r, <1>t, KnownIs DEF Kept, Heard
<1>2. CASE Booted
  <2>1. known' = known \/ known' = Nothing
    BY <1>2 DEF Booted, WriteFiles, Gone
  <2>2. known' = known
    BY <2>1 DEF Nothing
  <2>3. Nothing # known => pc' = "lock" /\ newMoniker' = newMoniker /\ fresh' = fresh
    BY <1>2, <2>2 DEF Booted, WriteFiles, Gone
  <2>4. Nothing # known
    BY <2>2 DEF Nothing
  <2> QED
    BY <1>2, <2>2, <2>3, <2>4, <1>p, <1>r, <1>t DEF Booted, Kept, Heard, New
<1>3. CASE Lock
  BY <1>3, <1>p, <1>r, <1>t DEF Lock, Kept, Heard, New
<1>4. CASE TokenFails
  BY <1>4, <1>p, <1>r, <1>t DEF TokenFails, Kept, Heard, New
<1>5. CASE SyncFails
  BY <1>5, <1>p, <1>r, <1>t DEF SyncFails, Advance, Kept, Heard, New
<1>6. CASE SyncConfigChanged
  BY <1>6, <1>p, <1>r, <1>t DEF SyncConfigChanged, Kept, Heard, New
<1>7. ASSUME NEW listed \in SUBSET Available, SyncAnswers(listed) PROVE Goal
  <2>1. channel' = channel /\ pc = "sync" /\ Source(channel) \in Sources
    BY <1>7 DEF SyncAnswers, Source, Sources
  <2>2. known' = [known EXCEPT ![Source(channel)] = @ \cup NewAmong(listed)]
    BY <1>7 DEF SyncAnswers
  <2>3. fresh' = NewAmong(listed) /\ (fresh' # {} => pc' = "read")
    BY <1>7 DEF SyncAnswers
  <2>4. DOMAIN known = Sources
    BY DEF TypeOK
  <2>5. CASE u \in known[s]
    BY <1>p, <1>r, <1>t, <2>1, <2>5 DEF Kept, Heard
  <2>6. CASE u \notin known[s]
    <3>1. s = Source(channel) /\ u \in NewAmong(listed)
      BY <2>1, <2>2, <2>4, <2>6
    <3>2. pc' = "read" /\ u \in New(s)'
      BY <2>1, <2>3, <3>1 DEF New
    <3>3. CASE newMoniker'
      BY <3>2, <3>3 DEF Kept, Heard
    <3>4. CASE ~newMoniker'
      <4>1. PICK t \in Sources : \E v \in known[t] : MonikerOf[v] = MonikerOf[u]
        BY <1>7, <3>1, <3>4 DEF SyncAnswers
      <4>2. PICK v \in known[t] : MonikerOf[v] = MonikerOf[u]
        BY <4>1
      <4>3. Told(v)
        <5>1. Heard(t, v)
          BY PublishedInvIs
        <5> QED
          BY <2>1, <5>1 DEF Heard
      <4>4. Told(u)
        BY <4>2, <4>3 DEF Told
      <4> QED
        BY <3>2, <4>4, <1>t DEF Kept, Heard
    <3> QED
      BY <3>3, <3>4
  <2> QED
    BY <2>5, <2>6
<1>8. CASE DbRead
  BY <1>8, <1>p, <1>r, <1>t DEF DbRead, Kept, Heard, New
<1>9. CASE DbWrite
  <2>1. known' = known \/ known' = Nothing
    BY <1>9 DEF DbWrite, WriteFiles, Gone
  <2>2. known' = known
    BY <2>1 DEF Nothing
  <2>3. Nothing # known => pc' = "commit" /\ newMoniker' = newMoniker /\ fresh' = fresh
    BY <1>9, <2>2 DEF DbWrite, WriteFiles, Gone
  <2>4. Nothing # known
    BY <2>2 DEF Nothing
  <2> QED
    BY <1>9, <2>2, <2>3, <2>4, <1>p, <1>r, <1>t DEF DbWrite, Kept, Heard, New
<1>10. CASE DbCommit
  BY <1>10, <1>p, <1>r, <1>t DEF DbCommit, Kept, Heard, New
<1>11. CASE DbPush
  <2>1. /\ pc = "push" /\ channel' = channel /\ fresh' = fresh /\ known' = known
        /\ newMoniker' = newMoniker /\ pushed' = head
        /\ pc' = IF newMoniker THEN "notify" ELSE "save"
    BY <1>11 DEF DbPush
  <2>2. Heard(s, u)'
    BY <2>1, <1>p, <1>t DEF Heard, New
  <2>3. ASSUME u \in New(s) PROVE InRemote(s, u)'
    <3>1. s = Source(channel) /\ u \in fresh /\ channel \in Channels
      BY <2>3 DEF New, TypeOK
    <3>2. Contains(head.db[channel], u)
      BY <2>1, <3>1 DEF FreshInv
    <3> QED
      BY <2>1, <3>1, <3>2 DEF InRemote
  <2>4. InRemote(s, u)'
    BY <2>1, <2>3, <1>p, <1>r DEF Kept
  <2> QED
    BY <2>2, <2>4 DEF Kept
<1>12. CASE NotifyUrls
  BY <1>12, <1>p, <1>r, <1>t DEF NotifyUrls, Kept, Heard, New
<1>13. CASE NotifySend
  <2>1. /\ pc = "tell" /\ pc' = "save" /\ known' = known /\ announced' = announced \cup fresh
    BY <1>13 DEF NotifySend
  <2>2. Kept(s, u)'
    BY <2>1, <1>p, <1>r DEF Kept
  <2>3. u \in fresh => Told(u)'
    BY <2>1 DEF Told
  <2>4. Told(u)'
    BY <2>1, <2>3, <1>p, <1>t DEF Heard, New
  <2> QED
    BY <2>2, <2>4 DEF Heard
<1>14. CASE Save
  BY <1>14, <1>p, <1>r, <1>t DEF Save, Advance, Kept, Heard, New
<1>15. CASE Wake
  BY <1>15, <1>p, <1>r, <1>t DEF Wake, Kept, Heard, New
<1>16. CASE Crash
  <2>1. known' = Nothing
    BY <1>16 DEF Crash, Gone
  <2> QED
    BY <2>1 DEF Nothing
<1>17. CASE LinkBegin
  BY <1>17, <1>p, <1>r, <1>t DEF LinkBegin, Kept, Heard, New
<1>18. CASE LinkEnd
  BY <1>18, <1>p, <1>r, <1>t DEF LinkEnd, Kept, Heard, New
<1>19. ASSUME NEW x \in Updates, PutOut(x) PROVE Goal
  BY <1>19, <1>p, <1>r, <1>t DEF PutOut, Kept, Heard, New
<1>20. CASE UNCHANGED vars
  BY <1>20, <1>p, <1>r, <1>t DEF vars, Kept, Heard, New
<1> QED
  BY <1>1, <1>2, <1>3, <1>4, <1>5, <1>6, <1>7, <1>8, <1>9, <1>10, <1>11,
     <1>12, <1>13, <1>14, <1>15, <1>16, <1>17, <1>18, <1>19, <1>20
     DEF Next, Thread, Sync, Callbacks

LEMMA Unmoved ==
    ASSUME pc' = pc, text' = text, draft' = draft, known' = known, fresh' = fresh,
           channel' = channel, NEW c, NEW u, Again(c, u)
    PROVE  Again(c, u)'
<1>1. Database' = Database
  BY DEF Database
<1> QED
  BY <1>1 DEF Again, New

\* Until the next crash, what has been repeated is not repeated again.
LEMMA AgainStays ==
    ASSUME TypeOK, [Next]_vars, Database' = Database \/ DbRead, crashes' = crashes,
           NEW c \in Channels, NEW u, Again(c, u)
    PROVE  Again(c, u)'
<1> DEFINE Goal == Again(c, u)'
<1> SUFFICES Goal
  OBVIOUS
<1>a. Again(c, u)
  OBVIOUS
<1>1. CASE Start
  <2>1. Database' = Database /\ pc = "off" /\ pc' = "boot"
    BY <1>1 DEF Start, DbRead
  <2> QED
    BY <1>a, <2>1 DEF Again
<1>2. CASE Booted
  <2>1. Database = draft /\ Database' = Database /\ pc = "boot"
    BY <1>2 DEF Booted, DbRead, Database
  <2>2. ~Readable(draft)
    BY <1>a, <2>1 DEF Again
  <2>3. pc' = "off"
    BY <1>2, <2>2 DEF Booted, WriteFiles, Gone
  <2> QED
    BY <2>1, <2>2, <2>3 DEF Again
<1>3. CASE Lock
  BY <1>3, <1>a DEF Lock, Again, New
<1>4. CASE TokenFails
  BY <1>4, <1>a DEF TokenFails, Again, New
<1>5. CASE SyncFails
  BY <1>5, <1>a DEF SyncFails, Advance, Again, New
<1>6. CASE SyncConfigChanged
  BY <1>6, <1>a DEF SyncConfigChanged, Again, New
<1>7. ASSUME NEW listed \in SUBSET Available, SyncAnswers(listed) PROVE Goal
  <2>1. /\ channel' = channel /\ pc = "sync" /\ pc' \in {"read", "save"}
        /\ known' = [known EXCEPT ![Source(channel)] = @ \cup NewAmong(listed)]
        /\ fresh' = NewAmong(listed)
    BY <1>7 DEF SyncAnswers
  <2>2. DOMAIN known = Sources /\ Source(c) \in Sources
    BY DEF TypeOK, Source, Sources
  <2>3. u \in known[Source(c)]
    BY <1>a, <2>1 DEF Again
  <2>4. u \in known'[Source(c)]
    BY <2>1, <2>2, <2>3
  <2>5. u \notin New(Source(c))'
    BY <2>1, <2>3 DEF New, NewAmong
  <2> QED
    BY <2>1, <2>4, <2>5 DEF Again
<1>8. CASE DbRead
  BY <1>8, <1>a DEF DbRead, Again, New
<1>9. CASE DbWrite
  <2>1. Database = draft /\ Database' = Database /\ pc = "write"
    BY <1>9 DEF DbWrite, DbRead, Database
  <2>2. CASE Readable(draft)
    BY <1>9, <1>a, <2>1, <2>2 DEF DbWrite, WriteFiles, Again
  <2>3. CASE ~Readable(draft)
    <3>1. pc' = "off"
      BY <1>9, <2>3 DEF DbWrite, WriteFiles, Gone
    <3> QED
      BY <2>1, <2>3, <3>1 DEF Again
  <2> QED
    BY <2>2, <2>3
<1>10. CASE DbCommit
  BY <1>10, <1>a DEF DbCommit, Again, New
<1>11. CASE DbPush
  BY <1>11, <1>a DEF DbPush, Again, New
<1>12. CASE NotifyUrls
  BY <1>12, <1>a DEF NotifyUrls, Again, New
<1>13. CASE NotifySend
  BY <1>13, <1>a DEF NotifySend, Again, New
<1>14. CASE Save
  BY <1>14, <1>a DEF Save, Advance, Again, New
<1>15. CASE Wake
  BY <1>15, <1>a DEF Wake, Again, New
<1>16. CASE Crash
  <2>1. crashes' = crashes + 1 /\ crashes \in Nat
    BY <1>16 DEF Crash, TypeOK
  <2> QED
    BY <2>1
<1>17. CASE LinkBegin
  BY <1>17, <1>a, Unmoved DEF LinkBegin
<1>18. CASE LinkEnd
  BY <1>18, <1>a, Unmoved DEF LinkEnd
<1>19. ASSUME NEW x \in Updates, PutOut(x) PROVE Goal
  BY <1>19, <1>a, Unmoved DEF PutOut
<1>20. CASE UNCHANGED vars
  BY <1>20, <1>a, Unmoved DEF vars
<1> QED
  BY <1>1, <1>2, <1>3, <1>4, <1>5, <1>6, <1>7, <1>8, <1>9, <1>10, <1>11,
     <1>12, <1>13, <1>14, <1>15, <1>16, <1>17, <1>18, <1>19, <1>20
     DEF Next, Thread, Sync, Callbacks

LEMMA CountStep ==
    ASSUME TypeOK, FileInv, FreshInv, CountInv, [Next]_vars
    PROVE  CountInv'
<1> SUFFICES ASSUME NEW c \in Channels, NEW u \in Updates
             PROVE  /\ Count(Database'[c], u) <= 1 + crashes'
                    /\ Again(c, u)' \/ Count(Database'[c], u) <= crashes'
  BY DEF CountInv
<1>1. PICK n \in Nat : n = crashes
  BY DEF TypeOK
<1>2. PICK d \in Lists : d = Database
  BY DEF TypeOK
<1>3. PICK e \in Lists : e = Database'
  BY DatabaseStep
<1>4. d[c] \in Seq(Entries) /\ e[c] \in Seq(Entries)
  BY ListIs
<1>5. PICK m \in Nat : m = Count(d[c], u)
  BY <1>4, CountIs
<1>6. PICK k \in Nat : k = Count(e[c], u)
  BY <1>4, CountIs
<1>7. m <= 1 + n /\ (Again(c, u) \/ m <= n)
  BY <1>1, <1>2, <1>5 DEF CountInv
<1> SUFFICES k <= 1 + crashes' /\ (Again(c, u)' \/ k <= crashes')
  BY <1>3, <1>6
<1>8. CASE crashes' = crashes + 1
  <2>1. k <= m
    <3>1. CASE Database' = Database
      BY <1>2, <1>3, <1>5, <1>6, <3>1
    <3>2. CASE DbRead
      BY <1>1, <1>8, <3>2 DEF DbRead
    <3> QED
      BY <1>2, <1>3, <1>5, <1>6, <3>1, <3>2, DatabaseStep DEF DatabaseChange
  <2>2. k <= n + 1 /\ crashes' = n + 1
    BY <1>1, <1>7, <1>8, <2>1
  <2> QED
    BY <2>2
<1>9. CASE crashes' = crashes
  <2>0. Database' = Database \/ DbRead
    BY <1>1, <1>9, DatabaseStep DEF DatabaseChange
  <2>1. Again(c, u) => Again(c, u)'
    BY <1>9, <2>0, AgainStays
  <2>2. CASE k = m
    BY <1>1, <1>7, <1>9, <2>1, <2>2
  <2>3. CASE k # m
    <3>1. DbRead /\ Database = draft /\ Database' = draft'
      BY <1>2, <1>3, <1>5, <1>6, <2>0, <2>3 DEF DbRead, Database
    <3>2. PICK new \in Seq(Entries) :
            /\ draft' = [draft EXCEPT ![channel] = @ \o new]
            /\ \A i, j \in 1 .. Len(new) : new[i] = new[j] => i = j
            /\ \A x \in Updates : x \in fresh <=> Contains(new, x)
      BY <3>1, DbReadAppends
    <3>3. e = [d EXCEPT ![channel] = @ \o new] /\ DOMAIN d = Channels
      BY <1>2, <1>3, <3>1, <3>2 DEF Lists
    <3>4. c = channel
      BY <1>5, <1>6, <2>3, <3>3
    <3>5. e[c] = d[c] \o new
      BY <3>3, <3>4
    <3>6. k <= m + 1 /\ (~Contains(new, u) => k = m)
      BY <1>4, <1>5, <1>6, <3>2, <3>5, CountJoined
    <3>7. u \in fresh
      BY <2>3, <3>2, <3>6
    <3>8. pc = "read" /\ pc' = "write" /\ known' = known
      BY <3>1 DEF DbRead
    <3>9. ~Again(c, u)
      BY <3>4, <3>7, <3>8 DEF Again, New
    <3>10. Again(c, u)'
      BY <3>4, <3>7, <3>8 DEF Again, FreshInv
    <3> QED
      BY <1>1, <1>7, <1>9, <3>6, <3>9, <3>10
  <2> QED
    BY <2>2, <2>3
<1> QED
  BY <1>8, <1>9, StepChanges DEF Changes

-----------------------------------------------------------------------------
(***************************************************************************)
(* The theorems.                                                           *)
(***************************************************************************)
LEMMA InitStore == Init => StoreInv
<1> SUFFICES ASSUME Init PROVE StoreInv
  OBVIOUS
<1>1. Read(text) = Empty
  <2>1. text = <<>> /\ Len(<<>>) = 0
    BY DEF Init
  <2>2. ReadUpTo(<<>>)[0] = Empty
    BY ReadSteps
  <2> QED
    BY <2>1, <2>2 DEF Read
<1>2. /\ Database = Empty /\ draft = Empty /\ Empty \in Lists
      /\ head.db = Empty /\ pushed.db = Empty /\ pc = "off"
  BY <1>1, EmptyIsLists DEF Init, Database, NoFiles
<1>3. TypeOK
  <2>1. SetsOK
    <3>1. IsFiniteSet({})
      BY FS_EmptySet
    <3>2. Nothing \in [Sources -> SUBSET {}]
      BY DEF Nothing
    <3> QED
      BY <3>1, <3>2 DEF Init, SetsOK
  <2>2. NumbersOK
    <3>1. MaxChanges \in Nat /\ MaxCrashes \in Nat /\ changes = 0 /\ crashes = 0
      BY Win10Assumption DEF Init
    <3> QED
      BY <3>1 DEF NumbersOK
  <2>3. ThreadOK /\ FlagsOK
    BY DEF Init, ThreadOK, FlagsOK, PC, Channels
  <2> QED
    BY <1>2, <2>1, <2>2, <2>3, TypeParts DEF CommitsOK
<1>4. FileInv
  BY <1>2 DEF FileInv
<1>5. PrefixInv
  BY <1>2, ContinuesRefl, PrefixInvIs
<1>6. FreshInv
  BY <1>2 DEF FreshInv
<1>7. PublishedInv /\ KnownMeansPublished
  BY DEF Init, Nothing, PublishedInv, KnownMeansPublished
<1>8. CountInv
  <2> SUFFICES ASSUME NEW c \in Channels, NEW u \in Updates PROVE Count(Empty[c], u) = 0
    BY <1>2 DEF CountInv, Init
  <2>1. {i \in DOMAIN Empty[c] : Empty[c][i] = u} = {}
    BY DEF Empty
  <2> QED
    BY <2>1, FS_EmptySet DEF Count
<1>9. JsonInv
  <2>1. \A c \in Channels : Tagged(Empty, c) = <<>>
    BY DEF Tagged, Empty
  <2>2. InTurn(Empty) = <<>>
    BY <2>1, ConcatEmptySeq DEF InTurn, Channels
  <2>3. Json(Empty) = {}
    <3>1. InTurn(Empty) \in Turns /\ Len(<<>>) = 0
      BY EmptyIsLists, InTurnIs
    <3>2. AddUpTo(<<>>)[0] = {}
      BY <2>2, <3>1, AddSteps
    <3> QED
      BY <2>2, <3>1, <3>2 DEF Json
  <2>4. Readable(Empty)
    BY DEF Readable, Empty, ToSet
  <2>5. head.json = {} /\ pushed.json = {}
    BY DEF Init, NoFiles
  <2> QED
    BY <1>2, <2>3, <2>4, <2>5 DEF JsonInv
<1> QED
  BY <1>3, <1>4, <1>5, <1>6, <1>7, <1>8, <1>9 DEF StoreInv

\* StoreInv is inductive.
THEOREM Invariant == Spec => []StoreInv
<1>1. Init => StoreInv
  BY InitStore
<1>2. StoreInv /\ [Next]_vars => StoreInv'
  <2> SUFFICES ASSUME StoreInv, [Next]_vars PROVE StoreInv'
    OBVIOUS
  <2>1. /\ TypeOK /\ FileInv /\ PrefixInv /\ JsonInv /\ FreshInv
        /\ PublishedInv /\ KnownMeansPublished /\ CountInv
    BY DEF StoreInv
  <2>2. TypeOK' /\ FileInv' /\ PrefixInv' /\ JsonInv' /\ FreshInv'
    BY <2>1, TypeStep, FileStep, PrefixStep, JsonStep, FreshStep
  <2>3. PublishedInv' /\ KnownMeansPublished' /\ CountInv'
    BY <2>1, PublishedStep, KnownStep, CountStep
  <2> QED
    BY <2>2, <2>3 DEF StoreInv
<1> QED
  BY <1>1, <1>2, PTL DEF Spec

\* Whatever is listed in priv/win10.conf is in the remote database, unless a
\* crash tore versions.txt, and Discord was told of its moniker: the callbacks
\* are never skipped, wherever the process crashed.
THEOREM KnownPublished == Spec => []KnownMeansPublished
<1>1. StoreInv => KnownMeansPublished
  BY DEF StoreInv
<1> QED
  BY <1>1, Invariant, PTL

\* The database lists an update once, and once more at most for each crash,
\* although what is new is appended without a look at what is there.
THEOREM RepeatsOnlyByCrash == Spec => []OncePerRun
<1>1. StoreInv => OncePerRun
  <2> SUFFICES ASSUME StoreInv, NEW c \in Channels, NEW u \in Updates
               PROVE  Count(draft[c], u) <= 1 + crashes
    BY DEF OncePerRun, Count
  <2>1. TypeOK /\ FileInv /\ CountInv
    BY DEF StoreInv
  <2>2. CASE pc = "off"
    <3>1. {i \in DOMAIN draft[c] : draft[c][i] = u} = {}
      BY <2>1, <2>2 DEF FileInv, Empty
    <3>2. Count(draft[c], u) = 0
      BY <3>1, FS_EmptySet DEF Count
    <3>3. crashes \in Nat
      BY <2>1 DEF TypeOK
    <3> QED
      BY <3>2, <3>3
  <2>3. CASE pc # "off"
    <3>1. Database = draft
      BY <2>3 DEF Database
    <3> QED
      BY <2>1, <3>1 DEF CountInv
  <2> QED
    BY <2>2, <2>3
<1> QED
  BY <1>1, Invariant, PTL

\* The two published files tell the same, and no published entry is one that
\* the next start could not read.
THEOREM FilesAgree == Spec => []JsonTellsTheText
<1>1. StoreInv => JsonTellsTheText
  <2> SUFFICES ASSUME StoreInv PROVE JsonTellsTheText
    OBVIOUS
  <2>1. pushed.json = Json(pushed.db) /\ Readable(pushed.db) /\ pushed.db \in Lists
    BY DEF StoreInv, JsonInv, TypeOK
  <2>2. Json(pushed.db) = FirstsOf(InTurn(pushed.db))
    BY <2>1, JsonIs
  <2> QED
    BY <2>1, <2>2 DEF JsonTellsTheText
<1> QED
  BY <1>1, Invariant, PTL

\* A push only adds at the ends of the published lists, and no version leaves
\* the published versions.json.min, torn files aside.
THEOREM PushesAdd == Spec => PushesOnlyAdd
<1> DEFINE Adds == /\ \A c \in Channels : IsPrefix(pushed.db[c], pushed'.db[c])
                   /\ KeepsVersions(pushed.json, pushed'.json)
<1>1. StoreInv /\ StoreInv' /\ [Next]_vars => [torn \/ Adds]_vars
  <2> SUFFICES ASSUME StoreInv, StoreInv', [Next]_vars PROVE torn \/ Adds
    OBVIOUS
  <2>1. TypeOK /\ FileInv /\ PrefixInv
    BY DEF StoreInv
  <2>2. torn \/ Continues(pushed'.db, pushed.db)
    BY <2>1, PushContinues
  <2>3. /\ pushed.db \in Lists /\ pushed.json = Json(pushed.db)
        /\ pushed'.db \in Lists /\ pushed'.json = Json(pushed'.db)
    BY DEF StoreInv, TypeOK, JsonInv
  <2> QED
    BY <2>2, <2>3, JsonKeeps DEF Continues
<1> QED
  BY <1>1, Invariant, PTL DEF Spec, PushesOnlyAdd

-----------------------------------------------------------------------------
(***************************************************************************)
(* StoreProtocol, with variables of its own next to those of StoreCounts:  *)
(* checkVersion's recursion is limited by the changes of the service's     *)
(* configuration.                                                          *)
(***************************************************************************)
VARIABLES spoiled, cookie, saved, userToken, phase, asked, request, ends

P == INSTANCE StoreProtocol WITH pc <- phase, channel <- asked

LEMMA Bounds == MaxChanges \in Nat /\ MaxCrashes \in Nat
  BY Win10Assumption
USE DEF P!serviceVars, P!processVars, P!historyVars

\* A refused sync is about a cookie older than the configuration.
LEMMA ChangedMeansOlder ==
    ASSUME NEW a \in P!Possible(request), P!Outcome(a) = "ConfigChanged"
    PROVE  request.action = "SyncUpdates" => request.cookie.stamp # lastChange
  BY DEF P!Possible, P!Outcome

\* What TypeOK says in numbers.
LEMMA Ages ==
    ASSUME P!TypeOK, NEW s \in P!Sources
    PROVE  /\ deeper[s] \in Nat /\ excused[s] \in Nat /\ lastChange \in Nat /\ lastChange > 0
           /\ saved[s].stamp \in Nat /\ cookie[s].stamp \in Nat
           /\ cookie[s] # P!NoCookie => cookie[s].stamp > 0
  BY Bounds DEF P!TypeOK, P!Stamps, P!Cookies, P!NoCookie

LEMMA InitProtocol == P!Init => P!ProtocolInv
<1> SUFFICES ASSUME P!Init PROVE P!ProtocolInv
  OBVIOUS
<1> USE DEF P!Init, P!NoCookie
<1>1. P!TypeOK
  <2>1. lastChange \in P!Stamps /\ ends \in 0 .. MaxCrashes
    BY Bounds DEF P!Stamps
  <2> QED
    BY <2>1 DEF P!TypeOK, P!Phases, P!Channels
<1>2. P!CookiesInv
  BY DEF P!CookiesInv, P!CookiesOf, P!Starting
<1>3. P!RequestInv
  BY DEF P!RequestInv, P!NoRequest, P!Sources
<1>4. P!PaidInv
  BY DEF P!PaidInv, P!PaidOf
<1> QED
  BY <1>1, <1>2, <1>3, <1>4 DEF P!ProtocolInv

LEMMA ProtocolTypeStep == P!TypeOK /\ P!RequestInv /\ [P!Next]_(P!vars) => P!TypeOK'
<1> SUFFICES ASSUME P!TypeOK, P!RequestInv, [P!Next]_(P!vars) PROVE P!TypeOK'
  OBVIOUS
<1>0. request.source \in P!Sources
  BY DEF P!RequestInv
<1>1. CASE P!Start
  BY <1>1 DEF P!Start, P!TypeOK, P!Phases
<1>2. CASE P!InitFetches
  BY <1>2 DEF P!InitFetches, P!Missing, P!ConfigRequest, P!TypeOK, P!Phases
<1>3. CASE P!InitDone
  BY <1>3 DEF P!InitDone, P!Channels, P!TypeOK, P!Phases
<1>4. CASE P!ConfigAnswers
  BY <1>4 DEF P!ConfigAnswers, P!CookieRequest, P!TypeOK, P!Phases
<1>5. CASE P!CookieAnswers
  <2>1. request.lastChange \in 1 .. lastChange
    BY <1>5 DEF P!CookieAnswers, P!RequestInv
  <2>2. lastChange \in P!Stamps
    BY DEF P!TypeOK
  <2>3. [stamp |-> request.lastChange, live |-> TRUE] \in P!Cookies
    BY Bounds, <2>1, <2>2 DEF P!Cookies, P!Stamps
  <2> QED
    BY <1>5, <1>0, <2>3 DEF P!CookieAnswers, P!TypeOK, P!Phases
<1>6. CASE P!SaveCookie
  BY <1>6 DEF P!SaveCookie, P!TypeOK, P!Phases
<1>7. CASE P!TokenRefreshed
  BY <1>7 DEF P!TokenRefreshed, P!TypeOK, P!Phases
<1>8. CASE P!TokenFails
  BY <1>8 DEF P!TokenFails, P!Channels, P!TypeOK, P!Phases
<1>9. CASE P!Ask
  BY <1>9 DEF P!Ask, P!SyncRequest, P!Source, P!TypeOK, P!Phases
<1>10. CASE P!LinkAnswers
  BY <1>10 DEF P!LinkAnswers, P!LinkRequest, P!TypeOK, P!Phases
<1>11. CASE P!Save
  BY <1>11 DEF P!Save, P!Advance, P!Channels, P!TypeOK, P!Phases
<1>12. CASE P!Wake
  BY <1>12 DEF P!Wake, P!Channels, P!TypeOK, P!Phases
<1>13. ASSUME NEW a \in P!Possible(request), P!SyncConfigChanged(a) PROVE P!TypeOK'
  BY <1>13, <1>0 DEF P!SyncConfigChanged, P!TypeOK, P!Phases
<1>14. ASSUME NEW a \in P!Possible(request), P!SyncFails(a) PROVE P!TypeOK'
  BY <1>14 DEF P!SyncFails, P!Advance, P!Channels, P!TypeOK, P!Phases
<1>15. ASSUME NEW a \in P!Possible(request), P!SyncAnswers(a) PROVE P!TypeOK'
  <2>1. [stamp |-> lastChange, live |-> TRUE] \in P!Cookies
    BY DEF P!TypeOK, P!Cookies
  <2> QED
    BY <1>15, <1>0, <2>1 DEF P!SyncAnswers, P!TypeOK, P!Phases
<1>16. CASE P!ChangeConfig
  <2>1. lastChange \in P!Stamps
    BY DEF P!TypeOK
  <2>2. lastChange' \in P!Stamps
    BY <1>16, <2>1, Bounds DEF P!ChangeConfig, P!Stamps
  <2> QED
    BY <1>16, <2>2 DEF P!ChangeConfig, P!TypeOK
<1>17. ASSUME NEW t \in P!Sources, P!Spoil(t) PROVE P!TypeOK'
  BY <1>17 DEF P!Spoil, P!TypeOK, P!Phases
<1>18. ASSUME NEW t \in P!Sources, P!Expire(t) PROVE P!TypeOK'
  <2>1. \A k \in P!Cookies \cup {P!NoCookie} : P!Expired(k) \in P!Cookies \cup {P!NoCookie}
    <3> TAKE k \in P!Cookies \cup {P!NoCookie}
    <3>1. CASE k \in P!Cookies
      BY <3>1 DEF P!Expired, P!Cookies
    <3>2. CASE k = P!NoCookie
      BY <3>2 DEF P!Expired, P!NoCookie
    <3> QED
      BY <3>1, <3>2
  <2> QED
    BY <1>18, <2>1 DEF P!Expire, P!TypeOK
<1>19. CASE P!End
  <2>1. ends' \in 0 .. MaxCrashes
    BY <1>19, Bounds DEF P!End, P!TypeOK
  <2>2. excused' \in [P!Sources -> Nat]
    BY <1>19 DEF P!End, P!TypeOK
  <2>3. cookie' \in [P!Sources -> P!Cookies \cup {P!NoCookie}]
    BY <1>19 DEF P!End
  <2>4. phase' \in P!Phases /\ asked' \in P!Channels
    BY <1>19 DEF P!End, P!Channels, P!Phases
  <2> QED
    BY <1>19, <2>1, <2>2, <2>3, <2>4 DEF P!End, P!TypeOK
<1>20. CASE UNCHANGED P!vars
  BY <1>20 DEF P!vars, P!TypeOK, P!Phases
<1> QED
  BY <1>1, <1>2, <1>3, <1>4, <1>5, <1>6, <1>7, <1>8, <1>9, <1>10, <1>11, <1>12, <1>13,
     <1>14, <1>15, <1>16, <1>17, <1>18, <1>19, <1>20 DEF P!Next, P!Thread, P!Service

LEMMA CookiesStep == P!TypeOK /\ P!CookiesInv /\ P!RequestInv /\ [P!Next]_(P!vars) => P!CookiesInv'
<1> SUFFICES ASSUME P!TypeOK, P!CookiesInv, P!RequestInv, [P!Next]_(P!vars), NEW s \in P!Sources
             PROVE  P!CookiesOf(s)'
  BY DEF P!CookiesInv
<1>0. P!CookiesOf(s)
  BY DEF P!CookiesInv
<1>a. /\ lastChange \in Nat /\ lastChange > 0
      /\ saved[s].stamp \in Nat /\ cookie[s].stamp \in Nat
      /\ cookie[s] # P!NoCookie => cookie[s].stamp > 0
  BY Ages
<1> USE <1>0, <1>a DEF P!CookiesOf
<1>1. CASE P!Start
  BY <1>1 DEF P!Start, P!Starting
<1>2. CASE P!InitFetches
  BY <1>2 DEF P!InitFetches, P!Starting
<1>3. CASE P!InitDone
  BY <1>3 DEF P!InitDone, P!Missing
<1>4. CASE P!ConfigAnswers
  <2>1. P!Starting' <=> P!Starting
    BY <1>4 DEF P!ConfigAnswers, P!Starting
  <2> QED
    BY <1>4, <2>1 DEF P!ConfigAnswers
<1>5. CASE P!CookieAnswers
  <2>1. P!Starting' <=> P!Starting
    BY <1>5 DEF P!CookieAnswers, P!Starting
  <2>2. cookie'[s].stamp = IF request.source = s THEN request.lastChange ELSE cookie[s].stamp
    BY <1>5 DEF P!CookieAnswers, P!TypeOK
  <2>3. /\ request.lastChange \in 1 .. lastChange
        /\ cookie[request.source].stamp = 0 \/ cookie[request.source].stamp < request.lastChange
    BY <1>5 DEF P!CookieAnswers, P!RequestInv
  <2>4. phase # "off" /\ phase' # "init" /\ phase' # "off" /\ UNCHANGED <<saved, lastChange>>
    BY <1>5 DEF P!CookieAnswers
  <2>5. saved[s].stamp <= cookie[s].stamp /\ cookie[s].stamp <= lastChange
    BY <2>4
  <2>6. CASE request.source = s
    <3>1. cookie'[s].stamp = request.lastChange
      BY <2>2, <2>6
    <3>2. cookie[s].stamp <= request.lastChange
      BY <2>3, <2>6
    <3>3. saved[s].stamp <= request.lastChange
      BY <2>3, <2>5, <3>2
    <3> QED
      BY <2>1, <2>3, <2>4, <3>1, <3>3
  <2>7. CASE request.source # s
    BY <2>1, <2>2, <2>4, <2>5, <2>7
  <2> QED
    BY <2>6, <2>7
<1>6. CASE P!SaveCookie
  <2>1. /\ phase # "off" /\ phase' # "off" /\ cookie' = cookie /\ saved' = cookie
        /\ UNCHANGED lastChange
    BY <1>6 DEF P!SaveCookie
  <2>2. P!Starting' \/ ~P!Starting
    BY <1>6 DEF P!SaveCookie, P!Starting
  <2>3. cookie[s].stamp <= lastChange /\ (~P!Starting => cookie[s].stamp > 0)
    BY <2>1
  <2> QED
    BY <2>1, <2>2, <2>3
<1>7. CASE P!TokenRefreshed
  BY <1>7 DEF P!TokenRefreshed, P!Starting
<1>8. CASE P!TokenFails
  BY <1>8 DEF P!TokenFails, P!Starting
<1>9. CASE P!Ask
  BY <1>9 DEF P!Ask, P!SyncRequest, P!Source, P!Starting
<1>10. CASE P!LinkAnswers
  BY <1>10 DEF P!LinkAnswers, P!LinkRequest, P!Starting
<1>11. CASE P!Save
  <2>1. ~P!Starting /\ phase # "off" /\ phase' # "init" /\ cookie' = cookie /\ saved' = cookie
    BY <1>11 DEF P!Save, P!Advance, P!Starting
  <2> QED
    BY <2>1, <1>11 DEF P!Save
<1>12. CASE P!Wake
  BY <1>12 DEF P!Wake, P!Starting
<1>13. ASSUME NEW a \in P!Possible(request), P!SyncConfigChanged(a) PROVE P!CookiesOf(s)'
  BY <1>13 DEF P!SyncConfigChanged, P!ConfigRequest, P!Starting
<1>14. ASSUME NEW a \in P!Possible(request), P!SyncFails(a) PROVE P!CookiesOf(s)'
  BY <1>14 DEF P!SyncFails, P!Advance, P!Starting
<1>15. ASSUME NEW a \in P!Possible(request), P!SyncAnswers(a) PROVE P!CookiesOf(s)'
  <2>1. cookie'[s].stamp \in {cookie[s].stamp, lastChange}
    BY <1>15 DEF P!SyncAnswers, P!TypeOK
  <2>2. ~P!Starting /\ phase # "off" /\ phase' # "init" /\ UNCHANGED <<saved, lastChange>>
    BY <1>15 DEF P!SyncAnswers, P!Starting
  <2> QED
    BY <2>1, <2>2
<1>16. CASE P!ChangeConfig
  <2>1. P!Starting' <=> P!Starting
    BY <1>16 DEF P!ChangeConfig, P!Starting
  <2>2. lastChange' = lastChange + 1 /\ UNCHANGED <<phase, cookie, saved>>
    BY <1>16 DEF P!ChangeConfig
  <2> QED
    BY <2>1, <2>2
<1>17. ASSUME NEW t \in P!Sources, P!Spoil(t) PROVE P!CookiesOf(s)'
  BY <1>17 DEF P!Spoil, P!Starting
<1>18. ASSUME NEW t \in P!Sources, P!Expire(t) PROVE P!CookiesOf(s)'
  <2>1. cookie'[s].stamp = cookie[s].stamp /\ saved'[s].stamp = saved[s].stamp
    BY <1>18 DEF P!Expire, P!Expired, P!TypeOK
  <2>2. (P!Starting' <=> P!Starting) /\ UNCHANGED <<phase, lastChange>>
    BY <1>18 DEF P!Expire, P!Starting
  <2> QED
    BY <2>1, <2>2
<1>19. CASE P!End
  BY <1>19 DEF P!End, P!NoRequest
<1>20. CASE UNCHANGED P!vars
  BY <1>20 DEF P!vars, P!Starting
<1> QED
  BY <1>1, <1>2, <1>3, <1>4, <1>5, <1>6, <1>7, <1>8, <1>9, <1>10, <1>11, <1>12, <1>13,
     <1>14, <1>15, <1>16, <1>17, <1>18, <1>19, <1>20 DEF P!Next, P!Thread, P!Service

LEMMA RequestStep == P!TypeOK /\ P!CookiesInv /\ P!RequestInv /\ [P!Next]_(P!vars) => P!RequestInv'
<1> SUFFICES ASSUME P!TypeOK, P!CookiesInv, P!RequestInv, [P!Next]_(P!vars) PROVE P!RequestInv'
  OBVIOUS
<1>0. request.source \in P!Sources
  BY DEF P!RequestInv
<1>a. /\ lastChange \in Nat /\ lastChange > 0
      /\ \A s \in P!Sources : saved[s].stamp \in Nat /\ cookie[s].stamp \in Nat
  BY <1>0, <1>0, Ages
<1>1. CASE P!Start
  BY <1>0, <1>1 DEF P!RequestInv, P!Start
<1>2. CASE P!InitFetches
  <2>1. request'.source \in P!Missing
    BY <1>2 DEF P!InitFetches, P!Missing, P!ConfigRequest, P!Sources
  <2>2. \A s \in P!Missing : s \in P!Sources /\ cookie[s].stamp = 0
    BY DEF P!Missing, P!NoCookie
  <2>3. phase' = "init config" /\ cookie' = cookie
    BY <1>2 DEF P!InitFetches
  <2> QED
    BY <2>1, <2>2, <2>3 DEF P!RequestInv
<1>3. CASE P!InitDone
  BY <1>0, <1>3 DEF P!RequestInv, P!InitDone, P!Missing
<1>4. CASE P!ConfigAnswers
  <2>1. UNCHANGED <<lastChange, cookie>>
    BY <1>4 DEF P!ConfigAnswers
  <2>2. request'.source = request.source /\ request'.lastChange = lastChange
    BY <1>4 DEF P!ConfigAnswers, P!CookieRequest
  <2>3. lastChange \in 1 .. lastChange
    BY <1>a
  <2>4. CASE phase = "config"
    BY <1>0, <1>4, <2>1, <2>2, <2>3, <2>4 DEF P!ConfigAnswers, P!RequestInv
  <2>5. CASE phase = "init config"
    BY <1>0, <1>4, <2>1, <2>2, <2>3, <2>5 DEF P!ConfigAnswers, P!RequestInv
  <2> QED
    BY <1>4, <2>4, <2>5 DEF P!ConfigAnswers
<1>5. CASE P!CookieAnswers
  <2>1. cookie'[request.source].stamp = request.lastChange
    BY <1>0, <1>5 DEF P!RequestInv, P!CookieAnswers, P!TypeOK
  <2>2. phase = "cookie" => saved[request.source].stamp < request.lastChange
    <3> SUFFICES ASSUME phase = "cookie" PROVE saved[request.source].stamp < request.lastChange
      OBVIOUS
    <3>1. saved[request.source].stamp <= cookie[request.source].stamp
      BY <1>0 DEF P!CookiesInv, P!CookiesOf
    <3>2. /\ cookie[request.source].stamp < request.lastChange
          /\ request.lastChange \in 1 .. lastChange
      BY DEF P!RequestInv
    <3> QED
      BY <1>0, <1>a, <3>1, <3>2
  <2> QED
    BY <1>0, <1>5, <2>1, <2>2 DEF P!RequestInv, P!CookieAnswers
<1>6. CASE P!SaveCookie
  BY <1>0, <1>6 DEF P!RequestInv, P!SaveCookie
<1>7. CASE P!TokenRefreshed
  BY <1>0, <1>7 DEF P!RequestInv, P!TokenRefreshed
<1>8. CASE P!TokenFails
  BY <1>0, <1>8 DEF P!RequestInv, P!TokenFails
<1>9. CASE P!Ask
  BY <1>0, <1>9 DEF P!RequestInv, P!Ask, P!SyncRequest, P!Source, P!Sources
<1>10. CASE P!LinkAnswers
  BY <1>0, <1>10 DEF P!RequestInv, P!LinkAnswers, P!LinkRequest, P!Sources
<1>11. CASE P!Save
  BY <1>0, <1>11 DEF P!RequestInv, P!Save, P!Advance
<1>12. CASE P!Wake
  BY <1>0, <1>12 DEF P!RequestInv, P!Wake
<1>13. ASSUME NEW a \in P!Possible(request), P!SyncConfigChanged(a) PROVE P!RequestInv'
  <2>1. cookie[request.source].stamp # lastChange
    BY <1>0, <1>13, ChangedMeansOlder DEF P!RequestInv, P!SyncConfigChanged
  <2>2. cookie[request.source].stamp <= lastChange
    BY <1>0, <1>13 DEF P!RequestInv, P!SyncConfigChanged, P!CookiesInv, P!CookiesOf
  <2>3. cookie[request.source].stamp < lastChange
    BY <1>0, <1>a, <2>1, <2>2
  <2>4. request'.source = request.source
    BY <1>13 DEF P!SyncConfigChanged, P!ConfigRequest
  <2> QED
    BY <1>0, <1>13, <2>3, <2>4 DEF P!RequestInv, P!SyncConfigChanged
<1>14. ASSUME NEW a \in P!Possible(request), P!SyncFails(a) PROVE P!RequestInv'
  BY <1>0, <1>14 DEF P!RequestInv, P!SyncFails, P!Advance
<1>15. ASSUME NEW a \in P!Possible(request), P!SyncAnswers(a) PROVE P!RequestInv'
  BY <1>0, <1>15 DEF P!RequestInv, P!SyncAnswers
<1>16. CASE P!ChangeConfig
  <2>1. lastChange' = lastChange + 1 /\ UNCHANGED <<phase, cookie, saved, request>>
    BY <1>16 DEF P!ChangeConfig
  <2>2. \A n : n \in 1 .. lastChange => n \in 1 .. lastChange'
    BY <1>a, <2>1
  <2>3. cookie[request.source].stamp < lastChange
            => cookie[request.source].stamp < lastChange'
    BY <1>0, <1>a, <2>1
  <2> QED
    BY <2>1, <2>2, <2>3 DEF P!RequestInv
<1>17. ASSUME NEW t \in P!Sources, P!Spoil(t) PROVE P!RequestInv'
  BY <1>0, <1>17 DEF P!RequestInv, P!Spoil
<1>18. ASSUME NEW t \in P!Sources, P!Expire(t) PROVE P!RequestInv'
  <2>1. LET s == request.source
        IN  cookie'[s].stamp = cookie[s].stamp /\ saved'[s].stamp = saved[s].stamp
    BY <1>0, <1>18 DEF P!Expire, P!Expired, P!TypeOK
  <2>2. UNCHANGED <<phase, lastChange, request>>
    BY <1>18 DEF P!Expire
  <2> QED
    BY <2>1, <2>2 DEF P!RequestInv
<1>19. CASE P!End
  BY <1>0, <1>19 DEF P!RequestInv, P!End, P!NoRequest, P!Sources
<1>20. CASE UNCHANGED P!vars
  BY <1>0, <1>20 DEF P!RequestInv, P!vars
<1> QED
  BY <1>1, <1>2, <1>3, <1>4, <1>5, <1>6, <1>7, <1>8, <1>9, <1>10, <1>11, <1>12, <1>13,
     <1>14, <1>15, <1>16, <1>17, <1>18, <1>19, <1>20 DEF P!Next, P!Thread, P!Service

LEMMA PaidStep ==
    P!TypeOK /\ P!CookiesInv /\ P!RequestInv /\ P!PaidInv /\ [P!Next]_(P!vars) => P!PaidInv'
<1> SUFFICES ASSUME P!TypeOK, P!CookiesInv, P!RequestInv, P!PaidInv, [P!Next]_(P!vars),
                    NEW s \in P!Sources
             PROVE  P!PaidOf(s)'
  BY DEF P!PaidInv
<1>0. P!PaidOf(s)
  BY DEF P!PaidInv
<1>a. /\ deeper[s] \in Nat /\ excused[s] \in Nat
      /\ saved[s].stamp \in Nat /\ cookie[s].stamp \in Nat
  BY Ages
<1>b. request.source \in P!Sources
  BY DEF P!RequestInv
<1> USE <1>0, <1>a, <1>b DEF P!PaidOf
<1>1. CASE P!Start
  BY <1>1 DEF P!Start, P!Deeper
<1>2. CASE P!InitFetches
  BY <1>2 DEF P!InitFetches, P!Missing, P!ConfigRequest, P!Deeper
<1>3. CASE P!InitDone
  BY <1>3 DEF P!InitDone, P!Missing, P!Deeper
<1>4. CASE P!ConfigAnswers
  BY <1>4 DEF P!ConfigAnswers, P!CookieRequest, P!Deeper
<1>5. CASE P!CookieAnswers
  BY <1>5 DEF P!CookieAnswers, P!Deeper
<1>6. CASE P!SaveCookie
  <2>1. P!Deeper(s) => saved[s].stamp < cookie[s].stamp
    BY <1>6 DEF P!SaveCookie, P!Deeper, P!RequestInv
  <2>2. saved[s].stamp <= cookie[s].stamp /\ UNCHANGED <<deeper, excused>> /\ saved' = cookie
    BY <1>6 DEF P!SaveCookie, P!CookiesInv, P!CookiesOf
  <2>3. saved[s].stamp = 0 => cookie[s].stamp = 0 \/ deeper[s] < cookie[s].stamp + excused[s]
    OBVIOUS
  <2> QED
    BY <2>1, <2>2, <2>3
<1>7. CASE P!TokenRefreshed
  BY <1>7 DEF P!TokenRefreshed, P!Deeper
<1>8. CASE P!TokenFails
  BY <1>8 DEF P!TokenFails, P!Deeper
<1>9. CASE P!Ask
  BY <1>9 DEF P!Ask, P!SyncRequest, P!Source, P!Deeper
<1>10. CASE P!LinkAnswers
  BY <1>10 DEF P!LinkAnswers, P!LinkRequest, P!Deeper
<1>11. CASE P!Save
  <2>1. saved[s].stamp <= cookie[s].stamp /\ ~P!Deeper(s) /\ UNCHANGED <<deeper, excused>>
        /\ saved' = cookie
    BY <1>11 DEF P!Save, P!CookiesInv, P!CookiesOf, P!Deeper
  <2> QED
    BY <2>1
<1>12. CASE P!Wake
  BY <1>12 DEF P!Wake, P!Deeper
<1>13. ASSUME NEW a \in P!Possible(request), P!SyncConfigChanged(a) PROVE P!PaidOf(s)'
  <2>1. deeper'[s] = IF request.source = s THEN deeper[s] + 1 ELSE deeper[s]
    BY <1>13 DEF P!SyncConfigChanged, P!TypeOK
  <2>2. ~P!Deeper(s) /\ saved[s].stamp # 0 /\ UNCHANGED <<saved, excused>>
    BY <1>13 DEF P!SyncConfigChanged, P!Deeper, P!CookiesInv, P!CookiesOf, P!Starting
  <2>3. request.source = s => P!Deeper(s)'
    BY <1>13 DEF P!SyncConfigChanged, P!ConfigRequest, P!Deeper
  <2> QED
    BY <2>1, <2>2, <2>3
<1>14. ASSUME NEW a \in P!Possible(request), P!SyncFails(a) PROVE P!PaidOf(s)'
  BY <1>14 DEF P!SyncFails, P!Advance, P!Deeper
<1>15. ASSUME NEW a \in P!Possible(request), P!SyncAnswers(a) PROVE P!PaidOf(s)'
  BY <1>15 DEF P!SyncAnswers, P!Deeper
<1>16. CASE P!ChangeConfig
  BY <1>16 DEF P!ChangeConfig, P!Deeper
<1>17. ASSUME NEW t \in P!Sources, P!Spoil(t) PROVE P!PaidOf(s)'
  BY <1>17 DEF P!Spoil, P!Deeper
<1>18. ASSUME NEW t \in P!Sources, P!Expire(t) PROVE P!PaidOf(s)'
  <2>1. saved'[s].stamp = saved[s].stamp /\ UNCHANGED <<deeper, excused>>
        /\ (P!Deeper(s)' <=> P!Deeper(s))
    BY <1>18 DEF P!Expire, P!Expired, P!TypeOK, P!Deeper
  <2> QED
    BY <2>1
<1>19. CASE P!End
  <2>1. excused'[s] = IF P!Deeper(s) THEN excused[s] + 1 ELSE excused[s]
    BY <1>19 DEF P!End
  <2>2. UNCHANGED <<deeper, saved>>
    BY <1>19 DEF P!End
  <2> QED
    BY <2>1, <2>2
<1>20. CASE UNCHANGED P!vars
  BY <1>20 DEF P!vars, P!Deeper
<1> QED
  BY <1>1, <1>2, <1>3, <1>4, <1>5, <1>6, <1>7, <1>8, <1>9, <1>10, <1>11, <1>12, <1>13,
     <1>14, <1>15, <1>16, <1>17, <1>18, <1>19, <1>20 DEF P!Next, P!Thread, P!Service

LEMMA Paid == P!ProtocolInv => RecursionIsPaidFor
<1> SUFFICES ASSUME P!ProtocolInv, NEW s \in P!Sources
             PROVE  deeper[s] < lastChange + excused[s]
  BY DEF RecursionIsPaidFor, P!ProtocolInv, P!TypeOK
<1>1. /\ deeper[s] \in Nat /\ excused[s] \in Nat /\ lastChange \in Nat /\ lastChange > 0
      /\ saved[s].stamp \in Nat /\ cookie[s].stamp \in Nat
  BY Ages DEF P!ProtocolInv
<1>2. P!PaidOf(s) /\ saved[s].stamp <= lastChange
  BY DEF P!ProtocolInv, P!PaidInv, P!CookiesInv, P!CookiesOf
<1>3. CASE ~P!Deeper(s)
  BY <1>1, <1>2, <1>3 DEF P!PaidOf
<1>4. CASE P!Deeper(s)
  <2>1. saved[s].stamp <= cookie[s].stamp /\ cookie[s].stamp <= lastChange
    BY <1>4 DEF P!ProtocolInv, P!CookiesInv, P!CookiesOf, P!Deeper
  <2>2. request.source = s /\ P!RequestInv
    BY <1>4 DEF P!ProtocolInv, P!Deeper
  <2>3. cookie[s].stamp < lastChange \/ saved[s].stamp < cookie[s].stamp
    BY <1>4, <2>2 DEF P!Deeper, P!RequestInv
  <2>4. saved[s].stamp < lastChange
    BY <1>1, <2>1, <2>3
  <2> QED
    BY <1>1, <1>2, <2>4 DEF P!PaidOf
<1> QED
  BY <1>3, <1>4

\* checkVersion calls itself less often than the configuration changed and the
\* process ended before a new cookie was saved, counted together.
THEOREM RecursionPaid == P!Spec => []RecursionIsPaidFor
<1>1. P!ProtocolInv /\ [P!Next]_(P!vars) => P!ProtocolInv'
  BY ProtocolTypeStep, CookiesStep, RequestStep, PaidStep DEF P!ProtocolInv
<1> QED
  BY InitProtocol, <1>1, Paid, PTL DEF P!Spec
=============================================================================
