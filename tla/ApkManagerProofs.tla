-------------------------- MODULE ApkManagerProofs --------------------------
(***************************************************************************)
(* Proofs about ApkManager, for any variants and any number of versions,   *)
(* releases and crashes: an announcement carries the name of its version   *)
(* and is not repeated without a cause, what is recorded as downloaded was *)
(* handed to the job spool, and a second job has a cause.                  *)
(*                                                                         *)
(* They follow from one inductive invariant, ApkInv.  Its parts lean on    *)
(* each other in one direction: ResultsInv and LoopsInv say what the three *)
(* loops hold, and each property needs only them and a part of its own:    *)
(* FreshInv and PendingInv for announcements, WaitingInv and JobsInv for   *)
(* jobs.  There is one lemma per part, each by one step per action.        *)
(***************************************************************************)
EXTENDS ApkManager, TLAPS

(***************************************************************************)
(* What the steps are and what they do to one variant.                     *)
(***************************************************************************)

\* The steps, one by one.
LEMMA Steps ==
    ASSUME [Next]_vars
    PROVE  \/ Start \/ Crash \/ Checked \/ Save \/ Saved \/ Announced \/ Raised \/ Downloaded
           \/ Wake \/ UNCHANGED vars
           \/ \E v \in Variants :
                \/ CheckFails(v) \/ CheckAnswers(v) \/ DetailsAnswer(v) \/ WritePart(v)
                \/ Announce(v) \/ RegisterJob(v) \/ NoLinks(v) \/ Raise(v)
                \/ PageFollows(v) \/ \E c \in Versions : Release(v, c)
  BY DEF Next, Loop, Visit, Store

\* What is recorded about a variant is in the sets of TypeOK, field by field.
LEMMA Records ==
    ASSUME TypeOK, NEW v \in Variants
    PROVE  /\ info[v] \in Info /\ disk[v] \in Info /\ result[v] \in Result
           /\ info[v].code \in Codes /\ info[v].lastDownloaded \in Codes /\ info[v].string \in Codes
           /\ result[v].code \in Codes /\ result[v].string \in Codes
           /\ result[v].new \in BOOLEAN /\ result[v].get \in BOOLEAN
           /\ bulk[v] \in Versions /\ page[v] \in Versions
           /\ Versions \subseteq Codes /\ Codes \subseteq Int /\ None \in Codes
              /\ None \notin Versions
           /\ Blank \in Info /\ NoResult \in Result
  BY ApkAssumption DEF TypeOK, Info, Result, Codes, Versions, None, Blank, NoResult

\* Seen changes one variant, and not what was downloaded.
LEMMA SeenIs ==
    ASSUME TypeOK, NEW v \in Variants, NEW c \in Codes, NEW s \in Codes, NEW x, x = Seen(v, c, s)
    PROVE  /\ x \in [Variants -> Info] /\ \A w \in Variants : w # v => x[w] = info[w]
           /\ x[v].code = c /\ x[v].lastDownloaded = info[v].lastDownloaded
  BY DEF TypeOK, Seen, Info

\* Recorded changes one variant, and not the version that was seen.
LEMMA RecordedIs ==
    ASSUME TypeOK, NEW v \in Variants, NEW c \in Codes, NEW x, x = Recorded(v, c)
    PROVE  /\ x \in [Variants -> Info] /\ \A w \in Variants : w # v => x[w] = info[w]
           /\ x[v].code = info[v].code /\ x[v].lastDownloaded = c
  BY DEF TypeOK, Recorded, Info

\* Checks changes the result of one variant.
LEMMA ChecksAre ==
    ASSUME TypeOK, NEW v \in Variants, NEW new \in BOOLEAN, NEW get \in BOOLEAN,
           NEW c \in Codes, NEW s \in Codes, NEW x, x = Checks(v, new, get, c, s)
    PROVE  /\ x \in [Variants -> Result] /\ \A w \in Variants : w # v => x[w] = result[w]
           /\ x[v].new = new /\ x[v].get = get /\ x[v].code = c /\ x[v].string = s
  BY DEF TypeOK, Checks, Result

\* A failing check leaves a result without flags.
LEMMA FailsEffect ==
    ASSUME TypeOK, NEW v \in Variants, CheckFails(v)
    PROVE  /\ \A w \in Variants : w # v => result'[w] = result[w]
           /\ ~result'[v].new /\ ~result'[v].get /\ result' \in [Variants -> Result]
<1>1. result' = Checks(v, FALSE, FALSE, None, info[v].string)
  BY DEF CheckFails
<1>2. FALSE \in BOOLEAN /\ None \in Codes /\ info[v].string \in Codes
  BY Records
<1>3. PICK new \in BOOLEAN : new = FALSE
  OBVIOUS
<1>4. result' = Checks(v, new, new, None, info[v].string)
  BY <1>1, <1>3
<1>5. /\ \A w \in Variants : w # v => result'[w] = result[w]
      /\ result'[v].new = new /\ result'[v].get = new /\ result' \in [Variants -> Result]
  BY <1>2, <1>4, ChecksAre
<1> QED
  BY <1>3, <1>5

\* The first answer: its code is taken over and compared with both codes of the
\* variant.
LEMMA CheckEffect ==
    ASSUME TypeOK, NEW v \in Variants, CheckAnswers(v)
    PROVE  /\ \A w \in Variants : w # v => result'[w] = result[w] /\ info'[w] = info[w]
           /\ result'[v].new <=> info[v].code # bulk[v]
           /\ result'[v].get <=> info[v].lastDownloaded # bulk[v]
           /\ result'[v].code = bulk[v] /\ info'[v].code = bulk[v]
           /\ info'[v].lastDownloaded = info[v].lastDownloaded
           /\ info' \in [Variants -> Info] /\ result' \in [Variants -> Result]
<1> DEFINE new == info[v].code # bulk[v]
           get == info[v].lastDownloaded # bulk[v]
<1>1. /\ result' = Checks(v, new, get, bulk[v], info[v].string)
      /\ info' = Seen(v, bulk[v], info[v].string)
  BY DEF CheckAnswers
<1>2. bulk[v] \in Codes /\ info[v].string \in Codes /\ new \in BOOLEAN /\ get \in BOOLEAN
  BY Records
<1> HIDE DEF new, get
<1>3. /\ \A w \in Variants : w # v => result'[w] = result[w] /\ info'[w] = info[w]
      /\ result'[v].new = new /\ result'[v].get = get
      /\ result'[v].code = bulk[v] /\ info'[v].code = bulk[v]
      /\ info'[v].lastDownloaded = info[v].lastDownloaded
      /\ info' \in [Variants -> Info] /\ result' \in [Variants -> Result]
  BY <1>1, <1>2, ChecksAre, SeenIs
<1> QED
  BY <1>3 DEF new, get

\* The second answer: the version stays new if it is the one the page names, and
\* the name is the page's.
LEMMA DetailsEffect ==
    ASSUME TypeOK, NEW v \in Variants, DetailsAnswer(v)
    PROVE  /\ \A w \in Variants : w # v => result'[w] = result[w] /\ info'[w] = info[w]
           /\ result'[v].new <=> page[v] = result[v].code
           /\ result'[v].get = result[v].get
           /\ result'[v].code = result[v].code /\ info'[v].code = info[v].code
           /\ result'[v].string = page[v]
           /\ info'[v].lastDownloaded = info[v].lastDownloaded
           /\ info' \in [Variants -> Info] /\ result' \in [Variants -> Result]
<1> DEFINE same == page[v] = result[v].code
<1>1. /\ result' = Checks(v, same, result[v].get, result[v].code, page[v])
      /\ info' = Seen(v, info[v].code, page[v])
  BY DEF DetailsAnswer
<1>2. /\ page[v] \in Codes /\ info[v].code \in Codes /\ result[v].code \in Codes
      /\ result[v].get \in BOOLEAN /\ same \in BOOLEAN
  BY Records
<1> HIDE DEF same
<1>3. /\ \A w \in Variants : w # v => result'[w] = result[w] /\ info'[w] = info[w]
      /\ result'[v].new = same /\ result'[v].get = result[v].get
      /\ result'[v].code = result[v].code /\ info'[v].code = info[v].code
      /\ result'[v].string = page[v]
      /\ info'[v].lastDownloaded = info[v].lastDownloaded
      /\ info' \in [Variants -> Info] /\ result' \in [Variants -> Result]
  BY <1>1, <1>2, ChecksAre, SeenIs
<1> QED
  BY <1>3 DEF same

(***************************************************************************)
(* What the loops hold.                                                    *)
(***************************************************************************)

\* Every step keeps the types.
LEMMA TypeStep == TypeOK /\ ResultsInv /\ LoopsInv /\ [Next]_vars => TypeOK'
<1> SUFFICES ASSUME TypeOK, ResultsInv, LoopsInv, [Next]_vars PROVE TypeOK'
  OBVIOUS
<1> USE ApkAssumption DEF storeVars, processVars, announceVars, jobVars
<1>a. Blank \in Info /\ NoResult \in Result /\ Versions \subseteq Codes /\ None \in Codes
  BY DEF Info, Result, Codes, Versions, None, Blank, NoResult
<1>1. CASE Start
  BY <1>1 DEF Start, TypeOK, PC
<1>2. CASE Crash
  <2>1. info' \in [Variants -> Info] /\ result' \in [Variants -> Result]
    BY <1>2, <1>a DEF Crash
  <2>2. /\ dirty' \in BOOLEAN /\ left' \subseteq Variants /\ at' \subseteq Variants
        /\ crashes < MaxCrashes /\ crashes' = crashes + 1
    BY <1>2 DEF Crash
  <2>6. crashes' \in 0 .. MaxCrashes
    BY <2>2 DEF TypeOK
  <2>4. pc' \in PC
    BY <1>2 DEF Crash, PC
  <2>3. torn' \in BOOLEAN
    BY <1>2 DEF Crash
  <2>5. UNCHANGED <<bulk, page, releases, disk, skipped, announced, last, moved, jobs, barren>>
    BY <1>2 DEF Crash
  <2> QED
    BY <2>1, <2>2, <2>3, <2>4, <2>5, <2>6 DEF TypeOK
<1>3. CASE Checked
  BY <1>3 DEF Checked, TypeOK, PC
<1>4. CASE Save
  BY <1>4, <1>a DEF Save, Truncate, TypeOK, PC
<1>5. CASE Saved
  BY <1>5 DEF Saved, TypeOK, PC
<1>6. CASE Announced
  BY <1>6 DEF Announced, TypeOK, PC
<1>7. CASE Raised
  BY <1>7 DEF Raised, TypeOK, PC
<1>8. CASE Downloaded
  BY <1>8, <1>a DEF Downloaded, TypeOK, PC
<1>9. CASE Wake
  BY <1>9 DEF Wake, TypeOK, PC
<1>10. CASE UNCHANGED vars
  BY <1>10 DEF vars, TypeOK
<1>11. ASSUME NEW v \in Variants, CheckFails(v) PROVE TypeOK'
  BY <1>11, FailsEffect DEF CheckFails, TypeOK
<1>12. ASSUME NEW v \in Variants, CheckAnswers(v) PROVE TypeOK'
  <2>1. /\ moved' \in [Variants -> BOOLEAN] /\ pc' \in PC /\ at' \subseteq Variants
        /\ left' \subseteq Variants
    BY <1>12 DEF CheckAnswers, TypeOK, PC
  <2>2. info' \in [Variants -> Info] /\ result' \in [Variants -> Result]
    BY <1>12, CheckEffect
  <2> QED
    BY <1>12, <2>1, <2>2 DEF CheckAnswers, TypeOK
<1>13. ASSUME NEW v \in Variants, DetailsAnswer(v) PROVE TypeOK'
  <2>1. result[v].code \in Versions
    BY <1>13 DEF DetailsAnswer, LoopsInv, ResultsInv
  <2>2. info' \in [Variants -> Info] /\ result' \in [Variants -> Result]
    BY <1>13, DetailsEffect
  <2>3. skipped' \in [Variants -> SUBSET Versions] /\ dirty' \in BOOLEAN /\ pc' \in PC
    BY <1>13, <2>1 DEF DetailsAnswer, TypeOK, PC
  <2> QED
    BY <1>13, <2>2, <2>3 DEF DetailsAnswer, TypeOK
<1>14. ASSUME NEW v \in Variants, WritePart(v) PROVE TypeOK'
  BY <1>14 DEF WritePart, TypeOK
<1>15. ASSUME NEW v \in Variants, Announce(v) PROVE TypeOK'
  <2>1. result[v].code \in Versions /\ result[v].code \in Codes /\ result[v].string \in Codes
    BY <1>15, Records DEF Announce, LoopsInv, ResultsInv
  <2>2. announced' \in [Variants -> SUBSET Versions]
    BY <1>15, <2>1 DEF Announce, TypeOK
  <2>3. last' \in [Variants -> [code : Codes, string : Codes]]
    BY <1>15, <2>1 DEF Announce, TypeOK
  <2> QED
    BY <1>15, <2>2, <2>3 DEF Announce, TypeOK
<1>b. ASSUME NEW v \in left, pc = "download" PROVE result[v].code \in Versions
  BY <1>b DEF LoopsInv, ResultsInv, TypeOK, Loop3
<1>16. ASSUME NEW v \in Variants, RegisterJob(v) PROVE TypeOK'
  BY <1>16, <1>b DEF RegisterJob, TypeOK, PC
<1>17. ASSUME NEW v \in Variants, NoLinks(v) PROVE TypeOK'
  BY <1>17, <1>b DEF NoLinks, TypeOK, PC
<1>18. ASSUME NEW v \in Variants, Raise(v) PROVE TypeOK'
  <2>1. Recorded(v, result[v].code) \in [Variants -> Info]
    BY <1>18, Records, RecordedIs DEF Raise
  <2> QED
    BY <1>18, <1>a, <2>1 DEF Raise, Truncate, TypeOK, PC
<1>19. ASSUME NEW v \in Variants, PageFollows(v) PROVE TypeOK'
  BY <1>19 DEF PageFollows, TypeOK
<1>20. ASSUME NEW v \in Variants, NEW c \in Versions, Release(v, c) PROVE TypeOK'
  BY <1>20 DEF Release, TypeOK
<1> QED
  BY Steps, <1>1, <1>2, <1>3, <1>4, <1>5, <1>6, <1>7, <1>8, <1>9, <1>10, <1>11, <1>12, <1>13,
     <1>14, <1>15, <1>16, <1>17, <1>18, <1>19, <1>20

\* Every step keeps LoopsInv.
LEMMA LoopsStep == TypeOK /\ ResultsInv /\ LoopsInv /\ [Next]_vars => LoopsInv'
<1> SUFFICES ASSUME TypeOK, ResultsInv, LoopsInv, [Next]_vars PROVE LoopsInv'
  OBVIOUS
<1> USE DEF storeVars, processVars, announceVars, jobVars, Loop3
<1>a. at \subseteq Variants /\ left \subseteq Variants
  BY DEF TypeOK
<1>1. CASE Start \/ Crash \/ Wake \/ Save \/ Saved \/ Announced \/ Raised \/ Downloaded \/ Checked
  BY <1>1, <1>a DEF Start, Crash, Wake, Save, Saved, Announced, Raised, Downloaded, Checked,
     Truncate,
     LoopsInv, ResultsInv
<1>2. CASE UNCHANGED vars
  BY <1>2 DEF vars, LoopsInv
<1>3. ASSUME NEW v \in Variants, CheckFails(v) PROVE LoopsInv'
  <2>1. pc' = "check" /\ at' = at
    BY <1>3 DEF CheckFails
  <2> QED
    BY <2>1 DEF LoopsInv
<1>4. ASSUME NEW v \in Variants, CheckAnswers(v) PROVE LoopsInv'
  <2>1. CASE info[v].code # bulk[v]
    <3>1. pc' = "details" /\ at' = {v} /\ v \notin left'
      BY <1>4, <2>1 DEF CheckAnswers
    <3>2. result'[v].new
      BY <1>4, <2>1, CheckEffect
    <3> QED
      BY <3>1, <3>2 DEF LoopsInv
  <2>2. CASE info[v].code = bulk[v]
    <3>1. pc' = "check" /\ at' = at
      BY <1>4, <2>2 DEF CheckAnswers
    <3> QED
      BY <3>1 DEF LoopsInv
  <2> QED
    BY <2>1, <2>2
<1>5. ASSUME NEW v \in Variants, DetailsAnswer(v) PROVE LoopsInv'
  <2>1. pc' = "check" /\ at' = {}
    BY <1>5 DEF DetailsAnswer
  <2> QED
    BY <2>1 DEF LoopsInv
<1>6. ASSUME NEW v \in Variants, WritePart(v) PROVE LoopsInv'
  BY <1>6 DEF WritePart, LoopsInv
<1>7. ASSUME NEW v \in Variants, Announce(v) PROVE LoopsInv'
  BY <1>7 DEF Announce, LoopsInv
<1>8. ASSUME NEW v \in Variants, RegisterJob(v) \/ NoLinks(v) PROVE LoopsInv'
  <2>1. /\ pc' = "raise" /\ at' = {v} /\ left' = left \ {v} /\ result' = result /\ pc = "download"
        /\ jobs'[v] \cup barren'[v] = jobs[v] \cup barren[v] \cup {result[v].code}
    BY <1>8 DEF RegisterJob, NoLinks, TypeOK
  <2> QED
    BY <2>1 DEF LoopsInv
<1>9. ASSUME NEW v \in Variants, Raise(v) PROVE LoopsInv'
  BY <1>9 DEF Raise, Truncate, LoopsInv
<1>10. ASSUME NEW v \in Variants, PageFollows(v) \/ \E c \in Versions : Release(v, c)
       PROVE  LoopsInv'
  BY <1>10 DEF PageFollows, Release, LoopsInv
<1> QED
  BY Steps, <1>1, <1>2, <1>3, <1>4, <1>5, <1>6, <1>7, <1>8, <1>9, <1>10

\* Every step keeps ResultsInv: a result counts once its variant was checked, and
\* a new one has its own name once the second answer is there.
LEMMA ResultsStep == TypeOK /\ ResultsInv /\ LoopsInv /\ [Next]_vars => ResultsInv'
<1> SUFFICES ASSUME TypeOK, ResultsInv, LoopsInv, [Next]_vars PROVE ResultsInv'
  OBVIOUS
<1> USE DEF storeVars, processVars, announceVars, jobVars
<1>1. ASSUME \A v \in Variants : result'[v] = NoResult
      PROVE  ResultsInv'
  BY <1>1 DEF NoResult, ResultsInv
<1>2. ASSUME result' = result, \A v \in Variants : info'[v].code = info[v].code,
             pc' \notin {"off", "wait", "check", "details"}, pc # "details"
      PROVE  ResultsInv'
  BY <1>2 DEF ResultsInv, Settled
<1>a. pc \in {"off", "wait"} => \A v \in Variants : ~result[v].new /\ ~result[v].get
  BY DEF ResultsInv
<1>3. CASE Crash \/ Downloaded
  BY <1>1, <1>3 DEF Crash, Downloaded
<1>4. CASE Start \/ Wake
  <2>1. result' = result /\ \A v \in Variants : ~result[v].new /\ ~result[v].get
    BY <1>4, <1>a DEF Start, Wake
  <2> QED
    BY <2>1 DEF ResultsInv
<1>5. CASE Checked \/ Save \/ Saved \/ Announced \/ Raised
  BY <1>2, <1>5 DEF Checked, Save, Saved, Announced, Raised, Truncate
<1>6. CASE UNCHANGED vars
  BY <1>6 DEF vars, ResultsInv, Settled
<1>7. ASSUME NEW v \in Variants, CheckFails(v) PROVE ResultsInv'
  <2>1. /\ ~result'[v].new /\ ~result'[v].get /\ \A w \in Variants : w # v => result'[w] = result[w]
        /\ UNCHANGED <<pc, at, info>> /\ left' = left \ {v} /\ pc = "check"
    BY <1>7, FailsEffect DEF CheckFails
  <2> QED
    BY <2>1 DEF ResultsInv, Settled
<1>8. ASSUME NEW v \in Variants, CheckAnswers(v) PROVE ResultsInv'
  <2>1. /\ \A w \in Variants : w # v => result'[w] = result[w] /\ info'[w] = info[w]
        /\ (result'[v].new <=> info[v].code # bulk[v]) /\ result'[v].code = bulk[v]
        /\ info'[v].code = bulk[v] /\ bulk[v] \in Versions
    BY <1>8, Records, CheckEffect
  <2>2. left' = left \ {v} /\ pc = "check" /\ pc' \in {"check", "details"}
    BY <1>8 DEF CheckAnswers
  <2>3. info[v].code # bulk[v] => pc' = "details" /\ v \in at'
    BY <1>8 DEF CheckAnswers
  <2>4. ASSUME NEW w \in Variants, w # v
        PROVE  /\ result'[w].new \/ result'[w].get =>
                    ~(pc' \in {"check", "details"} /\ w \in left') /\ result'[w].code \in Versions
               /\ result'[w].new => result'[w].code = info'[w].code
                  /\ result'[w].string = result'[w].code
    BY <2>1, <2>2, <2>4 DEF ResultsInv, Settled
  <2>5. /\ v \notin left' /\ result'[v].code \in Versions
        /\ result'[v].code = info'[v].code /\ (result'[v].new => ~Settled(v)')
    BY <2>1, <2>2, <2>3 DEF Settled
  <2> QED
    BY <2>2, <2>4, <2>5 DEF ResultsInv
<1>9. ASSUME NEW v \in Variants, DetailsAnswer(v) PROVE ResultsInv'
  <2>1. /\ \A w \in Variants : w # v => result'[w] = result[w] /\ info'[w] = info[w]
        /\ (result'[v].new <=> page[v] = result[v].code) /\ result'[v].code = result[v].code
        /\ info'[v].code = info[v].code /\ result'[v].string = page[v]
        /\ result'[v].get = result[v].get
    BY <1>9, DetailsEffect
  <2>2. pc = "details" /\ pc' = "check" /\ left' = left /\ result[v].new /\ v \notin left
        /\ at = {v}
    BY <1>9 DEF DetailsAnswer, LoopsInv
  <2>3. \A w \in Variants : result[w].new \/ result[w].get => w \notin left
    BY <1>9, <2>2 DEF ResultsInv
  <2> QED
    BY <2>1, <2>2, <2>3 DEF ResultsInv, Settled
<1>10. ASSUME NEW v \in Variants, WritePart(v) \/ Announce(v) \/ RegisterJob(v) \/ NoLinks(v)
       PROVE  ResultsInv'
  BY <1>2, <1>10 DEF WritePart, Announce, RegisterJob, NoLinks
<1>11. ASSUME NEW v \in Variants, Raise(v) PROVE ResultsInv'
  <2>1. \A w \in Variants : info'[w].code = info[w].code
    BY <1>11, Records, RecordedIs DEF Raise
  <2> QED
    BY <1>2, <1>11, <2>1 DEF Raise, Truncate
<1>12. ASSUME NEW v \in Variants, PageFollows(v) \/ \E c \in Versions : Release(v, c)
       PROVE  ResultsInv'
  BY <1>12 DEF PageFollows, Release, ResultsInv, Settled
<1> QED
  BY Steps, <1>3, <1>4, <1>5, <1>6, <1>7, <1>8, <1>9, <1>10, <1>11, <1>12

(***************************************************************************)
(* What the properties need, part by part.                                 *)
(***************************************************************************)

\* Every step keeps AnnouncedByItsName: only Announce names a version.
LEMMA NamesStep == TypeOK /\ ResultsInv /\ LoopsInv /\ AnnouncedByItsName /\ [Next]_vars
                    => AnnouncedByItsName'
<1> SUFFICES ASSUME TypeOK, ResultsInv, LoopsInv, AnnouncedByItsName, [Next]_vars
             PROVE  AnnouncedByItsName'
  OBVIOUS
<1>1. ASSUME NEW v \in Variants, Announce(v) PROVE AnnouncedByItsName'
  <2>1. result[v].string = result[v].code
    BY <1>1 DEF Announce, LoopsInv, ResultsInv, Settled
  <2> QED
    BY <1>1, <2>1 DEF Announce, AnnouncedByItsName, TypeOK
<1>2. ASSUME ~\E v \in Variants : Announce(v) PROVE last' = last
  BY <1>2, Steps DEF Start, Crash, Checked, Save, Saved, Announced, Raised, Downloaded, Wake, vars,
     CheckFails, CheckAnswers, DetailsAnswer, WritePart, RegisterJob, NoLinks, Raise, PageFollows,
     Release, Truncate, announceVars
<1> QED
  BY <1>1, <1>2 DEF AnnouncedByItsName

\* Every step keeps DownloadedMeansQueued: Raise records what LoopsInv says has a
\* job or no links; a file that is read back holds what was recorded or nothing.
LEMMA QueuedStep == TypeOK /\ LoopsInv /\ DownloadedMeansQueued /\ [Next]_vars
                    => DownloadedMeansQueued'
<1> SUFFICES ASSUME TypeOK, LoopsInv, DownloadedMeansQueued, [Next]_vars
             PROVE  DownloadedMeansQueued'
  OBVIOUS
<1> DEFINE Queued(v, d) == d # None => d \in jobs[v] \cup barren[v]
<1>a. \A v \in Variants : Queued(v, info[v].lastDownloaded) /\ Queued(v, disk[v].lastDownloaded)
  BY DEF DownloadedMeansQueued
<1>b. Blank.lastDownloaded = None
  BY DEF Blank
<1>1. ASSUME \A v \in Variants : jobs[v] \subseteq jobs'[v] /\ barren[v] \subseteq barren'[v],
             \A v \in Variants :
                info'[v].lastDownloaded \in {None, info[v].lastDownloaded, disk[v].lastDownloaded}
                    \cup jobs[v] \cup barren[v],
             \A v \in Variants :
                disk'[v].lastDownloaded \in {None, info[v].lastDownloaded, disk[v].lastDownloaded}
      PROVE  DownloadedMeansQueued'
  <2> SUFFICES ASSUME NEW v \in Variants,
                      NEW d \in {info'[v].lastDownloaded, disk'[v].lastDownloaded},
                      d # None
               PROVE  d \in jobs'[v] \cup barren'[v]
    BY DEF DownloadedMeansQueued
  <2>1. d \in {info[v].lastDownloaded, disk[v].lastDownloaded} \cup jobs[v] \cup barren[v]
    BY <1>1
  <2>2. d \in jobs[v] \cup barren[v]
    BY <1>a, <2>1
  <2> QED
    BY <1>1, <2>2
<1>2. \A v \in Variants : jobs[v] \subseteq jobs'[v] /\ barren[v] \subseteq barren'[v]
  <2>1. ASSUME NEW v \in Variants, RegisterJob(v) \/ NoLinks(v), NEW w \in Variants
        PROVE  jobs[w] \subseteq jobs'[w] /\ barren[w] \subseteq barren'[w]
    BY <2>1 DEF RegisterJob, NoLinks, TypeOK
  <2>2. ASSUME \A v \in Variants : ~RegisterJob(v) /\ ~NoLinks(v)
        PROVE  jobs' = jobs /\ barren' = barren
    BY <2>2, Steps DEF Start, Crash, Checked, Save, Saved, Announced, Raised, Downloaded, Wake,
       vars, CheckFails, CheckAnswers, DetailsAnswer, WritePart, Raise, PageFollows, Release,
       Announce, Truncate, jobVars
  <2> QED
    BY <2>1, <2>2
<1>3. \A v \in Variants :
         disk'[v].lastDownloaded \in {None, info[v].lastDownloaded, disk[v].lastDownloaded}
  BY <1>b, Steps DEF Start, Crash, Checked, Save, Saved, Announced, Raised, Downloaded, Wake, vars,
     CheckFails, CheckAnswers, DetailsAnswer, WritePart, RegisterJob, NoLinks, Raise, PageFollows,
     Release, Announce, Truncate, TypeOK
<1>4. ASSUME NEW v \in Variants, CheckAnswers(v) \/ DetailsAnswer(v), NEW w \in Variants
      PROVE  info'[w].lastDownloaded = info[w].lastDownloaded
  BY <1>4, CheckEffect, DetailsEffect
<1>5. ASSUME NEW v \in Variants, Raise(v), NEW w \in Variants
      PROVE  info'[w].lastDownloaded \in {info[w].lastDownloaded} \cup jobs[w] \cup barren[w]
  <2>1. result[v].code \in jobs[v] \cup barren[v]
    BY <1>5 DEF Raise, Truncate, LoopsInv
  <2>2. info' = info \/ info' = Recorded(v, result[v].code)
    BY <1>5 DEF Raise
  <2>3. CASE info' = Recorded(v, result[v].code)
    <3>1. info'[v].lastDownloaded = result[v].code /\ (w # v => info'[w] = info[w])
      BY <2>3, Records, RecordedIs
    <3> QED
      BY <2>1, <3>1
  <2> QED
    BY <2>2, <2>3
<1>6. ASSUME Start \/ Crash, NEW v \in Variants
      PROVE  info'[v].lastDownloaded \in {None, disk[v].lastDownloaded}
  BY <1>b, <1>6 DEF Start, Crash
<1>7. ASSUME ~Start, ~Crash, \A v \in Variants : ~CheckAnswers(v) /\ ~DetailsAnswer(v) /\ ~Raise(v)
      PROVE  info' = info
  BY <1>7, Steps DEF Checked, Save, Saved, Announced, Raised, Downloaded, Wake, vars,
     CheckFails, WritePart, RegisterJob, NoLinks, PageFollows, Release, Announce, Truncate,
     processVars
<1> QED
  BY <1>1, <1>2, <1>3, <1>4, <1>5, <1>6, <1>7

\* Every step keeps FreshInv: the callbacks run only after the file holds what
\* they announce.
LEMMA FreshStep == TypeOK /\ ResultsInv /\ LoopsInv /\ FreshInv /\ [Next]_vars => FreshInv'
<1> SUFFICES ASSUME TypeOK, ResultsInv, LoopsInv, FreshInv, [Next]_vars PROVE FreshInv'
  OBVIOUS
<1> USE DEF storeVars, processVars, announceVars, jobVars
<1>1. ASSUME \A v \in Variants : info'[v].code = info[v].code, pc # "off",
             UNCHANGED <<disk, last, moved, torn>>, pc \notin {"write", "rewrite"}
      PROVE  FreshInv'
  BY <1>1 DEF FreshInv
<1>2. CASE Start
  BY <1>2 DEF Start, FreshInv
<1>3. CASE Crash
  BY <1>3 DEF Crash, FreshInv
<1>4. CASE Checked \/ Announced \/ Downloaded \/ Wake
  BY <1>1, <1>4 DEF Checked, Announced, Downloaded, Wake
<1>5. CASE Save
  BY <1>5 DEF Save, Truncate, FreshInv
<1>6. CASE Saved \/ Raised
  BY <1>6 DEF Saved, Raised, FreshInv
<1>7. CASE UNCHANGED vars
  BY <1>7 DEF vars, FreshInv
<1>8. ASSUME NEW v \in Variants, CheckFails(v) \/ DetailsAnswer(v) \/ RegisterJob(v) \/ NoLinks(v)
      PROVE  FreshInv'
  <2>1. \A w \in Variants : info'[w].code = info[w].code
    BY <1>8, DetailsEffect DEF CheckFails, RegisterJob, NoLinks
  <2> QED
    BY <1>1, <1>8, <2>1 DEF CheckFails, DetailsAnswer, RegisterJob, NoLinks
<1>9. ASSUME NEW v \in Variants, CheckAnswers(v) PROVE FreshInv'
  <2>1. /\ pc = "check" /\ pc' \in {"check", "details"} /\ UNCHANGED <<disk, last, torn>>
    BY <1>9 DEF CheckAnswers
  <2>3. \A w \in Variants : w # v => moved'[w] = moved[w]
    BY <1>9 DEF CheckAnswers, TypeOK
  <2>4. info'[v].code = bulk[v] /\ \A w \in Variants : w # v => info'[w] = info[w]
    BY <1>9, CheckEffect
  <2>2. ~moved'[v] => ~moved[v] /\ last[v].code = bulk[v]
    BY <1>9 DEF CheckAnswers, TypeOK
  <2> QED
    BY <2>1, <2>2, <2>3, <2>4 DEF FreshInv
<1>10. ASSUME NEW v \in Variants, WritePart(v) PROVE FreshInv'
  BY <1>10 DEF WritePart, FreshInv
<1>11. ASSUME NEW v \in Variants, Announce(v) PROVE FreshInv'
  <2>1. /\ pc = "callbacks" /\ pc' = pc /\ disk = info /\ result[v].code = info[v].code
        /\ UNCHANGED <<disk, info, torn>>
    BY <1>11 DEF Announce, LoopsInv, ResultsInv
  <2>2. /\ last'[v].code = result[v].code
        /\ \A w \in Variants : w # v => last'[w] = last[w] /\ moved'[w] = moved[w]
    BY <1>11 DEF Announce, TypeOK
  <2> QED
    BY <2>1, <2>2 DEF FreshInv
<1>12. ASSUME NEW v \in Variants, Raise(v) PROVE FreshInv'
  <2>1. /\ \A w \in Variants : info'[w].code = info[w].code
        /\ UNCHANGED <<last, moved, torn>> /\ pc = "raise"
        /\ pc' = "rewrite" \/ disk' = disk
    BY <1>12, Records, RecordedIs DEF Raise, Truncate
  <2> QED
    BY <2>1 DEF FreshInv
<1>13. ASSUME NEW v \in Variants, PageFollows(v) \/ \E c \in Versions : Release(v, c)
       PROVE  FreshInv'
  BY <1>13 DEF PageFollows, Release, FreshInv
<1> QED
  BY Steps, <1>2, <1>3, <1>4, <1>5, <1>6, <1>7, <1>8, <1>9, <1>10, <1>11, <1>12, <1>13

\* Every step keeps PendingInv: what is new differs from what FreshInv says was
\* announced last.
LEMMA PendingStep == TypeOK /\ ResultsInv /\ LoopsInv /\ FreshInv /\ PendingInv /\ [Next]_vars
                        => PendingInv'
<1> SUFFICES ASSUME TypeOK, ResultsInv, LoopsInv, FreshInv, PendingInv, [Next]_vars
             PROVE  PendingInv'
  OBVIOUS
<1> USE DEF storeVars, processVars, announceVars, jobVars
<1>1. ASSUME \A v \in Variants : ~result'[v].new
      PROVE  PendingInv'
  BY <1>1 DEF PendingInv
<1>2. ASSUME pc' \in {"download", "raise", "rewrite", "wait", "off"}
      PROVE  PendingInv'
  BY <1>2 DEF PendingInv
<1>3. CASE Start \/ Wake
  <2>1. \A v \in Variants : ~result'[v].new
    BY <1>3 DEF Start, Wake, ResultsInv
  <2> QED
    BY <1>1, <2>1
<1>4. CASE Crash \/ Announced \/ Downloaded \/ Raised
  BY <1>2, <1>4 DEF Crash, Announced, Downloaded, Raised
<1>5. CASE Checked \/ Save \/ Saved
  BY <1>5 DEF Checked, Save, Saved, Truncate, PendingInv
<1>6. CASE UNCHANGED vars
  BY <1>6 DEF vars, PendingInv
<1>7. ASSUME NEW v \in Variants, CheckFails(v) PROVE PendingInv'
  <2>1. UNCHANGED <<last, moved, torn>> /\ pc' = "check" /\ pc = "check"
    BY <1>7 DEF CheckFails
  <2>2. \A w \in Variants : result'[w].new => result'[w] = result[w] /\ result[w].new
    BY <1>7, FailsEffect
  <2> QED
    BY <2>1, <2>2 DEF PendingInv
<1>8. ASSUME NEW v \in Variants, CheckAnswers(v) PROVE PendingInv'
  <2>1. /\ pc = "check" /\ pc' \in {"check", "details"} /\ UNCHANGED <<last, torn>>
    BY <1>8 DEF CheckAnswers
  <2>2. \A w \in Variants : w # v => moved'[w] = moved[w]
    BY <1>8 DEF CheckAnswers, TypeOK
  <2>3. \A w \in Variants : w # v => result'[w] = result[w]
    BY <1>8, CheckEffect
  <2>4. ~moved'[v] => ~moved[v] /\ last[v].code = bulk[v]
    BY <1>8 DEF CheckAnswers, TypeOK
  <2>5. result'[v].new => info[v].code # bulk[v]
    BY <1>8, CheckEffect
  <2>6. ~moved'[v] /\ ~torn => ~result'[v].new
    BY <2>1, <2>4, <2>5 DEF FreshInv
  <2> QED
    BY <2>1, <2>2, <2>3, <2>6 DEF PendingInv
<1>9. ASSUME NEW v \in Variants, DetailsAnswer(v) PROVE PendingInv'
  <2>1. UNCHANGED <<last, moved, torn>> /\ pc = "details" /\ result[v].new
    BY <1>9 DEF DetailsAnswer, LoopsInv
  <2>2. result'[v].code = result[v].code /\ \A w \in Variants : w # v => result'[w] = result[w]
    BY <1>9, DetailsEffect
  <2> QED
    BY <2>1, <2>2 DEF PendingInv
<1>10. ASSUME NEW v \in Variants, WritePart(v) PROVE PendingInv'
  BY <1>10 DEF WritePart, PendingInv
<1>11. ASSUME NEW v \in Variants, Announce(v) PROVE PendingInv'
  <2>1. /\ pc = "callbacks" /\ pc' = pc /\ v \notin left' /\ left' \subseteq left
        /\ UNCHANGED <<result, torn>>
    BY <1>11 DEF Announce
  <2>2. \A w \in Variants : w # v => last'[w] = last[w] /\ moved'[w] = moved[w]
    BY <1>11 DEF Announce, TypeOK
  <2> QED
    BY <2>1, <2>2 DEF PendingInv
<1>12. ASSUME NEW v \in Variants, RegisterJob(v) \/ NoLinks(v) \/ Raise(v) PROVE PendingInv'
  BY <1>2, <1>12 DEF RegisterJob, NoLinks, Raise, Truncate
<1>13. ASSUME NEW v \in Variants, PageFollows(v) \/ \E c \in Versions : Release(v, c)
       PROVE  PendingInv'
  BY <1>13 DEF PageFollows, Release, PendingInv
<1> QED
  BY Steps, <1>3, <1>4, <1>5, <1>6, <1>7, <1>8, <1>9, <1>10, <1>11, <1>12, <1>13

\* Every step keeps WaitingInv.
LEMMA WaitingStep == TypeOK /\ ResultsInv /\ LoopsInv /\ WaitingInv /\ [Next]_vars => WaitingInv'
<1> SUFFICES ASSUME TypeOK, ResultsInv, LoopsInv, WaitingInv, [Next]_vars
             PROVE  WaitingInv'
  OBVIOUS
<1> USE DEF storeVars, processVars, announceVars, jobVars, Loop3
<1>1. ASSUME \A v \in Variants : ~result'[v].get
      PROVE  WaitingInv'
  BY <1>1 DEF WaitingInv
<1>2. ASSUME UNCHANGED <<result, info>>, pc \in Loop3 => pc' \in Loop3 /\ left' \subseteq left
      PROVE  WaitingInv'
  BY <1>2 DEF WaitingInv
<1>3. CASE Start \/ Wake \/ Crash \/ Downloaded
  <2>1. \A v \in Variants : ~result'[v].get
    BY <1>3 DEF Start, Wake, Crash, Downloaded, NoResult, ResultsInv
  <2> QED
    BY <1>1, <2>1
<1>4. CASE Checked \/ Save \/ Saved \/ Announced \/ Raised
  BY <1>2, <1>4 DEF Checked, Save, Saved, Announced, Raised, Truncate
<1>5. CASE UNCHANGED vars
  BY <1>2, <1>5 DEF vars
<1>6. ASSUME NEW v \in Variants, CheckFails(v) PROVE WaitingInv'
  <2>1. info' = info /\ pc' = pc /\ pc = "check"
    BY <1>6 DEF CheckFails
  <2>2. \A w \in Variants : result'[w].get => result'[w] = result[w]
    BY <1>6, FailsEffect
  <2> QED
    BY <2>1, <2>2 DEF WaitingInv
<1>7. ASSUME NEW v \in Variants, CheckAnswers(v) PROVE WaitingInv'
  <2>1. pc = "check"
    BY <1>7 DEF CheckAnswers
  <2> QED
    BY <1>7, <2>1, CheckEffect DEF WaitingInv
<1>8. ASSUME NEW v \in Variants, DetailsAnswer(v) PROVE WaitingInv'
  <2>1. pc = "details" /\ pc' = "check"
    BY <1>8 DEF DetailsAnswer
  <2> QED
    BY <1>8, <2>1, DetailsEffect DEF WaitingInv
<1>9. ASSUME NEW v \in Variants,
             WritePart(v) \/ Announce(v) \/ RegisterJob(v) \/ NoLinks(v) \/ PageFollows(v)
             \/ \E c \in Versions : Release(v, c)
      PROVE  WaitingInv'
  BY <1>2, <1>9 DEF WritePart, Announce, RegisterJob, NoLinks, PageFollows, Release
<1>10. ASSUME NEW v \in Variants, Raise(v) PROVE WaitingInv'
  <2>1. /\ pc = "raise" /\ v \notin left /\ left' = left /\ result' = result
        /\ pc' \in Loop3
    BY <1>10 DEF Raise, Truncate, LoopsInv
  <2>2. \A w \in Variants : w # v => info'[w] = info[w]
    BY <1>10, Records, RecordedIs DEF Raise
  <2> QED
    BY <2>1, <2>2 DEF WaitingInv
<1> QED
  BY Steps, <1>3, <1>4, <1>5, <1>6, <1>7, <1>8, <1>9, <1>10

\* Every step keeps JobsInv: without a crash, Raise follows each job.
LEMMA JobsStep == TypeOK /\ LoopsInv /\ JobsInv /\ [Next]_vars => JobsInv'
<1> SUFFICES ASSUME TypeOK, LoopsInv, JobsInv, [Next]_vars, crashes' = 0
             PROVE  JobsInv'
  BY DEF JobsInv
<1> USE DEF storeVars, processVars, announceVars, jobVars
<1>a. crashes = 0 /\ ~Crash
  <2>1. crashes' = crashes \/ Crash
    BY Steps DEF Start, Checked, Save, Saved, Announced, Raised, Downloaded, Wake, vars,
       CheckFails, CheckAnswers, DetailsAnswer, WritePart, Announce, RegisterJob, NoLinks, Raise,
       PageFollows, Release
  <2>2. Crash => crashes' # 0
    <3>1. Crash => crashes' = crashes + 1
      BY DEF Crash
    <3>2. crashes \in Nat
      BY ApkAssumption DEF TypeOK
    <3> QED
      BY <3>1, <3>2
  <2> QED
    BY <2>1, <2>2
<1>1. ASSUME \A v \in Variants : info'[v].lastDownloaded = info[v].lastDownloaded,
             jobs' = jobs, pc \notin {"off", "raise"}, pc' # "off"
      PROVE  JobsInv'
  BY <1>a, <1>1 DEF JobsInv
<1>2. CASE Start
  BY <1>a, <1>2 DEF Start, JobsInv
<1>3. CASE Checked \/ Save \/ Saved \/ Announced \/ Raised \/ Downloaded \/ Wake
  BY <1>1, <1>3 DEF Checked, Save, Saved, Announced, Raised, Downloaded, Wake, Truncate
<1>4. CASE UNCHANGED vars
  BY <1>a, <1>4 DEF vars, JobsInv
<1>5. ASSUME NEW v \in Variants, CheckFails(v) \/ WritePart(v) \/ Announce(v) PROVE JobsInv'
  BY <1>1, <1>5 DEF CheckFails, WritePart, Announce
<1>6. ASSUME NEW v \in Variants, CheckAnswers(v) \/ DetailsAnswer(v) PROVE JobsInv'
  <2>1. \A w \in Variants : info'[w].lastDownloaded = info[w].lastDownloaded
    BY <1>6, CheckEffect, DetailsEffect
  <2>2. jobs' = jobs /\ pc \notin {"off", "raise"} /\ pc' # "off"
    BY <1>6 DEF CheckAnswers, DetailsAnswer
  <2> QED
    BY <1>1, <2>1, <2>2
<1>7. ASSUME NEW v \in Variants, RegisterJob(v) \/ NoLinks(v) PROVE JobsInv'
  <2>1. /\ pc = "download" /\ pc' = "raise" /\ at' = {v} /\ UNCHANGED <<info, result>>
        /\ jobs'[v] \subseteq jobs[v] \cup {result[v].code}
        /\ \A w \in Variants : w # v => jobs'[w] = jobs[w]
    BY <1>7 DEF RegisterJob, NoLinks, TypeOK
  <2> QED
    BY <1>a, <2>1 DEF JobsInv
<1>8. ASSUME NEW v \in Variants, Raise(v) PROVE JobsInv'
  <2>1. /\ pc = "raise" /\ pc' # "off" /\ pc' # "raise" /\ jobs' = jobs /\ at = {v}
        /\ info' = info \/ info' = Recorded(v, result[v].code)
        /\ result[v].code > info[v].lastDownloaded => info' = Recorded(v, result[v].code)
        /\ result[v].code > info[v].lastDownloaded \/ info' = info
    BY <1>8 DEF Raise, Truncate, LoopsInv
  <2>2. /\ result[v].code \in Int
        /\ \A w \in Variants : info[w].lastDownloaded \in Int /\ \A c \in jobs[w] : c \in Int
    BY Records, ApkAssumption DEF TypeOK, Versions
  <2>3. /\ info'[v].lastDownloaded \in Int /\ info[v].lastDownloaded <= info'[v].lastDownloaded
        /\ result[v].code <= info'[v].lastDownloaded
        /\ \A w \in Variants : w # v => info'[w] = info[w]
    <3>1. CASE result[v].code > info[v].lastDownloaded
      <4>1. info'[v].lastDownloaded = result[v].code /\ \A w \in Variants : w # v
            => info'[w] = info[w]
        BY <2>1, <3>1, Records, RecordedIs
      <4> QED
        BY <2>2, <3>1, <4>1
    <3>2. CASE ~(result[v].code > info[v].lastDownloaded)
      BY <2>1, <2>2, <3>2
    <3> QED
      BY <3>1, <3>2
  <2>4. ASSUME NEW w \in Variants, NEW c \in jobs[w] PROVE c <= info'[w].lastDownloaded
    <3>1. c <= info[w].lastDownloaded \/ (w = v /\ c = result[v].code)
      BY <1>a, <2>1 DEF JobsInv
    <3> QED
      BY <2>2, <2>3, <3>1
  <2> QED
    BY <2>1, <2>4 DEF JobsInv
<1>9. ASSUME NEW v \in Variants, PageFollows(v) \/ \E c \in Versions : Release(v, c)
      PROVE  JobsInv'
  BY <1>a, <1>9 DEF PageFollows, Release, JobsInv
<1> QED
  BY <1>a, Steps, <1>2, <1>3, <1>4, <1>5, <1>6, <1>7, <1>8, <1>9

(***************************************************************************)
(* The invariant, and what follows.                                        *)
(***************************************************************************)

\* The invariant holds at the start.
LEMMA InitInv == Init => ApkInv
<1> SUFFICES ASSUME Init PROVE ApkInv
  OBVIOUS
<1> USE ApkAssumption
<1>1. Blank \in Info /\ NoResult \in Result /\ None \in Codes
  BY DEF Info, Result, Codes, None, Blank, NoResult
<1>2. TypeOK
  <2>1. /\ bulk \in [Variants -> Versions] /\ page \in [Variants -> Versions]
        /\ disk \in [Variants -> Info] /\ info \in [Variants -> Info]
        /\ result \in [Variants -> Result]
        /\ last \in [Variants -> [code : Codes, string : Codes]]
    BY <1>1 DEF Init
  <2>2. /\ skipped \in [Variants -> SUBSET Versions] /\ announced \in [Variants -> SUBSET Versions]
        /\ jobs \in [Variants -> SUBSET Versions] /\ barren \in [Variants -> SUBSET Versions]
        /\ left \subseteq Variants /\ at \subseteq Variants
    BY DEF Init
  <2>3. moved \in [Variants -> BOOLEAN] /\ torn \in BOOLEAN /\ dirty \in BOOLEAN
    BY DEF Init
  <2>4. pc \in PC /\ releases \in 0 .. MaxReleases /\ crashes \in 0 .. MaxCrashes
    BY DEF Init, PC
  <2> QED
    BY <2>1, <2>2, <2>3, <2>4 DEF TypeOK
<1>3. ResultsInv
  BY DEF Init, ResultsInv, NoResult
<1>4. LoopsInv
  BY DEF Init, LoopsInv, Loop3
<1>5. AnnouncedByItsName /\ DownloadedMeansQueued
  BY DEF Init, AnnouncedByItsName, DownloadedMeansQueued, Blank
<1>6. FreshInv
  BY DEF Init, FreshInv, Blank
<1>7. PendingInv /\ WaitingInv /\ JobsInv
  BY DEF Init, PendingInv, WaitingInv, JobsInv, NoResult
<1> QED
  BY <1>2, <1>3, <1>4, <1>5, <1>6, <1>7 DEF ApkInv

\* Every step keeps the invariant.
LEMMA ApkStep == ApkInv /\ [Next]_vars => ApkInv'
  BY TypeStep, ResultsStep, LoopsStep, NamesStep, QueuedStep, FreshStep, PendingStep, WaitingStep,
     JobsStep DEF ApkInv

\* The loops, the file and the history fit each other in every behaviour.
THEOREM Invariant == Spec => []ApkInv
  BY InitInv, ApkStep, PTL DEF Spec

\* updateLatestVersion: code and string come from two requests, and a version is
\* announced only under its own string.
THEOREM Named == Spec => []AnnouncedByItsName
<1>1. ApkInv => AnnouncedByItsName
  BY DEF ApkInv
<1> QED
  BY <1>1, Invariant, PTL

\* downloadAndProcessApk: lastDownloadedVersionCode never names a version that
\* neither has a job nor was without links.
THEOREM Queued == Spec => []DownloadedMeansQueued
<1>1. ApkInv => DownloadedMeansQueued
  BY DEF ApkInv
<1> QED
  BY <1>1, Invariant, PTL

\* The save comes before the callbacks: a version is announced again only after
\* the store answered another one, or a crash tore the file.
THEOREM AnnouncedOnce == Spec => NoRepeatedAnnouncement
<1> DEFINE New == \A v \in Variants : Announce(v) =>
                    result[v].code # last[v].code \/ moved[v] \/ torn
<1>1. ApkInv => New
  BY DEF ApkInv, Announce, LoopsInv, PendingInv, TypeOK
<1>2. ApkInv /\ [Next]_vars => [New]_vars
  BY <1>1
<1> HIDE DEF New
<1>3. Spec => [][New]_vars
  BY <1>2, Invariant, PTL DEF Spec
<1> QED
  BY <1>3 DEF NoRepeatedAnnouncement, New

\* A job is registered again for a version only after a crash, or when the store
\* went back below what was downloaded.
THEOREM SecondJobs == Spec => SecondJobHasACause
<1> DEFINE Caused == \A v \in Variants : RegisterJob(v) /\ result[v].code \in jobs[v] =>
                        crashes > 0 \/ result[v].code < info[v].lastDownloaded
<1>1. ApkInv => Caused
  <2> SUFFICES ASSUME ApkInv, NEW v \in Variants, RegisterJob(v), result[v].code \in jobs[v]
               PROVE  crashes > 0 \/ result[v].code < info[v].lastDownloaded
    OBVIOUS
  <2>1. pc = "download" /\ v \in left
    BY DEF RegisterJob
  <2>2. result[v].code # info[v].lastDownloaded
    BY <2>1 DEF ApkInv, LoopsInv, WaitingInv, Loop3
  <2>3. crashes = 0 => result[v].code <= info[v].lastDownloaded
    BY <2>1 DEF ApkInv, JobsInv
  <2>4. crashes \in Nat /\ result[v].code \in Int /\ info[v].lastDownloaded \in Int
    BY Records, ApkAssumption DEF ApkInv, TypeOK
  <2> QED
    BY <2>2, <2>3, <2>4
<1>2. ApkInv /\ [Next]_vars => [Caused]_vars
  BY <1>1
<1> HIDE DEF Caused
<1>3. Spec => [][Caused]_vars
  BY <1>2, Invariant, PTL DEF Spec
<1> QED
  BY <1>3 DEF SecondJobHasACause, Caused
=============================================================================
