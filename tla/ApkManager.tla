----------------------------- MODULE ApkManager -----------------------------
(***************************************************************************)
(* The thread that follows the Play store: it asks for the version of each *)
(* variant (release or beta, one per architecture), announces the new ones *)
(* and hands their packages to the job spool, remembering in               *)
(* priv/versioninfo.conf what it has seen and what it has downloaded.      *)
(*                                                                         *)
(* The store answers two separate requests, bulk_details (the version      *)
(* code) and details (code and version string), and the two need not agree.*)
(* The order of the variants in the loops is abstracted.  The version      *)
(* string of version c is written c.                                       *)
(***************************************************************************)
EXTENDS Integers

CONSTANTS
    Variants,       \* release/arm, beta/x86, ...
    MaxVersion,     \* bound: version codes
    MaxReleases,    \* bound: how often the store's bulk answer changes
    MaxCrashes      \* bound: crashes, uncaught exceptions included

ASSUME ApkAssumption ==
    /\ MaxVersion \in Nat \ {0}
    /\ MaxReleases \in Nat
    /\ MaxCrashes \in Nat

Versions == 1 .. MaxVersion
None     == -1                      \* the initial value of the codes
Codes    == Versions \cup {None}

Info  == [code : Codes, lastDownloaded : Codes, string : Codes]
Blank == [code |-> None, lastDownloaded |-> None, string |-> None]

VARIABLES
    \* the store
    bulk,           \* what bulk_details answers
    page,           \* what details answers
    releases,       \* how often bulk has changed
    \* priv/versioninfo.conf
    disk,           \* what loadFromConfig would read
    \* the process
    pc,             \* where the version check thread is
    info,           \* the ApkVersionInfo of each variant
    left,           \* the variants the current loop has not visited
    at,             \* the variant in the middle of a loop body
    result,         \* the CheckResult of each variant, and its string's copy
    dirty,          \* hasAnyUpdate
    \* history
    skipped,        \* new versions whose announcement was put off
    announced,      \* versions announced
    last,           \* the last announcement: code and string
    moved,          \* the store answered another version since then
    torn,           \* a crash hit the file between truncation and write
    jobs,           \* versions for which this thread registered a job
    barren,         \* versions for which the store offered no link
    crashes

storeVars   == <<bulk, page, releases>>
processVars == <<pc, info, left, at, result, dirty>>
announceVars == <<skipped, announced, last, moved>>
jobVars     == <<jobs, barren>>
vars == <<storeVars, disk, processVars, announceVars, torn, jobVars, crashes>>

PC == {"off", "check", "details", "save", "write", "callbacks", "download",
       "raise", "rewrite", "wait"}
Result == [new : BOOLEAN, get : BOOLEAN, code : Codes, string : Codes]
NoResult == [new |-> FALSE, get |-> FALSE, code |-> None, string |-> None]

TypeOK ==
    /\ bulk \in [Variants -> Versions] /\ page \in [Variants -> Versions]
    /\ releases \in 0 .. MaxReleases
    /\ disk \in [Variants -> Info] /\ info \in [Variants -> Info]
    /\ pc \in PC /\ dirty \in BOOLEAN
    /\ left \subseteq Variants /\ at \subseteq Variants
    /\ result \in [Variants -> Result]
    /\ skipped \in [Variants -> SUBSET Versions]
    /\ announced \in [Variants -> SUBSET Versions]
    /\ last \in [Variants -> [code : Codes, string : Codes]]
    /\ moved \in [Variants -> BOOLEAN] /\ torn \in BOOLEAN
    /\ jobs \in [Variants -> SUBSET Versions]
    /\ barren \in [Variants -> SUBSET Versions]
    /\ crashes \in 0 .. MaxCrashes

Init ==
    /\ bulk \in [Variants -> Versions] /\ page = bulk
    /\ releases = 0
    /\ disk = [v \in Variants |-> Blank] /\ info = [v \in Variants |-> Blank]
    /\ pc = "off" /\ left = {} /\ at = {} /\ dirty = FALSE
    /\ result = [v \in Variants |-> NoResult]
    /\ skipped = [v \in Variants |-> {}] /\ announced = [v \in Variants |-> {}]
    /\ last = [v \in Variants |-> [code |-> None, string |-> None]]
    /\ moved = [v \in Variants |-> FALSE] /\ torn = FALSE
    /\ jobs = [v \in Variants |-> {}] /\ barren = [v \in Variants |-> {}]
    /\ crashes = 0

-----------------------------------------------------------------------------
(***************************************************************************)
(* The store.                                                              *)
(***************************************************************************)

\* A roll-out, or a roll-back, reaches bulk_details.
Release(v, c) ==
    /\ releases < MaxReleases
    /\ c # bulk[v]
    /\ releases' = releases + 1
    /\ bulk' = [bulk EXCEPT ![v] = c]
    /\ UNCHANGED <<page, disk, processVars, announceVars, torn, jobVars, crashes>>

\* details follows some time later.
PageFollows(v) ==
    /\ page[v] # bulk[v]
    /\ page' = [page EXCEPT ![v] = bulk[v]]
    /\ UNCHANGED <<bulk, releases, disk, processVars, announceVars, torn, jobVars, crashes>>

-----------------------------------------------------------------------------
(***************************************************************************)
(* The process starts and dies.                                            *)
(***************************************************************************)

\* loadFromConfig, then updateLatestVersions for the first time.
Start ==
    /\ pc = "off"
    /\ info' = disk
    /\ pc' = "check" /\ left' = Variants /\ dirty' = FALSE
    /\ UNCHANGED <<storeVars, disk, at, result, announceVars, torn, jobVars, crashes>>

\* Ends at any point; details(), getDownloadLinks() and downloadApk() are
\* called outside any try block, so their exceptions end the process too.
Crash ==
    /\ pc # "off"
    /\ crashes < MaxCrashes
    /\ crashes' = crashes + 1
    /\ torn' = (torn \/ pc \in {"write", "rewrite"})
    /\ pc' = "off" /\ left' = {} /\ at' = {} /\ dirty' = FALSE
    /\ info' = [v \in Variants |-> Blank]
    /\ result' = [v \in Variants |-> NoResult]
    /\ UNCHANGED <<storeVars, disk, announceVars, jobVars>>

-----------------------------------------------------------------------------
(***************************************************************************)
(* updateLatestVersions: first loop, updateLatestVersion of each variant.  *)
(***************************************************************************)

\* What a check leaves: the variant's latest version, and the CheckResult.
Seen(v, c, s) ==
    [info EXCEPT ![v] = [code |-> c, lastDownloaded |-> info[v].lastDownloaded, string |-> s]]
Checks(v, new, get, c, s) ==
    [result EXCEPT ![v] = [new |-> new, get |-> get, code |-> c, string |-> s]]

\* bulk_details fails or is malformed: neither flag is set.
CheckFails(v) ==
    /\ pc = "check" /\ v \in left
    /\ left' = left \ {v}
    /\ result' = Checks(v, FALSE, FALSE, None, info[v].string)
    /\ UNCHANGED <<storeVars, disk, pc, info, at, dirty, announceVars, torn, jobVars, crashes>>

\* bulk_details answers.  Its code is taken over at once, and a new one needs
\* the second request.
CheckAnswers(v) ==
    LET c == bulk[v] IN
    /\ pc = "check" /\ v \in left
    /\ left' = left \ {v}
    /\ info' = Seen(v, c, info[v].string)
    /\ result' = Checks(v, info[v].code # c, info[v].lastDownloaded # c, c, info[v].string)
    /\ IF info[v].code # c THEN pc' = "details" /\ at' = {v} ELSE UNCHANGED <<pc, at>>
    /\ moved' = [moved EXCEPT ![v] = @ \/ last[v].code # c]
    /\ UNCHANGED <<storeVars, disk, dirty, skipped, announced, last, torn, jobVars, crashes>>

\* Mutant: the codes of the two answers are not compared.
DetailsAnswerTrusted(v) ==
    /\ pc = "details" /\ v \in at
    /\ info' = Seen(v, info[v].code, page[v])
    /\ result' = Checks(v, result[v].new, result[v].get, result[v].code, page[v])
    /\ dirty' = TRUE
    /\ pc' = "check" /\ at' = {}
    /\ UNCHANGED <<storeVars, disk, left, announceVars, torn, jobVars, crashes>>

\* details answers, maybe for another version.
DetailsAnswer(v) ==
    LET same == page[v] = result[v].code IN
    /\ pc = "details" /\ v \in at
    /\ info' = Seen(v, info[v].code, page[v])
    /\ result' = Checks(v, same, result[v].get, result[v].code, page[v])
    /\ dirty' = (dirty \/ same)
    /\ skipped' = IF same THEN skipped
                  ELSE [skipped EXCEPT ![v] = @ \cup {result[v].code}]
    /\ pc' = "check" /\ at' = {}
    /\ UNCHANGED <<storeVars, disk, left, announced, last, moved, torn, jobVars, crashes>>

\* Mutant: the callbacks run before anything is saved.
CheckedUnsaved ==
    /\ pc = "check" /\ left = {}
    /\ pc' = "callbacks"
    /\ left' = {v \in Variants : result[v].new}
    /\ UNCHANGED <<storeVars, disk, info, at, result, dirty, announceVars, torn, jobVars, crashes>>

Checked ==
    /\ pc = "check" /\ left = {}
    /\ IF dirty THEN pc' = "save" /\ UNCHANGED left
       ELSE pc' = "download" /\ left' = {v \in Variants : result[v].get}
    /\ UNCHANGED <<storeVars, disk, info, at, result, dirty, announceVars, torn, jobVars, crashes>>

-----------------------------------------------------------------------------
(***************************************************************************)
(* saveVersionInfo: the file is truncated, then written.                   *)
(***************************************************************************)

Truncate(from, to) ==
    /\ pc = from /\ pc' = to
    /\ disk' = [v \in Variants |-> Blank]

\* The buffered contents may reach the file in pieces; a reader of a prefix
\* finds the values of some variants only.
WritePart(v) ==
    /\ pc \in {"write", "rewrite"}
    /\ disk[v] # info[v]
    /\ disk' = [disk EXCEPT ![v] = info[v]]
    /\ UNCHANGED <<storeVars, processVars, announceVars, torn, jobVars, crashes>>

Save ==
    /\ Truncate("save", "write")
    /\ UNCHANGED <<storeVars, info, left, at, result, dirty, announceVars, torn, jobVars, crashes>>

\* The stream is closed; the lock is released and the second loop begins.
Saved ==
    /\ pc = "write"
    /\ disk = info
    /\ pc' = "callbacks"
    /\ left' = {v \in Variants : result[v].new}
    /\ UNCHANGED <<storeVars, disk, info, at, result, dirty, announceVars, torn, jobVars, crashes>>

-----------------------------------------------------------------------------
(***************************************************************************)
(* Second loop: the callbacks.  What one throws is caught.                 *)
(***************************************************************************)
Announce(v) ==
    /\ pc = "callbacks" /\ v \in left
    /\ left' = left \ {v}
    /\ announced' = [announced EXCEPT ![v] = @ \cup {result[v].code}]
    /\ last' = [last EXCEPT ![v] = [code |-> result[v].code, string |-> result[v].string]]
    /\ moved' = [moved EXCEPT ![v] = FALSE]
    /\ UNCHANGED <<storeVars, disk, pc, info, at, result, dirty, skipped, torn, jobVars, crashes>>

Announced ==
    /\ pc = "callbacks" /\ left = {}
    /\ pc' = "download"
    /\ left' = {v \in Variants : result[v].get}
    /\ UNCHANGED <<storeVars, disk, info, at, result, dirty, announceVars, torn, jobVars, crashes>>

-----------------------------------------------------------------------------
(***************************************************************************)
(* Third loop: downloadAndProcessApk.                                      *)
(***************************************************************************)

\* Mutant: a failed download is caught, and the caller records a success.
RegisterJobSwallowsErrors(v) ==
    /\ pc = "download" /\ v \in left
    /\ jobs' \in {jobs, [jobs EXCEPT ![v] = @ \cup {result[v].code}]}
    /\ left' = left \ {v} /\ at' = {v}
    /\ pc' = "raise"
    /\ UNCHANGED <<storeVars, disk, info, result, dirty, announceVars, torn, barren, crashes>>

\* Every link is downloaded and the job is registered (module JobSpool has
\* the steps of createJob and addApkJob).
RegisterJob(v) ==
    /\ pc = "download" /\ v \in left
    /\ jobs' = [jobs EXCEPT ![v] = @ \cup {result[v].code}]
    /\ left' = left \ {v} /\ at' = {v}
    /\ pc' = "raise"
    /\ UNCHANGED <<storeVars, disk, info, result, dirty, announceVars, torn, barren, crashes>>

\* No links: an early return without a job, and the caller goes on.
NoLinks(v) ==
    /\ pc = "download" /\ v \in left
    /\ barren' = [barren EXCEPT ![v] = @ \cup {result[v].code}]
    /\ left' = left \ {v} /\ at' = {v}
    /\ pc' = "raise"
    /\ UNCHANGED <<storeVars, disk, info, result, dirty, announceVars, torn, jobs, crashes>>

Recorded(v, c) ==
    [info EXCEPT ![v] = [code |-> info[v].code, lastDownloaded |-> c, string |-> info[v].string]]

\* Mutant: the version is compared with the one last seen.
RaiseWrongField(v) ==
    /\ pc = "raise" /\ v \in at
    /\ at' = {}
    /\ IF result[v].code > info[v].code
       THEN /\ info' = Recorded(v, result[v].code)
            /\ Truncate("raise", "rewrite")
       ELSE /\ pc' = "download"
            /\ UNCHANGED <<info, disk>>
    /\ UNCHANGED <<storeVars, left, result, dirty, announceVars, torn, jobVars, crashes>>

\* Only a higher version is recorded and saved.
Raise(v) ==
    /\ pc = "raise" /\ v \in at
    /\ at' = {}
    /\ IF result[v].code > info[v].lastDownloaded
       THEN /\ info' = Recorded(v, result[v].code)
            /\ Truncate("raise", "rewrite")
       ELSE /\ pc' = "download"
            /\ UNCHANGED <<info, disk>>
    /\ UNCHANGED <<storeVars, left, result, dirty, announceVars, torn, jobVars, crashes>>

Raised ==
    /\ pc = "rewrite"
    /\ disk = info
    /\ pc' = "download"
    /\ UNCHANGED <<storeVars, disk, info, left, at, result, dirty, announceVars, torn, jobVars, crashes>>

Downloaded ==
    /\ pc = "download" /\ left = {}
    /\ pc' = "wait"
    /\ result' = [v \in Variants |-> NoResult]
    /\ UNCHANGED <<storeVars, disk, info, left, at, dirty, announceVars, torn, jobVars, crashes>>

\* Ten minutes pass, or requestForceCheck notifies: without a predicate the
\* two are the same, and a notification at any other point has no effect.
Wake ==
    /\ pc = "wait"
    /\ pc' = "check" /\ left' = Variants /\ dirty' = FALSE
    /\ UNCHANGED <<storeVars, disk, info, at, result, announceVars, torn, jobVars, crashes>>

-----------------------------------------------------------------------------
Visit(v) == CheckFails(v) \/ CheckAnswers(v) \/ DetailsAnswer(v) \/ WritePart(v)
            \/ Announce(v) \/ RegisterJob(v) \/ NoLinks(v) \/ Raise(v)

Loop == Start \/ Checked \/ Save \/ Saved \/ Announced \/ Raised \/ Downloaded \/ Wake

Store(v) == PageFollows(v) \/ \E c \in Versions : Release(v, c)

Next == Loop \/ Crash \/ \E v \in Variants : Visit(v) \/ Store(v)

Spec == Init /\ [][Next]_vars

\* The thread runs, someone restarts the process, details catches up, and a
\* request that is made again and again is answered now and then.
Fairness ==
    /\ WF_vars(Loop) /\ WF_vars(\E v \in Variants : Visit(v))
    /\ \A v \in Variants : WF_vars(PageFollows(v)) /\ SF_vars(CheckAnswers(v))

FairSpec == Spec /\ Fairness

-----------------------------------------------------------------------------
(***************************************************************************)
(* Properties.                                                             *)
(***************************************************************************)

\* An announcement names a version by its own string, although code and
\* string come from two requests and the string kept from an earlier check
\* may belong to another version.
AnnouncedByItsName == \A v \in Variants : last[v].string = last[v].code

\* Between two announcements of one version the store answered another one:
\* a crash does not repeat an announcement, unless it tore the file.
NoRepeatedAnnouncement ==
    [][\A v \in Variants : Announce(v) =>
        result[v].code # last[v].code \/ moved[v] \/ torn]_vars

\* A version that is recorded as downloaded, in memory or on disk, had a job
\* registered for it before, or the store had no links for it.
DownloadedMeansQueued ==
    \A v \in Variants : \A i \in {info[v], disk[v]} :
        i.lastDownloaded # None => i.lastDownloaded \in jobs[v] \cup barren[v]

\* A second job for a version has a cause: a crash before the first one was
\* recorded, or a store that rolled back below what was downloaded.
SecondJobHasACause ==
    [][\A v \in Variants : RegisterJob(v) /\ result[v].code \in jobs[v] =>
        crashes > 0 \/ result[v].code < info[v].lastDownloaded]_vars

\* A version the store keeps is recorded as downloaded in the end.
DownloadedInTheEnd ==
    \A v \in Variants, c \in Versions :
        <>[](bulk[v] = c) => <>(disk[v].lastDownloaded >= c)

\* "we don't have the version string yet; check it again later": a new version
\* that was put off for want of its string is announced once both requests
\* agree on it for good.
CheckedAgainLater ==
    \A v \in Variants, c \in Versions :
        <>[](c \in skipped[v] /\ bulk[v] = c /\ page[v] = c) => <>(c \in announced[v])

-----------------------------------------------------------------------------
(***************************************************************************)
(* The inductive invariant behind AnnouncedByItsName, DownloadedMeansQueued*)
(* and the two action properties.                                          *)
(***************************************************************************)
Settled(v) == ~(pc = "details" /\ v \in at)     \* its check is complete
Loop3      == {"download", "raise", "rewrite"}

\* The results of a round: none before the check, a new version is the one in
\* info and carries its own name once its check is complete.
ResultsInv ==
    \A v \in Variants :
        /\ result[v].new \/ result[v].get =>
                pc \notin {"off", "wait"} /\ ~(pc \in {"check", "details"} /\ v \in left)
                /\ result[v].code \in Versions
        /\ result[v].new => result[v].code = info[v].code
        /\ result[v].new /\ Settled(v) => result[v].string = result[v].code

\* What the loops visit.
LoopsInv ==
    /\ \A v, w \in at : v = w
    /\ pc = "details" => \A v \in at : result[v].new /\ v \notin left
    /\ pc = "callbacks" => disk = info /\ \A v \in left : result[v].new
    /\ pc \in Loop3 => \A v \in left : result[v].get
    /\ pc = "raise" => \A v \in at :
            v \notin left /\ result[v].code \in jobs[v] \cup barren[v]

\* Nobody moved since the last announcement: it is what info and disk say.
FreshInv ==
    \A v \in Variants : ~torn /\ ~moved[v] =>
        /\ pc # "off" => info[v].code = last[v].code
        /\ pc \notin {"write", "rewrite"} => disk[v].code = last[v].code

\* A new version that waits for its announcement is not the last one again.
PendingInv ==
    \A v \in Variants :
        result[v].new /\ (pc \in {"check", "details", "save", "write"}
                          \/ (pc = "callbacks" /\ v \in left))
            => result[v].code # last[v].code \/ moved[v] \/ torn

\* A version that waits for its download is not the recorded one.
WaitingInv ==
    \A v \in Variants : result[v].get /\ (pc \in Loop3 => v \in left)
        => result[v].code # info[v].lastDownloaded

\* Without a crash no job is for a higher version than the recorded one, but
\* for the one that is recorded next.
JobsInv ==
    crashes = 0 => \A v \in Variants : \A c \in jobs[v] :
        \/ pc # "off" /\ c <= info[v].lastDownloaded
        \/ pc = "raise" /\ v \in at /\ c = result[v].code

ApkInv ==
    /\ TypeOK /\ ResultsInv /\ LoopsInv /\ AnnouncedByItsName /\ DownloadedMeansQueued
    /\ FreshInv /\ PendingInv /\ WaitingInv /\ JobsInv
=============================================================================
