------------------------------ MODULE JobSpool ------------------------------
(***************************************************************************)
(* The job spool under priv/jobs: the three directories through which the  *)
(* server (JobManager) hands work to the workers (SshJobSource and         *)
(* tool/pull_job.py, run over ssh), with no lock that both sides take.     *)
(*                                                                         *)
(*   data/<uuid>      a directory with the job's files                     *)
(*   pending/<uuid>   a symbolic link to it: the job waits for a worker    *)
(*   active/<uuid>    a symbolic link to it: a worker has the job          *)
(*                                                                         *)
(* Every step of a model action is one file operation of the code, so that *)
(* all interleavings of the server's threads, the pull scripts and the     *)
(* workers' pings are explored.  A directory scan is one step that takes   *)
(* all the names at once.  Time is abstracted to "the modification time of *)
(* the data directory is more than ten minutes old".                       *)
(***************************************************************************)
EXTENDS Naturals

CONSTANTS
    Jobs,           \* the uuids that createJob and create_job can draw
    Workers,        \* the job_worker processes
    NoJob,          \* "no uuid here"
    MaxCrashes,     \* bound: server and worker crashes in a behaviour
    MaxRequeues     \* bound: times that one job's time-out is acted upon

ASSUME SpoolAssumption ==
    /\ NoJob \notin Jobs
    /\ MaxCrashes \in Nat
    /\ MaxRequeues \in Nat

VARIABLES
    \* the file system
    data,           \* data/<uuid>: absent, being filled, complete, or a plain file
    pending,        \* the names in pending/
    active,         \* active/<uuid>: absent, a link, or a plain file
    stale,          \* jobs whose data was last modified over ten minutes ago
    \* the server
    srv,            \* down, or where the constructor is, or running
    seen,           \* actualJobs of cleanUpDataDir
    due,            \* the names cleanUpDataDir still has to delete
    building,       \* jobs that downloadAndProcessApk is filling
    tmo,            \* handleJobTimeOut, in the middle of one entry
    \* the workers
    main,           \* the main loop: off, alive, or ended by an exception
    pull,           \* pull_job: the script's steps, then the copy
    stage,          \* how far the worker is with each job it holds
    child,          \* the job that a handler is creating with create_job
    \* history
    used,           \* uuids drawn so far
    registered,     \* jobs that had a link made in pending/ by their creator
    done,           \* jobs whose handler returned
    exposed,        \* jobs caught in one of the three unprotected windows
    timedOut,       \* jobs whose active entry a time-out removed
    delivered,      \* how often a pull script took the job out of pending/
    requeued,       \* how often a time-out put the job back into pending/
    crashes         \* crashes so far

spoolVars   == <<data, pending, active, stale>>
serverVars  == <<srv, seen, due, building, tmo>>
workerVars  == <<main, pull, stage, child>>
historyVars == <<used, registered, done, exposed, timedOut, delivered, requeued, crashes>>
vars == <<spoolVars, serverVars, workerVars, historyVars>>

DataState   == {"none", "partial", "ready", "stub"}
ActiveState == {"none", "link", "file"}
ServerState == {"down", "scanActive", "sweep", "run"}
At(pc, j)   == [pc |-> pc, job |-> j]
Idle        == At("idle", NoJob)
TimeOutPC   == {Idle} \cup [pc : {"remove", "link"}, job : Jobs]
MainState   == {"off", "loop", "dead"}
PullPC      == {Idle} \cup [pc : {"link", "remove", "fetch"}, job : Jobs]
Stage       == {"none", "queued", "exec", "scp", "ln", "handled", "unlinked", "cleanup", "leftover"}

TypeOK ==
    /\ data \in [Jobs -> DataState]
    /\ pending \subseteq Jobs
    /\ active \in [Jobs -> ActiveState]
    /\ stale \subseteq Jobs
    /\ srv \in ServerState
    /\ seen \subseteq Jobs
    /\ due \subseteq Jobs
    /\ building \subseteq Jobs
    /\ tmo \in TimeOutPC
    /\ main \in [Workers -> MainState]
    /\ pull \in [Workers -> PullPC]
    /\ stage \in [Workers -> [Jobs -> Stage]]
    /\ child \in [Workers -> [Jobs -> Jobs \cup {NoJob}]]
    /\ \A w \in Workers, j \in Jobs : child[w][j] # NoJob <=> stage[w][j] \in {"scp", "ln"}
    /\ used \subseteq Jobs
    /\ registered \subseteq Jobs
    /\ done \subseteq Jobs
    /\ exposed \subseteq Jobs
    /\ timedOut \subseteq Jobs
    /\ delivered \in [Jobs -> Nat]
    /\ requeued \in [Jobs -> Nat]
    /\ crashes \in Nat

\* The jobs that a worker's ping thread holds: add_job is the first thing
\* execute does, remove_job the last.
Pinged == {"exec", "scp", "ln", "handled", "unlinked", "cleanup"}

\* The uuids that some handler is uploading files for.
Uploads == {k \in Jobs : \E w \in Workers, j \in Jobs : child[w][j] = k}

Init ==
    /\ data = [j \in Jobs |-> "none"]
    /\ pending = {} /\ stale = {}
    /\ active = [j \in Jobs |-> "none"]
    /\ srv = "down" /\ seen = {} /\ due = {} /\ building = {} /\ tmo = Idle
    /\ main = [w \in Workers |-> "off"]
    /\ pull = [w \in Workers |-> Idle]
    /\ stage = [w \in Workers |-> [j \in Jobs |-> "none"]]
    /\ child = [w \in Workers |-> [j \in Jobs |-> NoJob]]
    /\ used = {} /\ registered = {} /\ done = {} /\ exposed = {} /\ timedOut = {}
    /\ delivered = [j \in Jobs |-> 0]
    /\ requeued = [j \in Jobs |-> 0]
    /\ crashes = 0

-----------------------------------------------------------------------------
(***************************************************************************)
(* The server's constructor: cleanUpDataDir.                               *)
(***************************************************************************)

\* Reads pending/.  Uploads that are under way from here on overlap the
\* start-up: their data may be deleted before their link exists.
ScanPending ==
    /\ srv = "down"
    /\ srv' = "scanActive"
    /\ seen' = pending
    /\ exposed' = exposed \cup Uploads
    /\ UNCHANGED <<spoolVars, due, building, tmo, workerVars>>
    /\ UNCHANGED <<used, registered, done, timedOut, delivered, requeued, crashes>>

\* Mutant: what is active is not looked at.
ScanActiveNothing ==
    /\ srv = "scanActive"
    /\ srv' = "sweep"
    /\ due' = {j \in Jobs : data[j] # "none"} \ seen
    /\ UNCHANGED <<spoolVars, seen, building, tmo, workerVars, historyVars>>

\* Mutant: only directories with a job.json are deleted.
ScanActiveReadyOnly ==
    /\ srv = "scanActive"
    /\ srv' = "sweep"
    /\ seen' = seen \cup {j \in Jobs : active[j] # "none"}
    /\ due' = {j \in Jobs : data[j] = "ready"} \ seen'
    /\ UNCHANGED <<spoolVars, building, tmo, workerVars, historyVars>>

\* Reads active/, then opens data/.
ScanActive ==
    /\ srv = "scanActive"
    /\ srv' = "sweep"
    /\ seen' = seen \cup {j \in Jobs : active[j] # "none"}
    /\ due' = {j \in Jobs : data[j] # "none"} \ seen'
    /\ UNCHANGED <<spoolVars, building, tmo, workerVars, historyVars>>

\* deleteDir of one entry, its files: from the first one on the job is not
\* complete any more.
SweepFile(j) ==
    /\ srv = "sweep"
    /\ j \in due
    /\ data[j] = "ready"
    /\ data' = [data EXCEPT ![j] = "partial"]
    /\ stale' = stale \ {j}
    /\ UNCHANGED <<pending, active, serverVars, workerVars, historyVars>>

\* And the directory, unless an upload has just put another file there.  When
\* the name is a plain file, or a worker removed the directory since data/ was
\* listed, openat(O_DIRECTORY) fails and readdir is handed a null stream: the
\* server dies.
SweepDelete(j) ==
    /\ srv = "sweep"
    /\ j \in due
    /\ data[j] # "ready"
    /\ due' = due \ {j}
    /\ IF data[j] = "partial"
       THEN /\ data' \in {[data EXCEPT ![j] = "none"]} \cup IF j \in Uploads THEN {data} ELSE {}
            /\ UNCHANGED srv
       ELSE /\ srv' = "down"
            /\ UNCHANGED data
    /\ UNCHANGED <<pending, active, stale, seen, building, tmo, workerVars, historyVars>>

SweepDone ==
    /\ srv = "sweep"
    /\ due = {}
    /\ srv' = "run"
    /\ UNCHANGED <<spoolVars, seen, due, building, tmo, workerVars, historyVars>>

(***************************************************************************)
(* The server's job creation.  ApkManager's thread and Discord's           *)
(* !force_download_arm both run it, so several drafts may be open at once. *)
(***************************************************************************)

CreateJob(j) ==
    /\ srv = "run"
    /\ j \notin used
    /\ used' = used \cup {j}
    /\ building' = building \cup {j}
    /\ data' = [data EXCEPT ![j] = "partial"]
    /\ UNCHANGED <<pending, active, stale, srv, seen, due, tmo, workerVars>>
    /\ UNCHANGED <<registered, done, exposed, timedOut, delivered, requeued, crashes>>

\* All the apks are there and job.json is written.
WriteJobDesc(j) ==
    /\ j \in building
    /\ data[j] = "partial"
    /\ data' = [data EXCEPT ![j] = "ready"]
    /\ stale' = stale \ {j}
    /\ UNCHANGED <<pending, active, serverVars, workerVars, historyVars>>

\* symlink into pending/.
LinkPending(j) ==
    /\ j \in building
    /\ data[j] = "ready"
    /\ building' = building \ {j}
    /\ pending' = pending \cup {j}
    /\ registered' = registered \cup {j}
    /\ UNCHANGED <<data, active, stale, srv, seen, due, tmo, workerVars>>
    /\ UNCHANGED <<used, done, exposed, timedOut, delivered, requeued, crashes>>

\* A download throws after createJob: nobody refers to the directory again.
AbandonDraft(j) ==
    /\ j \in building
    /\ data[j] = "partial"
    /\ building' = building \ {j}
    /\ UNCHANGED <<spoolVars, srv, seen, due, tmo, workerVars, historyVars>>

(***************************************************************************)
(* handleJobTimeOut, which takes no lock that the pull script knows of.    *)
(***************************************************************************)

\* Mutant: the comparison of the ages is the other way round.
TimeOutCheckFresh(j) ==
    /\ srv = "run" /\ tmo.pc = "idle"
    /\ active[j] = "link" /\ data[j] # "none" /\ j \notin stale
    /\ requeued[j] < MaxRequeues
    /\ tmo' = At("remove", j)
    /\ UNCHANGED <<spoolVars, srv, seen, due, building, workerVars, historyVars>>

\* stat follows the link, so the age is that of the data directory; readlink
\* fails on a plain file, which is left alone.
TimeOutCheck(j) ==
    /\ srv = "run"
    /\ tmo.pc = "idle"
    /\ active[j] = "link"
    /\ data[j] # "none"
    /\ j \in stale
    /\ requeued[j] < MaxRequeues
    /\ tmo' = At("remove", j)
    /\ UNCHANGED <<spoolVars, srv, seen, due, building, workerVars, historyVars>>

TimeOutRemove ==
    /\ tmo.pc = "remove"
    /\ tmo' = At("link", tmo.job)
    /\ active' = [active EXCEPT ![tmo.job] = "none"]
    /\ timedOut' = timedOut \cup {tmo.job}
    /\ UNCHANGED <<data, pending, stale, srv, seen, due, building, workerVars>>
    /\ UNCHANGED <<used, registered, done, exposed, delivered, requeued, crashes>>

\* A pull script holds the job's name and is about to remove it from pending/.
HalfPulled(j) == \E w \in Workers : pull[w] = At("remove", j)

\* symlink's result is ignored: when the name is still in pending/ nothing
\* happens, and if a half-done pull then removes it the job has no link left.
TimeOutLink ==
    /\ tmo.pc = "link"
    /\ tmo' = Idle
    /\ IF tmo.job \in pending
       THEN /\ exposed' = IF HalfPulled(tmo.job) /\ active[tmo.job] # "link"
                          THEN exposed \cup {tmo.job} ELSE exposed
            /\ UNCHANGED <<pending, requeued>>
       ELSE /\ pending' = pending \cup {tmo.job}
            /\ requeued' = [requeued EXCEPT ![tmo.job] = @ + 1]
            /\ UNCHANGED exposed
    /\ UNCHANGED <<data, active, stale, srv, seen, due, building, workerVars>>
    /\ UNCHANGED <<used, registered, done, timedOut, delivered, crashes>>

\* The process ends (std::terminate, a kill, a power cut): drafts are lost,
\* and so is a job whose links were both removed at this moment.
ServerCrash ==
    /\ srv # "down"
    /\ crashes < MaxCrashes
    /\ crashes' = crashes + 1
    /\ srv' = "down" /\ building' = {} /\ tmo' = Idle
    /\ exposed' = IF tmo.pc = "link" THEN exposed \cup {tmo.job} ELSE exposed
    /\ UNCHANGED <<spoolVars, seen, due, workerVars>>
    /\ UNCHANGED <<used, registered, done, timedOut, delivered, requeued>>

-----------------------------------------------------------------------------
(***************************************************************************)
(* A worker pulls a job: tool/pull_job.py under priv/jobs/lock, then scp.  *)
(***************************************************************************)

\* Mutant: the script takes no lock.
LockNotTaken == TRUE

\* lockf: at most one script is between listdir and its exit.
LockFree == \A w \in Workers : pull[w].pc \notin {"link", "remove"}

PullPick(w, j) ==
    /\ main[w] = "loop"
    /\ pull[w].pc = "idle"
    /\ LockFree
    /\ j \in pending
    /\ pull' = [pull EXCEPT ![w] = At("link", j)]
    /\ UNCHANGED <<spoolVars, serverVars, main, stage, child, historyVars>>

\* os.symlink.
PullLink(w) ==
    /\ pull[w].pc = "link"
    /\ active[pull[w].job] = "none"
    /\ active' = [active EXCEPT ![pull[w].job] = "link"]
    /\ pull' = [pull EXCEPT ![w] = At("remove", @.job)]
    /\ UNCHANGED <<data, pending, stale, serverVars, main, stage, child, historyVars>>

\* FileExistsError ends the script, check_returncode raises and nothing in
\* run_main_loop catches it.
PullLinkExists(w) ==
    /\ pull[w].pc = "link"
    /\ active[pull[w].job] # "none"
    /\ main' = [main EXCEPT ![w] = "dead"]
    /\ pull' = [pull EXCEPT ![w] = Idle]
    /\ UNCHANGED <<spoolVars, serverVars, stage, child, historyVars>>

PullRemove(w) ==
    /\ pull[w].pc = "remove"
    /\ pending' = pending \ {pull[w].job}
    /\ delivered' = [delivered EXCEPT ![pull[w].job] = @ + 1]
    /\ pull' = [pull EXCEPT ![w] = At("fetch", @.job)]
    /\ UNCHANGED <<data, active, stale, serverVars, main, stage, child>>
    /\ UNCHANGED <<used, registered, done, exposed, timedOut, requeued, crashes>>

\* scp of the whole directory to <tmp_root>/<uuid>, handed to the pool.  A
\* plain file is copied as well; execute cannot open its job.json.
Fetch(w) ==
    LET j == pull[w].job IN
    /\ pull[w].pc = "fetch"
    /\ stage[w][j] = "none"
    /\ data[j] # "none"
    /\ pull' = [pull EXCEPT ![w] = Idle]
    /\ stage' = [stage EXCEPT ![w][j] = IF data[j] = "stub" THEN "cleanup" ELSE "queued"]
    /\ UNCHANGED <<spoolVars, serverVars, main, child, historyVars>>

\* scp fails, or the local directory exists already: pull_job returns None,
\* and unpacking None ends the main loop.
FetchFail(w) ==
    /\ pull[w].pc = "fetch"
    /\ pull' = [pull EXCEPT ![w] = Idle]
    /\ main' = [main EXCEPT ![w] = "dead"]
    /\ UNCHANGED <<spoolVars, serverVars, stage, child, historyVars>>

-----------------------------------------------------------------------------
(***************************************************************************)
(* A worker executes a job it fetched.  The pool's threads go on after the *)
(* main loop has ended.                                                    *)
(***************************************************************************)

SetStage(w, j, s) == stage' = [stage EXCEPT ![w][j] = s]

\* A pool thread takes the job: add_job, then the handler.
Start(w, j) ==
    /\ stage[w][j] = "queued"
    /\ SetStage(w, j, "exec")
    /\ UNCHANGED <<spoolVars, serverVars, main, pull, child, historyVars>>

\* create_job: scp to data/<fresh uuid> begins.
UploadBegin(w, j, k) ==
    /\ stage[w][j] = "exec"
    /\ k \notin used
    /\ used' = used \cup {k}
    /\ data' = [data EXCEPT ![k] = "partial"]
    /\ child' = [child EXCEPT ![w][j] = k]
    /\ SetStage(w, j, "scp")
    /\ exposed' = IF srv \in {"scanActive", "sweep"} THEN exposed \cup {k} ELSE exposed
    /\ UNCHANGED <<pending, active, stale, serverVars, main, pull>>
    /\ UNCHANGED <<registered, done, timedOut, delivered, requeued, crashes>>

\* scp returns; a start-up of the server may have deleted some of the files.
UploadEnd(w, j) ==
    LET k == child[w][j] IN
    /\ stage[w][j] = "scp"
    /\ data' \in {IF data[k] = "partial" THEN [data EXCEPT ![k] = "ready"] ELSE data}
                  \cup IF k \in exposed THEN {data} ELSE {}
    /\ stale' = stale \ {k}
    /\ SetStage(w, j, "ln")
    /\ UNCHANGED <<pending, active, serverVars, main, pull, child, historyVars>>

\* Mutant: the link is made while the copy is still under way.
UploadRegisterEarly(w, j) ==
    /\ stage[w][j] \in {"scp", "ln"}
    /\ pending' = pending \cup {child[w][j]}
    /\ registered' = registered \cup {child[w][j]}
    /\ child' = [child EXCEPT ![w][j] = NoJob]
    /\ SetStage(w, j, "exec")
    /\ UNCHANGED <<data, active, stale, serverVars, main, pull>>
    /\ UNCHANGED <<used, done, exposed, timedOut, delivered, requeued, crashes>>

\* ln -s into pending/; the handler goes on.
UploadRegister(w, j) ==
    /\ stage[w][j] = "ln"
    /\ pending' = pending \cup {child[w][j]}
    /\ registered' = registered \cup {child[w][j]}
    /\ child' = [child EXCEPT ![w][j] = NoJob]
    /\ SetStage(w, j, "exec")
    /\ UNCHANGED <<data, active, stale, serverVars, main, pull>>
    /\ UNCHANGED <<used, done, exposed, timedOut, delivered, requeued, crashes>>

HandlerOk(w, j) ==
    /\ stage[w][j] = "exec"
    /\ done' = done \cup {j}
    /\ SetStage(w, j, "handled")
    /\ UNCHANGED <<spoolVars, serverVars, main, pull, child>>
    /\ UNCHANGED <<used, registered, exposed, timedOut, delivered, requeued, crashes>>

\* Mutant: delete_job is reached by a failed handler as well.
HandlerFailDeletes(w, j) ==
    /\ stage[w][j] \in {"exec", "scp", "ln"}
    /\ child' = [child EXCEPT ![w][j] = NoJob]
    /\ SetStage(w, j, "handled")
    /\ UNCHANGED <<spoolVars, serverVars, main, pull, historyVars>>

\* The handler, or an upload inside it, raises.
HandlerFail(w, j) ==
    /\ stage[w][j] \in {"exec", "scp", "ln"}
    /\ child' = [child EXCEPT ![w][j] = NoJob]
    /\ SetStage(w, j, "cleanup")
    /\ UNCHANGED <<spoolVars, serverVars, main, pull, historyVars>>

\* delete_job, first command: rm fails when the entry is not there, and then
\* the data stays.
DeleteLink(w, j) ==
    /\ stage[w][j] = "handled"
    /\ active' = [active EXCEPT ![j] = "none"]
    /\ SetStage(w, j, IF active[j] = "none" THEN "cleanup" ELSE "unlinked")
    /\ UNCHANGED <<data, pending, stale, serverVars, main, pull, child, historyVars>>

\* delete_job, second command: rm -rf.
DeleteData(w, j) ==
    /\ stage[w][j] = "unlinked"
    /\ data' = [data EXCEPT ![j] = "none"]
    /\ SetStage(w, j, "cleanup")
    /\ UNCHANGED <<pending, active, stale, serverVars, main, pull, child, historyVars>>

\* Either ssh command fails; execute logs it and goes on.
DeleteFail(w, j) ==
    /\ stage[w][j] \in {"handled", "unlinked"}
    /\ SetStage(w, j, "cleanup")
    /\ UNCHANGED <<spoolVars, serverVars, main, pull, child, historyVars>>

\* rmtree, whose failure leaves the local directory behind, then remove_job.
Cleanup(w, j) ==
    /\ stage[w][j] = "cleanup"
    /\ \E s \in {"none", "leftover"} : SetStage(w, j, s)
    /\ UNCHANGED <<spoolVars, serverVars, main, pull, child, historyVars>>

\* touch active/<uuid>: through a link it refreshes the data directory, or
\* creates a plain file where the directory was; without a link it creates a
\* plain file in active/.
Ping(w, j) ==
    /\ stage[w][j] \in Pinged
    /\ stale' = IF active[j] = "link" THEN stale \ {j} ELSE stale
    /\ data' = IF active[j] = "link" /\ data[j] = "none"
               THEN [data EXCEPT ![j] = "stub"] ELSE data
    /\ active' = IF active[j] = "none" THEN [active EXCEPT ![j] = "file"] ELSE active
    /\ UNCHANGED <<pending, serverVars, workerVars, historyVars>>

\* The worker process ends with everything it held.
WorkerStop(w) ==
    /\ main' = [main EXCEPT ![w] = "off"]
    /\ pull' = [pull EXCEPT ![w] = Idle]
    /\ stage' = [stage EXCEPT ![w] = [j \in Jobs |-> "none"]]
    /\ child' = [child EXCEPT ![w] = [j \in Jobs |-> NoJob]]

WorkerCrash(w) ==
    /\ main[w] # "off"
    /\ crashes < MaxCrashes
    /\ crashes' = crashes + 1
    /\ WorkerStop(w)
    /\ UNCHANGED <<spoolVars, serverVars>>
    /\ UNCHANGED <<used, registered, done, exposed, timedOut, delivered, requeued>>

\* main.py empties tmp_root, so a new process starts with nothing.  A process
\* whose main loop ended is first killed by its operator.
WorkerStart(w) ==
    /\ main[w] = "off"
    /\ main' = [main EXCEPT ![w] = "loop"]
    /\ UNCHANGED <<spoolVars, serverVars, pull, stage, child, historyVars>>

WorkerKilled(w) ==
    /\ main[w] = "dead"
    /\ WorkerStop(w)
    /\ UNCHANGED <<spoolVars, serverVars, historyVars>>

\* Ten minutes pass without a change to the data directory.
Age(j) ==
    /\ j \in registered \ stale
    /\ data[j] # "none"
    /\ stale' = stale \cup {j}
    /\ UNCHANGED <<data, pending, active, serverVars, workerVars, historyVars>>

-----------------------------------------------------------------------------
Startup == ScanPending \/ ScanActive \/ SweepDone \/ \E j \in Jobs : SweepFile(j) \/ SweepDelete(j)

Drafting(j) == CreateJob(j) \/ WriteJobDesc(j) \/ LinkPending(j) \/ AbandonDraft(j)

TimeOuts == TimeOutRemove \/ TimeOutLink \/ \E j \in Jobs : TimeOutCheck(j)

Pulling(w) == PullLink(w) \/ PullLinkExists(w) \/ PullRemove(w) \/ Fetch(w)
              \/ FetchFail(w) \/ \E j \in Jobs : PullPick(w, j)

Uploading(w, j) == UploadEnd(w, j) \/ UploadRegister(w, j)
                   \/ \E k \in Jobs : UploadBegin(w, j, k)

Executing(w, j) == Start(w, j) \/ HandlerOk(w, j) \/ HandlerFail(w, j) \/ DeleteLink(w, j)
                   \/ DeleteData(w, j) \/ DeleteFail(w, j) \/ Cleanup(w, j) \/ Ping(w, j)

Lifecycle(w) == WorkerCrash(w) \/ WorkerStart(w) \/ WorkerKilled(w)

Next ==
    \/ Startup \/ TimeOuts \/ ServerCrash
    \/ \E j \in Jobs : Drafting(j) \/ Age(j)
    \/ \E w \in Workers : Pulling(w) \/ Lifecycle(w)
    \/ \E w \in Workers, j \in Jobs : Uploading(w, j) \/ Executing(w, j)

Spec == Init /\ [][Next]_vars

\* Somebody starts the server again, its start-up and time-out thread run, and
\* time passes.  Nothing is assumed of any worker.
Fairness ==
    /\ WF_vars(Startup)
    /\ \A j \in Jobs : WF_vars(Age(j)) /\ WF_vars(TimeOutCheck(j))
    /\ WF_vars(TimeOutRemove) /\ WF_vars(TimeOutLink)

FairSpec == Spec /\ Fairness

-----------------------------------------------------------------------------
(***************************************************************************)
(* Properties.                                                             *)
(***************************************************************************)

\* The spool still offers the job to some worker: it waits, or it is active
\* and a time-out will requeue it, or the time-out is doing so.
Offered(j) == j \in pending \/ active[j] = "link" \/ tmo = At("link", j)

Live == registered \ (done \cup exposed)

\* No job is lost silently: until some handler has returned for it, a
\* registered job is offered and its files are complete, whatever crashes,
\* time-outs and pulls overlap - except in three windows, see exposed: an
\* upload that overlaps the server's start-up (ScanPending, UploadBegin), a
\* time-out that meets a half-done pull (TimeOutLink), and the server's death
\* between remove and symlink (ServerCrash).
NoSilentLoss == \A j \in Live : Offered(j) /\ data[j] = "ready"

\* At-least-once, with every extra delivery paid for: a job is taken out of
\* pending/ once per registration and once per time-out that put it back.
DeliveriesAccounted ==
    \A j \in Jobs :
        delivered[j] + (IF j \in pending THEN 1 ELSE 0)
            = (IF j \in registered THEN 1 ELSE 0) + requeued[j]

\* A plain file appears in active/ only for a job whose link a time-out or a
\* finished worker removed while another ping was still to come, and in data/
\* only for a job whose handler returned or whose upload overlapped a start-up.
GhostsHaveACause ==
    \A j \in Jobs :
        /\ active[j] = "file" => j \in timedOut \cup done
        /\ data[j] = "stub" => j \in done \cup exposed

\* Nobody works on the job, yet it is active.
Abandoned(j) ==
    /\ active[j] = "link"
    /\ data[j] # "none"
    /\ requeued[j] < MaxRequeues
    /\ \A w \in Workers : stage[w][j] \notin Pinged

\* The server died on a plain file in data/ and will do so at every start.
CrashLoop == \E k \in Jobs : data[k] = "stub"

\* An abandoned job (a worker died, or its main loop did, or it gave up) does
\* not stay active for ever: the time-out thread takes it back, or a worker
\* goes on with it, unless the server cannot start any more.
AbandonedJobReturns == \A j \in Jobs : Abandoned(j) ~> (~Abandoned(j) \/ CrashLoop)

\* Files that no link refers to and nobody is about to register.
Orphan(j) ==
    /\ data[j] \in {"partial", "ready"}
    /\ j \notin pending \cup building \cup Uploads
    /\ active[j] # "link"

\* A late ping's plain file in active/ has the name: every start counts it as a
\* reference, and no time-out removes it.  Only the files of a job that some
\* handler finished, or that one of the three windows caught, get there.
KeptByGhost(j) == active[j] = "file" /\ j \in done \cup exposed

\* What a failed download, a failed upload or a worker that died in the
\* middle of delete_job left behind is reclaimed by the next start, with one
\* exception: a finished or exposed job's files behind a ghost in active/.
OrphansReclaimed ==
    \A j \in Jobs : (srv = "down" /\ Orphan(j)) ~> (~Orphan(j) \/ CrashLoop \/ KeptByGhost(j))
-----------------------------------------------------------------------------
(***************************************************************************)
(* The inductive invariant.                                                *)
(***************************************************************************)

\* Only jobs that were registered have links; drafts and uploads are private
\* to the one that fills them.
Ownership ==
    /\ pending \subseteq registered
    /\ \A j \in Jobs : active[j] = "link" => j \in registered
    /\ registered \subseteq used
    /\ building \subseteq used \ registered
    /\ \A w \in Workers, j \in Jobs :
        /\ child[w][j] # NoJob => child[w][j] \in used \ (registered \cup building)
        /\ \A v \in Workers, i \in Jobs :
            child[w][j] = child[v][i] /\ child[w][j] # NoJob => w = v /\ j = i

\* What an upload has copied is there, unless the upload is exposed.
UploadData ==
    \A w \in Workers, j \in Jobs :
        child[w][j] # NoJob /\ child[w][j] \notin exposed =>
            data[child[w][j]] = IF stage[w][j] = "scp" THEN "partial" ELSE "ready"

\* The lock serialises the scripts, and only a script empties pending/.  Once
\* a script has linked a live job, the active link is there or a time-out is
\* about to put the pending one back.
PullState ==
    \A w \in Workers :
        /\ pull[w].pc # "idle" => pull[w].job \in registered
        /\ pull[w].pc \in {"link", "remove"} =>
            /\ pull[w].job \in pending
            /\ \A v \in Workers : pull[v].pc \in {"link", "remove"} => v = w
        /\ pull[w].pc = "remove" /\ pull[w].job \in Live =>
            active[pull[w].job] = "link" \/ tmo = At("link", pull[w].job)

\* A job some worker has taken keeps its entry in active/ until a time-out or
\* a finished worker removes it.
Taken(w, j) == stage[w][j] # "none" \/ (pull[w].pc \in {"remove", "fetch"} /\ pull[w].job = j)

HolderState ==
    \A w \in Workers, j \in Jobs :
        /\ stage[w][j] # "none" => j \in registered
        /\ stage[w][j] \in {"handled", "unlinked"} => j \in done
        /\ stage[w][j] # "none" \/ pull[w] = At("fetch", j) => delivered[j] > 0
        /\ Taken(w, j) => active[j] # "none" \/ j \in timedOut \cup done

\* Where the server's start-up has got to, live jobs are in what it has read
\* or will still be there when it reads on.
StartupState ==
    /\ tmo.pc # "idle" => tmo.job \in registered
    /\ srv # "run" => tmo = Idle /\ building = {}
    /\ srv \in {"scanActive", "sweep"} =>
        \A w \in Workers, j \in Jobs : child[w][j] # NoJob => child[w][j] \in exposed
    /\ srv = "scanActive" => \A j \in Live : j \in seen \/ active[j] = "link"
    /\ srv = "sweep" => Live \subseteq seen /\ due \cap seen = {}

SpoolInv ==
    /\ TypeOK /\ Ownership /\ UploadData /\ PullState /\ HolderState /\ StartupState
    /\ NoSilentLoss /\ DeliveriesAccounted /\ GhostsHaveACause

-----------------------------------------------------------------------------
(***************************************************************************)
(* The refinement: the links are the places of an at-least-once queue.     *)
(***************************************************************************)

\* A job that a time-out is moving still counts as taken: the link it removes
\* first is the one it had, and the one it makes last is the one it gets.
Place(j) ==
    IF j \in pending THEN "waiting"
    ELSE IF active[j] = "link" \/ tmo.job = j THEN "taken"
    ELSE IF j \in registered THEN "gone" ELSE "none"

Queue == INSTANCE JobQueue WITH
    where    <- [j \in Jobs |-> Place(j)],
    files    <- {j \in registered : data[j] = "ready"},
    out      <- delivered,
    back     <- requeued,
    finished <- done,
    lost     <- exposed

\* The directories, links, scripts, pings and crashes above implement the
\* queue: whatever overlaps, every file operation is a step of JobQueue or
\* none of its business.
ImplementsQueue == Queue!Spec
=============================================================================
