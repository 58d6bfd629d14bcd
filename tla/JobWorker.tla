----------------------------- MODULE JobWorker -----------------------------
(***************************************************************************)
(* The inside of one job worker: the main loop with its list of futures    *)
(* (JobPoolExecutor), the pool's threads (JobExecutor.execute), and the    *)
(* ping thread with its lock (JobPingThread).  The spool is seen from here *)
(* only: it may hand out any job at any time, the same one again included, *)
(* because a time-out may have taken it back (module JobSpool).            *)
(*                                                                         *)
(* An execution is one call of submit, numbered in the order of the calls. *)
(***************************************************************************)
EXTENDS Naturals, FiniteSets

CONSTANTS
    Jobs,           \* uuids that the spool hands out
    NoJob,          \* "no uuid here"
    MaxJobs,        \* max_jobs of JobPoolExecutor
    MaxPulls        \* bound: executions in a behaviour

ASSUME WorkerAssumption ==
    /\ NoJob \notin Jobs
    /\ MaxJobs \in Nat \ {0}
    /\ MaxPulls \in Nat

VARIABLES
    main,           \* the main loop
    pulled,         \* the job that pull_job has returned, not yet submitted
    futures,        \* self.futures, as a set of executions
    job,            \* the job of each execution
    pc,             \* how far each execution is
    lock,           \* JobPingThread.lock: free, held during a round, or for ever
    pinger,         \* the ping thread
    jobs,           \* its set
    left,           \* the jobs that this round has not pinged
    stop,           \* stop_event
    dirs,           \* the directories in tmp_root
    again           \* history: jobs fetched once more before their remove_job

mainVars == <<main, pulled, futures>>
pingVars == <<lock, pinger, jobs, left, stop>>
vars == <<mainVars, job, pc, pingVars, dirs, again>>

Executions == 1 .. MaxPulls
Working    == {"adding", "handler", "rmtree", "removing"}

TypeOK ==
    /\ main \in {"test", "filter", "pull", "submit", "dead", "shutdown", "ended"}
    /\ pulled \in Jobs \cup {NoJob}
    /\ futures \subseteq Executions
    /\ job \in [Executions -> Jobs \cup {NoJob}]
    /\ pc \in [Executions -> {"none", "pending", "done"} \cup Working]
    /\ lock \in {"free", "round", "lost"}
    /\ pinger \in {"waiting", "pinging", "dead", "stopped"}
    /\ jobs \subseteq Jobs /\ left \subseteq jobs
    /\ stop \in BOOLEAN
    /\ dirs \subseteq Jobs /\ again \subseteq Jobs

Init ==
    /\ main = "test" /\ pulled = NoJob /\ futures = {}
    /\ job = [n \in Executions |-> NoJob]
    /\ pc = [n \in Executions |-> "none"]
    /\ lock = "free" /\ pinger = "waiting" /\ jobs = {} /\ left = {} /\ stop = FALSE
    /\ dirs = {} /\ again = {}

Submitted  == {n \in Executions : pc[n] # "none"}
Unfinished == {n \in Submitted : pc[n] # "done"}
Running    == {n \in Submitted : pc[n] \in Working}        \* future.running()

-----------------------------------------------------------------------------
(***************************************************************************)
(* The main loop.                                                          *)
(***************************************************************************)
\* Mutant: only the futures that run are counted.
TestRunning ==
    /\ main = "test"
    /\ main' = IF Cardinality(futures \cap Running) >= MaxJobs THEN "filter" ELSE "pull"
    /\ UNCHANGED <<pulled, futures, job, pc, pingVars, dirs, again>>

Test ==
    /\ main = "test"
    /\ main' = IF Cardinality(futures) >= MaxJobs THEN "filter" ELSE "pull"
    /\ UNCHANGED <<pulled, futures, job, pc, pingVars, dirs, again>>

\* wait(FIRST_COMPLETED) returns; a future that is not running is dropped from
\* the list, whether it has ended or has not started.
Filter ==
    /\ main = "filter"
    /\ \E n \in futures : pc[n] = "done"
    /\ futures' = futures \cap Running
    /\ main' = "pull"
    /\ UNCHANGED <<pulled, job, pc, pingVars, dirs, again>>

\* Mutant: a directory that is there already is used again.
PullOverwrites(j) ==
    /\ main = "pull"
    /\ Cardinality(Submitted) < MaxPulls
    /\ dirs' = dirs \cup {j}
    /\ pulled' = j
    /\ main' = "submit"
    /\ again' = IF j \in jobs THEN again \cup {j} ELSE again
    /\ UNCHANGED <<futures, job, pc, pingVars>>

\* pull_job succeeds: the job is copied to a directory that was not there.
Pull(j) ==
    /\ main = "pull"
    /\ Cardinality(Submitted) < MaxPulls
    /\ j \notin dirs
    /\ dirs' = dirs \cup {j}
    /\ pulled' = j
    /\ main' = "submit"
    /\ again' = IF j \in jobs THEN again \cup {j} ELSE again
    /\ UNCHANGED <<futures, job, pc, pingVars>>

\* An exception, or None: an empty name, a directory that is there already, a
\* failed copy, which may leave a directory behind.  Nothing catches it.
PullFails ==
    /\ main = "pull"
    /\ main' = "dead"
    /\ dirs' \in {dirs} \cup {dirs \cup {j} : j \in Jobs}
    /\ UNCHANGED <<pulled, futures, job, pc, pingVars, again>>

Submit ==
    LET n == Cardinality(Submitted) + 1 IN
    /\ main = "submit"
    /\ job' = [job EXCEPT ![n] = pulled]
    /\ pc' = [pc EXCEPT ![n] = "pending"]
    /\ futures' = futures \cup {n}
    /\ pulled' = NoJob
    /\ main' = "test"
    /\ UNCHANGED <<pingVars, dirs, again>>

\* KeyboardInterrupt; what was pulled at that moment stays active in the spool.
Interrupt ==
    /\ main \in {"test", "filter", "pull", "submit"}
    /\ main' = "shutdown"
    /\ pulled' = NoJob
    /\ UNCHANGED <<futures, job, pc, pingVars, dirs, again>>

\* executor.shutdown() waits for every execution, then the ping thread is
\* told to stop.
Shutdown ==
    /\ main = "shutdown"
    /\ Unfinished = {}
    /\ main' = "ended"
    /\ stop' = TRUE
    /\ UNCHANGED <<pulled, futures, job, pc, lock, pinger, jobs, left, dirs, again>>

-----------------------------------------------------------------------------
(***************************************************************************)
(* The pool's threads: JobExecutor.execute.                                *)
(***************************************************************************)
SetPC(n, p) == pc' = [pc EXCEPT ![n] = p]

\* A free thread takes the oldest execution.
Start(n) ==
    /\ pc[n] = "pending"
    /\ \A m \in Submitted : pc[m] = "pending" => n <= m
    /\ Cardinality(Running) < MaxJobs
    /\ SetPC(n, "adding")
    /\ UNCHANGED <<mainVars, job, pingVars, dirs, again>>

AddJob(n) ==
    /\ pc[n] = "adding"
    /\ lock = "free"
    /\ jobs' = jobs \cup {job[n]}
    /\ SetPC(n, "handler")
    /\ UNCHANGED <<mainVars, job, lock, pinger, left, stop, dirs, again>>

\* Mutant: the job is no longer pinged once its handler has ended.
HandleUnpings(n) ==
    /\ pc[n] = "handler"
    /\ lock = "free"
    /\ jobs' = jobs \ {job[n]}
    /\ SetPC(n, "rmtree")
    /\ UNCHANGED <<mainVars, job, lock, pinger, left, stop, dirs, again>>

\* The handler and delete_job, whatever comes of them.
Handle(n) ==
    /\ pc[n] = "handler"
    /\ SetPC(n, "rmtree")
    /\ UNCHANGED <<mainVars, job, pingVars, dirs, again>>

\* The directory is deleted, or that fails and is logged.
RemoveDir(n) ==
    /\ pc[n] = "rmtree"
    /\ dirs' \in {dirs, dirs \ {job[n]}}
    /\ SetPC(n, "removing")
    /\ UNCHANGED <<mainVars, job, pingVars, again>>

\* Mutant: a return before the release.
RemoveJobKeepsLock(n) ==
    /\ pc[n] = "removing"
    /\ lock = "free"
    /\ lock' = IF job[n] \in jobs /\ jobs # {job[n]} THEN "free" ELSE "lost"
    /\ jobs' = jobs \ {job[n]}
    /\ SetPC(n, "done")
    /\ UNCHANGED <<mainVars, job, pinger, left, stop, dirs, again>>

\* set.remove of a missing element raises KeyError between acquire and
\* release.
RemoveJob(n) ==
    /\ pc[n] = "removing"
    /\ lock = "free"
    /\ lock' = IF job[n] \in jobs THEN "free" ELSE "lost"
    /\ jobs' = jobs \ {job[n]}
    /\ SetPC(n, "done")
    /\ UNCHANGED <<mainVars, job, pinger, left, stop, dirs, again>>

-----------------------------------------------------------------------------
(***************************************************************************)
(* The ping thread.  It holds the lock for a whole round.                  *)
(***************************************************************************)
BeginRound ==
    /\ pinger = "waiting" /\ ~stop
    /\ lock = "free"
    /\ lock' = "round"
    /\ pinger' = "pinging"
    /\ left' = jobs
    /\ UNCHANGED <<mainVars, job, pc, jobs, stop, dirs, again>>

\* A SubprocessError is logged and the round goes on.
PingJob(j) ==
    /\ pinger = "pinging" /\ j \in left
    /\ left' = left \ {j}
    /\ UNCHANGED <<mainVars, job, pc, lock, pinger, jobs, stop, dirs, again>>

\* Any other exception, an OSError of the fork for one, ends the thread with
\* the lock held.
PingDies ==
    /\ pinger = "pinging" /\ left # {}
    /\ pinger' = "dead"
    /\ lock' = "lost"
    /\ left' = {}
    /\ UNCHANGED <<mainVars, job, pc, jobs, stop, dirs, again>>

\* Mutant: the lock is given back only when there was something to ping.
EndRoundHolds ==
    /\ pinger = "pinging" /\ left = {}
    /\ pinger' = "waiting"
    /\ lock' = IF jobs = {} THEN "round" ELSE "free"
    /\ UNCHANGED <<mainVars, job, pc, jobs, left, stop, dirs, again>>

EndRound ==
    /\ pinger = "pinging" /\ left = {}
    /\ pinger' = "waiting"
    /\ lock' = "free"
    /\ UNCHANGED <<mainVars, job, pc, jobs, left, stop, dirs, again>>

StopPinging ==
    /\ pinger = "waiting" /\ stop
    /\ pinger' = "stopped"
    /\ UNCHANGED <<mainVars, job, pc, lock, jobs, left, stop, dirs, again>>

-----------------------------------------------------------------------------
MainLoop == Test \/ Filter \/ Submit \/ \E j \in Jobs : Pull(j)

Execute(n) == Start(n) \/ AddJob(n) \/ Handle(n) \/ RemoveDir(n) \/ RemoveJob(n)

Ping == BeginRound \/ EndRound \/ StopPinging \/ \E j \in Jobs : PingJob(j)

Next == MainLoop \/ PullFails \/ Interrupt \/ Shutdown \/ Ping \/ PingDies
        \/ \E n \in Executions : Execute(n)

Spec == Init /\ [][Next]_vars

\* Every thread runs, handlers and pings end, and of the threads that wait for
\* the lock one gets it in the end.  (Executions are finitely many here, so that
\* each of them ends when one after the other does.)  Whether there is a job to
\* pull is left open.
Fairness ==
    /\ WF_vars(Test \/ Filter \/ Submit) /\ WF_vars(Shutdown) /\ WF_vars(Ping)
    /\ WF_vars(\E n \in Executions : Start(n) \/ Handle(n) \/ RemoveDir(n))
    /\ SF_vars(\E n \in Executions : AddJob(n) \/ RemoveJob(n))

FairSpec == Spec /\ Fairness

-----------------------------------------------------------------------------
(***************************************************************************)
(* Properties.                                                             *)
(***************************************************************************)

\* The filter forgets executions that have not started, so that a worker takes
\* more than max_jobs jobs from the spool - but never more than its square (a
\* bound that is reached for one and two).
Hold == Cardinality(Unfinished) + (IF pulled # NoJob THEN 1 ELSE 0)
BoundedBacklog == Hold <= MaxJobs * MaxJobs

\* A job is pinged for as long as it is handled, so that the server does not
\* take it back - unless it was fetched again while its old execution had
\* still to remove it.  And no longer than that: a job that is pinged is still
\* in the hands of an execution.
InHand == {"handler", "rmtree", "removing"}         \* from add_job to remove_job

PingedWhileHandled ==
    /\ \A n \in Executions : pc[n] \in InHand => job[n] \in jobs \cup again
    /\ \A j \in jobs : \E n \in Executions : pc[n] \in InHand /\ job[n] = j

\* Two executions never work in one directory, although the uuid of a job that
\* was taken back can come again while it is handled here.
OneDirectoryEach ==
    \A m, n \in Executions :
        /\ {pc[m], pc[n]} \subseteq {"pending", "adding", "handler", "rmtree"}
        /\ job[m] = job[n]
        => m = n

\* The lock is lost only to a ping thread that died or to the KeyError of a
\* job that was fetched again.
LostLockHasACause == lock = "lost" => pinger = "dead" \/ again # {}

\* What was submitted is executed and ends, forgotten by the filter or not,
\* unless the lock is lost.
ExecutionEnds == \A n \in Executions : pc[n] = "pending" ~> pc[n] = "done" \/ lock = "lost"

-----------------------------------------------------------------------------
(***************************************************************************)
(* The inductive invariant behind the safety properties.                   *)
(***************************************************************************)
AtWork == {"pending", "adding", "handler", "rmtree"}    \* has its directory

\* Executions are numbered without a gap, and there is room for the next one.
CountInv ==
    \E k \in 0 .. MaxPulls :
        /\ \A n \in Executions : pc[n] # "none" <=> n <= k
        /\ main = "submit" => k < MaxPulls

\* The ping thread holds the lock for as long as its round lasts.
PingerInv ==
    /\ lock = "round" <=> pinger = "pinging"
    /\ left # {} => pinger = "pinging"

\* What was pulled has a directory of its own until the execution removes it.
DirsInv ==
    /\ pulled # NoJob <=> main = "submit"
    /\ pulled # NoJob => pulled \in dirs
    /\ \A n \in Executions : pc[n] # "none" => job[n] \in Jobs
    /\ \A n \in Executions : pc[n] \in AtWork => job[n] \in dirs /\ job[n] # pulled

\* A job with two executions that have not ended was fetched again.
AgainInv ==
    /\ \A m, n \in Unfinished : m # n /\ job[m] = job[n] => job[n] \in again
    /\ \A n \in Unfinished : job[n] = pulled => pulled \in again

\* Executions start in order: one of the list starts only when all that the
\* filter has forgotten have started, at most MaxJobs - 1 of them unfinished.
\* From then on, a filter forgets no more than the executions of a full list
\* that have not started, and leaves fewer of those that have.
Started   == {n \in Submitted : pc[n] # "pending"}
Forgotten == Unfinished \ futures

BacklogInv ==
    /\ futures \subseteq Submitted
    /\ Cardinality(futures) + (IF main \in {"pull", "submit"} THEN 1 ELSE 0) <= MaxJobs
    /\ \A m \in Forgotten, n \in futures : pc[m] = "pending" /\ pc[n] = "pending" => m < n
    /\ LET new == MaxJobs - Cardinality(futures \cap Started) IN
       2 * Cardinality(Forgotten) <= 2 * (MaxJobs - 1) + new * (new - 1)

WorkerInv ==
    /\ TypeOK /\ BacklogInv /\ PingerInv /\ CountInv /\ DirsInv /\ OneDirectoryEach
    /\ AgainInv /\ PingedWhileHandled /\ LostLockHasACause
=============================================================================
