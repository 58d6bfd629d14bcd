-------------------------- MODULE JobWorkerProofs ---------------------------
(***************************************************************************)
(* Proofs about JobWorker, for any number of jobs, threads and executions: *)
(* two executions never share a directory, a job is pinged for as long as  *)
(* it is handled unless it was fetched again, the lock is lost only to the *)
(* two causes, and a worker holds no more than the square of max_jobs.     *)
(*                                                                         *)
(* WorkerInv is inductive: the directory of an execution keeps its job     *)
(* from being pulled (DirsInv), so that two executions of one job overlap  *)
(* only after the first has deleted its directory; the job is still in the *)
(* ping thread's set then, and the history says so (AgainInv).  The        *)
(* KeyError of RemoveJob needs exactly such a pair.  What the filter       *)
(* forgets is bounded by how much of the list had started (BacklogInv).    *)
(***************************************************************************)
EXTENDS JobWorker, TLAPS, FiniteSetTheorems

\* The steps, one by one.
LEMMA Steps ==
    ASSUME [Next]_vars
    PROVE  \/ Test \/ Filter \/ PullFails \/ Submit \/ Interrupt \/ Shutdown
           \/ BeginRound \/ EndRound \/ StopPinging \/ PingDies \/ UNCHANGED vars
           \/ \E j \in Jobs : Pull(j) \/ PingJob(j)
           \/ \E n \in Executions :
                Start(n) \/ AddJob(n) \/ Handle(n) \/ RemoveDir(n) \/ RemoveJob(n)
  BY DEF Next, MainLoop, Ping, Execute

\* How many executions were submitted.
LEMMA Counted ==
    ASSUME CountInv, TypeOK
    PROVE  \E k \in 0 .. MaxPulls :
            /\ Cardinality(Submitted) = k
            /\ \A n \in Executions : pc[n] # "none" <=> n <= k
            /\ main = "submit" => k < MaxPulls
<1>1. PICK k \in 0 .. MaxPulls : /\ \A n \in Executions : pc[n] # "none" <=> n <= k
                                 /\ main = "submit" => k < MaxPulls
  BY DEF CountInv
<1>2. Submitted = 1 .. k
  BY <1>1, WorkerAssumption DEF Submitted, Executions
<1>3. Cardinality(1 .. k) = IF 1 > k THEN 0 ELSE k - 1 + 1
  BY FS_Interval
<1>4. Cardinality(Submitted) = k
  BY <1>2, <1>3
<1> QED
  BY <1>1, <1>4

\* submit makes the next execution, a new one.
LEMMA SubmitEffect ==
    ASSUME CountInv, TypeOK, DirsInv, Submit
    PROVE  \E n \in Executions :
            /\ pc[n] = "none" /\ job' = [job EXCEPT ![n] = pulled]
            /\ pc' = [pc EXCEPT ![n] = "pending"]
            /\ futures' = futures \cup {n}
            /\ \A m \in Executions : pc'[m] # "none" <=> m <= n
<1>1. PICK k \in 0 .. MaxPulls :
            /\ Cardinality(Submitted) = k
            /\ \A n \in Executions : pc[n] # "none" <=> n <= k
            /\ main = "submit" => k < MaxPulls
  BY Counted
<1>2. k + 1 \in Executions /\ k \in Nat
  BY <1>1, WorkerAssumption DEF Submit, Executions
<1>3. pc[k + 1] = "none"
  BY <1>1, <1>2
<1>4. /\ job' = [job EXCEPT ![k + 1] = pulled] /\ pc' = [pc EXCEPT ![k + 1] = "pending"]
      /\ futures' = futures \cup {k + 1}
  BY <1>1 DEF Submit
<1>5. \A m \in Executions : pc'[m] # "none" <=> m <= k + 1
  <2>1. \A m \in Executions : m # k + 1 => pc'[m] = pc[m]
    BY <1>4 DEF TypeOK
  <2>2. pc'[k + 1] # "none"
    BY <1>2, <1>4 DEF TypeOK
  <2>3. \A m \in Executions : m \in Nat
    BY DEF Executions
  <2> QED
    BY <1>1, <1>2, <2>1, <2>2, <2>3
<1> QED
  BY <1>2, <1>3, <1>4, <1>5

\* Every step keeps the types; what a round has left stays in jobs because
\* remove_job waits for the lock.
LEMMA TypeStep == TypeOK /\ PingerInv /\ CountInv /\ DirsInv /\ [Next]_vars => TypeOK'
<1> SUFFICES ASSUME TypeOK, PingerInv, CountInv, DirsInv, [Next]_vars PROVE TypeOK'
  OBVIOUS
<1> USE DEF mainVars, pingVars, SetPC, Working
<1>1. CASE Test
  BY <1>1 DEF Test, TypeOK
<1>2. CASE Filter
  BY <1>2 DEF Filter, TypeOK
<1>3. CASE PullFails
  BY <1>3 DEF PullFails, TypeOK
<1>4. CASE Submit
  <2>1. PICK n \in Executions : /\ job' = [job EXCEPT ![n] = pulled]
                                /\ pc' = [pc EXCEPT ![n] = "pending"]
                                /\ futures' = futures \cup {n}
    BY <1>4, SubmitEffect
  <2> QED
    BY <1>4, <2>1 DEF Submit, TypeOK
<1>5. CASE Interrupt \/ Shutdown
  BY <1>5 DEF Interrupt, Shutdown, TypeOK
<1>6. CASE BeginRound \/ EndRound \/ StopPinging \/ PingDies
  BY <1>6 DEF BeginRound, EndRound, StopPinging, PingDies, TypeOK
<1>7. CASE UNCHANGED vars
  BY <1>7 DEF vars, TypeOK
<1>8. ASSUME NEW j \in Jobs, Pull(j) \/ PingJob(j) PROVE TypeOK'
  BY <1>8 DEF Pull, PingJob, TypeOK
<1>9. ASSUME NEW n \in Executions, Start(n) \/ Handle(n) \/ RemoveDir(n) PROVE TypeOK'
  BY <1>9 DEF Start, Handle, RemoveDir, TypeOK
<1>10. ASSUME NEW n \in Executions, AddJob(n) PROVE TypeOK'
  <2>1. job[n] \in Jobs /\ left \subseteq jobs
    BY <1>10 DEF AddJob, DirsInv, TypeOK
  <2> QED
    BY <1>10, <2>1 DEF AddJob, TypeOK
<1>11. ASSUME NEW n \in Executions, RemoveJob(n) PROVE TypeOK'
  <2>1. left = {}
    BY <1>11 DEF RemoveJob, PingerInv
  <2> QED
    BY <1>11, <2>1 DEF RemoveJob, TypeOK
<1> QED
  BY Steps, <1>1, <1>2, <1>3, <1>4, <1>5, <1>6, <1>7, <1>8, <1>9, <1>10, <1>11

\* Every step keeps PingerInv.
LEMMA PingerStep == TypeOK /\ PingerInv /\ [Next]_vars => PingerInv'
<1> SUFFICES ASSUME TypeOK, PingerInv, [Next]_vars PROVE PingerInv'
  OBVIOUS
<1> USE DEF mainVars, pingVars, PingerInv
<1>1. CASE Test \/ Filter \/ PullFails \/ Submit \/ Interrupt \/ Shutdown \/ UNCHANGED vars
  BY <1>1 DEF Test, Filter, PullFails, Submit, Interrupt, Shutdown, vars
<1>2. CASE BeginRound \/ EndRound \/ StopPinging \/ PingDies
  BY <1>2 DEF BeginRound, EndRound, StopPinging, PingDies
<1>3. ASSUME NEW j \in Jobs, Pull(j) \/ PingJob(j) PROVE PingerInv'
  BY <1>3 DEF Pull, PingJob
<1>4. ASSUME NEW n \in Executions,
             Start(n) \/ AddJob(n) \/ Handle(n) \/ RemoveDir(n) \/ RemoveJob(n)
      PROVE  PingerInv'
  BY <1>4 DEF Start, AddJob, Handle, RemoveDir, RemoveJob
<1> QED
  BY Steps, <1>1, <1>2, <1>3, <1>4

\* One execution goes one step further.
LEMMA OneMoves ==
    ASSUME TypeOK, NEW n \in Executions,
           Start(n) \/ AddJob(n) \/ Handle(n) \/ RemoveDir(n) \/ RemoveJob(n)
    PROVE  /\ job' = job /\ main' = main /\ pulled' = pulled /\ pc[n] # "none"
           /\ again' = again
           /\ \A m \in Executions : m # n => pc'[m] = pc[m]
           /\ \/ pc[n] = "pending" /\ pc'[n] = "adding"
              \/ pc[n] = "adding" /\ pc'[n] = "handler"
              \/ pc[n] = "handler" /\ pc'[n] = "rmtree"
              \/ pc[n] = "rmtree" /\ pc'[n] = "removing"
              \/ pc[n] = "removing" /\ pc'[n] = "done"
           /\ RemoveDir(n) \/ dirs' = dirs
           /\ AddJob(n) \/ RemoveJob(n) \/ jobs' = jobs
  BY DEF Start, AddJob, Handle, RemoveDir, RemoveJob, SetPC, mainVars, pingVars, TypeOK

\* The other steps but submit leave the executions alone.
LEMMA NoneMoves ==
    ASSUME Test \/ Filter \/ PullFails \/ Interrupt \/ Shutdown
           \/ BeginRound \/ EndRound \/ StopPinging \/ PingDies \/ UNCHANGED vars
           \/ \E j \in Jobs : Pull(j) \/ PingJob(j)
    PROVE  pc' = pc /\ job' = job /\ jobs' = jobs
  BY DEF Test, Filter, PullFails, Interrupt, Shutdown, BeginRound, EndRound, StopPinging,
     PingDies, vars, Pull, PingJob, mainVars, pingVars

\* Every step keeps CountInv.
LEMMA CountStep == TypeOK /\ CountInv /\ DirsInv /\ [Next]_vars => CountInv'
<1> SUFFICES ASSUME TypeOK, CountInv, DirsInv, [Next]_vars PROVE CountInv'
  OBVIOUS
<1>1. PICK k \in 0 .. MaxPulls :
            /\ Cardinality(Submitted) = k
            /\ \A n \in Executions : pc[n] # "none" <=> n <= k
            /\ main = "submit" => k < MaxPulls
  BY Counted
<1>2. ASSUME \A n \in Executions : pc'[n] # "none" <=> pc[n] # "none",
             main' = "submit" => k < MaxPulls
      PROVE  CountInv'
  BY <1>1, <1>2 DEF CountInv
<1>3. CASE Submit
  <2>1. PICK n \in Executions : \A m \in Executions : pc'[m] # "none" <=> m <= n
    BY <1>3, SubmitEffect
  <2>2. main' # "submit" /\ n \in 0 .. MaxPulls
    BY <1>3, WorkerAssumption DEF Submit, Executions
  <2> QED
    BY <2>1, <2>2 DEF CountInv
<1>4. ASSUME NEW j \in Jobs, Pull(j) PROVE CountInv'
  <2>1. k < MaxPulls /\ pc' = pc
    BY <1>1, <1>4 DEF Pull
  <2> QED
    BY <1>2, <2>1
<1>5. ASSUME NEW n \in Executions,
             Start(n) \/ AddJob(n) \/ Handle(n) \/ RemoveDir(n) \/ RemoveJob(n)
      PROVE  CountInv'
  <2>1. \A m \in Executions : pc'[m] # "none" <=> pc[m] # "none"
    BY <1>5, OneMoves
  <2>2. main' = main
    BY <1>5, OneMoves
  <2> QED
    BY <1>1, <1>2, <2>1, <2>2
<1>6. ASSUME NEW j \in Jobs, PingJob(j) PROVE CountInv'
  BY <1>1, <1>2, <1>6 DEF PingJob, mainVars
<1>7. CASE Test \/ Filter \/ PullFails \/ Interrupt \/ Shutdown
  BY <1>2, <1>7 DEF Test, Filter, PullFails, Interrupt, Shutdown
<1>8. CASE BeginRound \/ EndRound \/ StopPinging \/ PingDies \/ UNCHANGED vars
  BY <1>1, <1>2, <1>8 DEF BeginRound, EndRound, StopPinging, PingDies, vars, mainVars
<1> QED
  BY Steps, <1>3, <1>4, <1>5, <1>6, <1>7, <1>8

\* Every step keeps DirsInv: rmtree deletes the directory of one execution only.
LEMMA DirsStep == TypeOK /\ CountInv /\ DirsInv /\ OneDirectoryEach /\ [Next]_vars => DirsInv'
<1> SUFFICES ASSUME TypeOK, CountInv, DirsInv, OneDirectoryEach, [Next]_vars PROVE DirsInv'
  OBVIOUS
<1> USE WorkerAssumption DEF mainVars, pingVars, AtWork
<1>1. CASE Test \/ Filter \/ PullFails \/ Shutdown
  BY <1>1 DEF Test, Filter, PullFails, Shutdown, DirsInv
<1>2. CASE Interrupt
  BY <1>2 DEF Interrupt, DirsInv
<1>3. CASE Submit
  <2>1. PICK n \in Executions : /\ pc[n] = "none" /\ job' = [job EXCEPT ![n] = pulled]
                                /\ pc' = [pc EXCEPT ![n] = "pending"]
    BY <1>3, SubmitEffect
  <2>2. /\ pulled' = NoJob /\ main' = "test" /\ dirs' = dirs /\ pulled \in dirs
        /\ pulled \in Jobs
    BY <1>3 DEF Submit, DirsInv, TypeOK
  <2>3. job'[n] = pulled /\ \A m \in Executions : m # n => job'[m] = job[m] /\ pc'[m] = pc[m]
    BY <2>1 DEF TypeOK
  <2> QED
    BY <2>2, <2>3 DEF DirsInv, TypeOK
<1>4. ASSUME NEW j \in Jobs, Pull(j) PROVE DirsInv'
  BY <1>4 DEF Pull, DirsInv
<1>5. ASSUME NEW j \in Jobs, PingJob(j) PROVE DirsInv'
  BY <1>5 DEF PingJob, DirsInv
<1>6. CASE BeginRound \/ EndRound \/ StopPinging \/ PingDies \/ UNCHANGED vars
  BY <1>6 DEF BeginRound, EndRound, StopPinging, PingDies, vars, DirsInv
<1>7. ASSUME NEW n \in Executions, Start(n) \/ AddJob(n) \/ Handle(n) \/ RemoveJob(n)
      PROVE  DirsInv'
  <2>1. dirs' = dirs /\ \A m \in Executions : pc'[m] \in AtWork => pc[m] \in AtWork
    BY <1>7, OneMoves DEF RemoveJob, RemoveDir, Start, AddJob, Handle
  <2>2. /\ job' = job /\ main' = main /\ pulled' = pulled
        /\ \A m \in Executions : pc'[m] # "none" => pc[m] # "none"
    BY <1>7, OneMoves
  <2> QED
    BY <2>1, <2>2 DEF DirsInv
<1>8. ASSUME NEW n \in Executions, RemoveDir(n) PROVE DirsInv'
  <2>1. /\ pc[n] = "rmtree" /\ pc'[n] = "removing" /\ job' = job /\ main' = main
        /\ pulled' = pulled /\ \A m \in Executions : m # n => pc'[m] = pc[m]
        /\ dirs' = dirs \/ dirs' = dirs \ {job[n]}
    BY <1>8, OneMoves DEF RemoveDir
  <2>2. \A m \in Executions : m # n /\ pc[m] \in AtWork => job[m] # job[n]
    BY <2>1 DEF OneDirectoryEach
  <2>3. pulled # job[n]
    BY <2>1 DEF DirsInv
  <2> QED
    BY <2>1, <2>2, <2>3 DEF DirsInv
<1> QED
  BY Steps, <1>1, <1>2, <1>3, <1>4, <1>5, <1>6, <1>7, <1>8

\* Every step keeps OneDirectoryEach: what is submitted was pulled to a
\* directory that was not there.
LEMMA OneStep == TypeOK /\ CountInv /\ DirsInv /\ OneDirectoryEach /\ [Next]_vars
                    => OneDirectoryEach'
<1> SUFFICES ASSUME TypeOK, CountInv, DirsInv, OneDirectoryEach, [Next]_vars
             PROVE  OneDirectoryEach'
  OBVIOUS
<1>1. CASE Submit
  <2>1. PICK n \in Executions : /\ pc[n] = "none" /\ job' = [job EXCEPT ![n] = pulled]
                                /\ pc' = [pc EXCEPT ![n] = "pending"]
    BY <1>1, SubmitEffect
  <2>2. job'[n] = pulled /\ \A m \in Executions : m # n => job'[m] = job[m] /\ pc'[m] = pc[m]
    BY <2>1 DEF TypeOK
  <2>3. \A m \in Executions : pc[m] \in AtWork => job[m] # pulled
    BY DEF DirsInv
  <2> QED
    BY <2>2, <2>3 DEF OneDirectoryEach, AtWork
<1>2. ASSUME NEW n \in Executions,
             Start(n) \/ AddJob(n) \/ Handle(n) \/ RemoveDir(n) \/ RemoveJob(n)
      PROVE  OneDirectoryEach'
  <2>1. /\ job' = job
        /\ \A m \in Executions : pc'[m] \in AtWork => pc[m] \in AtWork
    BY <1>2, OneMoves DEF AtWork
  <2> QED
    BY <2>1 DEF OneDirectoryEach, AtWork
<1>3. ASSUME pc' = pc, job' = job PROVE OneDirectoryEach'
  BY <1>3 DEF OneDirectoryEach
<1> QED
  BY Steps, NoneMoves, <1>1, <1>2, <1>3

\* Every step keeps AgainInv: a job with an unfinished execution can be pulled
\* only between its rmtree and its remove_job.
LEMMA AgainStep == TypeOK /\ CountInv /\ DirsInv /\ OneDirectoryEach /\ AgainInv
                   /\ PingedWhileHandled /\ [Next]_vars => AgainInv'
<1> SUFFICES ASSUME TypeOK, CountInv, DirsInv, OneDirectoryEach, AgainInv, PingedWhileHandled,
                    [Next]_vars
             PROVE  AgainInv'
  OBVIOUS
<1> USE WorkerAssumption DEF mainVars, pingVars, Unfinished, Submitted
<1>1. CASE Submit
  <2>1. PICK n \in Executions : /\ pc[n] = "none" /\ job' = [job EXCEPT ![n] = pulled]
                                /\ pc' = [pc EXCEPT ![n] = "pending"]
    BY <1>1, SubmitEffect
  <2>2. job'[n] = pulled /\ \A m \in Executions : m # n => job'[m] = job[m] /\ pc'[m] = pc[m]
    BY <2>1 DEF TypeOK
  <2>3. pulled' = NoJob /\ again' = again
    BY <1>1 DEF Submit
  <2>4. \A m \in Executions : pc'[m] # "none" => job'[m] # NoJob
    <3>1. pulled # NoJob
      BY <1>1 DEF Submit, DirsInv
    <3> QED
      BY <2>2, <3>1 DEF DirsInv
  <2> QED
    BY <2>2, <2>3, <2>4 DEF AgainInv
<1>2. ASSUME NEW n \in Executions,
             Start(n) \/ AddJob(n) \/ Handle(n) \/ RemoveDir(n) \/ RemoveJob(n)
      PROVE  AgainInv'
  <2>1. /\ job' = job /\ pulled' = pulled /\ again' = again
        /\ Unfinished' \subseteq Unfinished
    BY <1>2, OneMoves
  <2> QED
    BY <2>1 DEF AgainInv
<1>3. ASSUME NEW j \in Jobs, Pull(j) PROVE AgainInv'
  <2>1. /\ pc' = pc /\ job' = job /\ pulled' = j /\ j \notin dirs
        /\ again \subseteq again' /\ (j \in jobs => j \in again')
    BY <1>3 DEF Pull
  <2>2. ASSUME NEW n \in Unfinished, job[n] = j PROVE j \in again'
    <3>1. pc[n] \notin AtWork
      BY <2>1, <2>2 DEF DirsInv
    <3>2. pc[n] = "removing"
      BY <3>1 DEF AtWork, TypeOK, Working
    <3> QED
      BY <2>1, <2>2, <3>2 DEF PingedWhileHandled, InHand
  <2> QED
    BY <2>1, <2>2 DEF AgainInv
<1>4. ASSUME pc' = pc, job' = job, again' = again, pulled' \in {pulled, NoJob} PROVE AgainInv'
  <2>1. \A n \in Unfinished : job[n] # NoJob
    BY DEF DirsInv
  <2> QED
    BY <1>4, <2>1 DEF AgainInv
<1>5. CASE Test \/ Filter \/ PullFails \/ Interrupt \/ Shutdown
  BY <1>4, <1>5 DEF Test, Filter, PullFails, Interrupt, Shutdown
<1>6. CASE BeginRound \/ EndRound \/ StopPinging \/ PingDies \/ UNCHANGED vars
  BY <1>4, <1>6 DEF BeginRound, EndRound, StopPinging, PingDies, vars
<1>7. ASSUME NEW j \in Jobs, PingJob(j) PROVE AgainInv'
  BY <1>4, <1>7 DEF PingJob
<1> QED
  BY Steps, <1>1, <1>2, <1>3, <1>5, <1>6, <1>7

\* Every step keeps PingedWhileHandled: remove_job takes a job from another
\* execution only if it was fetched again, and takes it when its own ends.
LEMMA PingedStep == TypeOK /\ CountInv /\ DirsInv /\ AgainInv /\ PingedWhileHandled /\ [Next]_vars
                        => PingedWhileHandled'
<1> SUFFICES ASSUME TypeOK, CountInv, DirsInv, AgainInv, PingedWhileHandled, [Next]_vars
             PROVE  PingedWhileHandled'
  OBVIOUS
<1> USE DEF mainVars, pingVars
<1>1. ASSUME jobs' = jobs, again \subseteq again',
             \A m \in Executions : pc'[m] \in InHand <=> pc[m] \in InHand,
             \A m \in Executions : pc[m] \in InHand => job'[m] = job[m]
      PROVE  PingedWhileHandled'
  BY <1>1 DEF PingedWhileHandled
<1>2. CASE Submit
  <2>1. PICK n \in Executions : /\ pc[n] = "none" /\ job' = [job EXCEPT ![n] = pulled]
                                /\ pc' = [pc EXCEPT ![n] = "pending"]
    BY <1>2, SubmitEffect
  <2>2. /\ pc'[n] = "pending"
        /\ \A m \in Executions : m # n => job'[m] = job[m] /\ pc'[m] = pc[m]
    BY <2>1 DEF TypeOK
  <2>3. jobs' = jobs /\ again' = again
    BY <1>2 DEF Submit
  <2> QED
    BY <1>1, <2>1, <2>2, <2>3 DEF InHand
<1>3. ASSUME NEW n \in Executions, Start(n) \/ Handle(n) \/ RemoveDir(n)
      PROVE  PingedWhileHandled'
  <2>1. /\ jobs' = jobs /\ again' = again /\ job' = job
        /\ \A m \in Executions : pc'[m] \in InHand <=> pc[m] \in InHand
    BY <1>3, OneMoves DEF Start, Handle, RemoveDir, InHand
  <2> QED
    BY <1>1, <2>1
<1>4. ASSUME NEW n \in Executions, AddJob(n) PROVE PingedWhileHandled'
  <2>1. /\ jobs' = jobs \cup {job[n]} /\ again' = again /\ job' = job
        /\ pc[n] = "adding" /\ pc'[n] = "handler"
        /\ \A m \in Executions : m # n => pc'[m] = pc[m]
    BY <1>4, OneMoves DEF AddJob
  <2> QED
    BY <2>1 DEF PingedWhileHandled, InHand
<1>5. ASSUME NEW n \in Executions, RemoveJob(n) PROVE PingedWhileHandled'
  <2>1. /\ jobs' = jobs \ {job[n]} /\ again' = again /\ job' = job
        /\ pc[n] = "removing" /\ pc'[n] = "done"
        /\ \A m \in Executions : m # n => pc'[m] = pc[m]
    BY <1>5, OneMoves DEF RemoveJob
  <2>2. ASSUME NEW m \in Executions, m # n, pc[m] \in InHand, job[m] = job[n]
        PROVE  job[m] \in again
    <3>1. m \in Unfinished /\ n \in Unfinished
      BY <2>1, <2>2 DEF Unfinished, Submitted, InHand
    <3> QED
      BY <2>2, <3>1 DEF AgainInv
  <2>3. \A m \in Executions : pc'[m] \in InHand => job'[m] \in jobs' \cup again'
    BY <2>1, <2>2 DEF PingedWhileHandled, InHand
  <2>4. ASSUME NEW j \in jobs' PROVE \E m \in Executions : pc'[m] \in InHand /\ job'[m] = j
    BY <2>1, <2>4 DEF PingedWhileHandled
  <2> QED
    BY <2>3, <2>4 DEF PingedWhileHandled
<1>6. ASSUME pc' = pc, job' = job, jobs' = jobs, again \subseteq again'
      PROVE  PingedWhileHandled'
  BY <1>1, <1>6
<1>7. CASE Test \/ Filter \/ PullFails \/ Interrupt \/ Shutdown
  BY <1>6, <1>7 DEF Test, Filter, PullFails, Interrupt, Shutdown
<1>8. CASE BeginRound \/ EndRound \/ StopPinging \/ PingDies \/ UNCHANGED vars
  BY <1>6, <1>8 DEF BeginRound, EndRound, StopPinging, PingDies, vars
<1>9. ASSUME NEW j \in Jobs, Pull(j) \/ PingJob(j) PROVE PingedWhileHandled'
  BY <1>6, <1>9 DEF Pull, PingJob
<1> QED
  BY Steps, <1>2, <1>3, <1>4, <1>5, <1>7, <1>8, <1>9

\* Every step keeps LostLockHasACause.
LEMMA LockStep == TypeOK /\ PingedWhileHandled /\ LostLockHasACause /\ [Next]_vars
                    => LostLockHasACause'
<1> SUFFICES ASSUME TypeOK, PingedWhileHandled, LostLockHasACause, [Next]_vars
             PROVE  LostLockHasACause'
  OBVIOUS
<1> USE DEF mainVars, pingVars, LostLockHasACause
<1>1. CASE Test \/ Filter \/ PullFails \/ Submit \/ Interrupt \/ Shutdown \/ UNCHANGED vars
  BY <1>1 DEF Test, Filter, PullFails, Submit, Interrupt, Shutdown, vars
<1>2. CASE BeginRound \/ EndRound \/ StopPinging \/ PingDies
  BY <1>2 DEF BeginRound, EndRound, StopPinging, PingDies
<1>3. ASSUME NEW j \in Jobs, Pull(j) \/ PingJob(j) PROVE LostLockHasACause'
  BY <1>3 DEF Pull, PingJob
<1>4. ASSUME NEW n \in Executions, Start(n) \/ AddJob(n) \/ Handle(n) \/ RemoveDir(n)
      PROVE  LostLockHasACause'
  BY <1>4 DEF Start, AddJob, Handle, RemoveDir
<1>5. ASSUME NEW n \in Executions, RemoveJob(n) PROVE LostLockHasACause'
  <2>1. job[n] \in jobs \cup again
    BY <1>5 DEF RemoveJob, PingedWhileHandled, InHand
  <2> QED
    BY <1>5, <2>1 DEF RemoveJob
<1> QED
  BY Steps, <1>1, <1>2, <1>3, <1>4, <1>5

\* Executions are finitely many.
LEMMA Finite ==
    ASSUME NEW S \in SUBSET Executions
    PROVE  /\ IsFiniteSet(S) /\ Cardinality(S) \in Nat
           /\ \A T \in SUBSET S : /\ Cardinality(T) <= Cardinality(S)
                                  /\ T # S => Cardinality(T) < Cardinality(S)
<1>1. IsFiniteSet(Executions)
  BY FS_Interval, WorkerAssumption DEF Executions
<1>2. IsFiniteSet(S)
  BY <1>1, FS_Subset
<1>3. ASSUME NEW T \in SUBSET S
      PROVE  /\ Cardinality(T) \in Nat /\ Cardinality(T) <= Cardinality(S)
             /\ Cardinality(S) = Cardinality(T) => S = T
  BY <1>2, FS_Subset, FS_CardinalityType
<1>4. Cardinality(S) \in Nat
  BY <1>2, FS_CardinalityType
<1> QED
  BY <1>2, <1>3, <1>4

\* The backlog is of executions.
LEMMA BacklogSets ==
    ASSUME TypeOK
    PROVE  /\ futures \in SUBSET Executions /\ Forgotten \in SUBSET Executions
           /\ futures \cap Started \in SUBSET Executions /\ Running \in SUBSET Executions
  BY DEF TypeOK, Forgotten, Unfinished, Submitted, Running

\* What a filter may forget, as numbers: of a list that has room for new
\* executions, forgot are forgotten and fewer than before have started.
LEMMA FilterBound ==
    ASSUME NEW M \in Nat, NEW f \in Nat, NEW forgot \in Nat, NEW new \in Nat, NEW new1 \in Nat,
           2 * f <= 2 * (M - 1) + new * (new - 1), forgot <= new, new + 1 <= new1
    PROVE  2 * (f + forgot) <= 2 * (M - 1) + new1 * (new1 - 1)
<1>1. new * (new - 1) + 2 * new = (new + 1) * new
  OBVIOUS
<1>2. PICK k \in Nat : new1 = new + 1 + k
  <2>1. new1 - (new + 1) \in Nat /\ new1 = new + 1 + (new1 - (new + 1))
    OBVIOUS
  <2> QED
    BY <2>1
<1>3. new1 * (new1 - 1) = (new + 1) * new + k * (new + 1) + (new + k) * k
  <2>1. new1 - 1 = new + k
    BY <1>2
  <2>2. (new + 1 + k) * (new + k) = (new + 1) * (new + k) + k * (new + k)
    OBVIOUS
  <2>3. (new + 1) * (new + k) = (new + 1) * new + (new + 1) * k
    OBVIOUS
  <2>4. (new + 1) * k = k * (new + 1) /\ k * (new + k) = (new + k) * k
    OBVIOUS
  <2> QED
    BY <1>2, <2>1, <2>2, <2>3, <2>4
<1>4. k * (new + 1) \in Nat /\ (new + k) * k \in Nat
  OBVIOUS
<1>5. (new + 1) * new \in Int /\ new * (new - 1) \in Int /\ new1 * (new1 - 1) \in Int
  OBVIOUS
<1>6. new1 * (new1 - 1) >= (new + 1) * new
  BY <1>3, <1>4, <1>5
<1> QED
  BY <1>1, <1>5, <1>6

\* A step that leaves the list as it is, lets nothing of it start and forgets
\* nothing keeps BacklogInv.
LEMMA BacklogKept ==
    ASSUME TypeOK, TypeOK', BacklogInv, futures' = futures, futures \subseteq Submitted',
           Forgotten' \subseteq Forgotten, (futures \cap Started)' = futures \cap Started,
           \A m \in Executions : pc'[m] = "pending" => pc[m] = "pending",
           main' \in {"pull", "submit"} => \/ main \in {"pull", "submit"}
                                           \/ Cardinality(futures) < MaxJobs
    PROVE  BacklogInv'
<1>1. Cardinality(Forgotten') <= Cardinality(Forgotten)
      /\ Cardinality(Forgotten') \in Nat /\ Cardinality(Forgotten) \in Nat
  BY Finite, BacklogSets
<1>2. Cardinality(futures) \in Nat /\ Cardinality(futures \cap Started) \in Nat
  BY Finite, BacklogSets
<1>3. 2 * Cardinality(Forgotten) <= 2 * (MaxJobs - 1)
        + (MaxJobs - Cardinality(futures \cap Started))
          * (MaxJobs - Cardinality(futures \cap Started) - 1)
  BY DEF BacklogInv
<1>4. 2 * Cardinality(Forgotten') <= 2 * (MaxJobs - 1)
        + (MaxJobs - Cardinality((futures \cap Started)'))
          * (MaxJobs - Cardinality((futures \cap Started)') - 1)
  <2> DEFINE c == MaxJobs - Cardinality(futures \cap Started)
  <2>1. c * (c - 1) \in Int
    BY <1>2, WorkerAssumption
  <2>2. 2 * Cardinality(Forgotten') <= 2 * (MaxJobs - 1) + c * (c - 1)
    <3> HIDE DEF c
    <3>1. 2 * Cardinality(Forgotten) <= 2 * (MaxJobs - 1) + c * (c - 1)
      BY <1>3 DEF c
    <3> QED
      BY <1>1, <2>1, <3>1, WorkerAssumption
  <2> QED
    BY <2>2
<1>5. Cardinality(futures') + (IF main' \in {"pull", "submit"} THEN 1 ELSE 0) <= MaxJobs
  BY <1>2, WorkerAssumption DEF BacklogInv
<1>6. ASSUME NEW m \in Forgotten', NEW n \in futures', pc'[m] = "pending", pc'[n] = "pending"
      PROVE  m < n
  BY <1>6, BacklogSets DEF BacklogInv
<1> QED
  BY <1>4, <1>5, <1>6 DEF BacklogInv

\* The filter leaves at least one of the executions that have started, and
\* forgets those that have not.
LEMMA BacklogFilter ==
    ASSUME TypeOK, BacklogInv, Filter
    PROVE  BacklogInv'
<1>1. PICK d \in futures : pc[d] = "done"
  BY DEF Filter
<1>2. futures' = futures \cap Running /\ pc' = pc
  BY DEF Filter
<1> DEFINE begun == futures \cap Started  rest == futures \ Started
<1>3. futures \in SUBSET Executions /\ begun \in SUBSET Executions /\ rest \in SUBSET Executions
      /\ Forgotten \in SUBSET Executions /\ futures' \in SUBSET Executions
  BY <1>2, BacklogSets
<1>4. futures' \in SUBSET begun /\ futures' # begun /\ begun \in SUBSET futures
  <2>1. d \in begun /\ d \notin futures'
    BY <1>1, <1>2 DEF BacklogInv, Started, Running, Working
  <2>2. futures' \subseteq begun
    BY <1>2 DEF Started, Running, Working
  <2> QED
    BY <2>1, <2>2
<1>5. (futures \cap Started)' = futures'
  BY <1>2 DEF Started, Submitted, Running, Working
<1>6. Forgotten' \subseteq Forgotten \cup rest
  <2> SUFFICES ASSUME NEW m \in Forgotten', m \notin Forgotten PROVE m \in rest
    OBVIOUS
  <2>1. m \in Unfinished /\ m \notin futures'
    BY <1>2 DEF Forgotten, Unfinished, Submitted
  <2>2. m \in futures
    BY <2>1 DEF Forgotten
  <2>3. pc[m] \notin Working
    BY <1>2, <2>1, <2>2 DEF Running, Unfinished
  <2>4. pc[m] = "pending"
    BY <2>1, <2>3, TypeOK DEF TypeOK, Unfinished, Submitted
  <2> QED
    BY <2>2, <2>4 DEF Started
<1> DEFINE c == Cardinality(begun)  r == Cardinality(rest)
           f == Cardinality(Forgotten)  c1 == Cardinality(futures')
<1>7. c \in Nat /\ r \in Nat /\ f \in Nat /\ c1 \in Nat /\ c1 < c
  BY <1>3, <1>4, Finite
<1>8. c + r <= MaxJobs
  <2>1. Cardinality(begun \cup rest) = c + r - Cardinality(begun \cap rest)
    BY <1>3, Finite, FS_Union
  <2>2. begun \cup rest = futures /\ begun \cap rest = {}
    BY DEF Started
  <2>3. Cardinality(futures) = c + r
    BY <1>7, <2>1, <2>2, FS_EmptySet
  <2>4. Cardinality(futures) <= MaxJobs
    BY <1>3, Finite, WorkerAssumption DEF BacklogInv
  <2> QED
    BY <2>3, <2>4
<1>9. Cardinality(Forgotten') \in Nat /\ Cardinality(Forgotten') <= f + r
  <2>1. IsFiniteSet(Forgotten) /\ IsFiniteSet(rest)
    BY <1>3, Finite
  <2>2. Cardinality(Forgotten \cup rest) = f + r - Cardinality(Forgotten \cap rest)
    BY <2>1, FS_Union
  <2>3. Cardinality(Forgotten \cap rest) = 0
    <3>1. Forgotten \cap rest = {}
      BY DEF Forgotten
    <3> QED
      BY ONLY <3>1, FS_EmptySet
  <2>4. Cardinality(Forgotten \cup rest) = f + r
    BY ONLY <1>7, <2>2, <2>3
  <2>5. Forgotten \cup rest \in SUBSET Executions /\ Forgotten' \in SUBSET (Forgotten \cup rest)
    BY <1>3, <1>6
  <2> QED
    BY <2>4, <2>5, Finite
<1>10. 2 * f <= 2 * (MaxJobs - 1) + (MaxJobs - c) * (MaxJobs - c - 1)
  BY DEF BacklogInv
<1> HIDE DEF begun, rest, c, r, f, c1
<1>11. /\ MaxJobs - c \in Nat /\ MaxJobs - c1 \in Nat
       /\ r <= MaxJobs - c /\ (MaxJobs - c) + 1 <= MaxJobs - c1
  BY <1>7, <1>8, WorkerAssumption
<1>12. 2 * (f + r) <= 2 * (MaxJobs - 1) + (MaxJobs - c1) * ((MaxJobs - c1) - 1)
  BY <1>7, <1>10, <1>11, FilterBound, WorkerAssumption
<1>13. 2 * Cardinality(Forgotten') <= 2 * (MaxJobs - 1) + (MaxJobs - c1) * (MaxJobs - c1 - 1)
  <2>1. (MaxJobs - c1) * (MaxJobs - c1 - 1) \in Int
    BY <1>11
  <2> QED
    BY <1>7, <1>9, <1>12, <2>1, WorkerAssumption
<1>14. Cardinality(futures') + 1 <= MaxJobs
  BY <1>7, <1>8, WorkerAssumption DEF c1
<1>15. Cardinality(futures') + (IF main' \in {"pull", "submit"} THEN 1 ELSE 0) <= MaxJobs
  BY <1>7, <1>14, WorkerAssumption DEF c1
<1>16. futures' \subseteq Submitted' /\ \A n \in futures' : pc'[n] # "pending"
  BY <1>2 DEF Running, Working, Submitted
<1>17. 2 * Cardinality(Forgotten') <= 2 * (MaxJobs - 1)
        + (MaxJobs - Cardinality((futures \cap Started)'))
          * (MaxJobs - Cardinality((futures \cap Started)') - 1)
  BY <1>5, <1>13 DEF c1
<1> QED
  BY <1>15, <1>16, <1>17 DEF BacklogInv

\* What is submitted is the newest execution of all.
LEMMA BacklogSubmit ==
    ASSUME TypeOK, TypeOK', CountInv, DirsInv, BacklogInv, Submit
    PROVE  BacklogInv'
<1>1. PICK n \in Executions :
            /\ pc[n] = "none" /\ pc' = [pc EXCEPT ![n] = "pending"] /\ futures' = futures \cup {n}
            /\ \A m \in Executions : pc'[m] # "none" <=> m <= n
  BY SubmitEffect
<1>2. \A m \in Executions : pc'[m] = IF m = n THEN "pending" ELSE pc[m]
  BY <1>1 DEF TypeOK
<1>3. Forgotten' = Forgotten
  BY <1>1, <1>2 DEF Forgotten, Unfinished, Submitted
<1>4. (futures \cap Started)' = futures \cap Started
  BY <1>1, <1>2, BacklogSets DEF Started, Submitted
<1>5. n \notin futures /\ main = "submit" /\ main' = "test"
  BY <1>1 DEF BacklogInv, Submitted, Submit
<1>6. Cardinality(futures') = Cardinality(futures) + 1 /\ Cardinality(futures) \in Nat
  BY <1>1, <1>5, BacklogSets, Finite, FS_AddElement
<1>7. Cardinality(futures') + (IF main' \in {"pull", "submit"} THEN 1 ELSE 0) <= MaxJobs
  BY <1>5, <1>6, WorkerAssumption DEF BacklogInv
<1>8. futures' \subseteq Submitted'
  BY <1>1, <1>2, BacklogSets DEF BacklogInv, Submitted
<1>9. ASSUME NEW m \in Forgotten', NEW l \in futures', pc'[m] = "pending", pc'[l] = "pending"
      PROVE  m < l
  <2>1. m \in Executions /\ m # n /\ pc[m] = "pending" /\ m \in Forgotten
    BY <1>1, <1>2, <1>3, <1>9, BacklogSets DEF Forgotten, Unfinished, Submitted
  <2>2. CASE l = n
    <3>1. m <= n
      BY <1>1, <1>9, <2>1
    <3>2. m \in Nat /\ n \in Nat
      BY <1>1, <2>1 DEF Executions
    <3> QED
      BY <2>1, <2>2, <3>1, <3>2
  <2>3. CASE l # n
    <3>1. l \in futures /\ pc[l] = "pending"
      BY <1>1, <1>2, <1>9, <2>3, BacklogSets
    <3> QED
      BY <2>1, <3>1 DEF BacklogInv
  <2> QED
    BY <2>2, <2>3
<1>10. 2 * Cardinality(Forgotten') <= 2 * (MaxJobs - 1)
        + (MaxJobs - Cardinality((futures \cap Started)'))
          * (MaxJobs - Cardinality((futures \cap Started)') - 1)
  BY <1>3, <1>4 DEF BacklogInv
<1> QED
  BY <1>7, <1>8, <1>9, <1>10 DEF BacklogInv

\* When one of the list starts, all that is forgotten and unfinished runs.
LEMMA BacklogStart ==
    ASSUME TypeOK, TypeOK', BacklogInv, NEW n \in Executions, Start(n)
    PROVE  BacklogInv'
<1>1. /\ pc[n] = "pending" /\ pc'[n] = "adding" /\ main' = main /\ futures' = futures
      /\ \A m \in Executions : m # n => pc'[m] = pc[m]
      /\ \A m \in Submitted : pc[m] = "pending" => n <= m
      /\ Cardinality(Running) < MaxJobs
  BY DEF Start, SetPC, mainVars, TypeOK
<1>2. Submitted' = Submitted /\ Forgotten' = Forgotten
  BY <1>1 DEF Forgotten, Unfinished, Submitted
<1>3. \A m \in Executions : pc'[m] = "pending" => pc[m] = "pending"
  BY <1>1
<1>4. CASE n \notin futures
  <2>1. (futures \cap Started)' = futures \cap Started
    BY <1>1, <1>2, <1>4, BacklogSets DEF Started
  <2> QED
    BY <1>1, <1>2, <1>3, <2>1, BacklogKept DEF BacklogInv
<1>5. CASE n \in futures
  <2>1. Forgotten \in SUBSET Running
    <3> SUFFICES ASSUME NEW m \in Forgotten PROVE m \in Running
      OBVIOUS
    <3>1. m \in Submitted /\ pc[m] # "done" /\ m \in Executions
      BY DEF Forgotten, Unfinished, Submitted
    <3>2. pc[m] # "pending"
      <4>1. pc[m] = "pending" => m < n /\ n <= m
        BY <1>1, <1>5, <3>1 DEF BacklogInv
      <4>2. m \in Nat /\ n \in Nat
        BY <3>1 DEF Executions
      <4> QED
        BY <4>1, <4>2
    <3> QED
      BY <3>1, <3>2 DEF TypeOK, Running, Submitted
  <2>2. Cardinality(Forgotten) \in Nat /\ Cardinality(Forgotten) <= MaxJobs - 1
    <3>1. Cardinality(Forgotten) <= Cardinality(Running) /\ Cardinality(Running) \in Nat
          /\ Cardinality(Forgotten) \in Nat
      BY <2>1, BacklogSets, Finite
    <3> QED
      BY <1>1, <3>1, WorkerAssumption
  <2> DEFINE c == Cardinality((futures \cap Started)')
  <2>3. c \in Nat /\ c <= MaxJobs
    <3>1. (futures \cap Started)' \in SUBSET futures /\ futures \in SUBSET Executions
      BY <1>1, BacklogSets
    <3>2. c \in Nat /\ c <= Cardinality(futures) /\ Cardinality(futures) \in Nat
      BY <3>1, Finite
    <3>3. Cardinality(futures) <= MaxJobs
      BY <3>2, WorkerAssumption DEF BacklogInv
    <3> QED
      BY <3>2, <3>3, WorkerAssumption
  <2>4. (MaxJobs - c) * (MaxJobs - c - 1) >= 0 /\ (MaxJobs - c) * (MaxJobs - c - 1) \in Int
    <3> HIDE DEF c
    <3>1. MaxJobs - c \in Nat
      BY <2>3, WorkerAssumption
    <3> DEFINE x == MaxJobs - c
    <3> HIDE DEF x
    <3>2. x * (x - 1) >= 0 /\ x * (x - 1) \in Int
      <4>1. x \in Nat
        BY <3>1 DEF x
      <4>2. x = 0 \/ x - 1 \in Nat
        BY <4>1
      <4> QED
        BY <4>1, <4>2
    <3> QED
      BY <3>2 DEF x
  <2>5. 2 * Cardinality(Forgotten') <= 2 * (MaxJobs - 1) + (MaxJobs - c) * (MaxJobs - c - 1)
    <3> HIDE DEF c
    <3> QED
      BY <1>2, <2>2, <2>4, WorkerAssumption
  <2>6. ASSUME NEW m \in Forgotten', NEW l \in futures', pc'[m] = "pending", pc'[l] = "pending"
        PROVE  m < l
    BY <1>1, <1>2, <1>3, <2>6, BacklogSets DEF BacklogInv
  <2> QED
    BY <1>1, <1>2, <2>5, <2>6 DEF BacklogInv
<1> QED
  BY <1>4, <1>5

\* Every step keeps BacklogInv.
LEMMA BacklogStep == TypeOK /\ PingerInv /\ CountInv /\ DirsInv /\ BacklogInv /\ [Next]_vars
                        => BacklogInv'
<1> SUFFICES ASSUME TypeOK, PingerInv, CountInv, DirsInv, BacklogInv, [Next]_vars
             PROVE  BacklogInv'
  OBVIOUS
<1>1. TypeOK'
  BY TypeStep
<1>2. ASSUME UNCHANGED <<pc, futures>>,
             main' \in {"pull", "submit"} => \/ main \in {"pull", "submit"}
                                             \/ Cardinality(futures) < MaxJobs
      PROVE  BacklogInv'
  <2>1. /\ Submitted' = Submitted /\ Forgotten' = Forgotten
        /\ (futures \cap Started)' = futures \cap Started
    BY <1>2 DEF Submitted, Unfinished, Forgotten, Started
  <2> QED
    BY <1>1, <1>2, <2>1, BacklogKept DEF BacklogInv
<1>3. CASE Test
  <2>1. Cardinality(futures) \in Nat
    BY BacklogSets, Finite
  <2>2. main' \in {"pull", "submit"} => Cardinality(futures) < MaxJobs
    BY <1>3, <2>1, WorkerAssumption DEF Test
  <2> QED
    BY <1>2, <1>3, <2>2 DEF Test
<1>4. ASSUME NEW j \in Jobs, Pull(j) \/ PingJob(j) PROVE BacklogInv'
  BY <1>2, <1>4 DEF Pull, PingJob, mainVars
<1>5. CASE PullFails \/ Interrupt \/ Shutdown
  BY <1>2, <1>5 DEF PullFails, Interrupt, Shutdown
<1>6. CASE BeginRound \/ EndRound \/ StopPinging \/ PingDies \/ UNCHANGED vars
  BY <1>2, <1>6 DEF BeginRound, EndRound, StopPinging, PingDies, vars, mainVars
<1>7. ASSUME NEW n \in Executions, AddJob(n) \/ Handle(n) \/ RemoveDir(n) \/ RemoveJob(n)
      PROVE  BacklogInv'
  <2>1. /\ main' = main /\ pc[n] \in Working /\ pc'[n] \in Working \cup {"done"}
        /\ \A m \in Executions : m # n => pc'[m] = pc[m]
    BY <1>7, OneMoves DEF Working, AddJob, Handle, RemoveDir, RemoveJob
  <2>2. futures' = futures
    BY <1>7 DEF AddJob, Handle, RemoveDir, RemoveJob, mainVars
  <2>3. Submitted' = Submitted
    BY <2>1 DEF Submitted, Working
  <2>4. Forgotten' \subseteq Forgotten
    BY <2>1, <2>2, <2>3 DEF Forgotten, Unfinished, Submitted, Working
  <2>5. (futures \cap Started)' = futures \cap Started
    BY <2>1, <2>2, <2>3 DEF Started, Submitted, Working
  <2>6. \A m \in Executions : pc'[m] = "pending" => pc[m] = "pending"
    BY <2>1 DEF Working
  <2> QED
    BY <1>1, <2>1, <2>2, <2>3, <2>4, <2>5, <2>6, BacklogKept DEF BacklogInv
<1> QED
  BY Steps, <1>1, <1>3, <1>4, <1>5, <1>6, <1>7, BacklogFilter, BacklogSubmit, BacklogStart

\* The invariant holds at the start.
LEMMA InitInv == Init => WorkerInv
<1> SUFFICES ASSUME Init PROVE WorkerInv
  OBVIOUS
<1> USE WorkerAssumption DEF Init
<1>1. TypeOK
  BY DEF TypeOK, Executions
<1>2. CountInv
  <2>1. 0 \in 0 .. MaxPulls /\ \A n \in Executions : ~(n <= 0)
    BY DEF Executions
  <2> QED
    BY <2>1 DEF CountInv
<1>3. PingerInv /\ DirsInv /\ OneDirectoryEach /\ AgainInv
  BY DEF PingerInv, DirsInv, OneDirectoryEach, AgainInv, Unfinished, Submitted, AtWork
<1>4. PingedWhileHandled /\ LostLockHasACause
  BY DEF PingedWhileHandled, LostLockHasACause, InHand
<1>5. BacklogInv
  <2>1. futures = {} /\ Forgotten = {} /\ futures \cap Started = {}
    BY DEF Forgotten, Unfinished, Submitted
  <2>2. Cardinality({}) = 0
    BY FS_EmptySet
  <2>3. MaxJobs * (MaxJobs - 1) \in Nat
    <3>1. MaxJobs - 1 \in Nat
      OBVIOUS
    <3> QED
      BY <3>1
  <2>4. 2 * 0 <= 2 * (MaxJobs - 1) + (MaxJobs - 0) * (MaxJobs - 0 - 1)
    BY <2>3
  <2> QED
    BY <2>1, <2>2, <2>4 DEF BacklogInv
<1> QED
  BY <1>1, <1>2, <1>3, <1>4, <1>5 DEF WorkerInv

\* Every step keeps the invariant.
LEMMA WorkerStep == WorkerInv /\ [Next]_vars => WorkerInv'
  BY TypeStep, PingerStep, CountStep, DirsStep, OneStep, AgainStep, PingedStep, LockStep,
     BacklogStep DEF WorkerInv

\* The loop, the executions, the directories and the ping thread fit each other
\* in every behaviour.
THEOREM Invariant == Spec => []WorkerInv
  BY InitInv, WorkerStep, PTL DEF Spec

\* pull_job copies to a directory that must not exist: two executions of one job
\* are never in one directory.
THEOREM OneEach == Spec => []OneDirectoryEach
<1>1. WorkerInv => OneDirectoryEach
  BY DEF WorkerInv
<1> QED
  BY <1>1, Invariant, PTL

\* add_job to remove_job: what is handled is pinged, unless the same job was
\* fetched again before, and what is pinged is handled.
THEOREM Pinged == Spec => []PingedWhileHandled
<1>1. WorkerInv => PingedWhileHandled
  BY DEF WorkerInv
<1> QED
  BY <1>1, Invariant, PTL

\* JobPingThread.lock is never released again only if its thread died in a round
\* or remove_job met a job that was fetched again.
THEOREM LostLock == Spec => []LostLockHasACause
<1>1. WorkerInv => LostLockHasACause
  BY DEF WorkerInv
<1> QED
  BY <1>1, Invariant, PTL

\* JobPoolExecutor: the filter of the futures lets a worker hold more jobs than
\* max_jobs, and no more than the square of it.
THEOREM Bounded == Spec => []BoundedBacklog
<1>1. WorkerInv => BoundedBacklog
  <2> SUFFICES ASSUME WorkerInv PROVE BoundedBacklog
    OBVIOUS
  <2>1. TypeOK /\ BacklogInv /\ DirsInv
    BY DEF WorkerInv
  <2> DEFINE listed == Unfinished \cap futures  one == IF pulled # NoJob THEN 1 ELSE 0
             f == Cardinality(Forgotten)  c == Cardinality(futures \cap Started)  M == MaxJobs
  <2>2. /\ f \in Nat /\ c \in Nat /\ Cardinality(listed) \in Nat
        /\ Cardinality(listed) <= Cardinality(futures) /\ Cardinality(futures) \in Nat
    BY <2>1, BacklogSets, Finite
  <2>3. Cardinality(Unfinished) = f + Cardinality(listed)
    <3>1. IsFiniteSet(Forgotten) /\ IsFiniteSet(listed)
      BY <2>1, BacklogSets, Finite
    <3>2. Forgotten \cup listed = Unfinished /\ Forgotten \cap listed = {}
      BY DEF Forgotten
    <3>3. Cardinality(Unfinished) = f + Cardinality(listed) - Cardinality({})
      BY <3>1, <3>2, FS_Union
    <3> QED
      BY <2>2, <3>3, FS_EmptySet
  <2>4. Cardinality(futures) + one <= M
    <3>1. pulled # NoJob => main = "submit"
      BY <2>1 DEF DirsInv
    <3> QED
      BY <2>1, <2>2, <3>1, WorkerAssumption DEF BacklogInv
  <2>5. Hold <= f + M /\ Hold \in Nat
    BY <2>2, <2>3, <2>4, WorkerAssumption DEF Hold
  <2>6. 2 * f <= 2 * (M - 1) + (M - c) * (M - c - 1) /\ c <= M
    <3>1. c <= Cardinality(futures)
      BY <2>1, BacklogSets, Finite
    <3> QED
      BY <2>1, <2>2, <2>4, <3>1, WorkerAssumption DEF BacklogInv
  <2> HIDE DEF f, c, M
  <2>7. M \in Nat \ {0}
    BY WorkerAssumption DEF M
  <2>8. (M - c) * (M - c - 1) <= M * (M - 1) /\ (M - c) * (M - c - 1) \in Int
    <3>1. (M - c) * (M - c - 1) = M * (M - 1) - c * (M - c + M - 1)
      BY <2>2, <2>7
    <3>2. M - c \in Nat /\ M - c + M - 1 \in Nat
      BY <2>2, <2>6, <2>7
    <3>3. c * (M - c + M - 1) \in Nat
      BY <2>2, <3>2
    <3> QED
      BY <2>2, <2>7, <3>1, <3>3
  <2>9. 2 * f <= 2 * (M * M - M)
    <3>1. M = 1 \/ M \in Nat \ {0, 1}
      BY <2>7
    <3>2. M * (M - 1) = M * M - M /\ M * M \in Nat
      BY <2>7
    <3>3. 2 * (M - 1) <= M * (M - 1)
      <4>1. CASE M = 1
        BY <4>1
      <4>2. CASE M \in Nat \ {0, 1}
        <5>1. PICK k \in Nat : M = k + 2
          <6>1. M - 2 \in Nat /\ M = (M - 2) + 2
            BY <4>2
          <6> QED
            BY <6>1
        <5>2. M * (M - 1) = 2 * (M - 1) + k * (k + 1)
          BY <5>1
        <5>3. k * (k + 1) \in Nat
          OBVIOUS
        <5> QED
          BY <2>7, <5>2, <5>3
      <4> QED
        BY <3>1, <4>1, <4>2
    <3> QED
      BY <2>2, <2>6, <2>7, <2>8, <3>2, <3>3
  <2>10. f <= M * M - M /\ M * M \in Nat
    BY <2>2, <2>7, <2>9
  <2>11. Hold <= M * M
    BY <2>2, <2>5, <2>7, <2>10
  <2> QED
    BY <2>11 DEF BoundedBacklog, M
<1> QED
  BY <1>1, Invariant, PTL
=============================================================================
