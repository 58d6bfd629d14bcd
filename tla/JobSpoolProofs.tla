--------------------------- MODULE JobSpoolProofs ---------------------------
(***************************************************************************)
(* Proofs about JobSpool, for any sets of jobs and workers and any bounds: *)
(* its invariants, and that it implements JobQueue.                        *)
(***************************************************************************)
EXTENDS JobSpool, TLAPS

-----------------------------------------------------------------------------
(* Types. *)

LEMMA TypeInit == Init => TypeOK
  BY SpoolAssumption DEF Init, TypeOK, Idle, At, DataState, ActiveState, ServerState,
     TimeOutPC, MainState, PullPC, Stage

LEMMA TypeStep == TypeOK /\ [Next]_vars => TypeOK'
<1> SUFFICES ASSUME TypeOK, [Next]_vars PROVE TypeOK'
  OBVIOUS
<1> USE SpoolAssumption DEF TypeOK, DataState, ActiveState, ServerState, TimeOutPC,
        MainState, PullPC, Stage, Idle, At, spoolVars, serverVars, workerVars, historyVars
<1>1. CASE Startup
  BY <1>1 DEF Startup, ScanPending, ScanActive, SweepFile, SweepDelete, SweepDone, Uploads
<1>2. CASE TimeOuts
  <2>1. CASE TimeOutRemove
    BY <2>1 DEF TimeOutRemove
  <2>2. CASE TimeOutLink
    BY <2>2 DEF TimeOutLink
  <2>3. ASSUME NEW j \in Jobs, TimeOutCheck(j) PROVE TypeOK'
    BY <2>3 DEF TimeOutCheck
  <2> QED
    BY <1>2, <2>1, <2>2, <2>3 DEF TimeOuts
<1>3. CASE ServerCrash
  BY <1>3 DEF ServerCrash
<1>4. ASSUME NEW j \in Jobs, Drafting(j) \/ Age(j) PROVE TypeOK'
  BY <1>4 DEF Drafting, CreateJob, WriteJobDesc, LinkPending, AbandonDraft, Age
<1>5. ASSUME NEW w \in Workers, Pulling(w) PROVE TypeOK'
  <2>1. CASE PullLink(w)
    BY <2>1 DEF PullLink
  <2>2. CASE PullRemove(w)
    BY <2>2 DEF PullRemove
  <2>3. CASE Fetch(w)
    BY <2>3 DEF Fetch
  <2>4. CASE FetchFail(w)
    BY <2>4 DEF FetchFail
  <2>5. ASSUME NEW j \in Jobs, PullPick(w, j) PROVE TypeOK'
    BY <2>5 DEF PullPick
  <2>6. CASE PullLinkExists(w)
    BY <2>6 DEF PullLinkExists
  <2> QED
    BY <1>5, <2>1, <2>2, <2>3, <2>4, <2>5, <2>6 DEF Pulling
<1>6. ASSUME NEW w \in Workers, Lifecycle(w) PROVE TypeOK'
  <2>1. CASE WorkerCrash(w)
    BY <2>1 DEF WorkerCrash, WorkerStop
  <2>2. CASE WorkerStart(w)
    BY <2>2 DEF WorkerStart
  <2>3. CASE WorkerKilled(w)
    BY <2>3 DEF WorkerKilled, WorkerStop
  <2> QED
    BY <1>6, <2>1, <2>2, <2>3 DEF Lifecycle
<1>7. ASSUME NEW w \in Workers, NEW j \in Jobs, Uploading(w, j) PROVE TypeOK'
  <2>1. CASE UploadEnd(w, j)
    BY <2>1 DEF UploadEnd, SetStage
  <2>2. CASE UploadRegister(w, j)
    BY <2>2 DEF UploadRegister, SetStage
  <2>3. ASSUME NEW k \in Jobs, UploadBegin(w, j, k) PROVE TypeOK'
    BY <2>3 DEF UploadBegin, SetStage
  <2> QED
    BY <1>7, <2>1, <2>2, <2>3 DEF Uploading
<1>8. ASSUME NEW w \in Workers, NEW j \in Jobs, Executing(w, j) PROVE TypeOK'
  <2>1. CASE Start(w, j)
    BY <2>1 DEF Start, SetStage
  <2>2. CASE HandlerOk(w, j)
    BY <2>2 DEF HandlerOk, SetStage
  <2>3. CASE HandlerFail(w, j)
    BY <2>3 DEF HandlerFail, SetStage
  <2>4. CASE DeleteLink(w, j)
    BY <2>4 DEF DeleteLink, SetStage
  <2>5. CASE DeleteData(w, j)
    BY <2>5 DEF DeleteData, SetStage
  <2>6. CASE DeleteFail(w, j)
    BY <2>6 DEF DeleteFail, SetStage
  <2>7. CASE Cleanup(w, j)
    BY <2>7 DEF Cleanup, SetStage
  <2>8. CASE Ping(w, j)
    BY <2>8 DEF Ping, SetStage
  <2> QED
    BY <1>8, <2>1, <2>2, <2>3, <2>4, <2>5, <2>6, <2>7, <2>8 DEF Executing
<1>9. CASE UNCHANGED vars
  BY <1>9 DEF vars
<1> QED
  BY <1>1, <1>2, <1>3, <1>4, <1>5, <1>6, <1>7, <1>8, <1>9 DEF Next

\* The spool's variables keep their types.
THEOREM TypeCorrect == Spec => []TypeOK
  BY TypeInit, TypeStep, PTL DEF Spec

-----------------------------------------------------------------------------
(* The inductive invariant, one lemma for each of its parts. *)

\* The uuids are fresh, so a draft or an upload is never registered by another.
LEMMA OwnershipStep == SpoolInv /\ TypeOK' /\ [Next]_vars => Ownership'
<1> SUFFICES ASSUME SpoolInv, TypeOK', [Next]_vars PROVE Ownership'
  OBVIOUS
<1> USE SpoolAssumption DEF SpoolInv, Ownership, TypeOK, TimeOutPC, PullPC, At, Idle,
        PullState, HolderState, StartupState, spoolVars, serverVars, workerVars, historyVars
<1>1. CASE Startup
  BY <1>1 DEF Startup, ScanPending, Uploads, ScanActive, SweepDone, SweepFile,
     SweepDelete
<1>2. CASE TimeOuts
  BY <1>2 DEF TimeOuts, TimeOutRemove, TimeOutLink, HalfPulled, TimeOutCheck
<1>3. CASE ServerCrash
  BY <1>3 DEF ServerCrash
<1>4. ASSUME NEW j \in Jobs, Drafting(j) PROVE Ownership'
  BY <1>4 DEF Drafting, CreateJob, WriteJobDesc, LinkPending, AbandonDraft
<1>5. ASSUME NEW j \in Jobs, Age(j) PROVE Ownership'
  BY <1>5 DEF Age
<1>6. ASSUME NEW w \in Workers, Pulling(w) PROVE Ownership'
  BY <1>6 DEF Pulling, PullLink, PullLinkExists, PullRemove, Fetch, FetchFail, PullPick,
     LockFree
<1>7. ASSUME NEW w \in Workers, Lifecycle(w) PROVE Ownership'
  <2>1. CASE WorkerCrash(w)
    BY <2>1 DEF WorkerCrash, WorkerStop
  <2>2. CASE WorkerStart(w)
    BY <2>2 DEF WorkerStart
  <2>3. CASE WorkerKilled(w)
    BY <2>3 DEF WorkerKilled, WorkerStop
  <2> QED
    BY <1>7, <2>1, <2>2, <2>3 DEF Lifecycle
<1>8. ASSUME NEW w \in Workers, NEW j \in Jobs, Uploading(w, j) PROVE Ownership'
  <2>1. CASE UploadEnd(w, j)
    BY <2>1 DEF UploadEnd, SetStage
  <2>2. CASE UploadRegister(w, j)
    BY <2>2 DEF UploadRegister, SetStage
  <2>3. ASSUME NEW k \in Jobs, UploadBegin(w, j, k) PROVE Ownership'
    BY <2>3 DEF UploadBegin, SetStage
  <2> QED
    BY <1>8, <2>1, <2>2, <2>3 DEF Uploading
<1>9. ASSUME NEW w \in Workers, NEW j \in Jobs, Executing(w, j) PROVE Ownership'
  <2>1. CASE Start(w, j)
    BY <2>1 DEF Start, SetStage
  <2>2. CASE HandlerOk(w, j)
    BY <2>2 DEF HandlerOk, SetStage
  <2>3. CASE HandlerFail(w, j)
    BY <2>3 DEF HandlerFail, SetStage
  <2>4. CASE DeleteLink(w, j)
    BY <2>4 DEF DeleteLink, SetStage
  <2>5. CASE DeleteData(w, j)
    BY <2>5 DEF DeleteData, SetStage
  <2>6. CASE DeleteFail(w, j)
    BY <2>6 DEF DeleteFail, SetStage
  <2>7. CASE Cleanup(w, j)
    BY <2>7 DEF Cleanup, SetStage
  <2>8. CASE Ping(w, j)
    BY <2>8 DEF Ping, SetStage
  <2> QED
    BY <1>9, <2>1, <2>2, <2>3, <2>4, <2>5, <2>6, <2>7, <2>8 DEF Executing
<1>10. CASE UNCHANGED vars
  BY <1>10 DEF vars
<1> QED
  BY <1>1, <1>2, <1>3, <1>4, <1>5, <1>6, <1>7, <1>8, <1>9, <1>10 DEF Next

\* Between scp and ln only the start-up deletes, and then the upload is exposed.
LEMMA UploadDataStep == SpoolInv /\ TypeOK' /\ [Next]_vars => UploadData'
<1> SUFFICES ASSUME SpoolInv, TypeOK', [Next]_vars PROVE UploadData'
  OBVIOUS
<1> USE SpoolAssumption DEF SpoolInv, Ownership, UploadData, HolderState, StartupState,
        TypeOK, TimeOutPC, PullPC, At, Idle, spoolVars, serverVars, workerVars, historyVars
<1>1. CASE Startup
  BY <1>1 DEF Startup, ScanPending, Uploads, ScanActive, SweepDone, SweepFile,
     SweepDelete
<1>2. CASE TimeOuts
  BY <1>2 DEF TimeOuts, TimeOutRemove, TimeOutLink, HalfPulled, TimeOutCheck
<1>3. CASE ServerCrash
  BY <1>3 DEF ServerCrash
<1>4. ASSUME NEW j \in Jobs, Drafting(j) PROVE UploadData'
  BY <1>4 DEF Drafting, CreateJob, WriteJobDesc, LinkPending, AbandonDraft
<1>5. ASSUME NEW j \in Jobs, Age(j) PROVE UploadData'
  BY <1>5 DEF Age
<1>6. ASSUME NEW w \in Workers, Pulling(w) PROVE UploadData'
  BY <1>6 DEF Pulling, PullLink, PullLinkExists, PullRemove, Fetch, FetchFail, PullPick,
     LockFree
<1>7. ASSUME NEW w \in Workers, Lifecycle(w) PROVE UploadData'
  BY <1>7 DEF Lifecycle, WorkerCrash, WorkerStop, WorkerStart, WorkerKilled
<1>8. ASSUME NEW w \in Workers, NEW j \in Jobs, Uploading(w, j) PROVE UploadData'
  <2>1. CASE UploadEnd(w, j)
    BY <2>1 DEF UploadEnd, SetStage
  <2>2. CASE UploadRegister(w, j)
    BY <2>2 DEF UploadRegister, SetStage
  <2>3. ASSUME NEW k \in Jobs, UploadBegin(w, j, k) PROVE UploadData'
    BY <2>3 DEF UploadBegin, SetStage
  <2> QED
    BY <1>8, <2>1, <2>2, <2>3 DEF Uploading
<1>9. ASSUME NEW w \in Workers, NEW j \in Jobs, Executing(w, j) PROVE UploadData'
  <2>1. CASE Start(w, j)
    BY <2>1 DEF Start, SetStage
  <2>2. CASE HandlerOk(w, j)
    BY <2>2 DEF HandlerOk, SetStage
  <2>3. CASE HandlerFail(w, j)
    BY <2>3 DEF HandlerFail, SetStage
  <2>4. CASE DeleteLink(w, j)
    BY <2>4 DEF DeleteLink, SetStage
  <2>5. CASE DeleteData(w, j)
    BY <2>5 DEF DeleteData, SetStage
  <2>6. CASE DeleteFail(w, j)
    BY <2>6 DEF DeleteFail, SetStage
  <2>7. CASE Cleanup(w, j)
    BY <2>7 DEF Cleanup, SetStage
  <2>8. CASE Ping(w, j)
    BY <2>8 DEF Ping, SetStage
  <2> QED
    BY <1>9, <2>1, <2>2, <2>3, <2>4, <2>5, <2>6, <2>7, <2>8 DEF Executing
<1>10. CASE UNCHANGED vars
  BY <1>10 DEF vars
<1> QED
  BY <1>1, <1>2, <1>3, <1>4, <1>5, <1>6, <1>7, <1>8, <1>9, <1>10 DEF Next

\* A time-out that meets the script at its second step either puts the link
\* back or exposes the job.
LEMMA PullStateStep == SpoolInv /\ TypeOK' /\ [Next]_vars => PullState'
<1> SUFFICES ASSUME SpoolInv, TypeOK', [Next]_vars PROVE PullState'
  OBVIOUS
<1> USE SpoolAssumption DEF SpoolInv, Ownership, PullState, HolderState, Live, NoSilentLoss,
        Offered, TypeOK, TimeOutPC, PullPC, At, Idle, spoolVars, serverVars, workerVars,
        historyVars
<1>1. CASE Startup
  BY <1>1 DEF Startup, ScanPending, Uploads, ScanActive, SweepDone, SweepFile,
     SweepDelete
<1>2. CASE TimeOuts
  BY <1>2 DEF TimeOuts, TimeOutRemove, TimeOutLink, HalfPulled, TimeOutCheck
<1>3. CASE ServerCrash
  BY <1>3 DEF ServerCrash
<1>4. ASSUME NEW j \in Jobs, Drafting(j) PROVE PullState'
  BY <1>4 DEF Drafting, CreateJob, WriteJobDesc, LinkPending, AbandonDraft
<1>5. ASSUME NEW j \in Jobs, Age(j) PROVE PullState'
  BY <1>5 DEF Age
<1>6. ASSUME NEW w \in Workers, Pulling(w) PROVE PullState'
  <2>1. CASE PullLink(w)
    BY <2>1 DEF PullLink
  <2>2. CASE PullLinkExists(w)
    BY <2>2 DEF PullLinkExists
  <2>3. CASE PullRemove(w)
    BY <2>3 DEF PullRemove
  <2>4. CASE Fetch(w)
    BY <2>4 DEF Fetch
  <2>5. CASE FetchFail(w)
    BY <2>5 DEF FetchFail
  <2>6. ASSUME NEW j \in Jobs, PullPick(w, j) PROVE PullState'
    BY <2>6 DEF PullPick, LockFree
  <2> QED
    BY <1>6, <2>1, <2>2, <2>3, <2>4, <2>5, <2>6 DEF Pulling
<1>7. ASSUME NEW w \in Workers, Lifecycle(w) PROVE PullState'
  <2>1. CASE WorkerCrash(w)
    BY <2>1 DEF WorkerCrash, WorkerStop
  <2>2. CASE WorkerStart(w)
    BY <2>2 DEF WorkerStart
  <2>3. CASE WorkerKilled(w)
    BY <2>3 DEF WorkerKilled, WorkerStop
  <2> QED
    BY <1>7, <2>1, <2>2, <2>3 DEF Lifecycle
<1>8. ASSUME NEW w \in Workers, NEW j \in Jobs, Uploading(w, j) PROVE PullState'
  BY <1>8 DEF Uploading, UploadEnd, SetStage, UploadRegister, UploadBegin
<1>9. ASSUME NEW w \in Workers, NEW j \in Jobs, Executing(w, j) PROVE PullState'
  BY <1>9 DEF Executing, Start, SetStage, HandlerOk, HandlerFail, DeleteLink, DeleteData,
     DeleteFail, Cleanup, Ping
<1>10. CASE UNCHANGED vars
  BY <1>10 DEF vars
<1> QED
  BY <1>1, <1>2, <1>3, <1>4, <1>5, <1>6, <1>7, <1>8, <1>9, <1>10 DEF Next

\* A worker holds a job only after its script has linked it in active/.
LEMMA HolderStateStep == SpoolInv /\ TypeOK' /\ [Next]_vars => HolderState'
<1> SUFFICES ASSUME SpoolInv, TypeOK', [Next]_vars PROVE HolderState'
  OBVIOUS
<1> USE SpoolAssumption DEF SpoolInv, Ownership, PullState, HolderState, Taken,
        StartupState, TypeOK, TimeOutPC, PullPC, At, Idle, spoolVars, serverVars,
        workerVars, historyVars
<1>1. CASE Startup
  BY <1>1 DEF Startup, ScanPending, Uploads, ScanActive, SweepDone, SweepFile,
     SweepDelete
<1>2. CASE TimeOuts
  BY <1>2 DEF TimeOuts, TimeOutRemove, TimeOutLink, HalfPulled, TimeOutCheck
<1>3. CASE ServerCrash
  BY <1>3 DEF ServerCrash
<1>4. ASSUME NEW j \in Jobs, Drafting(j) PROVE HolderState'
  BY <1>4 DEF Drafting, CreateJob, WriteJobDesc, LinkPending, AbandonDraft
<1>5. ASSUME NEW j \in Jobs, Age(j) PROVE HolderState'
  BY <1>5 DEF Age
<1>6. ASSUME NEW w \in Workers, Pulling(w) PROVE HolderState'
  <2>1. CASE PullLink(w)
    BY <2>1 DEF PullLink
  <2>2. CASE PullLinkExists(w)
    BY <2>2 DEF PullLinkExists
  <2>3. CASE PullRemove(w)
    BY <2>3 DEF PullRemove
  <2>4. CASE Fetch(w)
    BY <2>4 DEF Fetch
  <2>5. CASE FetchFail(w)
    BY <2>5 DEF FetchFail
  <2>6. ASSUME NEW j \in Jobs, PullPick(w, j) PROVE HolderState'
    BY <2>6 DEF PullPick, LockFree
  <2> QED
    BY <1>6, <2>1, <2>2, <2>3, <2>4, <2>5, <2>6 DEF Pulling
<1>7. ASSUME NEW w \in Workers, Lifecycle(w) PROVE HolderState'
  <2>1. CASE WorkerCrash(w)
    BY <2>1 DEF WorkerCrash, WorkerStop
  <2>2. CASE WorkerStart(w)
    BY <2>2 DEF WorkerStart
  <2>3. CASE WorkerKilled(w)
    BY <2>3 DEF WorkerKilled, WorkerStop
  <2> QED
    BY <1>7, <2>1, <2>2, <2>3 DEF Lifecycle
<1>8. ASSUME NEW w \in Workers, NEW j \in Jobs, Uploading(w, j) PROVE HolderState'
  <2>1. CASE UploadEnd(w, j)
    BY <2>1 DEF UploadEnd, SetStage
  <2>2. CASE UploadRegister(w, j)
    BY <2>2 DEF UploadRegister, SetStage
  <2>3. ASSUME NEW k \in Jobs, UploadBegin(w, j, k) PROVE HolderState'
    BY <2>3 DEF UploadBegin, SetStage
  <2> QED
    BY <1>8, <2>1, <2>2, <2>3 DEF Uploading
<1>9. ASSUME NEW w \in Workers, NEW j \in Jobs, Executing(w, j) PROVE HolderState'
  BY <1>9 DEF Executing, Start, SetStage, HandlerOk, HandlerFail, DeleteLink, DeleteData,
     DeleteFail, Cleanup, Ping
<1>10. CASE UNCHANGED vars
  BY <1>10 DEF vars
<1> QED
  BY <1>1, <1>2, <1>3, <1>4, <1>5, <1>6, <1>7, <1>8, <1>9, <1>10 DEF Next

\* pending/ is read before active/, the order in which a pull moves a job.
LEMMA StartupStateStep == SpoolInv /\ TypeOK' /\ [Next]_vars => StartupState'
<1> SUFFICES ASSUME SpoolInv, TypeOK', [Next]_vars PROVE StartupState'
  OBVIOUS
<1> USE SpoolAssumption DEF SpoolInv, Ownership, PullState, HolderState, StartupState, Live,
        NoSilentLoss, Offered, TypeOK, TimeOutPC, PullPC, At, Idle, spoolVars, serverVars,
        workerVars, historyVars
<1>1. CASE Startup
  BY <1>1 DEF Startup, ScanPending, Uploads, ScanActive, SweepDone, SweepFile,
     SweepDelete
<1>2. CASE TimeOuts
  BY <1>2 DEF TimeOuts, TimeOutRemove, TimeOutLink, HalfPulled, TimeOutCheck
<1>3. CASE ServerCrash
  BY <1>3 DEF ServerCrash
<1>4. ASSUME NEW j \in Jobs, Drafting(j) PROVE StartupState'
  BY <1>4 DEF Drafting, CreateJob, WriteJobDesc, LinkPending, AbandonDraft
<1>5. ASSUME NEW j \in Jobs, Age(j) PROVE StartupState'
  BY <1>5 DEF Age
<1>6. ASSUME NEW w \in Workers, Pulling(w) PROVE StartupState'
  BY <1>6 DEF Pulling, PullLink, PullLinkExists, PullRemove, Fetch, FetchFail, PullPick,
     LockFree
<1>7. ASSUME NEW w \in Workers, Lifecycle(w) PROVE StartupState'
  <2>1. CASE WorkerCrash(w)
    BY <2>1 DEF WorkerCrash, WorkerStop
  <2>2. CASE WorkerStart(w)
    BY <2>2 DEF WorkerStart
  <2>3. CASE WorkerKilled(w)
    BY <2>3 DEF WorkerKilled, WorkerStop
  <2> QED
    BY <1>7, <2>1, <2>2, <2>3 DEF Lifecycle
<1>8. ASSUME NEW w \in Workers, NEW j \in Jobs, Uploading(w, j) PROVE StartupState'
  <2>1. CASE UploadEnd(w, j)
    BY <2>1 DEF UploadEnd, SetStage
  <2>2. CASE UploadRegister(w, j)
    BY <2>2 DEF UploadRegister, SetStage
  <2>3. ASSUME NEW k \in Jobs, UploadBegin(w, j, k) PROVE StartupState'
    BY <2>3 DEF UploadBegin, SetStage
  <2> QED
    BY <1>8, <2>1, <2>2, <2>3 DEF Uploading
<1>9. ASSUME NEW w \in Workers, NEW j \in Jobs, Executing(w, j) PROVE StartupState'
  <2>1. CASE Start(w, j)
    BY <2>1 DEF Start, SetStage
  <2>2. CASE HandlerOk(w, j)
    BY <2>2 DEF HandlerOk, SetStage
  <2>3. CASE HandlerFail(w, j)
    BY <2>3 DEF HandlerFail, SetStage
  <2>4. CASE DeleteLink(w, j)
    BY <2>4 DEF DeleteLink, SetStage
  <2>5. CASE DeleteData(w, j)
    BY <2>5 DEF DeleteData, SetStage
  <2>6. CASE DeleteFail(w, j)
    BY <2>6 DEF DeleteFail, SetStage
  <2>7. CASE Cleanup(w, j)
    BY <2>7 DEF Cleanup, SetStage
  <2>8. CASE Ping(w, j)
    BY <2>8 DEF Ping, SetStage
  <2> QED
    BY <1>9, <2>1, <2>2, <2>3, <2>4, <2>5, <2>6, <2>7, <2>8 DEF Executing
<1>10. CASE UNCHANGED vars
  BY <1>10 DEF vars
<1> QED
  BY <1>1, <1>2, <1>3, <1>4, <1>5, <1>6, <1>7, <1>8, <1>9, <1>10 DEF Next

\* Whatever removes one link of a live job leaves the other, and whatever
\* deletes its data finds it done or not live.
LEMMA NoSilentLossStep == SpoolInv /\ TypeOK' /\ [Next]_vars => NoSilentLoss'
<1> SUFFICES ASSUME SpoolInv, TypeOK', [Next]_vars PROVE NoSilentLoss'
  OBVIOUS
<1> USE SpoolAssumption DEF SpoolInv, Ownership, UploadData, PullState, HolderState,
        StartupState, NoSilentLoss, Live, Offered, TypeOK, TimeOutPC, PullPC, At, Idle,
        spoolVars, serverVars, workerVars, historyVars
<1>1. CASE Startup
  BY <1>1 DEF Startup, ScanPending, Uploads, ScanActive, SweepDone, SweepFile,
     SweepDelete
<1>2. CASE TimeOuts
  BY <1>2 DEF TimeOuts, TimeOutRemove, TimeOutLink, HalfPulled, TimeOutCheck
<1>3. CASE ServerCrash
  BY <1>3 DEF ServerCrash
<1>4. ASSUME NEW j \in Jobs, Drafting(j) PROVE NoSilentLoss'
  BY <1>4 DEF Drafting, CreateJob, WriteJobDesc, LinkPending, AbandonDraft
<1>5. ASSUME NEW j \in Jobs, Age(j) PROVE NoSilentLoss'
  BY <1>5 DEF Age
<1>6. ASSUME NEW w \in Workers, Pulling(w) PROVE NoSilentLoss'
  BY <1>6 DEF Pulling, PullLink, PullLinkExists, PullRemove, Fetch, FetchFail, PullPick,
     LockFree
<1>7. ASSUME NEW w \in Workers, Lifecycle(w) PROVE NoSilentLoss'
  BY <1>7 DEF Lifecycle, WorkerCrash, WorkerStop, WorkerStart, WorkerKilled
<1>8. ASSUME NEW w \in Workers, NEW j \in Jobs, Uploading(w, j) PROVE NoSilentLoss'
  BY <1>8 DEF Uploading, UploadEnd, SetStage, UploadRegister, UploadBegin
<1>9. ASSUME NEW w \in Workers, NEW j \in Jobs, Executing(w, j) PROVE NoSilentLoss'
  BY <1>9 DEF Executing, Start, SetStage, HandlerOk, HandlerFail, DeleteLink, DeleteData,
     DeleteFail, Cleanup, Ping
<1>10. CASE UNCHANGED vars
  BY <1>10 DEF vars
<1> QED
  BY <1>1, <1>2, <1>3, <1>4, <1>5, <1>6, <1>7, <1>8, <1>9, <1>10 DEF Next

\* Only a registration and a time-out add a name, only a pull removes one.
LEMMA DeliveriesStep == SpoolInv /\ TypeOK' /\ [Next]_vars => DeliveriesAccounted'
<1> SUFFICES ASSUME SpoolInv, TypeOK', [Next]_vars PROVE DeliveriesAccounted'
  OBVIOUS
<1> USE SpoolAssumption DEF SpoolInv, Ownership, PullState, DeliveriesAccounted, TypeOK,
        TimeOutPC, PullPC, At, Idle, spoolVars, serverVars, workerVars, historyVars
<1>1. CASE Startup
  BY <1>1 DEF Startup, ScanPending, Uploads, ScanActive, SweepDone, SweepFile,
     SweepDelete
<1>2. CASE TimeOuts
  BY <1>2 DEF TimeOuts, TimeOutRemove, TimeOutLink, HalfPulled, TimeOutCheck
<1>3. CASE ServerCrash
  BY <1>3 DEF ServerCrash
<1>4. ASSUME NEW j \in Jobs, Drafting(j) PROVE DeliveriesAccounted'
  BY <1>4 DEF Drafting, CreateJob, WriteJobDesc, LinkPending, AbandonDraft
<1>5. ASSUME NEW j \in Jobs, Age(j) PROVE DeliveriesAccounted'
  BY <1>5 DEF Age
<1>6. ASSUME NEW w \in Workers, Pulling(w) PROVE DeliveriesAccounted'
  BY <1>6 DEF Pulling, PullLink, PullLinkExists, PullRemove, Fetch, FetchFail, PullPick,
     LockFree
<1>7. ASSUME NEW w \in Workers, Lifecycle(w) PROVE DeliveriesAccounted'
  BY <1>7 DEF Lifecycle, WorkerCrash, WorkerStop, WorkerStart, WorkerKilled
<1>8. ASSUME NEW w \in Workers, NEW j \in Jobs, Uploading(w, j) PROVE DeliveriesAccounted'
  BY <1>8 DEF Uploading, UploadEnd, SetStage, UploadRegister, UploadBegin
<1>9. ASSUME NEW w \in Workers, NEW j \in Jobs, Executing(w, j) PROVE DeliveriesAccounted'
  BY <1>9 DEF Executing, Start, SetStage, HandlerOk, HandlerFail, DeleteLink, DeleteData,
     DeleteFail, Cleanup, Ping
<1>10. CASE UNCHANGED vars
  BY <1>10 DEF vars
<1> QED
  BY <1>1, <1>2, <1>3, <1>4, <1>5, <1>6, <1>7, <1>8, <1>9, <1>10 DEF Next

\* A ping creates a file only where the link or the data was removed before.
LEMMA GhostsStep == SpoolInv /\ TypeOK' /\ [Next]_vars => GhostsHaveACause'
<1> SUFFICES ASSUME SpoolInv, TypeOK', [Next]_vars PROVE GhostsHaveACause'
  OBVIOUS
<1> USE SpoolAssumption DEF SpoolInv, Ownership, PullState, HolderState, GhostsHaveACause,
        NoSilentLoss, Live, Taken, Pinged, TypeOK, TimeOutPC, PullPC, At, Idle, spoolVars,
        serverVars, workerVars, historyVars
<1>1. CASE Startup
  BY <1>1 DEF Startup, ScanPending, Uploads, ScanActive, SweepDone, SweepFile,
     SweepDelete
<1>2. CASE TimeOuts
  BY <1>2 DEF TimeOuts, TimeOutRemove, TimeOutLink, HalfPulled, TimeOutCheck
<1>3. CASE ServerCrash
  BY <1>3 DEF ServerCrash
<1>4. ASSUME NEW j \in Jobs, Drafting(j) PROVE GhostsHaveACause'
  BY <1>4 DEF Drafting, CreateJob, WriteJobDesc, LinkPending, AbandonDraft
<1>5. ASSUME NEW j \in Jobs, Age(j) PROVE GhostsHaveACause'
  BY <1>5 DEF Age
<1>6. ASSUME NEW w \in Workers, Pulling(w) PROVE GhostsHaveACause'
  BY <1>6 DEF Pulling, PullLink, PullLinkExists, PullRemove, Fetch, FetchFail, PullPick,
     LockFree
<1>7. ASSUME NEW w \in Workers, Lifecycle(w) PROVE GhostsHaveACause'
  BY <1>7 DEF Lifecycle, WorkerCrash, WorkerStop, WorkerStart, WorkerKilled
<1>8. ASSUME NEW w \in Workers, NEW j \in Jobs, Uploading(w, j) PROVE GhostsHaveACause'
  BY <1>8 DEF Uploading, UploadEnd, SetStage, UploadRegister, UploadBegin
<1>9. ASSUME NEW w \in Workers, NEW j \in Jobs, Executing(w, j) PROVE GhostsHaveACause'
  BY <1>9 DEF Executing, Start, SetStage, HandlerOk, HandlerFail, DeleteLink, DeleteData,
     DeleteFail, Cleanup, Ping
<1>10. CASE UNCHANGED vars
  BY <1>10 DEF vars
<1> QED
  BY <1>1, <1>2, <1>3, <1>4, <1>5, <1>6, <1>7, <1>8, <1>9, <1>10 DEF Next

LEMMA InvInit == Init => SpoolInv
  BY SpoolAssumption, TypeInit DEF Init, SpoolInv, Ownership, UploadData, PullState,
     HolderState, Taken, StartupState, NoSilentLoss, Live, DeliveriesAccounted,
     GhostsHaveACause, Idle, At

LEMMA InvStep == SpoolInv /\ [Next]_vars => SpoolInv'
<1> SUFFICES ASSUME SpoolInv, [Next]_vars PROVE SpoolInv'
  OBVIOUS
<1>1. TypeOK'
  BY TypeStep DEF SpoolInv
<1> QED
  BY <1>1, OwnershipStep, UploadDataStep, PullStateStep, HolderStateStep,
     StartupStateStep, NoSilentLossStep, DeliveriesStep, GhostsStep DEF SpoolInv

\* The parts of the invariant hold together: what each actor has under way fits
\* the directories, and every live job is covered by a link or by an actor.
THEOREM Invariant == Spec => []SpoolInv
  BY InvInit, InvStep, PTL DEF Spec

-----------------------------------------------------------------------------
(* The properties. *)

\* A registered job that no handler has finished is offered to the workers,
\* with complete files, outside the three windows of "exposed".
THEOREM JobsAreNotLost == Spec => []NoSilentLoss
<1>1. SpoolInv => NoSilentLoss
  BY DEF SpoolInv
<1> QED
  BY <1>1, Invariant, PTL

\* Every delivery of a job is its first one or follows a time-out's requeue.
THEOREM DeliveriesAreAccounted == Spec => []DeliveriesAccounted
<1>1. SpoolInv => DeliveriesAccounted
  BY DEF SpoolInv
<1> QED
  BY <1>1, Invariant, PTL

\* Plain files in place of links and directories come from late pings only.
THEOREM GhostsAreExplained == Spec => []GhostsHaveACause
<1>1. SpoolInv => GhostsHaveACause
  BY DEF SpoolInv
<1> QED
  BY <1>1, Invariant, PTL

-----------------------------------------------------------------------------
(* The spool implements the abstract queue: under the invariant every file *)
(* operation is a step of JobQueue or leaves the queue alone.              *)

Stutter == UNCHANGED Queue!vars

LEMMA QueueInit == Init => Queue!Init
  BY SpoolAssumption DEF Init, Queue!Init, Place, Idle, At

\* What a step that touches neither a link nor a job's files does to the queue.
LEMMA Unseen ==
  ASSUME UNCHANGED <<pending, active, tmo, registered, delivered, requeued, done, exposed>>,
         \A j \in registered : data'[j] = "ready" <=> data[j] = "ready"
  PROVE  Stutter
  BY DEF Stutter, Queue!vars, Place

\* The server's start-up: only released files are deleted.
LEMMA StartupImplements == SpoolInv /\ Startup => Queue!Next \/ Stutter
<1> SUFFICES ASSUME SpoolInv, Startup PROVE Queue!Next \/ Stutter
  OBVIOUS
<1> USE DEF SpoolInv, spoolVars, serverVars, workerVars, historyVars
<1>1. CASE ScanPending
  <2>1. Uploads \subseteq Jobs
    BY DEF Uploads
  <2>2. Queue!GiveUp(Uploads)
    BY <1>1 DEF ScanPending, Queue!GiveUp, Place
  <2> QED
    BY <2>1, <2>2 DEF Queue!Next
<1>2. CASE ScanActive
  BY <1>2, Unseen DEF ScanActive
<1>3. CASE SweepDone
  BY <1>3, Unseen DEF SweepDone
<1>4. ASSUME NEW j \in Jobs, SweepFile(j) PROVE Queue!Next \/ Stutter
  <2> USE <1>4 DEF SweepFile
  <2>1. CASE j \notin registered
    BY <2>1, Unseen DEF TypeOK
  <2>2. CASE j \in registered
    <3>1. j \in done \cup exposed
      BY <2>2 DEF StartupState, Live
    <3>2. Queue!Discard(j)
      BY <2>2, <3>1 DEF Queue!Discard, Queue!Released, Place, TypeOK
    <3> QED
      BY <3>2 DEF Queue!Next
  <2> QED
    BY <2>1, <2>2
<1>5. ASSUME NEW j \in Jobs, SweepDelete(j) PROVE Queue!Next \/ Stutter
  BY <1>5, Unseen DEF SweepDelete, TypeOK
<1> QED
  BY <1>1, <1>2, <1>3, <1>4, <1>5 DEF Startup

\* A time-out's two file operations: the job comes back at the second one.
LEMMA TimeOutImplements == SpoolInv /\ TimeOuts => Queue!Next \/ Stutter
<1> SUFFICES ASSUME SpoolInv, TimeOuts PROVE Queue!Next \/ Stutter
  OBVIOUS
<1> USE SpoolAssumption
        DEF SpoolInv, TypeOK, TimeOutPC, At, Idle, spoolVars, serverVars, workerVars, historyVars
<1>1. CASE TimeOutRemove
  BY <1>1 DEF TimeOutRemove, Stutter, Queue!vars, Place
<1>2. CASE TimeOutLink
  <2> DEFINE j == tmo.job
  <2>1. j \in Jobs /\ j \in registered
    BY <1>2 DEF TimeOutLink, StartupState
  <2>2. CASE j \in pending
    <3> DEFINE S == exposed' \ exposed
    <3>1. S \in SUBSET Jobs /\ exposed' = exposed \cup S
      BY <1>2, <2>1, <2>2 DEF TimeOutLink
    <3>2. Queue!GiveUp(S)
      BY <1>2, <2>2, <3>1 DEF TimeOutLink, Queue!GiveUp, Place
    <3> QED
      BY <3>1, <3>2 DEF Queue!Next
  <2>3. CASE j \notin pending
    <3>1. Queue!Move(j, "taken", "waiting")
      BY <1>2, <2>1, <2>3 DEF TimeOutLink, Queue!Move, Place
    <3>2. Queue!Return(j)
      BY <1>2, <2>3, <3>1 DEF TimeOutLink, Queue!Return
    <3> QED
      BY <2>1, <3>2 DEF Queue!Next
  <2> QED
    BY <2>2, <2>3
<1>3. ASSUME NEW j \in Jobs, TimeOutCheck(j) PROVE Queue!Next \/ Stutter
  BY <1>3 DEF TimeOutCheck, Stutter, Queue!vars, Place
<1> QED
  BY <1>1, <1>2, <1>3 DEF TimeOuts

\* The server's death: a job that a time-out was moving is given up, or was
\* released before.
LEMMA CrashImplements == SpoolInv /\ ServerCrash => Queue!Next \/ Stutter
<1> SUFFICES ASSUME SpoolInv, ServerCrash PROVE Queue!Next \/ Stutter
  OBVIOUS
<1> USE SpoolAssumption DEF SpoolInv, TypeOK, TimeOutPC, At, Idle, ServerCrash, spoolVars,
        serverVars, workerVars, historyVars
<1> DEFINE j == tmo.job
<1>1. CASE tmo.pc = "idle"
  BY <1>1 DEF Stutter, Queue!vars, Place
<1>2. CASE tmo.pc = "link"
  <2>1. {j} \in SUBSET Jobs /\ exposed' = exposed \cup {j}
    BY <1>2
  <2>2. CASE j \in pending \/ active[j] = "link"
    <3>1. Queue!GiveUp({j})
      BY <1>2, <2>1, <2>2 DEF Queue!GiveUp, Place
    <3> QED
      BY <2>1, <3>1 DEF Queue!Next
  <2>3. CASE j \notin pending /\ active[j] # "link"
    <3>1. Queue!Move(j, "taken", "gone")
      BY <1>2, <2>1, <2>3 DEF StartupState, Queue!Move, Place
    <3>2. Queue!GiveUp({j})
      BY <1>2, <2>1, <3>1 DEF Queue!GiveUp
    <3> QED
      BY <2>1, <3>2 DEF Queue!Next
  <2> QED
    BY <2>2, <2>3
<1>3. CASE tmo.pc = "remove"
  <2>1. j \in Jobs /\ j \in registered /\ exposed' = exposed
    BY <1>3 DEF StartupState
  <2>2. CASE j \in pending \/ active[j] = "link"
    BY <1>3, <2>1, <2>2 DEF Stutter, Queue!vars, Place
  <2>3. CASE j \notin pending /\ active[j] # "link"
    <3>1. j \in done \cup exposed
      BY <1>3, <2>1, <2>3 DEF NoSilentLoss, Live, Offered
    <3>2. Queue!Move(j, "taken", "gone")
      BY <1>3, <2>1, <2>3 DEF Queue!Move, Place
    <3>3. Queue!Forget(j)
      BY <1>3, <2>1, <3>1, <3>2 DEF Queue!Forget, Queue!Released
    <3> QED
      BY <2>1, <3>3 DEF Queue!Next
  <2> QED
    BY <2>2, <2>3
<1> QED
  BY <1>1, <1>2, <1>3

\* The server's job creation: the link is the put.
LEMMA DraftImplements ==
  ASSUME NEW j \in Jobs, SpoolInv, Drafting(j) \/ Age(j)
  PROVE  Queue!Next \/ Stutter
<1> USE DEF SpoolInv, TypeOK, Ownership, spoolVars, serverVars, workerVars, historyVars
<1>1. CASE CreateJob(j)
  BY <1>1, Unseen DEF CreateJob
<1>2. CASE WriteJobDesc(j)
  BY <1>2, Unseen DEF WriteJobDesc
<1>3. CASE LinkPending(j)
  <2>1. tmo.job # j
    BY <1>3, SpoolAssumption DEF LinkPending, StartupState, TimeOutPC, Idle, At
  <2>2. Queue!Move(j, "none", "waiting")
    BY <1>3, <2>1 DEF LinkPending, Queue!Move, Place
  <2>3. Queue!Put(j)
    BY <1>3, <2>2 DEF LinkPending, Queue!Put
  <2> QED
    BY <2>3 DEF Queue!Next
<1>4. CASE AbandonDraft(j)
  BY <1>4, Unseen DEF AbandonDraft
<1>5. CASE Age(j)
  BY <1>5, Unseen DEF Age
<1> QED
  BY <1>1, <1>2, <1>3, <1>4, <1>5 DEF Drafting

\* The pull script: the job is taken when its name leaves pending/.
LEMMA PullImplements ==
  ASSUME NEW w \in Workers, SpoolInv, Pulling(w) \/ Lifecycle(w)
  PROVE  Queue!Next \/ Stutter
<1> USE SpoolAssumption DEF SpoolInv, TypeOK, PullPC, At, Idle, spoolVars, serverVars,
        workerVars, historyVars
<1>1. CASE PullLink(w)
  BY <1>1 DEF PullLink, PullState, Stutter, Queue!vars, Place
<1>2. CASE PullRemove(w)
  <2> DEFINE j == pull[w].job
  <2>1. j \in Jobs /\ j \in pending /\ j \in registered
    BY <1>2 DEF PullRemove, PullState
  <2>2. CASE active[j] = "link" \/ tmo.job = j
    <3>1. Queue!Move(j, "waiting", "taken")
      BY <1>2, <2>1, <2>2 DEF PullRemove, Queue!Move, Place
    <3>2. Queue!Take(j)
      BY <1>2, <3>1 DEF PullRemove, Queue!Take
    <3> QED
      BY <2>1, <3>2 DEF Queue!Next
  <2>3. CASE ~(active[j] = "link" \/ tmo.job = j)
    <3>1. j \in done \cup exposed
      BY <1>2, <2>1, <2>3 DEF PullRemove, PullState, Live
    <3>2. Queue!Move(j, "waiting", "gone")
      BY <1>2, <2>1, <2>3 DEF PullRemove, Queue!Move, Place
    <3>3. Queue!Take(j)
      BY <1>2, <3>1, <3>2 DEF PullRemove, Queue!Take, Queue!Released
    <3> QED
      BY <2>1, <3>3 DEF Queue!Next
  <2> QED
    BY <2>2, <2>3
<1>3. CASE PullLinkExists(w) \/ Fetch(w) \/ FetchFail(w) \/ \E j \in Jobs : PullPick(w, j)
  BY <1>3, Unseen DEF PullLinkExists, Fetch, FetchFail, PullPick
<1>4. CASE Lifecycle(w)
  BY <1>4, Unseen DEF Lifecycle, WorkerCrash, WorkerStart, WorkerKilled
<1> QED
  BY <1>1, <1>2, <1>3, <1>4 DEF Pulling

\* create_job: as the server's, except that a start-up may have deleted files.
LEMMA UploadImplements ==
  ASSUME NEW w \in Workers, NEW j \in Jobs, SpoolInv, Uploading(w, j)
  PROVE  Queue!Next \/ Stutter
<1> USE DEF SpoolInv, TypeOK, Ownership, spoolVars, serverVars, workerVars, historyVars
<1>1. CASE UploadEnd(w, j)
  BY <1>1, Unseen DEF UploadEnd
<1>2. CASE UploadRegister(w, j)
  <2> PICK c \in Jobs : c = child[w][j]
    BY <1>2 DEF UploadRegister
  <2>1. c \notin registered /\ c \notin pending /\ active[c] # "link"
    BY <1>2 DEF UploadRegister
  <2>2. data[c] = "ready" \/ c \in exposed
    BY <1>2, <2>1, SpoolAssumption DEF UploadRegister, UploadData
  <2>3. tmo.job # c
    BY <2>1, SpoolAssumption DEF StartupState, TimeOutPC, Idle, At
  <2>4. Queue!Move(c, "none", "waiting")
    BY <1>2, <2>1, <2>3 DEF UploadRegister, Queue!Move, Place
  <2>5. Queue!Put(c)
    BY <1>2, <2>1, <2>2, <2>4 DEF UploadRegister, Queue!Put
  <2> QED
    BY <2>5 DEF Queue!Next
<1>3. ASSUME NEW k \in Jobs, UploadBegin(w, j, k) PROVE Queue!Next \/ Stutter
  <2>1. CASE exposed' = exposed
    BY <1>3, <2>1, Unseen DEF UploadBegin
  <2>2. CASE exposed' = exposed \cup {k}
    <3>1. Queue!GiveUp({k})
      BY <1>3, <2>2 DEF UploadBegin, Queue!GiveUp, Place
    <3> QED
      BY <3>1 DEF Queue!Next
  <2> QED
    BY <1>3, <2>1, <2>2 DEF UploadBegin
<1> QED
  BY <1>1, <1>2, <1>3 DEF Uploading

\* The handler and what follows: the entry goes before the files.
LEMMA ExecutionImplements ==
  ASSUME NEW w \in Workers, NEW j \in Jobs, SpoolInv, Executing(w, j)
  PROVE  Queue!Next \/ Stutter
<1> USE DEF SpoolInv, TypeOK, spoolVars, serverVars, workerVars, historyVars
<1>1. CASE Start(w, j) \/ HandlerFail(w, j) \/ DeleteFail(w, j) \/ Cleanup(w, j)
  BY <1>1, Unseen DEF Start, HandlerFail, DeleteFail, Cleanup
<1>2. CASE HandlerOk(w, j)
  <2>1. Queue!Finish(j)
    BY <1>2 DEF HandlerOk, HolderState, Queue!Finish, Place
  <2> QED
    BY <2>1 DEF Queue!Next
<1>3. CASE DeleteLink(w, j)
  <2>1. j \in done /\ j \in registered
    BY <1>3 DEF DeleteLink, HolderState
  <2>2. CASE j \in pending \/ tmo.job = j \/ active[j] # "link"
    BY <1>3, <2>2 DEF DeleteLink, Stutter, Queue!vars, Place
  <2>3. CASE ~(j \in pending \/ tmo.job = j \/ active[j] # "link")
    <3>1. Queue!Move(j, "taken", "gone")
      BY <1>3, <2>1, <2>3 DEF DeleteLink, Queue!Move, Place
    <3>2. Queue!Forget(j)
      BY <1>3, <2>1, <3>1 DEF DeleteLink, Queue!Forget, Queue!Released
    <3> QED
      BY <3>2 DEF Queue!Next
  <2> QED
    BY <2>2, <2>3
<1>4. CASE DeleteData(w, j)
  <2>1. j \in done
    BY <1>4 DEF DeleteData, HolderState
  <2>2. Queue!Discard(j)
    BY <1>4, <2>1 DEF DeleteData, Queue!Discard, Queue!Released, Place
  <2> QED
    BY <2>2 DEF Queue!Next
<1>5. CASE Ping(w, j)
  BY <1>5 DEF Ping, Stutter, Queue!vars, Place
<1> QED
  BY <1>1, <1>2, <1>3, <1>4, <1>5 DEF Executing

LEMMA StepImplements == SpoolInv /\ [Next]_vars => Queue!Next \/ Stutter
<1>1. UNCHANGED vars => Stutter
  BY Unseen DEF vars, spoolVars, serverVars, workerVars, historyVars
<1> QED
  BY <1>1, StartupImplements, TimeOutImplements, CrashImplements, DraftImplements,
     PullImplements, UploadImplements, ExecutionImplements DEF Next

\* The spool is an at-least-once queue: a job that was put is offered with its
\* files, or with a worker and able to come back, until it was finished or
\* given up in one of the windows of "exposed".
THEOREM SpoolImplementsQueue == Spec => ImplementsQueue
<1>1. SpoolInv /\ [Next]_vars => [Queue!Next]_Queue!vars
  BY StepImplements DEF Stutter
<1> QED
  BY <1>1, QueueInit, Invariant, PTL DEF Spec, ImplementsQueue, Queue!Spec

-----------------------------------------------------------------------------
(***************************************************************************)
(* What the abstract queue promises, for any variables; and so the spool.  *)
(***************************************************************************)
VARIABLES where, files, out, back, finished, lost

Q == INSTANCE JobQueue

QueueTypes == /\ where \in [Jobs -> {"none", "waiting", "taken", "gone"}]
              /\ out \in [Jobs -> Nat] /\ back \in [Jobs -> Nat]

\* What a step leaves of one job: it stands still or goes one place on, with
\* what that needs, and nothing is forgotten of what was finished or given up.
LEMMA QueueStep ==
    ASSUME QueueTypes, Q!Promise, [Q!Next]_(Q!vars)
    PROVE  QueueTypes' /\ Q!Promise'
<1> USE DEF QueueTypes, Q!Promise, Q!Owed, Q!Released, Q!Move
<1>1. ASSUME NEW j \in Jobs, Q!Put(j) PROVE QueueTypes' /\ Q!Promise'
  <2>1. where' = [where EXCEPT ![j] = "waiting"] /\ where[j] = "none"
        /\ UNCHANGED <<out, back, finished, lost>> /\ files \subseteq files'
        /\ (j \in files' \/ j \in lost)
    BY <1>1 DEF Q!Put
  <2> QED
    BY <2>1
<1>2. ASSUME NEW j \in Jobs, Q!Take(j) PROVE QueueTypes' /\ Q!Promise'
  <2>1. /\ where[j] = "waiting" /\ out' = [out EXCEPT ![j] = @ + 1]
        /\ \/ where' = [where EXCEPT ![j] = "taken"]
           \/ where' = [where EXCEPT ![j] = "gone"] /\ j \in finished \cup lost
        /\ UNCHANGED <<files, back, finished, lost>>
    BY <1>2 DEF Q!Take
  <2> QED
    BY <2>1
<1>3. ASSUME NEW j \in Jobs, Q!Return(j) PROVE QueueTypes' /\ Q!Promise'
  BY <1>3 DEF Q!Return
<1>4. ASSUME NEW j \in Jobs, Q!Finish(j) PROVE QueueTypes' /\ Q!Promise'
  BY <1>4 DEF Q!Finish
<1>5. ASSUME NEW j \in Jobs, Q!Forget(j) PROVE QueueTypes' /\ Q!Promise'
  BY <1>5 DEF Q!Forget
<1>6. ASSUME NEW j \in Jobs, Q!Discard(j) PROVE QueueTypes' /\ Q!Promise'
  BY <1>6 DEF Q!Discard
<1>7. ASSUME NEW S \in SUBSET Jobs, Q!GiveUp(S) PROVE QueueTypes' /\ Q!Promise'
  BY <1>7 DEF Q!GiveUp
<1>8. CASE UNCHANGED Q!vars
  BY <1>8 DEF Q!vars
<1> QED
  BY <1>1, <1>2, <1>3, <1>4, <1>5, <1>6, <1>7, <1>8 DEF Q!Next

\* JobQueue is the queue it is meant to be: what it owes waits or is with a
\* worker, and every delivery is accounted for.
THEOREM QueuePromise == Q!Spec => []Q!Promise
<1>1. Q!Init => QueueTypes /\ Q!Promise
  BY DEF Q!Init, QueueTypes, Q!Promise, Q!Owed
<1>2. QueueTypes /\ Q!Promise /\ [Q!Next]_(Q!vars) => QueueTypes' /\ Q!Promise'
  BY QueueStep
<1> QED
  BY <1>1, <1>2, PTL DEF Q!Spec

\* What has left the queue does not come back, in JobQueue ...
THEOREM QueueGoneForGood == Q!Spec => Q!GoneForGood
<1>1. Q!Init => QueueTypes /\ Q!Promise
  BY DEF Q!Init, QueueTypes, Q!Promise, Q!Owed
<1>2. QueueTypes /\ Q!Promise /\ [Q!Next]_(Q!vars) => QueueTypes' /\ Q!Promise'
  BY QueueStep
<1>3. QueueTypes /\ [Q!Next]_(Q!vars) => [Q!Stays]_(Q!vars)
  BY DEF QueueTypes, Q!Next, Q!vars, Q!Put, Q!Take, Q!Return, Q!Finish, Q!Forget, Q!Discard,
         Q!GiveUp, Q!Move, Q!Stays
<1> QED
  BY <1>1, <1>2, <1>3, PTL DEF Q!Spec, Q!GoneForGood

\* ... and in the spool: a job without links that was registered stays without.
THEOREM SpoolGoneForGood == Spec => Queue!GoneForGood
<1>1. SpoolInv /\ [Next]_vars => [Queue!Stays]_(Queue!vars)
  <2> SUFFICES ASSUME Queue!Next PROVE Queue!Stays
    BY StepImplements DEF Stutter
  <2> QED
    BY DEF Queue!Next, Queue!Put, Queue!Take, Queue!Return, Queue!Finish, Queue!Forget,
           Queue!Discard, Queue!GiveUp, Queue!Move, Queue!Stays
<1> QED
  BY <1>1, Invariant, PTL DEF Spec, Queue!GoneForGood

\* The spool keeps the queue's promise.
DoneMeansDelivered == \A j \in done : delivered[j] > 0

THEOREM SpoolKeepsPromise == Spec => []Queue!Promise
<1>1. Init => DoneMeansDelivered
  BY DEF Init, DoneMeansDelivered
<1>2. SpoolInv /\ DoneMeansDelivered /\ [Next]_vars => DoneMeansDelivered'
  <2> SUFFICES ASSUME SpoolInv, DoneMeansDelivered, [Next]_vars PROVE DoneMeansDelivered'
    OBVIOUS
  <2>1. delivered \in [Jobs -> Nat] /\ done \subseteq Jobs
    BY DEF SpoolInv, TypeOK
  <2>2. CASE Stutter
    BY <2>2 DEF Stutter, Queue!vars, DoneMeansDelivered
  <2>3. CASE Queue!Next
    BY <2>1, <2>3 DEF DoneMeansDelivered, Queue!Next, Queue!Put, Queue!Take, Queue!Return,
       Queue!Finish, Queue!Forget, Queue!Discard, Queue!GiveUp
  <2> QED
    BY <2>2, <2>3, StepImplements
<1>3. SpoolInv /\ DoneMeansDelivered => Queue!Promise
  <2> SUFFICES ASSUME SpoolInv, DoneMeansDelivered, NEW j \in Jobs
               PROVE  /\ Place(j) # "none" /\ j \notin done \cup exposed
                            => Place(j) \in {"waiting", "taken"} /\ j \in registered
                               /\ data[j] = "ready"
                      /\ delivered[j] + (IF Place(j) = "waiting" THEN 1 ELSE 0)
                            = (IF Place(j) = "none" THEN 0 ELSE 1) + requeued[j]
                      /\ j \in done => delivered[j] > 0
    BY DEF Queue!Promise, Queue!Owed, Queue!Released
  <2>1. Place(j) = "none" <=> j \notin registered
    BY SpoolAssumption DEF Place, SpoolInv, Ownership, StartupState, Idle, At, TypeOK, TimeOutPC
  <2>2. Place(j) = "waiting" <=> j \in pending
    BY DEF Place
  <2>3. j \in registered /\ j \notin done \cup exposed =>
            Place(j) \in {"waiting", "taken"} /\ data[j] = "ready"
    BY DEF SpoolInv, NoSilentLoss, Live, Offered, Place, At
  <2>4. delivered[j] + (IF j \in pending THEN 1 ELSE 0)
            = (IF j \in registered THEN 1 ELSE 0) + requeued[j]
    BY DEF SpoolInv, DeliveriesAccounted
  <2> QED
    BY <2>1, <2>2, <2>3, <2>4 DEF DoneMeansDelivered
<1> QED
  BY <1>1, <1>2, <1>3, Invariant, PTL DEF Spec
=============================================================================
