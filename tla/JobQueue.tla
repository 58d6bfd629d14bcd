------------------------------ MODULE JobQueue ------------------------------
(***************************************************************************)
(* What the job spool promises, whatever files, links, locks and processes *)
(* it is made of: an at-least-once queue.  A job that was put waits or is  *)
(* taken, with its files complete, until a handler finished it; a taken    *)
(* job may come back; only a finished job, or one that the queue has given *)
(* up (lost), leaves it, and what has left never comes back.  JobSpool     *)
(* implements it, see Queue there.                                         *)
(***************************************************************************)
EXTENDS Naturals

CONSTANT Jobs

VARIABLES
    where,      \* where the job is, seen from outside
    files,      \* jobs whose files are complete
    out,        \* how often the job was handed to a worker
    back,       \* how often it was taken back from a worker
    finished,   \* jobs that some handler finished
    lost        \* jobs that the queue promises nothing about any more

vars == <<where, files, out, back, finished, lost>>

Init ==
    /\ where = [j \in Jobs |-> "none"]
    /\ files = {} /\ finished = {} /\ lost = {}
    /\ out = [j \in Jobs |-> 0]
    /\ back = [j \in Jobs |-> 0]

\* The queue owes nothing for the job.
Released(j) == j \in finished \cup lost

Move(j, from, to) == where[j] = from /\ where' = [where EXCEPT ![j] = to]

\* createJob or create_job: the link is made when the files are complete.
Put(j) ==
    /\ Move(j, "none", "waiting")
    /\ files' = files \cup {j} \/ (j \in lost /\ files' = files)
    /\ UNCHANGED <<out, back, finished, lost>>

\* A pull: the worker has it from here on, unless it was released before.
Take(j) ==
    /\ Move(j, "waiting", "taken") \/ (Released(j) /\ Move(j, "waiting", "gone"))
    /\ out' = [out EXCEPT ![j] = @ + 1]
    /\ UNCHANGED <<files, back, finished, lost>>

\* A time-out.
Return(j) ==
    /\ Move(j, "taken", "waiting")
    /\ back' = [back EXCEPT ![j] = @ + 1]
    /\ UNCHANGED <<files, out, finished, lost>>

\* A handler returns, possibly that of an earlier delivery.
Finish(j) ==
    /\ out[j] > 0
    /\ finished' = finished \cup {j}
    /\ UNCHANGED <<where, files, out, back, lost>>

\* delete_job removes the entry, or the queue drops a job that was released.
Forget(j) ==
    /\ Released(j)
    /\ Move(j, "taken", "gone")
    /\ UNCHANGED <<files, out, back, finished, lost>>

\* The files are deleted.
Discard(j) ==
    /\ Released(j)
    /\ files' = files \ {j}
    /\ UNCHANGED <<where, out, back, finished, lost>>

\* The queue gives jobs up; one that it was moving may be gone at once.
GiveUp(S) ==
    /\ lost' = lost \cup S
    /\ where' = where \/ \E j \in S : Move(j, "taken", "gone")
    /\ UNCHANGED <<files, out, back, finished>>

Next ==
    \/ \E j \in Jobs : Put(j) \/ Take(j) \/ Return(j) \/ Finish(j) \/ Forget(j) \/ Discard(j)
    \/ \E S \in SUBSET Jobs : GiveUp(S)

Spec == Init /\ [][Next]_vars

-----------------------------------------------------------------------------
(***************************************************************************)
(* What this amounts to, for whoever puts jobs and takes them.             *)
(***************************************************************************)
Owed(j) == where[j] # "none" /\ ~Released(j)

\* A job that was put and that the queue still owes something for waits or is
\* with a worker, its files complete; it was handed out once, and once more for
\* each time it came back, but for the time it waits for; and only a job that
\* was handed out is finished.
Promise ==
    \A j \in Jobs :
        /\ Owed(j) => where[j] \in {"waiting", "taken"} /\ j \in files
        /\ out[j] + (IF where[j] = "waiting" THEN 1 ELSE 0)
                = (IF where[j] = "none" THEN 0 ELSE 1) + back[j]
        /\ j \in finished => out[j] > 0

\* A job that has left the queue does not come back, and one that was put once
\* is not put again.
Stays == \A j \in Jobs : /\ where[j] = "gone" => where'[j] = "gone"
                         /\ where[j] # "none" => where'[j] # "none"

GoneForGood == [][Stays]_vars
=============================================================================
