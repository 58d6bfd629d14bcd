----------------------------- MODULE LogUpload -----------------------------
(***************************************************************************)
(* The way of a worker's log lines to the log server: the logging handler  *)
(* and its queue, the upload thread with its one unsent message            *)
(* (job_worker/log_client.py), the connections, and what the server writes *)
(* (log_viewer/main.py).  One log; its lines are numbered as they are      *)
(* emitted.                                                                *)
(*                                                                         *)
(* A connection that the worker gave up may still hold messages, which the *)
(* server reads whenever they arrive: also after those of the next one.    *)
(***************************************************************************)
EXTENDS Naturals, FiniteSets, SequencesExt

CONSTANTS
    NoLine,         \* msg is None
    End,            \* the None that stop_log_client puts into the queue
    MaxLines,       \* bound: lines emitted
    MaxConns,       \* bound: connections; the last one does not fail
    MaxCrashes      \* bound: crashes of the server

ASSUME UploadAssumption ==
    /\ NoLine # End /\ NoLine \notin Nat /\ End \notin Nat
    /\ MaxLines \in Nat /\ MaxConns \in Nat \ {0} /\ MaxCrashes \in Nat

VARIABLES
    emitted,        \* lines emitted so far
    before,         \* history: lines emitted before stop_log_client
    stopped,        \* stop_log_client was called
    queue,          \* log_queue
    msg,            \* the message that is being sent
    thread,         \* the upload thread
    conn,           \* number of its latest connection
    wire,           \* messages on their way, for each connection
    broken,         \* connections that carry nothing any more
    up,             \* the server runs
    file,           \* the lines that it has written
    flushed,        \* how many of them have left its buffer
    crashes,
    dropped,        \* history: lines lost on a connection or in the buffer
    via             \* history: the connections that each line was written to

clientVars == <<emitted, before, stopped, queue, msg, thread>>
serverVars == <<up, file, flushed, crashes>>
vars == <<clientVars, conn, wire, broken, serverVars, dropped, via>>

Lines == 1 .. MaxLines
Conns == 1 .. MaxConns

TypeOK ==
    /\ emitted \in 0 .. MaxLines /\ before \subseteq Lines /\ stopped \in BOOLEAN
    /\ queue \in Seq(Lines \cup {End})
    /\ msg \in Lines \cup {NoLine}
    /\ thread \in {"connecting", "connected", "sleeping", "ended"}
    /\ conn \in 0 .. MaxConns
    /\ wire \in [Conns -> Seq(Lines)]
    /\ broken \subseteq 1 .. conn
    /\ up \in BOOLEAN /\ crashes \in 0 .. MaxCrashes
    /\ file \in Seq(Lines) /\ flushed \in 0 .. Len(file)
    /\ dropped \subseteq Lines
    /\ via \in [Lines -> SUBSET (1 .. conn)]

Init ==
    /\ emitted = 0 /\ before = {} /\ stopped = FALSE
    /\ queue = <<>> /\ msg = NoLine /\ thread = "connecting"
    /\ conn = 0 /\ wire = [c \in Conns |-> <<>>] /\ broken = {}
    /\ up = TRUE /\ file = <<>> /\ flushed = 0 /\ crashes = 0
    /\ dropped = {} /\ via = [n \in Lines |-> {}]

-----------------------------------------------------------------------------
(***************************************************************************)
(* The worker.                                                             *)
(***************************************************************************)

\* emit and log_post.  Threads that have not ended may log after the stop.
Emit ==
    /\ emitted < MaxLines
    /\ emitted' = emitted + 1
    /\ queue' = Append(queue, emitted + 1)
    /\ before' = IF stopped THEN before ELSE before \cup {emitted + 1}
    /\ UNCHANGED <<stopped, msg, thread, conn, wire, broken, serverVars, dropped, via>>

StopLogClient ==
    /\ ~stopped
    /\ stopped' = TRUE
    /\ queue' = Append(queue, End)
    /\ UNCHANGED <<emitted, before, msg, thread, conn, wire, broken, serverVars, dropped, via>>

Connect ==
    /\ thread = "connecting" /\ up /\ conn < MaxConns
    /\ conn' = conn + 1
    /\ thread' = "connected"
    /\ UNCHANGED <<emitted, before, stopped, queue, msg, wire, broken, serverVars, dropped, via>>

ConnectFails ==
    /\ thread = "connecting"
    /\ thread' = "sleeping"
    /\ UNCHANGED <<emitted, before, stopped, queue, msg, conn, wire, broken, serverVars, dropped, via>>

Wake ==
    /\ thread = "sleeping"
    /\ thread' = "connecting"
    /\ UNCHANGED <<emitted, before, stopped, queue, msg, conn, wire, broken, serverVars, dropped, via>>

\* The next message, unless one is left from before; None ends the thread.
Take ==
    /\ thread = "connected" /\ msg = NoLine /\ queue # <<>>
    /\ queue' = Tail(queue)
    /\ IF Head(queue) = End THEN msg' = NoLine /\ thread' = "ended"
                            ELSE msg' = Head(queue) /\ thread' = thread
    /\ UNCHANGED <<emitted, before, stopped, conn, wire, broken, serverVars, dropped, via>>

\* What is written to a connection that no longer carries anything is lost.
Write ==
    IF conn \in broken
    THEN dropped' = dropped \cup {msg} /\ UNCHANGED <<wire, via>>
    ELSE /\ wire' = [wire EXCEPT ![conn] = Append(@, msg)]
         /\ via' = [via EXCEPT ![msg] = @ \cup {conn}]
         /\ UNCHANGED dropped

\* Mutant: msg is not reset.
SendKeepsMsg ==
    /\ thread = "connected" /\ msg # NoLine
    /\ Write
    /\ UNCHANGED <<clientVars, conn, broken, serverVars>>

\* send returns once the message is written, whether or not it arrives.
Send ==
    /\ thread = "connected" /\ msg # NoLine
    /\ Write
    /\ msg' = NoLine
    /\ UNCHANGED <<emitted, before, stopped, queue, thread, conn, broken, serverVars>>

\* Mutant: msg is reset before the sending, not after it.
SendFailsForgets ==
    /\ thread = "connected" /\ msg # NoLine
    /\ conn < MaxConns
    /\ (conn \notin broken /\ Write) \/ UNCHANGED <<wire, via, dropped>>
    /\ thread' = "sleeping"
    /\ msg' = NoLine
    /\ UNCHANGED <<emitted, before, stopped, queue, conn, broken, serverVars>>

\* Mutant: the exception is not caught.
SendFailsEnds ==
    /\ thread = "connected" /\ msg # NoLine
    /\ conn < MaxConns
    /\ (conn \notin broken /\ Write) \/ UNCHANGED <<wire, via, dropped>>
    /\ thread' = "ended"
    /\ UNCHANGED <<emitted, before, stopped, queue, msg, conn, broken, serverVars>>

\* An exception before or after that: the message is kept for the next
\* connection.
SendFails ==
    /\ thread = "connected" /\ msg # NoLine
    /\ conn < MaxConns
    /\ (conn \notin broken /\ Write) \/ UNCHANGED <<wire, via, dropped>>
    /\ thread' = "sleeping"
    /\ UNCHANGED <<emitted, before, stopped, queue, msg, conn, broken, serverVars>>

-----------------------------------------------------------------------------
(***************************************************************************)
(* The network and the server.                                             *)
(***************************************************************************)

\* A connection breaks; what is still on its way arrives up to some point.
Break(c) ==
    /\ c <= conn /\ c < MaxConns /\ c \notin broken
    /\ broken' = broken \cup {c}
    /\ \E k \in 0 .. Len(wire[c]) :
        /\ wire' = [wire EXCEPT ![c] = SubSeq(@, 1, k)]
        /\ dropped' = dropped \cup {wire[c][i] : i \in (k + 1) .. Len(wire[c])}
    /\ UNCHANGED <<clientVars, conn, serverVars, via>>

\* log_print: the line goes to the file's buffer.
LogPrint(c) ==
    /\ up /\ wire[c] # <<>>
    /\ file' = Append(file, Head(wire[c]))
    /\ wire' = [wire EXCEPT ![c] = Tail(@)]
    /\ UNCHANGED <<clientVars, conn, broken, up, flushed, crashes, dropped, via>>

\* The buffer is full, or fetch_all moves the file's position.
Flush ==
    /\ up /\ flushed < Len(file)
    /\ flushed' = Len(file)
    /\ UNCHANGED <<clientVars, conn, wire, broken, up, file, crashes, dropped, via>>

Crash ==
    /\ up /\ crashes < MaxCrashes /\ conn < MaxConns
    /\ up' = FALSE
    /\ crashes' = crashes + 1
    /\ file' = SubSeq(file, 1, flushed)
    /\ wire' = [c \in Conns |-> <<>>]
    /\ broken' = 1 .. conn
    /\ dropped' = dropped \cup {file[i] : i \in (flushed + 1) .. Len(file)}
                          \cup UNION {ToSet(wire[c]) : c \in Conns}
    /\ UNCHANGED <<clientVars, conn, flushed, via>>

Start ==
    /\ ~up
    /\ up' = TRUE
    /\ UNCHANGED <<clientVars, conn, wire, broken, file, flushed, crashes, dropped, via>>

-----------------------------------------------------------------------------
Thread == Connect \/ Wake \/ Take \/ Send

Next == Emit \/ StopLogClient \/ Thread \/ ConnectFails \/ SendFails
        \/ Flush \/ Crash \/ Start
        \/ \E c \in Conns : Break(c) \/ LogPrint(c)

Spec == Init /\ [][Next]_vars

\* The upload thread runs, the server is started again, a connection that is
\* asked for again and again is made, and sending it does not fail for ever
\* (the last connection of the bound holds).
Fairness ==
    /\ WF_vars(Thread) /\ SF_vars(Connect) /\ WF_vars(Start)
    /\ \A c \in Conns : WF_vars(LogPrint(c))

FairSpec == Spec /\ Fairness

-----------------------------------------------------------------------------
(***************************************************************************)
(* Properties.                                                             *)
(***************************************************************************)
OnTheWay == UNION {ToSet(wire[c]) : c \in Conns}

\* A line is never forgotten by the programs: it waits, is on its way or is in
\* the file, unless a connection or the server's buffer took it along.
EveryLineIsSomewhere ==
    \A n \in 1 .. emitted :
        n \in ToSet(queue) \cup {msg} \cup OnTheWay \cup ToSet(file) \cup dropped

\* A line is in the file twice only when its first sending failed after it had
\* been written.
RepeatedMeansResent ==
    \A i, j \in DOMAIN file : i < j /\ file[i] = file[j] => Cardinality(via[file[i]]) > 1

\* A line from before the stop is written to the file in the end, or was lost
\* on the way there.
WrittenInTheEnd ==
    \A n \in Lines : n \in before ~> n \in ToSet(file) \cup dropped

-----------------------------------------------------------------------------
(***************************************************************************)
(* The inductive invariant behind the first two.                           *)
(***************************************************************************)

\* What waits has not been written to any connection, and is there once; what
\* is being sent has not been written to the latest connection.
ClientInv ==
    /\ thread = "connected" => conn \in Conns
    /\ \A n \in Lines : n > emitted => via[n] = {}
    /\ msg # NoLine => msg <= emitted
    /\ thread = "connected" /\ msg # NoLine => conn \notin via[msg]
    /\ \A i \in DOMAIN queue : queue[i] # End =>
            queue[i] <= emitted /\ queue[i] # msg /\ via[queue[i]] = {}
    /\ \A i, j \in DOMAIN queue : i # j /\ queue[i] = queue[j] => queue[i] = End

\* A line is on a connection that it was written to, and there once; if it is
\* in the file as well, it was written to another one.
WireInv ==
    \A c \in Conns : \A i \in DOMAIN wire[c] :
        /\ c \in via[wire[c][i]]
        /\ \A j \in DOMAIN wire[c] : wire[c][i] = wire[c][j] => i = j
        /\ \A j \in DOMAIN file : file[j] = wire[c][i] => via[file[j]] # {c}

\* What is in the file came from a connection, twice from two.
FileInv ==
    /\ \A i \in DOMAIN file : via[file[i]] # {}
    /\ \A i, j \in DOMAIN file : i # j /\ file[i] = file[j] =>
            \E c, d \in via[file[i]] : c # d

UploadInv == TypeOK /\ EveryLineIsSomewhere /\ ClientInv /\ WireInv /\ FileInv
=============================================================================
