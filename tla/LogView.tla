------------------------------ MODULE LogView ------------------------------
(***************************************************************************)
(* The log server (log_viewer/main.py) and one page that shows its logs    *)
(* (log_viewer/static/index.html): the log files and their buffers, the    *)
(* list of logs, the subscriptions with a queue and a forwarder each, the  *)
(* requests and replies on their way, and the page.                        *)
(*                                                                         *)
(* A handler or forwarder runs without interruption from one await to the  *)
(* next, and send is one write to the connection: each is one step.  Lines *)
(* are numbered in the order in which they arrive, from whatever worker.   *)
(***************************************************************************)
EXTENDS Naturals, FiniteSets, SequencesExt

CONSTANTS
    Logs,           \* names of logs, normalized
    NoLog,          \* currentLogName is null
    Torn,           \* a line that a crash cut off; the next one is glued to it
    MaxLines,       \* bound: lines that arrive
    MaxClicks,      \* bound: clicks of the reader
    MaxCrashes      \* bound: crashes of the server

ASSUME ViewAssumption ==
    /\ NoLog \notin Logs
    /\ Torn \notin Nat
    /\ {MaxLines, MaxClicks, MaxCrashes} \subseteq Nat

VARIABLES
    up,             \* the server runs
    known,          \* the keys of logs and the members of log_order
    file,           \* the lines of each log file
    flushed,        \* how many of them have left the buffer
    lines,          \* lines that have arrived
    crashes,
    open,           \* the page is connected
    req,            \* the page's requests on their way
    rep,            \* the server's messages on their way
    listener,       \* the page's log_list_forwarder
    token,          \* something is in its queue
    subscribed,     \* the keys of the connection's subscribed_to
    queue,          \* the queue of each subscription
    current,        \* currentLogName
    sidebar,        \* the logs in the list
    view,           \* the lines shown
    clicks

logVars  == <<up, known, file, flushed, lines, crashes>>
connVars == <<listener, token, subscribed, queue>>
pageVars == <<current, sidebar, view>>
vars == <<logVars, open, req, rep, connVars, pageVars, clicks>>

Line == 1 .. MaxLines

TypeOK ==
    /\ up \in BOOLEAN /\ open \in BOOLEAN /\ (open => up)
    /\ known \subseteq Logs
    /\ file \in [Logs -> Seq(Line \cup {Torn})]
    /\ flushed \in [Logs -> Nat] /\ \A l \in Logs : flushed[l] <= Len(file[l])
    /\ lines \in 0 .. MaxLines /\ crashes \in 0 .. MaxCrashes /\ clicks \in 0 .. MaxClicks
    /\ req \in Seq([type : {"list", "subscribe", "unsubscribe", "get"}, log : Logs \cup {NoLog}])
    /\ listener \in {"none", "starting", "waiting"} /\ token \in BOOLEAN
    /\ subscribed \subseteq known
    /\ queue \in [Logs -> Seq(Line)]
    /\ current \in Logs \cup {NoLog} /\ sidebar \subseteq known
    /\ view \in Seq(Line)

Init ==
    /\ up = TRUE /\ known = {} /\ lines = 0 /\ crashes = 0 /\ clicks = 0
    /\ file = [l \in Logs |-> <<>>] /\ flushed = [l \in Logs |-> 0]
    /\ open = FALSE /\ req = <<>> /\ rep = <<>>
    /\ listener = "none" /\ token = FALSE
    /\ subscribed = {} /\ queue = [l \in Logs |-> <<>>]
    /\ current = NoLog /\ sidebar = {} /\ view = <<>>

-----------------------------------------------------------------------------
(***************************************************************************)
(* The server's logs.                                                      *)
(***************************************************************************)
\* Mutant: the listeners are told of the first log only.
LogPrintTellsOnce(l) ==
    /\ up /\ lines < MaxLines
    /\ lines' = lines + 1
    /\ known' = known \cup {l}
    /\ token' = (token \/ (known = {} /\ listener # "none"))
    /\ file' = [file EXCEPT ![l] = Append(@, lines + 1)]
    /\ queue' = IF l \in subscribed THEN [queue EXCEPT ![l] = Append(@, lines + 1)] ELSE queue
    /\ UNCHANGED <<up, flushed, crashes, open, req, rep, listener, subscribed, pageVars, clicks>>

\* log_print: a new log is listed, and its listeners are told unless they have
\* yet to take the last news; the line is written and put into every queue.
LogPrint(l) ==
    /\ up /\ lines < MaxLines
    /\ lines' = lines + 1
    /\ known' = known \cup {l}
    /\ token' = (token \/ (l \notin known /\ listener # "none"))
    /\ file' = [file EXCEPT ![l] = Append(@, lines + 1)]
    /\ queue' = IF l \in subscribed THEN [queue EXCEPT ![l] = Append(@, lines + 1)] ELSE queue
    /\ UNCHANGED <<up, flushed, crashes, open, req, rep, listener, subscribed, pageVars, clicks>>

\* The buffer of a file is written out.
Flush(l) ==
    /\ up /\ flushed[l] < Len(file[l])
    /\ flushed' = [flushed EXCEPT ![l] = Len(file[l])]
    /\ UNCHANGED <<up, known, file, lines, crashes, open, req, rep, connVars, pageVars, clicks>>

\* What was written out is left of a file, and perhaps a part of the next line.
AfterCrash(l) ==
    LET kept == SubSeq(file[l], 1, flushed[l])
    IN  {kept} \cup {Append(kept, Torn) : i \in (flushed[l] + 1) .. Len(file[l])}

\* The connection ends: the page keeps no state, and the handler's finally
\* clause drops the subscriptions with their queues.
Disconnect ==
    /\ open' = FALSE /\ req' = <<>> /\ rep' = <<>>
    /\ listener' = "none" /\ token' = FALSE
    /\ subscribed' = {} /\ queue' = [l \in Logs |-> <<>>]
    /\ current' = NoLog /\ sidebar' = {} /\ view' = <<>>

\* The page is told that it lost its connection, and stays so.
Crash ==
    /\ up /\ crashes < MaxCrashes
    /\ up' = FALSE
    /\ crashes' = crashes + 1
    /\ file' \in {f \in [Logs -> UNION {AfterCrash(l) : l \in Logs}] :
                    \A l \in Logs : f[l] \in AfterCrash(l)}
    /\ flushed' = [l \in Logs |-> Len(file'[l])]
    /\ Disconnect
    /\ UNCHANGED <<known, lines, clicks>>

\* The files that are there are the logs again.
Start ==
    /\ ~up
    /\ up' = TRUE
    /\ UNCHANGED <<known, file, flushed, lines, crashes, open, req, rep, connVars, pageVars, clicks>>

-----------------------------------------------------------------------------
(***************************************************************************)
(* The server's side of the page's connection.                             *)
(***************************************************************************)
Request(t) == req # <<>> /\ Head(req).type = t /\ req' = Tail(req)

SubscribeLogList ==
    /\ Request("list")
    /\ listener' = IF listener = "none" THEN "starting" ELSE listener
    /\ UNCHANGED <<logVars, open, rep, token, subscribed, queue, pageVars, clicks>>

Subscribe ==
    LET l == Head(req).log IN
    /\ Request("subscribe")
    /\ IF l \in known
       THEN subscribed' = subscribed \cup {l} /\ queue' = [queue EXCEPT ![l] = <<>>]
       ELSE UNCHANGED <<subscribed, queue>>
    /\ UNCHANGED <<logVars, open, rep, listener, token, pageVars, clicks>>

\* The queue and its forwarder go, and with them what they have not sent.
Unsubscribe ==
    LET l == Head(req).log IN
    /\ Request("unsubscribe")
    /\ subscribed' = subscribed \ {l}
    /\ queue' = [queue EXCEPT ![l] = <<>>]
    /\ UNCHANGED <<logVars, open, rep, listener, token, pageVars, clicks>>

\* fetch_all also writes the buffer out.
GetLog ==
    LET l == Head(req).log IN
    /\ Request("get")
    /\ rep' = Append(rep, [type |-> "archive", log |-> l, data |-> file[l]])
    /\ flushed' = [flushed EXCEPT ![l] = Len(file[l])]
    /\ UNCHANGED <<up, known, file, lines, crashes, open, connVars, pageVars, clicks>>

\* log_forwarder
Forward(l) ==
    /\ queue[l] # <<>>
    /\ rep' = Append(rep, [type |-> "log", log |-> l, data |-> <<Head(queue[l])>>])
    /\ queue' = [queue EXCEPT ![l] = Tail(@)]
    /\ UNCHANGED <<logVars, open, req, listener, token, subscribed, pageVars, clicks>>

\* log_list_forwarder sends the list when it starts and after every news.
ForwardList ==
    /\ listener = "starting" \/ token
    /\ rep' = Append(rep, [type |-> "list", log |-> NoLog, data |-> known])
    /\ listener' = "waiting"
    /\ token' = (token /\ listener = "starting")
    /\ UNCHANGED <<logVars, open, req, subscribed, queue, pageVars, clicks>>

-----------------------------------------------------------------------------
(***************************************************************************)
(* The page.                                                               *)
(***************************************************************************)
Ask(t, l) == [type |-> t, log |-> l]

OpenPage ==
    /\ up /\ ~open
    /\ open' = TRUE
    /\ req' = <<Ask("list", NoLog)>>
    /\ UNCHANGED <<logVars, rep, connVars, pageVars, clicks>>

\* The reader leaves, or the connection is lost.
ClosePage ==
    /\ open
    /\ Disconnect
    /\ UNCHANGED <<logVars, clicks>>

\* Mutant: the archive is asked for first.
SetCurrentLogGetsFirst(l) ==
    /\ req' = req \o (IF current # NoLog THEN <<Ask("unsubscribe", current)>> ELSE <<>>)
                  \o <<Ask("get", l), Ask("subscribe", l)>>
    /\ current' = l
    /\ view' = <<>>

\* setCurrentLog, for another log than the current one.
SetCurrentLog(l) ==
    /\ req' = req \o (IF current # NoLog THEN <<Ask("unsubscribe", current)>> ELSE <<>>)
                  \o <<Ask("subscribe", l), Ask("get", l)>>
    /\ current' = l
    /\ view' = <<>>

Click(l) ==
    /\ open /\ clicks < MaxClicks
    /\ l \in sidebar /\ l # current
    /\ SetCurrentLog(l)
    /\ clicks' = clicks + 1
    /\ UNCHANGED <<logVars, open, rep, connVars, sidebar>>

\* The first list that is not empty selects a log.
ShowList ==
    /\ rep # <<>> /\ Head(rep).type = "list"
    /\ rep' = Tail(rep)
    /\ sidebar' = Head(rep).data
    /\ IF sidebar' # {} /\ current = NoLog
       THEN \E l \in sidebar' : SetCurrentLog(l)
       ELSE UNCHANGED <<req, current, view>>
    /\ UNCHANGED <<logVars, open, connVars, clicks>>

ShowLine ==
    /\ rep # <<>> /\ Head(rep).type = "log"
    /\ rep' = Tail(rep)
    /\ view' = IF Head(rep).log = current THEN view \o Head(rep).data ELSE view
    /\ UNCHANGED <<logVars, open, req, connVars, current, sidebar, clicks>>

\* A line without its end is left out; at one that was glued to another the
\* script stops.
Parsed(f) ==
    LET bad == {i \in DOMAIN f : f[i] = Torn}
    IN  SubSeq(f, 1, IF bad = {} THEN Len(f) ELSE Min(bad) - 1)

\* Mutant: the view is not cleared.
ShowArchiveAppends ==
    /\ rep # <<>> /\ Head(rep).type = "archive"
    /\ rep' = Tail(rep)
    /\ view' = IF Head(rep).log = current THEN view \o Parsed(Head(rep).data) ELSE view
    /\ UNCHANGED <<logVars, open, req, connVars, current, sidebar, clicks>>

ShowArchive ==
    /\ rep # <<>> /\ Head(rep).type = "archive"
    /\ rep' = Tail(rep)
    /\ view' = IF Head(rep).log = current THEN Parsed(Head(rep).data) ELSE view
    /\ UNCHANGED <<logVars, open, req, connVars, current, sidebar, clicks>>

-----------------------------------------------------------------------------
Handler == SubscribeLogList \/ Subscribe \/ Unsubscribe \/ GetLog
OnMessage == ShowList \/ ShowLine \/ ShowArchive

Next == Handler \/ ForwardList \/ OnMessage \/ OpenPage \/ ClosePage \/ Crash \/ Start
        \/ \E l \in Logs : LogPrint(l) \/ Flush(l) \/ Forward(l) \/ Click(l)

Spec == Init /\ [][Next]_vars

-----------------------------------------------------------------------------
(***************************************************************************)
(* Properties.                                                             *)
(***************************************************************************)

\* When nothing is on its way, the page shows every line of its log that can
\* be read: what came between subscribe, get_log and the reply is not missing.
Quiet == open /\ req = <<>> /\ rep = <<>> /\ \A l \in Logs : queue[l] = <<>>
NoGap == Quiet /\ current # NoLog => ToSet(Parsed(file[current])) \subseteq ToSet(view)

\* A line that is both in the archive and in the queue shows twice, but never
\* more often.
ShownAtMostTwice ==
    \A n \in ToSet(view) : Cardinality({i \in DOMAIN view : view[i] = n}) <= 2

\* A log that is created while the list is sent, or while the news of another
\* has yet to be taken, is in the page's list when nothing is on its way.
ListIsComplete ==
    Quiet /\ listener = "waiting" /\ ~token => sidebar = known

-----------------------------------------------------------------------------
(***************************************************************************)
(* The inductive invariant behind them.                                    *)
(***************************************************************************)

\* What is on its way.
Message ==
    [type : {"list"}, log : {NoLog}, data : SUBSET known]
    \cup [type : {"log"}, log : Logs, data : {<<n>> : n \in 1 .. lines}]
    \cup [type : {"archive"}, log : Logs, data : Seq((1 .. lines) \cup {Torn})]

MessageInv ==
    /\ \A i \in DOMAIN req : req[i].type # "list" => req[i].log \in known
    /\ rep \in Seq(Message)

\* What has been asked for ends with the current log's subscription and then its
\* archive; when it has been answered, the log is subscribed to.
RequestInv ==
    /\ ~open => /\ current = NoLog /\ req = <<>> /\ rep = <<>>
                /\ listener = "none" /\ ~token
                /\ subscribed = {} /\ \A l \in Logs : queue[l] = <<>>
    /\ current = NoLog => req = <<>> \/ req = <<Ask("list", NoLog)>>
    /\ current # NoLog =>
        /\ current \in known
        /\ req # <<>> => req[Len(req)] = Ask("get", current)
        /\ IF Len(req) >= 2 THEN req[Len(req) - 1] = Ask("subscribe", current)
                            ELSE current \in subscribed

\* A message of the current log replaces the view, or adds to it.
Replaces(m) == m.type = "archive" /\ m.log = current
Carries(m, n) ==
    /\ m.log = current
    /\ \/ m.type = "log" /\ m.data = <<n>>
       \/ m.type = "archive" /\ n \in ToSet(Parsed(m.data))

\* A line is shown, or will be when what is on its way has come.
WillBeShown(n) ==
    \/ n \in ToSet(queue[current])
    \/ n \in ToSet(view) /\ \A k \in DOMAIN rep : ~Replaces(rep[k])
    \/ \E i \in DOMAIN rep :
        Carries(rep[i], n) /\ \A k \in DOMAIN rep : k > i => ~Replaces(rep[k])

GapInv == current # NoLog /\ req = <<>> => \A n \in ToSet(Parsed(file[current])) : WillBeShown(n)

\* A line is in its file once, and it is sent once on its own: it is in one
\* queue, or on its way, or has been dealt with by the page.
Sent(n, i) == rep[i].type = "log" /\ rep[i].data = <<n>>
Pending(n) ==
    \/ \E l \in Logs : n \in ToSet(queue[l])
    \/ \E i \in DOMAIN rep : Sent(n, i)

OnceIn(f) == \A i, k \in DOMAIN f : f[i] = f[k] /\ f[i] # Torn => i = k

OnceInv ==
    /\ \A l \in Logs : file[l] \in Seq((1 .. lines) \cup {Torn}) /\ OnceIn(file[l])
    /\ \A i \in DOMAIN rep : rep[i].type = "archive" => OnceIn(rep[i].data)
    /\ \A l \in Logs : queue[l] \in Seq(1 .. lines) /\ OnceIn(queue[l])
    /\ \A k, l \in Logs : ToSet(queue[k]) \cap ToSet(queue[l]) # {} => k = l
    /\ \A l \in Logs : \A n \in ToSet(queue[l]), i \in DOMAIN rep : ~Sent(n, i)
    /\ \A n \in 1 .. lines, i, k \in DOMAIN rep : Sent(n, i) /\ Sent(n, k) => i = k

\* The view is an archive and, after it, lines that were sent on their own.
ShownInv ==
    /\ view \in Seq(1 .. lines)
    /\ \E p \in 0 .. Len(view) :
        /\ \A i, k \in 1 .. p : view[i] = view[k] => i = k
        /\ \A i, k \in p + 1 .. Len(view) : view[i] = view[k] => i = k
        /\ \A i \in p + 1 .. Len(view) : ~Pending(view[i])

\* A forwarder that waits without news has sent the list as it is.
ListInv ==
    listener = "waiting" /\ ~token =>
        \/ sidebar = known /\ \A i \in DOMAIN rep : rep[i].type # "list"
        \/ \E i \in DOMAIN rep :
            /\ rep[i].type = "list" /\ rep[i].data = known
            /\ \A k \in DOMAIN rep : k > i => rep[k].type # "list"

ViewInv ==
    TypeOK /\ MessageInv /\ RequestInv /\ GapInv /\ OnceInv /\ ShownInv /\ ListInv
=============================================================================
