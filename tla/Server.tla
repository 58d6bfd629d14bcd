------------------------------- MODULE Server -------------------------------
(***************************************************************************)
(* The threads of the server process, as far as they share mutexes, and    *)
(* main()'s order: the Play devices are constructed, the two version check *)
(* threads start, Discord's event loop runs.  The loop holds the           *)
(* connection's dataMutex (conn, recursive) while a command is carried     *)
(* out; the Play thread holds ApkManager's data_mutex (data) while it      *)
(* checks, the Windows thread Win10StoreManager's dataMutex (w10).  A      *)
(* signal suspends any one thread, and its handler wants conn, to store    *)
(* the session.                                                            *)
(*                                                                         *)
(* thread_mutex, threadMutex, cb_mutex and newVersionMutex are only ever   *)
(* taken by one thread each while the threads run, and left out.  What the *)
(* threads do with the data is in ApkManager, Win10Store and Gateway.      *)
(***************************************************************************)
EXTENDS PlayDevice, Announcements

CONSTANT MaxEnds    \* bound: ends of the process

Threads == {"main", "play", "win", "timeout"}
Mutexes == {"conn", "data", "w10"}

ASSUME ServerAssumption ==
    /\ NoDevice \notin Devices
    /\ MaxEnds \in Nat

VARIABLES
    main,           \* main(), and the event loop
    reads,          \* the mutexes the command's getters have still to take
    play,           \* runVersionCheckThread of ApkManager
    win,            \* runVersionCheckThread of Win10StoreManager
    owner,          \* who holds a mutex
    handler,        \* the thread that a signal's handler runs on
    ends            \* ends of the process

threadVars == <<main, reads, play, win, owner, handler>>
vars == <<deviceVars, callVars, threadVars, ends>>

MainPC == {"off", "devices", "idle", "reading", "link", "fetch", "download", "clear"}
PlayPC == {"none", "lock", "check", "calls", "download", "record", "wait"}
WinPC  == {"none", "lock", "check", "url", "save", "wait"}

TypeOK ==
    /\ DeviceTypeOK
    /\ main \in MainPC /\ play \in PlayPC /\ win \in WinPC
    /\ reads \in Seq({"data", "w10"})
    /\ owner \in [Mutexes -> Threads \cup {"free"}]
    /\ handler \in Threads \cup {"none"}
    /\ ends \in 0 .. MaxEnds

Free == [m \in Mutexes |-> "free"]
Busy == {"reading", "link", "fetch", "download", "clear"}      \* a command

Init ==
    /\ InitDevices /\ InitCalls
    /\ main = "off" /\ reads = <<>> /\ play = "none" /\ win = "none"
    /\ owner = Free /\ handler = "none" /\ ends = 0

\* A thread goes on unless a signal handler runs on it.
Runs(t) == handler # t

Take(t, m) == owner[m] = "free" /\ owner' = [owner EXCEPT ![m] = t]
Release(m) == owner' = [owner EXCEPT ![m] = "free"]

\* A getter or a save: the mutex is taken and released in one step.
Holding(m) == owner[m] = "free" /\ UNCHANGED owner

-----------------------------------------------------------------------------
(***************************************************************************)
(* main() starts.                                                          *)
(***************************************************************************)
Start ==
    /\ main = "off"
    /\ main' = "devices"
    /\ left' = Devices
    /\ UNCHANGED <<stateFile, device, step, devState, made, lost, callVars>>
    /\ UNCHANGED <<reads, play, win, owner, handler, ends>>

BuildDevices ==
    /\ main = "devices"
    /\ Construct
    /\ UNCHANGED <<callVars, threadVars, ends>>

\* startChecking, twice, and the event loop.
StartThreads ==
    /\ main = "devices" /\ Constructed
    /\ main' = "idle" /\ play' = "lock" /\ win' = "lock"
    /\ UNCHANGED <<deviceVars, callVars, reads, owner, handler, ends>>

-----------------------------------------------------------------------------
(***************************************************************************)
(* The process ends, and with it every thread and mutex.                   *)
(***************************************************************************)
EndProcess ==
    /\ ends < MaxEnds
    /\ ends' = ends + 1
    /\ main' = "off" /\ reads' = <<>> /\ play' = "none" /\ win' = "none"
    /\ owner' = Free /\ handler' = "none"
    /\ ForgetCalls

\* An exception no one catches, an assertion, a kill.
Crash ==
    /\ main # "off"
    /\ EndProcess
    /\ Tear

-----------------------------------------------------------------------------
(***************************************************************************)
(* The event loop carries out a command.                                   *)
(***************************************************************************)

\* !version reads the versions, !healthcheck the times of the last checks: a
\* getter after the other, each of which takes its manager's mutex.
BeginReading ==
    /\ main = "idle" /\ Runs("main")
    /\ Take("main", "conn")
    /\ main' = "reading"
    /\ reads' \in {<<"data", "data">>, <<"data", "w10">>}
    /\ UNCHANGED <<deviceVars, callVars, play, win, handler, ends>>

Get ==
    /\ main = "reading" /\ Runs("main") /\ reads # <<>>
    /\ Holding(Head(reads))
    /\ reads' = Tail(reads)
    /\ UNCHANGED <<deviceVars, callVars, main, play, win, handler, ends>>

\* !link, whose getDownloadUrl holds the mutex during its requests.
BeginLink ==
    /\ main = "idle" /\ Runs("main")
    /\ Take("main", "conn")
    /\ main' = "link"
    /\ UNCHANGED <<deviceVars, callVars, reads, play, win, handler, ends>>

LinkLocks ==
    /\ main = "link" /\ Runs("main")
    /\ Take("main", "w10")
    /\ main' = "fetch"
    /\ UNCHANGED <<deviceVars, callVars, reads, play, win, handler, ends>>

\* Mutant: an early return leaves the mutex locked.
LinkEndsLocked ==
    /\ main = "fetch" /\ Runs("main")
    /\ owner' \in {[owner EXCEPT !["w10"] = "free"], owner}
    /\ main' = "reading"
    /\ UNCHANGED <<deviceVars, callVars, reads, play, win, handler, ends>>

LinkEnds ==
    /\ main = "fetch" /\ Runs("main")
    /\ Release("w10")
    /\ main' = "reading"
    /\ UNCHANGED <<deviceVars, callVars, reads, play, win, handler, ends>>

\* !force_check notifies without a mutex: a thread that does not wait at that
\* moment is not told.
ForceCheck ==
    /\ main = "idle" /\ Runs("main")
    /\ Take("main", "conn")
    /\ play' = IF play = "wait" THEN "lock" ELSE play
    /\ main' = "reading"
    /\ UNCHANGED <<deviceVars, callVars, reads, win, handler, ends>>

\* !force_download_arm, !dl and !all_em_apks work without a mutex, !getip as
\* well.
BeginDownload ==
    /\ main = "idle" /\ Runs("main")
    /\ Take("main", "conn")
    /\ main' = "download"
    /\ UNCHANGED <<deviceVars, callVars, reads, play, win, handler, ends>>

EndDownload ==
    /\ main = "download" /\ Runs("main")
    /\ main' = "reading"
    /\ UNCHANGED <<deviceVars, callVars, reads, play, win, owner, handler, ends>>

\* The message with the answer; the callback returns.
Answer ==
    /\ main = "reading" /\ Runs("main") /\ reads = <<>>
    /\ Release("conn")
    /\ main' = "idle"
    /\ UNCHANGED <<deviceVars, callVars, reads, play, win, handler, ends>>

\* !cleargplay deletes the state files one by one and restarts the process,
\* !restartbot only does the latter.
BeginClear ==
    /\ main = "idle" /\ Runs("main") /\ ends < MaxEnds
    /\ Take("main", "conn")
    /\ main' = "clear" /\ left' \in {Devices, {}}
    /\ UNCHANGED <<stateFile, device, step, devState, made, lost>>
    /\ UNCHANGED <<callVars, reads, play, win, handler, ends>>

Clear(d) ==
    /\ main = "clear" /\ Runs("main") /\ d \in left
    /\ Unlink(d)
    /\ left' = left \ {d}
    /\ UNCHANGED <<device, step, devState, made, callVars, threadVars, ends>>

Restart ==
    /\ main = "clear" /\ Runs("main") /\ left = {}
    /\ EndProcess
    /\ UNCHANGED deviceVars

-----------------------------------------------------------------------------
(***************************************************************************)
(* The Play thread.                                                        *)
(***************************************************************************)
PlayLocks ==
    /\ play = "lock" /\ Runs("play")
    /\ Take("play", "data")
    /\ play' = "check"
    /\ UNCHANGED <<deviceVars, callVars, main, reads, win, handler, ends>>

\* The mutex is released before the callbacks run.
Checked ==
    /\ play = "check" /\ Runs("play")
    /\ Release("data")
    /\ \E new \in SUBSET ToSet(Variants) : BeginCalls(new)
    /\ play' = "calls"
    /\ UNCHANGED <<deviceVars, main, reads, win, handler, ends>>

Callbacks ==
    /\ play = "calls" /\ Runs("play")
    /\ Call \/ Tell \/ TellFails
    /\ UNCHANGED <<deviceVars, threadVars, ends>>

\* Something is to be downloaded or not.
CallbacksDone ==
    /\ play = "calls" /\ Runs("play") /\ CallsDone
    /\ ForgetCalls
    /\ play' \in {"download", "wait"}
    /\ UNCHANGED <<deviceVars, main, reads, win, owner, handler, ends>>

Download ==
    /\ play = "download" /\ Runs("play")
    /\ play' = "record"
    /\ UNCHANGED <<deviceVars, callVars, main, reads, win, owner, handler, ends>>

\* downloadAndProcessApk takes the mutex once more, for each variant.
Record ==
    /\ play = "record" /\ Runs("play")
    /\ Holding("data")
    /\ play' \in {"download", "wait"}
    /\ UNCHANGED <<deviceVars, callVars, main, reads, win, handler, ends>>

PlayWakes ==
    /\ play = "wait" /\ Runs("play")
    /\ play' = "lock"
    /\ UNCHANGED <<deviceVars, callVars, main, reads, win, owner, handler, ends>>

-----------------------------------------------------------------------------
(***************************************************************************)
(* The Windows thread.                                                     *)
(***************************************************************************)
WinLocks ==
    /\ win = "lock" /\ Runs("win")
    /\ Take("win", "w10")
    /\ win' = "check"
    /\ UNCHANGED <<deviceVars, callVars, main, reads, play, handler, ends>>

\* Mutant: the callbacks are called with the mutex held.
WinCheckedLocked ==
    /\ win = "check" /\ Runs("win")
    /\ win' \in {"lock", "url", "save"}
    /\ owner' = IF win' = "url" THEN owner ELSE [owner EXCEPT !["w10"] = "free"]
    /\ UNCHANGED <<deviceVars, callVars, main, reads, play, handler, ends>>

\* An error, a changed configuration and the token's refresh release the mutex
\* and lead to another check, an answer to the callbacks if it has news.
WinChecked ==
    /\ win = "check" /\ Runs("win")
    /\ Release("w10")
    /\ win' \in {"lock", "url", "save", "wait"}
    /\ UNCHANGED <<deviceVars, callVars, main, reads, play, handler, ends>>

\* Discord's callback asks for the download URL of each x64 update.
WinUrl ==
    /\ win = "url" /\ Runs("win")
    /\ Holding("w10")
    /\ win' \in {"url", "save"}
    /\ UNCHANGED <<deviceVars, callVars, main, reads, play, handler, ends>>

WinSaves ==
    /\ win = "save" /\ Runs("win")
    /\ Holding("w10")
    /\ win' \in {"lock", "wait"}
    /\ UNCHANGED <<deviceVars, callVars, main, reads, play, handler, ends>>

WinWakes ==
    /\ win = "wait" /\ Runs("win")
    /\ win' = "lock"
    /\ UNCHANGED <<deviceVars, callVars, main, reads, play, owner, handler, ends>>

-----------------------------------------------------------------------------
(***************************************************************************)
(* SIGINT and SIGTERM.                                                     *)
(***************************************************************************)

\* Once main() has installed it, the handler may run on any thread.
Signal(t) ==
    /\ main \notin {"off", "devices"}
    /\ handler = "none" /\ ends < MaxEnds
    /\ handler' = t
    /\ UNCHANGED <<deviceVars, callVars, main, reads, play, win, owner, ends>>

\* The connection's mutex is recursive: on the main thread the handler has it.
StoreSession ==
    /\ handler # "none"
    /\ owner["conn"] \in {"free", handler}
    /\ EndProcess
    /\ Tear

-----------------------------------------------------------------------------
MainStep == Start \/ BuildDevices \/ StartThreads \/ Get \/ LinkLocks \/ LinkEnds
            \/ EndDownload \/ Answer \/ (\E d \in Devices : Clear(d)) \/ Restart

Command == BeginReading \/ BeginLink \/ ForceCheck \/ BeginDownload \/ BeginClear

PlayStep == PlayLocks \/ Checked \/ Callbacks \/ CallbacksDone \/ Download \/ Record \/ PlayWakes

WinStep == WinLocks \/ WinChecked \/ WinUrl \/ WinSaves \/ WinWakes

Next == MainStep \/ Command \/ PlayStep \/ WinStep \/ Crash \/ StoreSession
        \/ \E t \in Threads : Signal(t)

Spec == Init /\ [][Next]_vars

\* Threads run, requests are answered or fail, and who waits for a mutex that
\* is released again and again gets it.
Fairness ==
    /\ SF_vars(MainStep)
    /\ WF_vars(PlayStep) /\ WF_vars(WinStep) /\ WF_vars(StoreSession)

FairSpec == Spec /\ Fairness

-----------------------------------------------------------------------------
(***************************************************************************)
(* Properties.                                                             *)
(***************************************************************************)

\* The mutex that a thread, or the handler on it, waits for next.
Wants(t) ==
    IF handler = t THEN {"conn"} \ {m \in Mutexes : owner[m] = t}
    ELSE {m \in Mutexes :
            \/ t = "main" /\ main = "reading" /\ reads # <<>> /\ m = Head(reads)
            \/ t = "main" /\ main = "link" /\ m = "w10"
            \/ t = "play" /\ play \in {"lock", "record"} /\ m = "data"
            \/ t = "win" /\ win \in {"lock", "url", "save"} /\ m = "w10"}

\* Threads that wait for each other, or for themselves.
Stuck(S) == S # {} /\ \A t \in S : \E m \in Wants(t) : owner[m] \in S

\* A signal came on a thread that holds what the event loop waits for, while
\* the event loop holds what the signal's handler waits for.
SignalBit == handler \in {"play", "win"} /\ Stuck({"main", handler})

\* No threads ever wait for each other, in any order of their steps, unless a
\* signal came on the wrong thread in the middle of a command.
StuckHasACause == \A S \in SUBSET Threads : Stuck(S) => S = {"main", handler} /\ SignalBit

\* A command ends - no check, download or callback keeps a mutex from it for
\* ever - unless the process ends first or a signal bit.
CommandsEnd == main \in Busy ~> main \in {"idle", "off"} \/ SignalBit

-----------------------------------------------------------------------------
(***************************************************************************)
(* The inductive invariant behind the safety properties.                   *)
(***************************************************************************)

\* A mutex is held exactly where the code holds it.
LocksInv ==
    /\ owner["conn"] = IF main \in Busy THEN "main" ELSE "free"
    /\ owner["data"] = IF play = "check" THEN "play" ELSE "free"
    /\ owner["w10"] = IF main = "fetch" THEN "main" ELSE IF win = "check" THEN "win" ELSE "free"
    /\ ~(main = "fetch" /\ win = "check")
    /\ main \in {"off", "devices"} => play = "none" /\ win = "none"

ServerInv ==
    /\ TypeOK /\ LocksInv /\ DeviceInv /\ CallsInv
    /\ device # NoDevice => main = "devices"
=============================================================================
