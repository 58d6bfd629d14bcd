# updateprocessor in TLA+

updateprocessor watches the Play store and the Windows store for new Minecraft
versions, announces them (Discord, Telegram, a git repository), and hands the
Android packages to worker machines for archiving and analysis. This directory
holds TLA+ models of the parts that are hard to test, the TLC configurations
that check them on small instances, and proofs that TLAPS checks.

`PROJECT.json` lists the components, the runs, the source lines behind every
definition, the hazards of the code and the theorems.

## 1. The system

| component | state it keeps | operations | talks to |
|---|---|---|---|
| job spool: `job_manager.cpp`, `tool/pull_job.py` | `priv/jobs/{data,pending,active}` | start-up clean-up, create and add a job, time-out, pull | file system only: server and workers share no lock |
| job worker: `job_worker/framework.py`, `main.py` | list of futures, ping set, temporary directories | pull, execute, upload, delete, ping | spool, over ssh and scp |
| job handlers: `apk_job.py`, `ida_job.py`, `archive.py` | the archive | unpack, archive, run IDA, create child jobs | spool |
| Play version checks: `apk_manager.cpp` | `priv/versioninfo.conf`, one `ApkVersionInfo` for each variant | check, announce, download | store, callbacks, spool |
| Play devices: `play_device.cpp`, `play_manager.cpp` | a state file for each device | generate fields, check in, accept terms, delete state | Google |
| Windows store checks: `win10_store_manager.cpp` | `priv/win10.conf`: known updates and cookies | check three channels, find a download URL | store protocol, callbacks |
| Windows store protocol: `win10_store_network.cpp` | two cookies, a token | four SOAP requests and what becomes of their answers | Microsoft |
| Windows version database: `win10_versiondb_manager.cpp` | `versions.txt`, `versions.json.min`, a git repository | append, commit, push | remote repository |
| Discord gateway: `discord_gateway.cpp` | WebSocket, two timers, session id, sequence number | connect, reconnect, resume, heartbeat, dispatch | Discord |
| Discord bot: `discord_state.cpp` | `priv/discord.conf` | commands, announcements, storing the session | all of the above |
| Telegram bot: `telegram_state.cpp` | none | announcements | Telegram |
| log client: `log_client.py` | a queue, one unsent message | emit, connect, send, stop | log server, over a WebSocket |
| log viewer: `log_viewer/main.py`, `index.html` | log files, subscriptions; the page's view | append, subscribe, unsubscribe, read the archive | the page, over a WebSocket |
| BDS checker: `bds_checker.py` | a file of known versions | one check | a web page |

The server is one process: `main` builds the Play devices one after the other
and the managers, the constructor of `JobManager` cleans the spool up, one
thread follows the Play store, one the Windows store, one times jobs out, and
the main thread runs Discord's event loop, whose commands call into the
managers. Callbacks run on the thread of the manager that found something, in
the order `main` registers them: for Play first Discord, then Telegram; for
Windows first the database, then Discord. A signal's handler runs on whatever
thread the signal interrupts. Workers are separate processes on other machines.
An exception that leaves a thread ends the process; someone restarts it.

**What is hard.** The spool has two sides and no common lock, so every file
operation can fall between any two of the other side; both sides crash. The
two store threads record what they have seen at one moment, tell others at a
second and save at a third, so crashes between them repeat or lose
announcements; every file is truncated and rewritten in place. Three of the
mutexes are wanted by several threads, one of them by a signal handler as well.
The Windows store answers with errors of which one leads to a recursion and all
others are only printed. The gateway loses its connection at any time, resumes
sessions that may be gone, and its state is saved from outside the event loop.

**What makes each part correct.**

- spool: it is an at-least-once queue: no job is lost silently, none is handed
  out more often than its registration and its time-outs allow, abandoned jobs
  and orphaned files come back;
- worker: a job is pinged while it is handled, no two executions share a
  directory, the backlog is bounded, and every execution ends;
- Play: the right name is announced once, what is recorded as downloaded was
  queued, everything is downloaded in the end; a device checks in once;
- Windows: known means published, the database only grows and its two files
  agree, everything is published in the end; the recursion is bounded by the
  service's changes and every source is checked again and again;
- announcements: a failure stays within its callback;
- threads: they never wait for each other, and every command ends;
- gateway: always exactly one way towards a connection, no event skipped, none
  replayed without a cause, dead connections noticed;
- logs: no line is forgotten by the programs, and the page shows every line of
  its log, live or from the archive.

Not all of this holds without exception. The exceptions are in the properties,
named, and described below with the module. A property with a named cause says
that nothing else leads to the failure; it does not guard against the cause
itself, which is what the code does today.

## 2. Modules

| module | models | checked by | proved in |
|---|---|---|---|
| `JobQueue` | what the spool promises | `JobSpool_contention` (as a refinement) | `JobSpoolProofs`, also by itself |
| `JobSpool` | `JobManager`, `FileUtils::deleteDir`, `pull_job.py`, `SshJobSource`, `JobExecutor.execute`, pings | `JobSpool_contention`, `JobSpool_uploads` | `JobSpoolProofs` |
| `JobWorker` | `JobPoolExecutor`, `JobExecutor.execute`, `JobPingThread`, the worker's `main.py` | `JobWorker_safety`, `JobWorker_liveness` | `JobWorkerProofs` |
| `ApkManager` | the version check thread | `ApkManager`, `ApkManager_later` | `ApkManagerProofs` |
| `VersionDb` | `Win10VersionTextDb`: operators only | `Win10Store` | `Win10StoreProofs` |
| `Win10Store` | the Windows check thread, the database callback, the Discord callback, `!link` | `Win10Store` | `Win10StoreProofs` |
| `StoreProtocol` | `Win10StoreNetwork`, and `Win10StoreManager`'s cookies | `StoreProtocol` | `Win10StoreProofs` |
| `StoreCounts` | what `StoreProtocol` counts, and `RecursionIsPaidFor` | `StoreProtocol` | `Win10StoreProofs` |
| `PlayDevice` | `PlayDevice`, `PlayManager` | `Server` | `ServerProofs` |
| `Announcements` | `newVersionCallback`s of `DiscordState` and `TelegramState`, with their loop | `Server` | `ServerProofs` |
| `Server` | `main`, the threads, their mutexes, the commands, signals; composes the two above | `Server` | `ServerProofs` |
| `Gateway` | `Connection`, its use by `DiscordState`, start and end of the process | `Gateway` | `GatewayProofs` |
| `LogUpload` | `log_client.py` and the server's side of a worker's connection | `LogUpload` | `LogUploadProofs` |
| `LogView` | `log_viewer/main.py` and the script of `index.html` | `LogView` | `LogViewProofs` |

Each `MC` module extends its module with what an instance needs (a symmetry
set, functions that are values of constants). Definitions whose comment begins
with `Mutant:` are not part of a model: each is a plausible bug, in the form of
the definition that follows it, and shows that a property can fail.

### JobQueue

The abstract queue: a job is put, taken, returned, finished, forgotten, or
given up (`lost`). `JobSpool` maps its directories to the queue's `where`: a job
with an entry in `pending/` waits, one with an entry in `active/` is taken;
while an operation is half done the step that matters decides (a pull takes the
job when it removes the pending entry, a time-out returns it when it puts it
back). The property `ImplementsQueue` is `JobQueue`'s specification under that
mapping. `lost` is mapped to `exposed`: the queue may give up exactly the jobs
that one of the three windows hit.

The module ends with what its users rely on. `Promise`: a job that the queue
still owes something for (`Owed`) waits or is with a worker, and its files are
there; it was handed out once, and once more for each time it came back; and
none is finished that was not handed out. `GoneForGood`: what has left the
queue does not come back. Both are proved of the queue, and of the spool's
directories under the mapping.

### JobSpool

One action is one file operation. `data`, `pending`, `active` are the three
directories; `stale` says that the modification time of the data directory is
over ten minutes old, which is all that the code asks of the clock. The
server's start-up is `ScanPending`, `ScanActive`, then `SweepFile` and
`SweepDelete` for each entry of `data/` that it found no link to, and
`SweepDone` (each directory scan takes all names in one step; of the files of
an entry only the first makes a step of its own, as it ends the job's
completeness). It dies on an entry that is a plain file, and on one that a
worker has removed since `data/` was listed, because `deleteDir` reads from a
stream that it could not open. A job's creation is
`CreateJob`, `WriteJobDesc`, `LinkPending`; the time-out is `TimeOutCheck`,
`TimeOutRemove`, `TimeOutLink`; the pull script is `PullPick`, `PullLink`,
`PullRemove`, under a lock that only scripts take. A worker's job goes through
the stages of `execute`: `queued`, `exec` (or `scp` and `ln` while its handler
uploads a child job), `handled`, `unlinked`, `cleanup`. A ping is `touch`: it
follows a link, and creates a plain file where it finds nothing.

The code has three windows in which a job is lost without anyone being told;
the history variable `exposed` marks the jobs they hit, and `NoSilentLoss`
says that there is no fourth:

1. an upload overlaps the server's start-up, whose clean-up takes its
   directory for an orphan;
2. a time-out meets a half-done pull of the same job: `symlink` into
   `pending/` fails because the script has not removed the old entry yet;
3. the server dies between `remove` and `symlink`.

Ghost files are the other surprise: a ping that comes too late creates a plain
file in `active/`, on which the next pull of that job dies
(`PullLinkExists`), or in `data/`, on which the server's start-up dies.
`GhostsHaveACause` says when this can happen. The one in `active/` also hides
its job's files: `cleanUpDataDir` takes any name in `active/` for a reference,
and the time-out leaves everything alone that is not a link. So the files of a
job that was finished, or that one of the three windows caught, stay for good
behind such a ghost. `OrphansReclaimed` counts them as orphans, and names this
as its exception (`KeptByGhost`).

### ApkManager

`info` is memory, `disk` the file, `result` the `CheckResult` of the round;
`pc` follows `updateLatestVersions` through its three loops and the two saves.
`bulk` and `page` are what the store answers to its two requests. The file is
truncated (`Truncate`) and filled in parts (`WritePart`); `torn` remembers that
a crash hit it in between. The order of the variants in a loop is left open.
The mutex is in `Server`. Of `downloadAndProcessApk` the model keeps that it
registers a job, or returns early without links; the copy of the links that it
filters for `onlyNatives` is never read, so the argument has no effect.

### VersionDb, Win10Store

`VersionDb` is the database as data: a list of entries for each channel, the
lines of `versions.txt` as `write` puts them and `read` understands them, and
the elements that `writeJson` makes. `Fragment` is what a torn write leaves of
a line. `Win10Assumption` keeps entries apart from headings and empty lines: an
update's line has a space in it, which those have not.

In `Win10Store`, `known` is memory and `conf` the file; `pc` follows
`checkVersion` and the two callbacks; `text`, `json`, `head` and `pushed` are the
files in the working directory, in the last commit and in the remote
repository. `owner` is `dataMutex`, which a `!link` command also takes. The
answer to a sync lists any part of what is out. What the model shows:

- after a crash between the callbacks and the save every update of that check
  is published again, once per crash (`OncePerRun`);
- `convertVersion` throws for each name its pattern does not know, x64 or not.
  By then `versions.txt` has the entry, so the next start reads it and throws
  as well, and so does each one after it: `versions.txt` is poisoned
  (`Poisoned`), and `PublishedInTheEnd` holds only until then. The same is true
  of a line that a crash cut off inside the name;
- `versions.txt` only grows at the ends of its lists, but an element of
  `versions.json.min` can change: the update of a preview makes way for that of
  a release or a beta of the same version that is found later, because
  `writeJson` takes the lists in turn (`Turn`). No version ever leaves the file
  (`KeepsVersions`, a part of `PushesOnlyAdd`).

### StoreProtocol

The two `Win10StoreNetwork` objects with their requests: what a request says
(`ConfigRequest`, `CookieRequest`, `SyncRequest`, `LinkRequest`), what the service may answer
(`Possible`), and what the code makes of it (`Outcome`). `cookie` is memory,
`saved` the file. `deeper` counts the calls of `checkVersion` to itself; `excused`
the ends of the process between such a call's fetch and its save. Both are
declared in `StoreCounts`, together with the property that relates them: the
proofs see `StoreProtocol` as an instance, and the property by its own name.
What the model shows, in the exceptions of `ChecksGoOn`:

- only `ConfigChanged` replaces a cookie. One that is refused for another
  reason stays, through every restart;
- one listed update without an element that the code reads makes the whole
  answer an exception, so that all other updates are hidden as well.

### PlayDevice, Announcements, Server

`PlayDevice` keeps three items of a state file: the generated fields, the
check-in, and the api data that arrives with accepted terms. Each write
truncates first; `Tear` leaves any part. `Announcements` has the callbacks of
one check, each with one message after the other; the first that fails ends its
callback (`TellFails`), and the loop's `catch` keeps the rest.

`Server` adds the threads. `main`, `play`, `win` say where each is, `owner` who
holds `conn` (the connection's recursive mutex), `data` (`ApkManager`'s) and
`w10` (`Win10StoreManager`'s). A getter that locks and unlocks is one step, a
lock that is held over a request is two. `handler` is the thread that a signal
suspended. What the model shows:

- without a signal no set of threads ever waits for itself: the mutexes are
  taken in the order `conn`, then `data` or `w10`, and callbacks run without
  any (`StuckHasACause`);
- a signal that arrives on a version check thread inside its mutex, while a
  command holds `conn` and wants that mutex, stops both for good (`SignalBit`):
  the handler wants `conn`;
- `requestForceCheck` notifies without a mutex or a predicate, so that a check
  under way swallows it; nothing of the bot depends on it.

### Gateway

`link` is the transport, `ws`, the timers and the session variables are those
of `Connection`. The dispatch of an event takes two steps, because a signal can
come between taking over its number and handling it. Discord itself is
external: it numbers events, replays them after a resume, and forgets sessions.

A signal's handler runs beside the event loop, in four steps that the loop's own
come between: `SignalReadsSession`, `SignalReadsSeq`, `SignalWrites`,
`SignalExits`; `saving` is where it is and what it has read. `getSession` locks
but returns a reference, so a READY may garble the id while it is copied
(`Unknown`, an id that cannot be resumed). The write empties
`priv/discord.conf` before it fills it: an end of the process in between
(`Killed`) leaves any of `Torn`. The token stands for all that the file holds
besides the session. `cut` are events whose handler an end of the process broke
off after their number was stored, `forgotten` those that were handled and will
be replayed: an end of the process did not cover them by a stored number, or a
signal's handler had read the number before. What the model shows:

- an event handled after the signal's handler has read the number is replayed by
  the next process, although the session was stored as intended: the same
  command is carried out twice (`ReplayHasACause` names this);
- the two halves may be of different moments, and still the pair is safe to
  resume from: an older id cannot be resumed once another is the bot's, and a
  later number of the same session was received (`StoredPairIsSafe`);
- a torn file leaves no number, or one that is not larger; it never makes the
  bot skip an event. Without its token the bot stays connected and silent.

Simplifications: one signal's handler at a time (two would store one after the
other); `Torn` chooses each value independently, because the order in which
the configuration library writes them is not known here; a signal's handler that
waits for ever is in `Server`; a failed request for the gateway's address at the
start is a `Crash`.

### JobWorker

`JobSpool` sees a worker from outside; this module is its inside. `main` is the
place of the main loop, `futures` its list, `pc` the progress of each execution,
`lock`, `pinger`, `jobs` and `left` the ping thread. The spool may hand out any
job at any time, the same one again included. What the model shows:

- the filter keeps the futures that are *running*, so those that have not
  started are forgotten: with a pool of two a worker holds up to four jobs
  (`BoundedBacklog`);
- a job that was taken back can be fetched again by the same worker while its
  old execution has deleted its directory but not yet called `remove_job`. Both
  share one entry of a set: the old execution removes it, the new one is no
  longer pinged, and its own `remove_job` raises `KeyError` with the lock held.
  `again` marks such jobs; `PingedWhileHandled` and `LostLockHasACause` say that
  this is the only such case, next to a ping thread that died;
- nothing is pinged before `add_job` or after `remove_job` (the second half of
  `PingedWhileHandled`). `JobSpool` relies on that: a ping of its workers is a
  `touch` for a job in one of the stages from `exec` to `cleanup`, and the late
  pings behind its ghost files fall between `delete_job` or a time-out and
  `remove_job`. An old execution and the one that fetched its job again touch
  the spool like those of two workers, which is how `JobSpool` has them;
- after an exception in `pull_job` (`PullFails`) nothing stops the ping thread,
  so that the process stays, pulls nothing, and is not restarted either.

### LogUpload, LogView

`LogUpload` numbers the lines of one log. `queue`, `msg` and `thread` are the
client; `wire` holds what is on its way on each connection, `broken` the
connections that carry nothing any more. `send` returns once the message is
written, so a broken connection loses lines silently (`dropped`), and an
exception after the write repeats one. `LogView` has two logs and one page.
`req` and `rep` are the two directions of the page's connection, `queue` the
queues of its subscriptions; a handler or forwarder runs from one `await` to
the next in one step, as in asyncio. A second `subscribe` of one log on one
connection, which would leave the first queue behind, is never sent by the page
(`SetCurrentLog` unsubscribes first), and the model's `Subscribe` replaces the
queue. The order
of the logs in the list is left out: the list is a set, and the page may select
any of them first.

## 3. Runs and bounds

| run | instance | shows |
|---|---|---|
| `JobSpool_contention` | 1 job, 2 workers, 2 crashes, 2 time-outs, fairness | the safety properties when everyone contends for one name: two workers are needed for a pull against a pull and a late ping against a new holder, two crashes for one on each side; abandoned jobs and orphans come back; the spool implements the queue |
| `JobSpool_uploads` | 2 jobs, 1 worker, 1 crash, 1 time-out | the whole inductive invariant, with a child job, a start-up during its upload, and drafts |
| `JobWorker_safety` | 3 jobs, 5 executions, a pool of 2 | all safety properties; the full backlog of 4 is reached, and every job can be fetched again |
| `JobWorker_liveness` | 2 jobs, 3 executions, a pool of 2, fairness | `ExecutionEnds`; three executions make the loop wait once |
| `ApkManager` | 2 variants, 2 versions, 1 change of the store, 1 crash, fairness | all its properties; the store starts with any versions, so that the change can be a roll-out or a roll-back, and the crash can tear the file of both variants |
| `ApkManager_later` | 1 variant, no crash, fairness | a comment that the code does not keep, see section 5 |
| `Win10Store` | 3 updates: a release that two channels list, a preview of the same version, a name that `convertVersion` refuses; 1 crash, 1 `ConfigChanged`, fairness | all its properties; two updates of one version are the fewest for the choice of the JSON, one crash repeats entries and tears a line |
| `StoreProtocol` | 2 changes of the configuration, 1 end of the process, fairness | both its properties; the second change can come between the two requests that follow the first |
| `Server` | 2 devices, 2 variants, 2 Discord channels, 1 Telegram target, 1 end of the process, fairness | all its properties; the end comes during the second device's constructor, or by a signal on any thread. The invariants hold with 2 ends as well |
| `Gateway` | 2 sessions, 3 events each, 1 unread message when Discord adds one unasked, delays 1 and 2, 2 ends of the process, fairness | all its properties; a second session is the smallest number for a stale id, a third event (READY is the first) for one message handled before a signal's handler reads the number and one after, the second end can tear the file the first has written. The inductive invariant holds with 2 unread messages and 3 delays as well |
| `LogUpload` | 3 lines, 3 connections, 1 crash of the server, fairness | all its properties; with three connections one line can be resent twice |
| `LogView` | 2 logs, 4 lines, 3 clicks, 1 crash | all its properties; three clicks go to the other log, back and away again while replies are on their way |

The bounds are constants (`Max...`) that occur in the guards of the actions
they bound; properties mention them only where the code's own limit is meant
(`MaxJobs`) and where a bounded number of time-outs is used up (`Abandoned`).
Symmetry is declared for runs without liveness properties only. Deadlock is
checked everywhere except in the runs of `JobSpool`, `JobWorker` and
`LogUpload`: uuids, executions and lines run out and everything may rightly be
at rest, and a worker that is stopped ends.

### Fairness

- `JobSpool`: a server that is down is started again and its start-up goes on,
  the time-out thread runs (`runJobTimeOutThread` loops every ten minutes),
  time passes. Nothing is assumed of any worker, which may be a machine that
  was switched off.
- `JobWorker`: all threads run, handlers and pings end, and of the threads that
  wait for the ping lock one gets it in the end (strong; the ping thread sleeps
  five minutes between two rounds). Nothing is assumed of the spool: a pull may
  wait for ever.
- `ApkManager`: the thread runs and is restarted; `details` catches up with
  `bulk_details`; a request that is repeated every ten minutes is answered at
  some time (strong: failures may come in between).
- `Win10Store`: the same for each channel and for the token service; a thread
  that waits for `dataMutex` gets it in the end; a `!link` command ends.
- `StoreProtocol`: the thread runs and is restarted; the token is refreshed now
  and then, and the service gives a proper answer in each channel now and then
  if it can give one at all (strong: the loop asks every ten minutes).
- `Server`: the two check threads and a signal's handler run (weak), the main
  thread gets a mutex that is released again and again (strong). No command
  and no signal has to come, and no process has to end.
- `LogUpload`: the upload thread and the server run, the server is started
  again, and a connection that is asked for every second is made in the end;
  the last connection of the bound does not break.
- `Gateway`: the event loop and its timers run, a socket that is being closed
  is reported as closed, the gateway accepts a connection now and then (strong:
  attempts may fail in between). No process is assumed to be restarted, and
  nothing is assumed of a signal's handler: one that interrupts the event loop's
  own thread stops it only until the process exits.

## 4. Proofs

Every theorem holds for any values of the constants that satisfy the named
assumption of its module: the bounds are naturals, and the model values that
stand for "none" are not members of the sets they are kept apart from. Each
proof follows one pattern. A property is seldom inductive; the module's last
section has an invariant that is, as a conjunction of named parts. A lemma for
each part says that every step keeps it, others say what an operation does to
the data; a lemma puts the steps together; the theorem `Invariant` is the
temporal step; the other theorems follow from it.

| module | invariant | theorems: property |
|---|---|---|
| `JobSpoolProofs` | `SpoolInv` | `Invariant`: `SpoolInv`; `JobsAreNotLost`: `NoSilentLoss`; `DeliveriesAreAccounted`: `DeliveriesAccounted`; `GhostsAreExplained`: `GhostsHaveACause`; `SpoolImplementsQueue`: `ImplementsQueue`; `SpoolKeepsPromise`: `Queue!Promise`; `SpoolGoneForGood`: `Queue!GoneForGood` |
| | | `QueuePromise`: `Q!Promise`; `QueueGoneForGood`: `Q!GoneForGood`, of the queue by itself |
| `JobWorkerProofs` | `WorkerInv` | `OneEach`: `OneDirectoryEach`; `Pinged`: `PingedWhileHandled`; `LostLock`: `LostLockHasACause`; `Bounded`: `BoundedBacklog` |
| `ApkManagerProofs` | `ApkInv` | `Named`: `AnnouncedByItsName`; `Queued`: `DownloadedMeansQueued`; `AnnouncedOnce`: `NoRepeatedAnnouncement`; `SecondJobs`: `SecondJobHasACause` |
| `Win10StoreProofs` | `StoreInv` | `ReadWrite`; `KnownPublished`: `KnownMeansPublished`; `RepeatsOnlyByCrash`: `OncePerRun`; `FilesAgree`: `JsonTellsTheText`; `PushesAdd`: `PushesOnlyAdd`; `OnePerVersion`, `SameVersion`: about `Json` and `convertVersion` |
| | `ProtocolInv` | `RecursionPaid`: `RecursionIsPaidFor` |
| `ServerProofs` | `ServerInv` | `OnlyOnce`: `MadeOnce`; `NoDeadlock`: `StuckHasACause`; `FailuresContained`: `FailureIsContained` |
| `GatewayProofs` | `GatewayInv` | `OneWay`: `ConnectionInv`; `InOrder`: `NoMessageSkipped`; `StoredSafe`: `StoredPairIsSafe`; `ReplaysExplained`: `ReplayHasACause` |
| `LogUploadProofs` | `UploadInv` | `Somewhere`: `EveryLineIsSomewhere`; `Repeated`: `RepeatedMeansResent` |
| `LogViewProofs` | `ViewInv` | `NothingMissing`: `NoGap`; `TwiceAtMost`: `ShownAtMostTwice`; `ListComplete`: `ListIsComplete` |

The arguments:

- **Spool.** Only registered jobs have links, and a draft or an upload belongs
  to the one who fills it (`Ownership`); what an upload has copied is there
  unless it is exposed (`UploadData`); one script is under the lock, and the job
  it picked is still in `pending/` (`PullState`); a job that a worker took keeps
  its entry in `active/` until a time-out or a finished worker removes it
  (`HolderState`); and wherever the start-up is, each live job is in what it has
  read or will be there when it reads on (`StartupState`). The last part needs
  the order of the two scans: a job moves from `pending/` to `active/`, never
  back while the server is starting. Under this invariant every file operation
  is a step of `JobQueue` or a stutter, so what the queue promises the spool
  keeps; the part about finished jobs needs one more invariant of the spool
  (`DoneMeansDelivered`).
- **Worker.** The directory of an execution keeps its job from being pulled
  (`DirsInv`), so two executions of one job overlap only after the first has
  deleted its directory, and the history says so (`AgainInv`). The `KeyError`
  of `remove_job` needs exactly such a pair. `remove_job` takes the job from the
  set whoever added it, so an element always has an execution of its job between
  the two calls. Executions start in the
  order in which they were submitted, so one of the list starts only when all
  that the filter has forgotten have started; each filter after that forgets no
  more than those of a full list that wait, and leaves fewer of them
  (`BacklogInv`). Summed up, a worker never holds more than the square of
  `MaxJobs`.
- **Play.** A result that is new has the code that `info` has, and the name of
  that code once its check is complete; what is announced is on disk, or the
  disk was torn; what is recorded was queued.
- **Version database.** `Read` and `Write` are recursive functions over the
  lines. A fact about each of their values needs no induction theorem: the set
  of the line numbers up to which it holds contains 0 and with each number the
  next, hence all of them. In this way `ReadWrite` shows that `read` gives back
  what `write` wrote, `ReadTorn` what is left of a torn line, and `JsonIs` that
  `writeJson`'s set is the first x64 entry of each version. `Spots` translates
  "first" from turns to lists: an entry of an earlier list comes sooner, and in
  one list that of the smaller index (`Sooner`). Of the entries of a version one
  is the earliest (`Earliest`), hence one element per version
  (`OnePerVersion`); an entry added to a list comes sooner only than those
  of later lists, hence `KeepsVersions`. `SameVersion` says when two packages
  have one version at all.
- **Windows store.** Between two callbacks of a check the process finds its own
  database in the file (`FileInv`), and the file, the last commit and the last
  push go on from each other, until a write is torn (`PrefixInv`). Both files
  of a commit were made from the same lists (`JsonInv`). The updates of the
  check under way are known in memory first, then in the file, then committed
  (`FreshInv`), so what is saved as known was pushed and told (`PublishedInv`).
  The store gives no update twice in one process; a crash forgets what the
  current check knew, and the next one may add it once more (`CountInv`, where
  `Again` says when this start's share is used up).
- **Store protocol.** A cookie that `ConfigChanged` refuses is older than the
  configuration, the next one is not; so each recursion leaves a younger cookie
  in the file, or the process ended before (`PaidInv`).
- **Server.** Each mutex is held in the states where the code holds it and in
  no other (`LocksInv`), so a thread that holds one wants none of the others,
  except the event loop, which holds `conn`. What a device made is in its file
  or about to be written (`DeviceInv`). A callback that is over has told each
  of its targets or failed at one; the one that runs has told some and has the
  rest before it, and the others have not begun (`CallsInv`).
- **Gateway.** The events on their way are those after the number the bot has
  reached in the connection's session, without a gap (`InboxInv`), so what it
  takes over next is the next one; numbers that were stored are covered by what
  was handled. What a signal's handler has read is of the bot's session, or of
  one that cannot be resumed; its number was received, and what was handled
  after it is marked (`SavingInv`). So the file it writes is safe whenever the
  process ends, and a torn one says no more than the full one (`KilledFile`).
- **Log client.** A line in the queue was written nowhere, one that is being
  sent not to the latest connection (`ClientInv`); so no connection holds a line
  twice (`WireInv`), and a second copy in the file came over another connection
  (`FileInv`).

- **Log viewer.** What the page has asked for ends with the current log's
  subscription and then its archive (`RequestInv`). So once nothing is asked
  for, each line of the file is in the view, in the archive that will replace
  it, or on its way behind that archive (`GapInv`). A line is sent once on its
  own, and it is queued, on its way, or shown (`OnceInv`); the view is an
  archive followed by such lines (`ShownInv`), so it has a line twice at most.
  A forwarder of the list that waits has sent the list as it is (`ListInv`).

`RecursionPaid` is about `StoreProtocol`, of which `Win10StoreProofs` has an
instance `P`; it shares with `Win10Store` only the bounds. The counts and the
property come from `StoreCounts`, which both modules extend, so the statement is
`P!Spec => []RecursionIsPaidFor`. In the same way `JobSpoolProofs` has an
instance `Q` of `JobQueue` with variables of its own, next to the spool's
`Queue` with its mapping.

All invariants and action properties of the runs are proved. Only
model-checked are the liveness properties (TLAPS does not prove liveness under
fairness), among them `ChecksGoOn`, `PublishedInTheEnd` and `ExecutionEnds`.
TLC checked each inductive invariant on the instance of its module before it
was proved.

## 5. What the code does differently from what it says

`apk_manager.cpp:153` comments a version whose string is not known yet with "we
don't have the version string yet; check it again later". The run
`ApkManager_later` shows that this never happens: line 146 has stored the new
code already, so at the next round line 142 finds nothing new, and the version
is downloaded but not announced.

## 6. Not modelled

- contents: packages, apk parsing, IDA, archives, XML, embeds. A handler is a
  number of uploads, followed by success or an exception;
- `PlayDevice`'s requests (`registerMCS`, the content sync, `downloadApk`): they
  keep no state here and are calls into a library that is a submodule. Their
  failures are `Crash` in `ApkManager`; that the result of a transfer is not
  looked at (`play_device.cpp:159`) is about contents, and no property covers it;
- the BDS checker: one sequential script that compares a web page with a file;
- in `LogUpload`, the end of a worker's process: a killed worker takes its queue
  and its unsent line along, and `EveryLineIsSomewhere` is about workers that
  go on or stop by themselves;
- the order of two threads inside one short hold of a mutex: a getter or an
  update of the Windows store's records under `dataMutex` is one step. Where
  `getDownloadUrl` holds it across its requests it is two (`LinkLocks`,
  `LinkEnds`; `LinkBegin`, `LinkEnd`);
- the zlib stream inside a gateway message (an exception there, a message in
  parts included, is `Crash`); Discord's rate limits;
- several pages at once: their connections share nothing but the logs;
- the destructors: `main` never returns from the event loop, the process ends
  by a signal, an exception or `execv`;
- real time: delays are "a timer fires some time";
- `tool/get_w10_token.cpp`, a program to be run once by hand, and build files.

## 7. Plan

Everything the survey planned is done. What could follow, in this order:

1. one composition of `ApkManager` with `JobSpool`'s creation steps, in which a
   crash between `createJob` and `addApkJob` is shown to leave an orphan that the
   next start removes (each side is checked by itself now);
2. `LogView` with two pages, should subscriptions ever share state.
