----------------------------- MODULE Win10Store -----------------------------
(***************************************************************************)
(* The thread that follows the Windows store (Win10StoreManager), with its *)
(* two callbacks in the order main() registers them: the version database  *)
(* (Win10VersionDBManager: versions.txt and its JSON form, a git commit, a *)
(* push) and Discord.  An update is known once priv/win10.conf, written    *)
(* after the callbacks, lists it.  An exception in a callback, or in       *)
(* fetching a cookie, ends the process; the next start begins with what    *)
(* the two files hold.                                                     *)
(*                                                                         *)
(* Cookies are left out here, see StoreProtocol, but for the one rule that *)
(* shapes the control: a sync answered by ConfigChanged fetches and saves  *)
(* a new one and starts over.  What the store lists in an answer is any    *)
(* part of what is out.                                                    *)
(***************************************************************************)
EXTENDS VersionDb

CONSTANTS
    ChannelsOf,     \* the channels whose answers list an update
    MaxCrashes,     \* bound: crashes, uncaught exceptions included
    MaxChanges      \* bound: ConfigChanged answers

\* Release and preview are checked anonymously, beta with an account, whose
\* answers may list releases again; the known updates are kept apart.
Sources   == {"anonymous", "account"}
Source(c) == IF c = "beta" THEN "account" ELSE "anonymous"

\* An entry is a line with a space in it, which the other lines have not.
ASSUME Win10Assumption ==
    /\ ChannelsOf \in [Updates -> SUBSET Channels]
    /\ MonikerOf \in [Updates -> Name]
    /\ Fragment \notin Updates
    /\ Entries \cap {"Releases", "Beta", "Preview", ""} = {}
    /\ MaxCrashes \in Nat /\ MaxChanges \in Nat

VARIABLES
    out,            \* updates the store has put out
    changes,        \* ConfigChanged answers so far
    \* files and the git repository
    conf,           \* known updates in priv/win10.conf
    text,           \* the lines of versions.txt
    json,           \* the elements of versions.json.min
    head,           \* both files in the last local commit
    pushed,         \* both files in the remote repository
    \* the process
    pc,             \* where the version check thread is
    channel,        \* the channel being checked
    known,          \* knownVersions and knownVersionsWithAccount
    fresh,          \* newUpdates of this check
    newMoniker,     \* hasAnyNewPackageMoniker
    draft,          \* the Win10VersionTextDb in memory
    owner,          \* who holds dataMutex
    \* history
    announced,      \* updates that Discord was told of
    torn,           \* a crash hit versions.txt between truncation and write
    crashes

dbVars      == <<text, json, head, pushed>>
fileVars    == <<conf, dbVars>>
processVars == <<pc, channel, known, fresh, newMoniker, draft, owner>>
historyVars == <<announced, torn, crashes>>
vars == <<out, changes, fileVars, processVars, historyVars>>

PC == {"off", "boot", "lock", "sync", "read", "write", "commit", "push", "notify", "tell",
       "save", "wait"}
NoFiles == [db |-> Empty, json |-> {}]
Nothing == [s \in Sources |-> {}]

Init ==
    /\ out = {} /\ changes = 0
    /\ conf = Nothing /\ text = <<>> /\ json = {} /\ head = NoFiles /\ pushed = NoFiles
    /\ pc = "off" /\ channel = "release"
    /\ known = Nothing /\ fresh = {} /\ newMoniker = FALSE /\ draft = Empty /\ owner = "free"
    /\ announced = {} /\ torn = FALSE /\ crashes = 0

PutOut(u) ==
    /\ u \notin out
    /\ out' = out \cup {u}
    /\ UNCHANGED <<changes, fileVars, processVars, historyVars>>

-----------------------------------------------------------------------------
(***************************************************************************)
(* The process starts and dies.                                            *)
(***************************************************************************)

\* init loads the known updates; the database constructor reads versions.txt
\* and opens it for writing, which truncates it.
Start ==
    /\ pc = "off"
    /\ pc' = "boot" /\ channel' = "release"
    /\ known' = conf
    /\ draft' = Read(text)
    /\ text' = <<>>
    /\ UNCHANGED <<out, changes, conf, json, head, pushed, fresh, newMoniker, owner, historyVars>>

Gone == /\ pc' = "off" /\ known' = Nothing /\ fresh' = {} /\ newMoniker' = FALSE
        /\ draft' = Empty /\ owner' = "free"

\* The lines are written, then the JSON form: an entry that convertVersion
\* refuses ends the process with versions.txt already written.
WriteFiles(next) ==
    /\ text' = Write(draft)
    /\ IF Readable(draft)
       THEN /\ json' = Json(draft) /\ pc' = next
            /\ UNCHANGED <<known, fresh, newMoniker, draft, owner>>
       ELSE Gone /\ UNCHANGED json

Booted ==
    /\ pc = "boot"
    /\ WriteFiles("lock")
    /\ UNCHANGED <<out, changes, conf, head, pushed, channel, historyVars>>

\* What a crash leaves of a file that was opened but not closed: whole lines,
\* or whole lines and the beginning of an update's.
Torn(lines) ==
    Prefixes(lines) \cup
    {Append(SubSeq(lines, 1, n - 1), Fragment) : n \in {k \in DOMAIN lines : lines[k] \in Entries}}

Crash ==
    /\ pc # "off"
    /\ crashes < MaxCrashes
    /\ crashes' = crashes + 1
    /\ IF pc \in {"boot", "write"} THEN text' \in Torn(Write(draft)) ELSE UNCHANGED text
    /\ torn' = (torn \/ (pc \in {"boot", "write"} /\ text' # Write(draft)))
    /\ Gone
    /\ UNCHANGED <<out, changes, conf, json, head, pushed, channel, announced>>

-----------------------------------------------------------------------------
(***************************************************************************)
(* checkVersion.                                                           *)
(***************************************************************************)

\* Release, then Preview, then - with a fresh token - Beta, then ten minutes'
\* wait.
Advance ==
    IF channel = "release" THEN pc' = "lock" /\ channel' = "preview"
    ELSE IF channel = "preview" THEN pc' = "lock" /\ channel' = "beta"
    ELSE pc' = "wait" /\ UNCHANGED channel

Lock ==
    /\ pc = "lock"
    /\ owner = "free"
    /\ owner' = "check"
    /\ pc' = "sync"
    /\ UNCHANGED <<out, changes, fileVars, channel, known, fresh, newMoniker, draft, historyVars>>

\* getMsaToken throws: continue skips the wait as well as the Beta check.
TokenFails ==
    /\ pc = "lock" /\ channel = "beta"
    /\ owner = "free"
    /\ channel' = "release"
    /\ UNCHANGED <<out, changes, fileVars, pc, known, fresh, newMoniker, draft, owner, historyVars>>

\* Any other error: the check returns, its lock released.
SyncFails ==
    /\ pc = "sync"
    /\ owner' = "free"
    /\ Advance
    /\ UNCHANGED <<out, changes, fileVars, known, fresh, newMoniker, draft, historyVars>>

\* ConfigChanged: a new cookie, saveConfig, and the check calls itself.
SyncConfigChanged ==
    /\ pc = "sync"
    /\ changes < MaxChanges
    /\ changes' = changes + 1
    /\ conf' = known
    /\ owner' = "free"
    /\ pc' = "lock"
    /\ UNCHANGED <<out, dbVars, channel, known, fresh, newMoniker, draft, historyVars>>

\* Mutant: what is known already is not left out.
AllAmong(listed) == listed

NewAmong(listed) == listed \ known[Source(channel)]

\* Mutant: the configuration is saved before the callbacks, not after.
SyncAnswersSaved(listed) ==
    LET new == NewAmong(listed) IN
    /\ pc = "sync"
    /\ known' = [known EXCEPT ![Source(channel)] = @ \cup new]
    /\ conf' = known'
    /\ newMoniker' = (new # {}) /\ fresh' = new /\ owner' = "free"
    /\ pc' = IF new # {} THEN "read" ELSE "save"
    /\ UNCHANGED <<out, changes, dbVars, channel, draft, historyVars>>

\* The answer lists some updates of the channel.  They become known in memory
\* before any callback has seen them.
SyncAnswers(listed) ==
    LET new == NewAmong(listed)
        seen == {MonikerOf[u] : u \in UNION {known[s] : s \in Sources}} IN
    /\ pc = "sync"
    /\ known' = [known EXCEPT ![Source(channel)] = @ \cup new]
    /\ newMoniker' = \E u \in new : MonikerOf[u] \notin seen
    /\ fresh' = new
    /\ owner' = "free"
    /\ pc' = IF new # {} THEN "read" ELSE "save"
    /\ UNCHANGED <<out, changes, fileVars, channel, draft, historyVars>>

\* Mutant: only the first of the two sets is saved.
SaveAnonymousOnly ==
    /\ pc = "save" /\ owner = "free"
    /\ conf' = [conf EXCEPT !["anonymous"] = known["anonymous"]]
    /\ fresh' = {} /\ newMoniker' = FALSE
    /\ Advance
    /\ UNCHANGED <<out, changes, dbVars, known, draft, owner, historyVars>>

\* saveConfig writes a second file and renames it: all or nothing.
Save ==
    /\ pc = "save"
    /\ owner = "free"
    /\ conf' = known
    /\ fresh' = {} /\ newMoniker' = FALSE
    /\ Advance
    /\ UNCHANGED <<out, changes, dbVars, known, draft, owner, historyVars>>

Wake ==
    /\ pc = "wait"
    /\ pc' = "lock" /\ channel' = "release"
    /\ UNCHANGED <<out, changes, fileVars, known, fresh, newMoniker, draft, owner, historyVars>>

-----------------------------------------------------------------------------
(***************************************************************************)
(* The callbacks, under newVersionMutex and without dataMutex.             *)
(***************************************************************************)

\* newUpdates, sorted by package moniker; equal ones in any order.
InOrder(new) ==
    {s \in SetToSeqs(new) : \A i, j \in DOMAIN s : i < j => NameOf(s[i]).text <= NameOf(s[j]).text}

\* Mutant: the file is opened for writing before it is read.
DbReadTruncated ==
    /\ pc = "read"
    /\ \E new \in InOrder(fresh) : draft' = [Empty EXCEPT ![channel] = new]
    /\ text' = <<>>
    /\ pc' = "write"
    /\ UNCHANGED <<out, changes, conf, json, head, pushed, channel, known, fresh, newMoniker,
                   owner, historyVars>>

\* Win10VersionDBManager: read versions.txt, append, open it for writing.
DbRead ==
    /\ pc = "read"
    /\ \E new \in InOrder(fresh) : draft' = [Read(text) EXCEPT ![channel] = @ \o new]
    /\ text' = <<>>
    /\ pc' = "write"
    /\ UNCHANGED <<out, changes, conf, json, head, pushed, channel, known, fresh, newMoniker,
                   owner, historyVars>>

DbWrite ==
    /\ pc = "write"
    /\ WriteFiles("commit")
    /\ UNCHANGED <<out, changes, conf, head, pushed, channel, historyVars>>

\* commitDb takes the files as they are in the working directory.
DbCommit ==
    /\ pc = "commit"
    /\ head' = [db |-> Read(text), json |-> json]
    /\ pc' = "push"
    /\ UNCHANGED <<out, changes, conf, text, json, pushed, channel, known, fresh, newMoniker,
                   draft, owner, historyVars>>

DbPush ==
    /\ pc = "push"
    /\ pushed' = head
    /\ pc' = IF newMoniker THEN "notify" ELSE "save"
    /\ UNCHANGED <<out, changes, conf, text, json, head, channel, known, fresh, newMoniker,
                   draft, owner, historyVars>>

\* DiscordState::onNewWin10Version asks for the download URLs, for which
\* getDownloadUrl takes dataMutex on this thread, and then sends the message.
NotifyUrls ==
    /\ pc = "notify"
    /\ owner = "free"
    /\ pc' = "tell"
    /\ UNCHANGED <<out, changes, fileVars, channel, known, fresh, newMoniker, draft, owner,
                   historyVars>>

NotifySend ==
    /\ pc = "tell"
    /\ announced' = announced \cup fresh
    /\ pc' = "save"
    /\ UNCHANGED <<out, changes, fileVars, channel, known, fresh, newMoniker, draft, owner,
                   torn, crashes>>

-----------------------------------------------------------------------------
(***************************************************************************)
(* Discord's thread: a !link command calls getDownloadUrl as well.         *)
(***************************************************************************)
LinkBegin ==
    /\ pc # "off"
    /\ owner = "free"
    /\ owner' = "command"
    /\ UNCHANGED <<out, changes, fileVars, pc, channel, known, fresh, newMoniker, draft,
                   historyVars>>

LinkEnd ==
    /\ owner = "command"
    /\ owner' = "free"
    /\ UNCHANGED <<out, changes, fileVars, pc, channel, known, fresh, newMoniker, draft,
                   historyVars>>

-----------------------------------------------------------------------------
\* What the store can list in the channel.
Available == {u \in out : channel \in ChannelsOf[u]}

Sync == SyncFails \/ SyncConfigChanged
        \/ \E listed \in SUBSET Available : SyncAnswers(listed)

Callbacks == DbRead \/ DbWrite \/ DbCommit \/ DbPush \/ NotifyUrls \/ NotifySend

Thread == Start \/ Booted \/ Lock \/ TokenFails \/ Sync \/ Callbacks \/ Save \/ Wake

Next == Thread \/ Crash \/ LinkBegin \/ LinkEnd \/ \E u \in Updates : PutOut(u)

Spec == Init /\ [][Next]_vars

\* Threads run, someone restarts the process, a command ends, a thread that
\* waits for a mutex gets it in the end (it waits at one place only), and the
\* store and the token service answer now and then, for each channel.
Fairness ==
    /\ WF_vars(Thread) /\ WF_vars(LinkEnd)
    /\ SF_vars(Lock \/ NotifyUrls \/ Save)
    /\ SF_vars(Lock /\ channel = "beta")
    /\ \A c \in Channels : SF_vars(SyncAnswers(Available) /\ channel = c)

FairSpec == Spec /\ Fairness

-----------------------------------------------------------------------------
(***************************************************************************)
(* Properties.                                                             *)
(***************************************************************************)

\* What priv/win10.conf calls known has been published: it is in the remote
\* database under a heading of the source that listed it, and Discord was told
\* of its moniker.  A torn versions.txt is the exception: its loss is pushed
\* with the next update.
KnownMeansPublished ==
    \A s \in Sources : \A u \in conf[s] :
        /\ torn \/ \E c \in Channels : Source(c) = s /\ Contains(pushed.db[c], u)
        /\ \E k \in announced : MonikerOf[k] = MonikerOf[u]

\* Only a restart repeats an entry of the database, once each: the update's
\* callbacks had run, in part at least, but win10.conf did not say so yet.
OncePerRun ==
    \A c \in Channels, u \in Updates :
        Cardinality({i \in DOMAIN draft[c] : draft[c][i] = u}) <= 1 + crashes

\* The order in which writeJson goes through the lists.
Turn == [release |-> 1, beta |-> 2, preview |-> 3]

\* A version that is in the first JSON is in the second, as the same update, or
\* as one from a list that comes earlier.
KeepsVersions(old, new) ==
    \A el \in old : \E nel \in new :
        nel.version = el.version /\ (nel = el \/ Turn[nel.list] < Turn[el.list])

\* A push only adds at the ends of the lists, torn files aside; and no version
\* ever leaves versions.json.min, though a preview's update makes way for that
\* of a release of the same version.
PushesOnlyAdd ==
    [][\/ torn
       \/ /\ \A c \in Channels : IsPrefix(pushed.db[c], pushed'.db[c])
          /\ KeepsVersions(pushed.json, pushed'.json)]_vars

\* Of a sequence of entries, the elements of the JSON: one for each version of
\* an x64 entry, that of the first entry of that version.
FirstsOf(all) ==
    LET x64   == {i \in DOMAIN all : NameOf(all[i].entry).x64}
        first == {i \in x64 : \A k \in x64 :
                    k < i => Version(all[k].entry) # Version(all[i].entry)}
    IN {[version |-> Version(all[i].entry), uuid |-> all[i].entry, list |-> all[i].list]
            : i \in first}

\* The two published files agree, with the lists read in the order release,
\* beta, preview; and no entry is one that the next start could not read, as
\* fragments and unknown names are.
JsonTellsTheText ==
    /\ pushed.json = FirstsOf(InTurn(pushed.db))
    /\ Readable(pushed.db)

\* An entry that convertVersion refuses is in versions.txt: every start dies.
Poisoned == ~Readable(Read(text)) \/ ~Readable(draft)

\* Every update the store puts out is published and recorded in the end,
\* whatever errors, token failures and crashes come first: no lock is held
\* for ever and no failure drops it - unless versions.txt is poisoned.
PublishedInTheEnd ==
    \A u \in Updates : \A c \in ChannelsOf[u] :
        u \in out ~> u \in conf[Source(c)] \/ Poisoned

-----------------------------------------------------------------------------
(***************************************************************************)
(* The inductive invariant behind the first four.                          *)
(***************************************************************************)
Lists == [Channels -> Seq(Entries)]

\* The database: what the process has in memory, or the next one will read.
Database == IF pc = "off" THEN Read(text) ELSE draft

TypeOK ==
    /\ out \subseteq Updates /\ IsFiniteSet(out)
    /\ changes \in 0 .. MaxChanges /\ crashes \in 0 .. MaxCrashes
    /\ conf \in [Sources -> SUBSET out] /\ known \in [Sources -> SUBSET out]
    /\ Database \in Lists /\ head.db \in Lists /\ pushed.db \in Lists
    /\ pc \in PC /\ channel \in Channels
    /\ fresh \subseteq out /\ newMoniker \in BOOLEAN
    /\ owner \in {"free", "check", "command"}
    /\ announced \subseteq out /\ torn \in BOOLEAN

\* Between its callbacks the process finds its own database in the file.
FileInv ==
    /\ pc = "off" => draft = Empty
    /\ pc \notin {"off", "boot", "write"} => Read(text) = draft

\* The file goes on from the last commit, and that from the last push.
PrefixInv ==
    torn \/ \A c \in Channels : /\ IsPrefix(pushed.db[c], head.db[c])
                                /\ IsPrefix(pushed.db[c], Database[c])
                                /\ IsPrefix(head.db[c], Database[c])

\* What is committed was written whole, both files from the same lists.
JsonInv ==
    /\ pushed.json = Json(pushed.db) /\ Readable(pushed.db)
    /\ head.json = Json(head.db) /\ Readable(head.db)
    /\ pc = "commit" => json = Json(draft) /\ Readable(draft)

\* New updates are known in memory from the start, then in the database, then
\* in a commit.
FreshInv ==
    /\ pc \in {"read", "write", "commit", "push", "notify", "tell"} =>
        fresh \subseteq known[Source(channel)]
    /\ pc \in {"write", "commit"} => \A u \in fresh : Contains(draft[channel], u)
    /\ pc = "push" => \A u \in fresh : Contains(head.db[channel], u)

InRemote(s, u) == torn \/ \E c \in Channels : Source(c) = s /\ Contains(pushed.db[c], u)
Told(u) == \E k \in announced : MonikerOf[k] = MonikerOf[u]

\* All that is known is published, but for what the callbacks are at.
New(s) == IF s = Source(channel) THEN fresh ELSE {}
PublishedInv ==
    \A s \in Sources : \A u \in known[s] :
        /\ InRemote(s, u) \/ (pc \in {"read", "write", "commit", "push"} /\ u \in New(s))
        /\ Told(u) \/ (/\ pc \in {"read", "write", "commit", "push", "notify", "tell"}
                       /\ newMoniker /\ u \in New(s))

\* An update is in a list once for every crash and, while it is known or the
\* next start will fail, once more.
Count(s, u) == Cardinality({i \in DOMAIN s : s[i] = u})
Again(c, u) ==
    IF pc \in {"off", "boot"} THEN ~Readable(Database)
    ELSE u \in known[Source(c)] /\ ~(pc = "read" /\ u \in New(Source(c)))
CountInv ==
    \A c \in Channels, u \in Updates :
        /\ Count(Database[c], u) <= 1 + crashes
        /\ Again(c, u) \/ Count(Database[c], u) <= crashes

StoreInv == /\ TypeOK /\ FileInv /\ PrefixInv /\ JsonInv /\ FreshInv
            /\ PublishedInv /\ KnownMeansPublished /\ CountInv
=============================================================================
