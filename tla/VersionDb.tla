----------------------------- MODULE VersionDb -----------------------------
(***************************************************************************)
(* The Windows version database as data (Win10VersionTextDb): three lists  *)
(* of updates, the lines of versions.txt they are written to and read      *)
(* from, and the elements of versions.json.min.                            *)
(*                                                                         *)
(* A line is a heading, an empty line, or an update; Fragment is an update *)
(* line that a crash cut off inside its package name.  A package name is   *)
(* abstracted to what the code looks at: its number, whether it contains   *)
(* ".0_x64", whether convertVersion's pattern accepts it, and its place in *)
(* the order of the names as text.                                         *)
(***************************************************************************)
EXTENDS Naturals, SequencesExt

CONSTANTS
    Updates,        \* serverId, updateId and package moniker
    MonikerOf,      \* the package moniker of an update
    Fragment

Channels == {"release", "preview", "beta"}

\* The headings of versions.txt, in the order release, beta, preview.
Heading == [release |-> "Releases", beta |-> "Beta", preview |-> "Preview"]

Name == [number : Nat \X Nat \X Nat, x64 : BOOLEAN, ok : BOOLEAN, text : Nat]

Entries == Updates \cup {Fragment}

NameOf(e) == IF e = Fragment
             THEN [number |-> <<0, 0, 0>>, x64 |-> FALSE, ok |-> FALSE, text |-> 0]
             ELSE MonikerOf[e]

\* "Microsoft.MinecraftUWP_1.20.3001.0_x64__8wekyb3d8bbwe" is 1.20.30.1.
convertVersion(number) ==
    LET major == number[1]  minor == number[2]  patch == number[3] IN
    IF major # 0 THEN <<major, minor, patch \div 100, patch % 100>>
    ELSE IF minor < 1000 THEN <<major, minor \div 10, minor % 10, patch>>
    ELSE <<major, minor \div 100, minor % 100, patch>>

Version(e) == convertVersion(NameOf(e).number)

-----------------------------------------------------------------------------
\* versions.txt: each heading, its entries, an empty line.
Section(c, entries) == <<Heading[c]>> \o entries \o <<"">>

Write(db) == Section("release", db["release"])
             \o Section("beta", db["beta"])
             \o Section("preview", db["preview"])

\* Which list the lines belong to, after n of them: a heading changes it.
ListAt(lines) ==
    LET at[n \in 0 .. Len(lines)] ==
            IF n = 0 THEN "release"
            ELSE IF lines[n] = "Releases" THEN "release"
            ELSE IF lines[n] = "Beta"     THEN "beta"
            ELSE IF lines[n] = "Preview"  THEN "preview"
            ELSE at[n - 1]
    IN at

Empty == [c \in Channels |-> <<>>]

\* What has been read after n lines: an update is added to the list.
ReadUpTo(lines) ==
    LET db[n \in 0 .. Len(lines)] ==
            IF n = 0 THEN Empty
            ELSE IF lines[n] \in Entries
                 THEN [db[n - 1] EXCEPT ![ListAt(lines)[n]] = Append(@, lines[n])]
                 ELSE db[n - 1]
    IN db

Read(lines) == ReadUpTo(lines)[Len(lines)]

\* convertVersion throws for every entry, x64 or not.
Readable(db) == \A c \in Channels : \A e \in ToSet(db[c]) : NameOf(e).ok

\* Mutant: the set of added versions is one per list.
AddVersionPerList(added, c, e) ==
    IF NameOf(e).x64 /\ \A el \in added : el.version # Version(e) \/ el.list # c
    THEN added \cup {[version |-> Version(e), uuid |-> e, list |-> c]} ELSE added

\* Only the first x64 entry of a version is taken.
AddVersion(added, c, e) ==
    IF NameOf(e).x64 /\ \A el \in added : el.version # Version(e)
    THEN added \cup {[version |-> Version(e), uuid |-> e, list |-> c]} ELSE added

\* The entries in the order in which writeJson goes through the lists.
Tagged(db, c) == [i \in DOMAIN db[c] |-> [list |-> c, entry |-> db[c][i]]]
InTurn(db)    == Tagged(db, "release") \o Tagged(db, "beta") \o Tagged(db, "preview")

\* What has been added after n entries.
AddUpTo(all) ==
    LET added[n \in 0 .. Len(all)] ==
            IF n = 0 THEN {} ELSE AddVersion(added[n - 1], all[n].list, all[n].entry)
    IN added

\* versions.json.min, as the set of its elements: they are sorted by version.
Json(db) == AddUpTo(InTurn(db))[Len(InTurn(db))]
============================================================================
