---------------------------- MODULE StoreCounts ----------------------------
(***************************************************************************)
(* What StoreProtocol counts, and what the counts are for: the calls of    *)
(* checkVersion to itself against the reasons for them.  These variables   *)
(* and the property are a module of their own because two modules extend   *)
(* it: StoreProtocol, whose actions count, and Win10StoreProofs, which     *)
(* sees StoreProtocol as an instance.                                      *)
(***************************************************************************)
EXTENDS Integers

VARIABLES
    lastChange,     \* of the service's configuration, as GetConfig tells it
    deeper,         \* how often checkVersion called itself, for each source
    excused         \* ends of the process in the middle of that

\* Nothing limits the recursion of checkVersion but the service: every call of
\* itself, over all checks and starts, is paid for by a change of the
\* configuration, or by an end of the process before the new cookie was saved.
RecursionIsPaidFor == \A s \in DOMAIN deeper : deeper[s] < lastChange + excused[s]
============================================================================
