--------------------------- MODULE Announcements ---------------------------
(***************************************************************************)
(* The callbacks of a Play version check: for every variant with a new     *)
(* version, Discord and then Telegram, in the order main() registers them. *)
(* Discord is told of the arm variants only.  A callback sends one message *)
(* after the other and throws at the first that fails; the loop catches    *)
(* that and goes on with the next callback.                                *)
(***************************************************************************)
EXTENDS Naturals, SequencesExt

CONSTANTS
    Variants,           \* the variants, in the order of the loop: a sequence
    ArmVariants,        \* release/arm and beta/arm
    DiscordChannels,    \* broadcast_channels of priv/discord.conf
    TelegramTargets     \* broadcast of priv/telegram.conf

ASSUME AnnouncementsAssumption ==
    /\ IsInjective(Variants) /\ ArmVariants \subseteq ToSet(Variants)
    /\ DiscordChannels \in Seq(ToSet(DiscordChannels))
    /\ TelegramTargets \in Seq(ToSet(TelegramTargets))

VARIABLES
    round,          \* the variants that this check announces
    calls,          \* callbacks still to call, a set: <<variant, callback>>
    call,           \* the callback that runs, or the last one
    targets,        \* the messages it has still to send
    told, failed    \* in this round: <<variant, callback, target>>

callVars == <<round, calls, call, targets, told, failed>>

newVersionCallback == <<"discord", "telegram">>
NoCall == <<"", "">>

Targets(v, cb) ==
    IF cb = "telegram" THEN TelegramTargets
    ELSE IF v \in ArmVariants THEN DiscordChannels ELSE <<>>

InitCalls ==
    /\ round = {} /\ calls = {} /\ call = NoCall /\ targets = <<>>
    /\ told = {} /\ failed = {}

BeginCalls(new) ==
    /\ round' = new
    /\ calls' = new \X ToSet(newVersionCallback)
    /\ UNCHANGED <<call, targets, told, failed>>

\* The two loops: over the variants, and for each of them the callbacks.
Precedes(c, d) ==
    \E i, j \in DOMAIN Variants, k, l \in DOMAIN newVersionCallback :
        /\ c = <<Variants[i], newVersionCallback[k]>>
        /\ d = <<Variants[j], newVersionCallback[l]>>
        /\ i < j \/ (i = j /\ k <= l)

Call ==
    /\ targets = <<>>
    /\ \E c \in calls :
        /\ \A d \in calls : Precedes(c, d)
        /\ call' = c /\ calls' = calls \ {c}
        /\ targets' = Targets(c[1], c[2])
    /\ UNCHANGED <<round, told, failed>>

Tell ==
    /\ targets # <<>>
    /\ told' = told \cup {<<call[1], call[2], Head(targets)>>}
    /\ targets' = Tail(targets)
    /\ UNCHANGED <<round, calls, call, failed>>

\* Mutant: the loop over the callbacks is inside the try block.
TellFailsAll ==
    /\ targets # <<>>
    /\ failed' = failed \cup {<<call[1], call[2], Head(targets)>>}
    /\ targets' = <<>>
    /\ calls' = {c \in calls : c[1] # call[1]}
    /\ UNCHANGED <<round, call, told>>

\* createMessage or sendRequest throws.
TellFails ==
    /\ targets # <<>>
    /\ failed' = failed \cup {<<call[1], call[2], Head(targets)>>}
    /\ targets' = <<>>
    /\ UNCHANGED <<round, calls, call, told>>

CallsDone == calls = {} /\ targets = <<>>

ForgetCalls ==
    /\ round' = {} /\ calls' = {} /\ call' = NoCall /\ targets' = <<>>
    /\ told' = {} /\ failed' = {}

-----------------------------------------------------------------------------
\* The first n targets of a callback about a variant were told, or a message
\* failed before.
ToldUpTo(v, cb, n) ==
    \A i \in 1 .. n :
        \/ <<v, cb, Targets(v, cb)[i]>> \in told
        \/ \E k \in 1 .. i : <<v, cb, Targets(v, cb)[k]>> \in failed

\* When a round is over, every target of every new version was told, unless a
\* message of the same callback about the same variant failed before: a
\* failure reaches neither the other callback nor the other variants.
FailureIsContained ==
    CallsDone =>
        \A v \in round, cb \in ToSet(newVersionCallback) : ToldUpTo(v, cb, Len(Targets(v, cb)))

\* The inductive invariant behind it: a callback that was called has told all
\* of its targets, or it is the one that runs and has still to tell the rest.
CallsInv ==
    \A v \in round, cb \in ToSet(newVersionCallback) :
        LET all == Targets(v, cb) IN
        \/ <<v, cb>> \in calls
        \/ ToldUpTo(v, cb, Len(all))
        \/ /\ call = <<v, cb>>
           /\ \E n \in 0 .. Len(all) :
                ToldUpTo(v, cb, n) /\ targets = SubSeq(all, n + 1, Len(all))
=============================================================================
