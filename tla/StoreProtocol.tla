--------------------------- MODULE StoreProtocol ---------------------------
(***************************************************************************)
(* How Win10StoreManager talks to Microsoft's update service through two   *)
(* Win10StoreNetwork objects, an anonymous one and one with an account:    *)
(* the requests, what becomes of an answer, and the two cookies with their *)
(* copies in priv/win10.conf.  A cookie is asked for at the first start,   *)
(* and when the service says ConfigChanged; a successful sync may bring    *)
(* the next one.                                                           *)
(*                                                                         *)
(* The service is external.  It refuses a cookie of an older configuration *)
(* with ConfigChanged, and one that has expired with another code.  XML is *)
(* abstracted to what the code looks for; the updates that an answer lists *)
(* are in Win10Store.                                                      *)
(***************************************************************************)
EXTENDS StoreCounts

CONSTANTS
    MaxChanges,     \* bound: changes of the service's configuration
    MaxCrashes      \* bound: ends of the process

ASSUME ProtocolAssumption == MaxChanges \in Nat /\ MaxCrashes \in Nat

Sources  == {"anonymous", "account"}
Channels == {"release", "preview", "beta"}
Source(c) == IF c = "beta" THEN "account" ELSE "anonymous"

VARIABLES
    \* the service, next to lastChange
    spoiled,        \* sources for which an UpdateInfo is listed that lacks something
    \* the process, and priv/win10.conf
    cookie,         \* cookieAnonymous and cookieWithAccount
    saved,          \* the same in the file
    userToken,      \* wuWithAccount has a token
    pc,             \* where the version check thread, or init before it, is
    channel,        \* the channel being checked
    request,        \* the request under way, or the last one
    \* history, next to deeper and excused
    ends

serviceVars == <<lastChange, spoiled>>
processVars == <<cookie, saved, userToken, pc, channel, request>>
historyVars == <<deeper, excused, ends>>
vars == <<serviceVars, processVars, historyVars>>

Stamps   == 1 .. MaxChanges + 1
Cookies  == [stamp : Stamps, live : BOOLEAN]    \* live: the service still takes it
NoCookie == [stamp |-> 0, live |-> FALSE]

\* The requests: what their bodies say, and the token in the header.
ConfigRequest(s)    == [action |-> "GetConfig", source |-> s,
                        token |-> userToken /\ s = "account"]
CookieRequest(s, t) == [action |-> "GetCookie", source |-> s, lastChange |-> t,
                        token |-> userToken /\ s = "account"]
SyncRequest(c)      == [action |-> "SyncUpdates", source |-> Source(c),
                        cookie |-> cookie[Source(c)],
                        app |-> IF c = "preview" THEN "MinecraftPreview" ELSE "Minecraft",
                        token |-> userToken /\ c = "beta"]
LinkRequest         == [action |-> "GetExtendedUpdateInfo2", source |-> "account", token |-> TRUE]
NoRequest           == [action |-> "none", source |-> "anonymous"]

\* What the service, or the network, makes of a request: nothing, something
\* that is not XML, a fault with or without an error code, or a result, in
\* which something may be missing; NewCookie may be absent, whole, or without
\* one of its two parts.
Answers ==
    [status : {"unreachable", "junk"}]
    \cup [status : {"fault"}, code : {"", "ConfigChanged", "Other"}]
    \cup [status : {"result"}, broken : BOOLEAN, newCookie : {"none", "whole", "half"}]

\* syncVersion, maybeThrowSOAPFault: a SOAPError has a code, every other
\* exception is just an error.
Outcome(a) ==
    IF a.status = "fault" /\ a.code # "" THEN a.code
    ELSE IF a.status = "result" /\ ~a.broken /\ a.newCookie # "half" THEN "ok"
    ELSE "error"

\* The answers a sync request can get.
Possible(r) ==
    {a \in Answers :
        /\ r.action = "SyncUpdates"
        /\ a.status = "fault" /\ a.code = "ConfigChanged" => r.cookie.stamp # lastChange
        /\ a.status = "result" => /\ r.cookie.stamp = lastChange /\ r.cookie.live
                                  /\ r.source \in spoiled => a.broken}

Phases == {"off", "init", "init config", "init cookie", "init save", "check", "sync",
           "config", "cookie", "save cookie", "links", "save", "token", "wait"}

TypeOK ==
    /\ lastChange \in Stamps /\ spoiled \subseteq Sources
    /\ cookie \in [Sources -> Cookies \cup {NoCookie}]
    /\ saved \in [Sources -> Cookies \cup {NoCookie}]
    /\ userToken \in BOOLEAN
    /\ pc \in Phases
    /\ channel \in Channels
    /\ deeper \in [Sources -> Nat] /\ excused \in [Sources -> Nat] /\ ends \in 0 .. MaxCrashes

Init ==
    /\ lastChange = 1 /\ spoiled = {}
    /\ cookie = [s \in Sources |-> NoCookie] /\ saved = [s \in Sources |-> NoCookie]
    /\ userToken = FALSE /\ pc = "off" /\ channel = "release" /\ request = NoRequest
    /\ deeper = [s \in Sources |-> 0] /\ excused = [s \in Sources |-> 0] /\ ends = 0

-----------------------------------------------------------------------------
(***************************************************************************)
(* The service.                                                            *)
(***************************************************************************)
ChangeConfig ==
    /\ lastChange <= MaxChanges
    /\ lastChange' = lastChange + 1
    /\ UNCHANGED <<spoiled, processVars, historyVars>>

Spoil(s) ==
    /\ s \notin spoiled
    /\ spoiled' = spoiled \cup {s}
    /\ UNCHANGED <<lastChange, processVars, historyVars>>

Expired(k) == [stamp |-> k.stamp, live |-> FALSE]

\* The saved cookie is not younger than the one in use.
Expire(s) ==
    /\ saved[s].live
    /\ saved' = [saved EXCEPT ![s] = Expired(@)]
    /\ cookie' \in {cookie, [cookie EXCEPT ![s] = Expired(@)]}
    /\ UNCHANGED <<serviceVars, userToken, pc, channel, request, historyVars>>

-----------------------------------------------------------------------------
(***************************************************************************)
(* The process starts and ends; init fetches the cookies that are not in   *)
(* the file.                                                               *)
(***************************************************************************)
Start ==
    /\ pc = "off"
    /\ pc' = "init"
    /\ cookie' = saved
    /\ userToken' = FALSE
    /\ UNCHANGED <<serviceVars, saved, channel, request, historyVars>>

Missing == {s \in Sources : cookie[s] = NoCookie}

InitFetches ==
    /\ pc = "init" /\ Missing # {}
    /\ request' = ConfigRequest(IF "anonymous" \in Missing THEN "anonymous" ELSE "account")
    /\ pc' = "init config"
    /\ UNCHANGED <<serviceVars, cookie, saved, userToken, channel, historyVars>>

\* startChecking.
InitDone ==
    /\ pc = "init" /\ Missing = {}
    /\ pc' = "check" /\ channel' = "release"
    /\ UNCHANGED <<serviceVars, cookie, saved, userToken, request, historyVars>>

\* checkVersion has called itself and has not saved the new cookie yet.
Deeper(s) == request.source = s /\ pc \in {"config", "cookie", "save cookie"}

\* Ends at any point.  So does an exception while a cookie is fetched - in
\* init, or in checkVersion's catch block, where no one catches it - or while
\* Discord's callback asks for the download URLs.
End ==
    /\ pc # "off"
    /\ ends < MaxCrashes
    /\ ends' = ends + 1
    /\ excused' = [s \in Sources |-> IF Deeper(s) THEN excused[s] + 1 ELSE excused[s]]
    /\ pc' = "off" /\ channel' = "release" /\ request' = NoRequest
    /\ cookie' = [s \in Sources |-> NoCookie] /\ userToken' = FALSE
    /\ UNCHANGED <<serviceVars, saved, deeper>>

-----------------------------------------------------------------------------
(***************************************************************************)
(* fetchCookie(fetchConfigLastChanged()), from init or from checkVersion.  *)
(***************************************************************************)
ConfigAnswers ==
    /\ pc \in {"init config", "config"}
    /\ request' = CookieRequest(request.source, lastChange)
    /\ pc' = IF pc = "config" THEN "cookie" ELSE "init cookie"
    /\ UNCHANGED <<serviceVars, cookie, saved, userToken, channel, historyVars>>

CookieAnswers ==
    /\ pc \in {"init cookie", "cookie"}
    /\ cookie' = [cookie EXCEPT ![request.source] = [stamp |-> request.lastChange, live |-> TRUE]]
    /\ pc' = IF pc = "cookie" THEN "save cookie" ELSE "init save"
    /\ UNCHANGED <<serviceVars, saved, userToken, channel, request, historyVars>>

\* Mutant: only the end of a successful check saves.
SaveCookieLater ==
    /\ pc \in {"init save", "save cookie"}
    /\ saved' = IF pc = "init save" THEN cookie ELSE saved
    /\ pc' = IF pc = "save cookie" THEN "check" ELSE "init"
    /\ UNCHANGED <<serviceVars, cookie, userToken, channel, request, historyVars>>

\* saveConfig; init goes on, checkVersion calls itself.
SaveCookie ==
    /\ pc \in {"init save", "save cookie"}
    /\ saved' = cookie
    /\ pc' = IF pc = "save cookie" THEN "check" ELSE "init"
    /\ UNCHANGED <<serviceVars, cookie, userToken, channel, request, historyVars>>

-----------------------------------------------------------------------------
(***************************************************************************)
(* The check of a channel.                                                 *)
(***************************************************************************)
Advance ==
    \/ channel = "release" /\ pc' = "check" /\ channel' = "preview"
    \/ channel = "preview" /\ pc' = "token" /\ channel' = "beta"
    \/ channel = "beta"    /\ pc' = "wait" /\ UNCHANGED channel

TokenRefreshed ==
    /\ pc = "token"
    /\ userToken' = TRUE
    /\ pc' = "check"
    /\ UNCHANGED <<serviceVars, cookie, saved, channel, request, historyVars>>

TokenFails ==
    /\ pc = "token"
    /\ pc' = "check" /\ channel' = "release"
    /\ UNCHANGED <<serviceVars, cookie, saved, userToken, request, historyVars>>

Ask ==
    /\ pc = "check"
    /\ request' = SyncRequest(channel)
    /\ pc' = "sync"
    /\ UNCHANGED <<serviceVars, cookie, saved, userToken, channel, historyVars>>

\* Mutant: every SOAP error is only printed.
ChangedIsAnError(a) ==
    /\ pc = "sync" /\ Outcome(a) = "ConfigChanged"
    /\ Advance
    /\ UNCHANGED <<serviceVars, cookie, saved, userToken, request, historyVars>>

SyncConfigChanged(a) ==
    /\ pc = "sync" /\ Outcome(a) = "ConfigChanged"
    /\ deeper' = [deeper EXCEPT ![request.source] = @ + 1]
    /\ request' = ConfigRequest(request.source)
    /\ pc' = "config"
    /\ UNCHANGED <<serviceVars, cookie, saved, userToken, channel, excused, ends>>

\* Any other code, and any other exception, is printed and forgotten.
SyncFails(a) ==
    /\ pc = "sync" /\ Outcome(a) \in {"Other", "error"}
    /\ Advance
    /\ UNCHANGED <<serviceVars, cookie, saved, userToken, request, historyVars>>

\* The callbacks run if there are new updates; Discord's asks for links.
SyncAnswers(a) ==
    /\ pc = "sync" /\ Outcome(a) = "ok"
    /\ cookie' = IF a.newCookie = "whole"
                 THEN [cookie EXCEPT ![request.source] = [stamp |-> lastChange, live |-> TRUE]]
                 ELSE cookie
    /\ pc' \in {"links", "save"}
    /\ UNCHANGED <<serviceVars, saved, userToken, channel, request, historyVars>>

\* getDownloadUrl: a token, and a link.
LinkAnswers ==
    /\ pc = "links"
    /\ userToken' = TRUE
    /\ request' = LinkRequest
    /\ pc' = "save"
    /\ UNCHANGED <<serviceVars, cookie, saved, channel, historyVars>>

Save ==
    /\ pc = "save"
    /\ saved' = cookie
    /\ Advance
    /\ UNCHANGED <<serviceVars, cookie, userToken, request, historyVars>>

Wake ==
    /\ pc = "wait"
    /\ pc' = "check" /\ channel' = "release"
    /\ UNCHANGED <<serviceVars, cookie, saved, userToken, request, historyVars>>

-----------------------------------------------------------------------------
Thread == Start \/ InitFetches \/ InitDone \/ ConfigAnswers \/ CookieAnswers \/ SaveCookie
          \/ TokenRefreshed \/ TokenFails \/ Ask \/ LinkAnswers \/ Save \/ Wake
          \/ \E a \in Possible(request) : SyncConfigChanged(a) \/ SyncFails(a) \/ SyncAnswers(a)

Service == ChangeConfig \/ \E s \in Sources : Spoil(s) \/ Expire(s)

Next == Thread \/ Service \/ End

Spec == Init /\ [][Next]_vars

ProperAnswer(c) ==
    channel = c /\ \E a \in Possible(request) : SyncConfigChanged(a) \/ SyncAnswers(a)

\* The thread runs and someone restarts the process; the token service and, for
\* each channel, the update service give a proper answer now and then.
Fairness ==
    /\ WF_vars(Thread) /\ SF_vars(TokenRefreshed)
    /\ \A c \in Channels : SF_vars(ProperAnswer(c))

FairSpec == Spec /\ Fairness

-----------------------------------------------------------------------------
(***************************************************************************)
(* Properties.                                                             *)
(***************************************************************************)

\* Each source is checked again and again, whatever fails in between, unless
\* the service refuses its cookie for another reason than ConfigChanged (an
\* expired cookie is never replaced, not even by a restart) or lists an
\* update that cannot be parsed (one such update hides all the others).
ChecksGoOn ==
    \A s \in Sources :
        \/ []<>(pc = "save" /\ Source(channel) = s)
        \/ <>[](~saved[s].live)
        \/ <>[](s \in spoiled)

-----------------------------------------------------------------------------
(***************************************************************************)
(* The inductive invariant behind RecursionIsPaidFor.                      *)
(***************************************************************************)
Starting == pc \in {"init", "init config", "init cookie", "init save"}

\* A source's cookies never get older than the saved one, and checks begin
\* only when all of them are saved.
CookiesOf(s) ==
    /\ saved[s].stamp <= lastChange
    /\ pc # "off" => saved[s].stamp <= cookie[s].stamp /\ cookie[s].stamp <= lastChange
    /\ pc = "init" => saved[s].stamp = cookie[s].stamp
    /\ pc = "off" \/ Starting \/ saved[s].stamp > 0
CookiesInv == \A s \in Sources : CookiesOf(s)

\* What a fetch under way, or about to begin, is for: a cookie that is not
\* there, or one older than the configuration.
RequestInv ==
    LET s == request.source IN
    /\ s \in Sources
    /\ pc = "sync" => request.action = "SyncUpdates" /\ request.cookie.stamp = cookie[s].stamp
    /\ pc \in {"init config", "init cookie"} => cookie[s].stamp = 0
    /\ pc \in {"init cookie", "cookie"} => request.lastChange \in 1 .. lastChange
    /\ pc \in {"config", "cookie"} => cookie[s].stamp < lastChange
    /\ pc = "cookie" => cookie[s].stamp < request.lastChange
    /\ pc = "save cookie" => saved[s].stamp < cookie[s].stamp

\* Each recursion ends with a younger cookie in the file or is excused.
PaidOf(s) ==
    /\ deeper[s] <= saved[s].stamp + excused[s]
    /\ saved[s].stamp = 0 \/ Deeper(s) \/ deeper[s] < saved[s].stamp + excused[s]
PaidInv == \A s \in Sources : PaidOf(s)

ProtocolInv == TypeOK /\ CookiesInv /\ RequestInv /\ PaidInv
=============================================================================
