------------------------------ MODULE Gateway ------------------------------
(***************************************************************************)
(* The bot's connection to Discord's gateway (discord::gateway::Connection)*)
(* and how DiscordState uses it: the reconnect and heartbeat timers, the   *)
(* handshake that starts or resumes a session, the dispatch of events, and *)
(* the session that a signal handler stores for the next start.            *)
(*                                                                         *)
(* Discord's side is external, modelled from what the code expects of it:  *)
(* it numbers the events of a session, replays them after a resume, and    *)
(* refuses to resume a session it has forgotten.  An event is identified   *)
(* by its session and number; number 1 is READY.  The event loop runs one  *)
(* handler at a time; a signal's handler runs beside it, a step at a time. *)
(***************************************************************************)
EXTENDS Integers, Sequences

CONSTANTS
    InitialDelay,   \* INITIAL_RECONNECT_DELAY
    MaxDelay,       \* MAX_RECONNECT_DELAY
    MaxSessions,    \* bound: sessions Discord opens
    MaxSeq,         \* bound: events in a session
    MaxInbox,       \* bound: unread messages when Discord adds one unasked
    MaxEnds         \* bound: ends of the process

ASSUME GatewayAssumption ==
    /\ InitialDelay \in Nat \ {0} /\ MaxDelay \in Nat /\ InitialDelay <= MaxDelay
    /\ MaxSessions \in Nat /\ MaxSeq \in Nat \ {0} /\ MaxInbox \in Nat /\ MaxEnds \in Nat

VARIABLES
    running,        \* the process is there
    link,           \* the transport below the WebSocket
    ws,             \* ws # nullptr
    reconnectTimer, \* it will fire
    pingTimer,      \* pingTimer # nullptr
    nextReconnectDelay,
    hasReceivedACK,
    sessionId,      \* 0: empty
    lastSeqReceived,
    handling,       \* the event whose handler has set lastSeqReceived
    saving,         \* where a signal's storeSessionInfo is, and what it has read
    conf,           \* priv/discord.conf, which the process has read at its start
    \* Discord
    inbox,          \* messages on their way to the bot
    online,         \* the session this connection identified or resumed
    opened,         \* sessions opened so far
    alive,          \* sessions that can be resumed
    sent,           \* events of each session so far
    \* history
    handled,        \* events given to the message callback
    cut,            \* stored events whose handler the process's end cut off
    forgotten,      \* events handled that an end did not store, or a signal will not
    ends

clientVars == <<running, link, ws, reconnectTimer, pingTimer, nextReconnectDelay,
                hasReceivedACK, sessionId, lastSeqReceived, handling, saving>>
serverVars == <<inbox, online, opened, alive, sent>>
historyVars == <<handled, cut, forgotten>>
vars == <<clientVars, conf, serverVars, historyVars, ends>>

Sessions == 1 .. MaxSessions
Seqs     == 1 .. MaxSeq
Event    == [session : Sessions, seq : Seqs]
Unknown  == -2  \* a session id that Discord never gave
Stored   == {Unknown} \cup (0 .. MaxSessions)
NoEvent  == [session |-> 0, seq |-> 0]
NotSaving == [pc |-> "no", session |-> 0, seq |-> 0]
SavePC   == {"no", "session", "seq", "written"}
Message  == [op : {"hello", "heartbeat", "ack", "invalid"}] \cup [op : {"event"}, ev : Event]

TypeOK ==
    /\ running \in BOOLEAN
    /\ link \in {"none", "connecting", "open", "closing"}
    /\ ws \in BOOLEAN /\ reconnectTimer \in BOOLEAN /\ pingTimer \in BOOLEAN
    /\ nextReconnectDelay \in InitialDelay .. MaxDelay
    /\ hasReceivedACK \in BOOLEAN
    /\ sessionId \in Stored /\ lastSeqReceived \in 0 .. MaxSeq
    /\ handling \in Event \cup {NoEvent}
    /\ saving \in [pc : SavePC, session : Stored, seq : 0 .. MaxSeq]
    /\ conf \in [session : Stored, seq : 0 .. MaxSeq, token : BOOLEAN]
    /\ inbox \in Seq(Message)
    /\ online \in 0 .. MaxSessions /\ opened \in 0 .. MaxSessions
    /\ alive \subseteq Sessions /\ sent \in [Sessions -> 0 .. MaxSeq]
    /\ handled \subseteq Event /\ cut \subseteq Event /\ forgotten \subseteq Event
    /\ ends \in 0 .. MaxEnds

Init ==
    /\ running = FALSE /\ link = "none" /\ ws = FALSE
    /\ reconnectTimer = FALSE /\ pingTimer = FALSE
    /\ nextReconnectDelay = InitialDelay /\ hasReceivedACK = TRUE
    /\ sessionId = 0 /\ lastSeqReceived = 0 /\ handling = NoEvent /\ saving = NotSaving
    /\ conf = [session |-> 0, seq |-> 0, token |-> TRUE]
    /\ inbox = <<>> /\ online = 0 /\ opened = 0 /\ alive = {}
    /\ sent = [s \in Sessions |-> 0]
    /\ handled = {} /\ cut = {} /\ forgotten = {} /\ ends = 0

\* The event loop is between two handlers.
Free == running /\ handling = NoEvent

-----------------------------------------------------------------------------
(***************************************************************************)
(* Connecting, and connecting again.                                       *)
(***************************************************************************)

\* handleDisconnect.
HandleDisconnect ==
    /\ nextReconnectDelay' = IF nextReconnectDelay * 2 < MaxDelay
                             THEN nextReconnectDelay * 2 ELSE MaxDelay
    /\ pingTimer' = FALSE
    /\ reconnectTimer' = TRUE

OnConnection ==
    /\ Free /\ link = "connecting"
    /\ link' = "open" /\ ws' = TRUE
    /\ nextReconnectDelay' = InitialDelay
    /\ hasReceivedACK' = TRUE
    /\ inbox' = <<[op |-> "hello"]>>
    /\ UNCHANGED <<running, reconnectTimer, pingTimer, sessionId, lastSeqReceived, handling,
                   saving, conf, online, opened, alive, sent, historyVars, ends>>

\* Mutant: a failed connection attempt is only logged.
OnErrorOnlyLogs ==
    /\ Free /\ link = "connecting"
    /\ link' = "none"
    /\ UNCHANGED <<running, reconnectTimer, pingTimer, nextReconnectDelay, ws, hasReceivedACK,
                   sessionId, lastSeqReceived, handling, saving, conf, serverVars,
                   historyVars, ends>>

OnError ==
    /\ Free /\ link = "connecting"
    /\ link' = "none"
    /\ HandleDisconnect
    /\ UNCHANGED <<running, ws, hasReceivedACK, sessionId, lastSeqReceived, handling, saving,
                   conf, serverVars, historyVars, ends>>

\* Either side closed, or the network did; unread messages are lost.
OnDisconnection ==
    /\ Free /\ link \in {"open", "closing"}
    /\ link' = "none" /\ ws' = FALSE
    /\ HandleDisconnect
    /\ inbox' = <<>> /\ online' = 0
    /\ UNCHANGED <<running, hasReceivedACK, sessionId, lastSeqReceived, handling, saving,
                   conf, opened, alive, sent, historyVars, ends>>

\* Mutant: at the longest delay the timer is armed again and nothing else.
ReconnectGivesUp ==
    /\ Free /\ reconnectTimer
    /\ IF nextReconnectDelay < MaxDelay THEN reconnectTimer' = FALSE /\ link' = "connecting"
       ELSE UNCHANGED <<reconnectTimer, link>>
    /\ UNCHANGED <<running, ws, pingTimer, nextReconnectDelay, hasReceivedACK, sessionId,
                   lastSeqReceived, handling, saving, conf, serverVars, historyVars, ends>>

\* The reconnect timer fires, once.
Reconnect ==
    /\ Free /\ reconnectTimer
    /\ reconnectTimer' = FALSE
    /\ link' = "connecting"
    /\ UNCHANGED <<running, ws, pingTimer, nextReconnectDelay, hasReceivedACK, sessionId,
                   lastSeqReceived, handling, saving, conf, serverVars, historyVars, ends>>

-----------------------------------------------------------------------------
(***************************************************************************)
(* The handlers of Discord's messages.                                     *)
(***************************************************************************)

Received(op) == Free /\ link = "open" /\ inbox # <<>> /\ Head(inbox).op = op

Events(s, from, to) ==
    [i \in 1 .. to - from + 1 |-> [op |-> "event", ev |-> [session |-> s, seq |-> from + i - 1]]]

\* sendIdentifyRequest, and Discord's answer: READY of a new session, or
\* nothing (and a close) without the token.
SendIdentify(rest) ==
    IF conf.token /\ opened < MaxSessions
    THEN /\ opened' = opened + 1 /\ online' = opened + 1
         /\ alive' = alive \cup {opened + 1}
         /\ sent' = [sent EXCEPT ![opened + 1] = 1]
         /\ inbox' = rest \o Events(opened + 1, 1, 1)
    ELSE inbox' = rest /\ UNCHANGED <<online, opened, alive, sent>>

\* Resume, and Discord's answer: the events missed, or a refusal.
SendResume(rest) ==
    /\ \/ /\ conf.token /\ sessionId \in alive /\ lastSeqReceived <= sent[sessionId]
          /\ online' = sessionId
          /\ inbox' = rest \o Events(sessionId, lastSeqReceived + 1, sent[sessionId])
       \/ /\ conf.token /\ ~(sessionId \in alive /\ lastSeqReceived <= sent[sessionId])
          /\ inbox' = Append(rest, [op |-> "invalid"]) /\ UNCHANGED online
       \/ ~conf.token /\ inbox' = rest /\ UNCHANGED online
    /\ UNCHANGED <<opened, alive, sent>>

HandleHello ==
    /\ Received("hello")
    /\ pingTimer' = TRUE
    /\ IF sessionId # 0 THEN SendResume(Tail(inbox)) ELSE SendIdentify(Tail(inbox))
    /\ UNCHANGED <<running, link, ws, reconnectTimer, nextReconnectDelay, hasReceivedACK,
                   sessionId, lastSeqReceived, handling, saving, conf, historyVars, ends>>

HandleInvalidSession ==
    /\ Received("invalid")
    /\ SendIdentify(Tail(inbox))
    /\ UNCHANGED <<clientVars, conf, historyVars, ends>>

\* sendHeartbeat; Discord acknowledges it, or does not.
SendHeartbeat(rest) ==
    /\ hasReceivedACK' = FALSE
    /\ inbox' \in {rest, Append(rest, [op |-> "ack"])}

HandleHeartbeat ==
    /\ Received("heartbeat")
    /\ SendHeartbeat(Tail(inbox))
    /\ UNCHANGED <<running, link, ws, reconnectTimer, pingTimer, nextReconnectDelay, sessionId,
                   lastSeqReceived, handling, saving, conf, online, opened, alive, sent,
                   historyVars, ends>>

HandleHeartbeatACK ==
    /\ Received("ack")
    /\ hasReceivedACK' = TRUE
    /\ inbox' = Tail(inbox)
    /\ UNCHANGED <<running, link, ws, reconnectTimer, pingTimer, nextReconnectDelay, sessionId,
                   lastSeqReceived, handling, saving, conf, online, opened, alive, sent,
                   historyVars, ends>>

\* Mutant: without an acknowledgement nothing is done.
PingTickPatient ==
    /\ Free /\ pingTimer /\ hasReceivedACK
    /\ IF link = "open" THEN SendHeartbeat(inbox)
       ELSE hasReceivedACK' = FALSE /\ UNCHANGED inbox
    /\ UNCHANGED <<running, link, ws, reconnectTimer, pingTimer, nextReconnectDelay, sessionId,
                   lastSeqReceived, handling, saving, conf, online, opened, alive, sent,
                   historyVars, ends>>

\* The heartbeat timer: no acknowledgement since the last one closes the
\* socket, otherwise the next one is sent (to no avail on a closing socket).
PingTick ==
    /\ Free /\ pingTimer
    /\ IF hasReceivedACK
       THEN /\ IF link = "open" THEN SendHeartbeat(inbox)
               ELSE hasReceivedACK' = FALSE /\ UNCHANGED inbox
            /\ UNCHANGED link
       ELSE link' = "closing" /\ UNCHANGED <<hasReceivedACK, inbox>>
    /\ UNCHANGED <<running, ws, reconnectTimer, pingTimer, nextReconnectDelay, sessionId,
                   lastSeqReceived, handling, saving, conf, online, opened, alive, sent,
                   historyVars, ends>>

\* Mutant: the number never goes down, not even in a new session.
DispatchSeqHighest ==
    /\ Received("event")
    /\ lastSeqReceived' = IF Head(inbox).ev.seq > lastSeqReceived THEN Head(inbox).ev.seq
                          ELSE lastSeqReceived
    /\ handling' = Head(inbox).ev
    /\ inbox' = Tail(inbox)
    /\ UNCHANGED <<running, link, ws, reconnectTimer, pingTimer, nextReconnectDelay,
                   hasReceivedACK, sessionId, saving, conf, online, opened, alive, sent,
                   historyVars, ends>>

\* handleDispatchPayload, first half: the number is taken over on its own.
DispatchSeq ==
    /\ Received("event")
    /\ lastSeqReceived' = Head(inbox).ev.seq
    /\ handling' = Head(inbox).ev
    /\ inbox' = Tail(inbox)
    /\ UNCHANGED <<running, link, ws, reconnectTimer, pingTimer, nextReconnectDelay,
                   hasReceivedACK, sessionId, saving, conf, online, opened, alive, sent,
                   historyVars, ends>>

\* Second half for READY.
DispatchReady ==
    /\ running /\ handling # NoEvent /\ handling.seq = 1
    /\ sessionId' = handling.session
    /\ handling' = NoEvent
    /\ UNCHANGED <<running, link, ws, reconnectTimer, pingTimer, nextReconnectDelay,
                   hasReceivedACK, lastSeqReceived, saving, conf, serverVars, historyVars, ends>>

\* Mutant: an error in the handler is swallowed.
DispatchMessageOrDrop ==
    /\ running /\ handling # NoEvent /\ handling.seq > 1
    /\ handled' \in {handled, handled \cup {handling}}
    /\ handling' = NoEvent /\ UNCHANGED forgotten

\* Events that a resume from the pair c replays.
After(events, c) == {e \in events : e.session = c.session /\ e.seq > c.seq}

\* A signal's handler has read the number that it is going to store.
NumberRead == saving.pc \in {"seq", "written"}

\* Second half for a message: DiscordState::onMessage.  An event that comes
\* after the number was read will not be stored as handled.
DispatchMessage ==
    /\ running /\ handling # NoEvent /\ handling.seq > 1
    /\ handled' = handled \cup {handling}
    /\ forgotten' = IF NumberRead THEN forgotten \cup After({handling}, saving) ELSE forgotten
    /\ handling' = NoEvent

OnMessage ==
    /\ DispatchMessage
    /\ UNCHANGED <<running, link, ws, reconnectTimer, pingTimer, nextReconnectDelay,
                   hasReceivedACK, sessionId, lastSeqReceived, saving, conf, serverVars,
                   cut, ends>>

\* !kill: disconnect() closes the socket, and the reconnect timer follows.
KillCommand ==
    /\ DispatchMessage
    /\ link \in {"open", "closing"}
    /\ link' = "closing"
    /\ UNCHANGED <<running, ws, reconnectTimer, pingTimer, nextReconnectDelay,
                   hasReceivedACK, sessionId, lastSeqReceived, saving, conf, serverVars,
                   cut, ends>>

-----------------------------------------------------------------------------
(***************************************************************************)
(* Discord of its own accord.                                              *)
(***************************************************************************)
SendEvent ==
    /\ link = "open" /\ online # 0
    /\ sent[online] < MaxSeq /\ Len(inbox) < MaxInbox
    /\ sent' = [sent EXCEPT ![online] = @ + 1]
    /\ inbox' = inbox \o Events(online, sent[online] + 1, sent[online] + 1)
    /\ UNCHANGED <<clientVars, conf, online, opened, alive, historyVars, ends>>

AskHeartbeat ==
    /\ link = "open" /\ Len(inbox) < MaxInbox
    /\ inbox' = Append(inbox, [op |-> "heartbeat"])
    /\ UNCHANGED <<clientVars, conf, online, opened, alive, sent, historyVars, ends>>

\* A session without a connection runs out.
Expire(s) ==
    /\ s \in alive /\ s # online
    /\ alive' = alive \ {s}
    /\ UNCHANGED <<clientVars, conf, inbox, online, opened, sent, historyVars, ends>>

-----------------------------------------------------------------------------
(***************************************************************************)
(* The process starts and ends.                                            *)
(***************************************************************************)

\* Mutant: the stored number is not read back.
StartFromZero ==
    /\ ~running
    /\ running' = TRUE
    /\ sessionId' = conf.session /\ lastSeqReceived' = 0
    /\ nextReconnectDelay' = InitialDelay /\ hasReceivedACK' = TRUE
    /\ link' = "connecting"
    /\ UNCHANGED <<ws, reconnectTimer, pingTimer, handling, saving, conf, serverVars,
                   historyVars, ends>>

\* DiscordState's constructor.
Start ==
    /\ ~running
    /\ running' = TRUE
    /\ sessionId' = conf.session /\ lastSeqReceived' = conf.seq
    /\ nextReconnectDelay' = InitialDelay /\ hasReceivedACK' = TRUE
    /\ link' = "connecting"
    /\ UNCHANGED <<ws, reconnectTimer, pingTimer, handling, saving, conf, serverVars,
                   historyVars, ends>>

EndProcess ==
    /\ ends < MaxEnds
    /\ ends' = ends + 1
    /\ running' = FALSE /\ link' = "none" /\ ws' = FALSE
    /\ reconnectTimer' = FALSE /\ pingTimer' = FALSE
    /\ handling' = NoEvent /\ saving' = NotSaving
    /\ inbox' = <<>> /\ online' = 0
    /\ UNCHANGED <<nextReconnectDelay, hasReceivedACK, sessionId, lastSeqReceived,
                   opened, alive, sent>>

\* What is in the file when its write, which empties it first, ends half-way:
\* each value is missing or there, the last one maybe without its last
\* characters; the first digits of a number are never a larger one.
Torn ==
    [session : {0, saving.session}, seq : 0 .. saving.seq, token : {FALSE, conf.token}]
    \cup [session : {Unknown}, seq : {0, saving.seq}, token : {FALSE, conf.token}]

\* The process ends without an exit, before, in or after the write.
Killed ==
    /\ EndProcess
    /\ conf' \in {conf} \cup IF saving.pc = "seq" THEN Torn ELSE {}

\* The event in the middle of its handler, if its number is stored.
CutOff == {e \in {handling} \ {NoEvent} : e.session = conf'.session /\ e.seq <= conf'.seq}

\* A crash; an exception that leaves a handler is one.
Crash ==
    /\ running
    /\ Killed
    /\ cut' = cut \cup CutOff
    /\ forgotten' = forgotten \cup After(handled, conf')
    /\ UNCHANGED handled

\* !restartbot and !cleargplay: execv, with nothing stored.
RestartCommand ==
    /\ running /\ handling # NoEvent /\ handling.seq > 1
    /\ Killed
    /\ handled' = handled \cup {handling}
    /\ forgotten' = forgotten \cup After(handled', conf')
    /\ UNCHANGED cut

\* SIGINT or SIGTERM on any thread: storeSessionInfo goes through the steps
\* below, the event loop through its own in between.  getSession returns a
\* reference: a READY may write the id while it is copied.
SignalReadsSession ==
    /\ running /\ saving.pc = "no" /\ ends < MaxEnds
    /\ \E id \in IF handling # NoEvent /\ handling.seq = 1 THEN {sessionId, Unknown}
                                                          ELSE {sessionId} :
            saving' = [pc |-> "session", session |-> id, seq |-> 0]
    /\ UNCHANGED <<running, link, ws, reconnectTimer, pingTimer, nextReconnectDelay,
                   hasReceivedACK, sessionId, lastSeqReceived, handling, conf, serverVars,
                   historyVars, ends>>

SignalReadsSeq ==
    /\ running /\ saving.pc = "session"
    /\ saving' = [saving EXCEPT !.pc = "seq", !.seq = lastSeqReceived]
    /\ UNCHANGED <<running, link, ws, reconnectTimer, pingTimer, nextReconnectDelay,
                   hasReceivedACK, sessionId, lastSeqReceived, handling, conf, serverVars,
                   historyVars, ends>>

\* The ofstream has emptied and filled the file.
SignalWrites ==
    /\ running /\ saving.pc = "seq"
    /\ saving' = [saving EXCEPT !.pc = "written"]
    /\ conf' = [conf EXCEPT !.session = saving.session, !.seq = saving.seq]
    /\ UNCHANGED <<running, link, ws, reconnectTimer, pingTimer, nextReconnectDelay,
                   hasReceivedACK, sessionId, lastSeqReceived, handling, serverVars,
                   historyVars, ends>>

\* exit(0), in the middle of a handler maybe.
SignalExits ==
    /\ running /\ saving.pc = "written"
    /\ EndProcess
    /\ UNCHANGED <<conf, handled, forgotten>>
    /\ cut' = cut \cup CutOff

-----------------------------------------------------------------------------
Handlers == HandleHello \/ HandleInvalidSession \/ HandleHeartbeat \/ HandleHeartbeatACK
            \/ DispatchSeq \/ DispatchReady \/ OnMessage \/ KillCommand

Transport == OnConnection \/ OnError \/ OnDisconnection \/ Reconnect

Discord == SendEvent \/ AskHeartbeat \/ \E s \in Sessions : Expire(s)

Process == Start \/ Crash \/ RestartCommand
           \/ SignalReadsSession \/ SignalReadsSeq \/ SignalWrites \/ SignalExits

Next == Handlers \/ PingTick \/ Transport \/ Discord \/ Process

Spec == Init /\ [][Next]_vars

\* The event loop and its timers run, a closing socket is reported, the
\* gateway accepts a connection now and then.  (A signal that interrupts the
\* event loop's own thread stops it only until the process exits.)
Fairness ==
    /\ WF_vars(Handlers) /\ WF_vars(PingTick)
    /\ WF_vars(Reconnect \/ (OnDisconnection /\ link = "closing"))
    /\ SF_vars(OnConnection)

FairSpec == Spec /\ Fairness

-----------------------------------------------------------------------------
(***************************************************************************)
(* Properties.                                                             *)
(***************************************************************************)

\* The bot is never stranded and never connected twice: it has one transport,
\* connecting or connected, or else a reconnect timer.
OneWayForward ==
    /\ running => (reconnectTimer <=> link = "none")
    /\ ~running => link = "none" /\ ~reconnectTimer

\* handleDisconnect, the two timers and the handlers together keep the bot on
\* one way forward, and the heartbeat timer, which uses ws without a check,
\* exists only while ws is the socket of an open connection.
ConnectionInv ==
    /\ OneWayForward
    /\ ws <=> link \in {"open", "closing"}
    /\ pingTimer => ws

\* No message is skipped: those of a session are handled in order, but for the
\* ones that an end of the process cut off after their number was stored.
NoMessageSkipped ==
    \A e \in handled : \A n \in 2 .. e.seq :
        [session |-> e.session, seq |-> n] \in handled \cup cut

\* The stored pair is safe to resume from, although its halves are read apart
\* and its write may end half-way: if Discord still resumes that session, every
\* message up to the stored number was handled, or cut off, or is in its
\* handler.
StoredPairIsSafe ==
    conf.session \in alive =>
        \A n \in 2 .. conf.seq :
            [session |-> conf.session, seq |-> n] \in handled \cup cut \cup {handling}

\* A message handled a second time - a command carried out twice - was handled
\* before an end of the process that did not store its number (a crash, a
\* restart command, an end in the middle of the write), or while the signal's
\* handler that stored the session had read an earlier number already.
ReplayHasACause ==
    [][\A e \in handled : handling = e /\ (OnMessage \/ KillCommand \/ RestartCommand)
        => e \in forgotten]_vars

\* A bot without a connection gets one, whatever failed before.
Reconnects == running /\ link = "none" ~> link = "open" \/ ~running

\* A connection whose heartbeats are not acknowledged any more is given up.
ZombieIsDropped == link = "open" /\ ~hasReceivedACK ~> hasReceivedACK \/ link # "open"

-----------------------------------------------------------------------------
(***************************************************************************)
(* The inductive invariant behind NoMessageSkipped, StoredPairIsSafe and   *)
(* ReplayHasACause.                                                        *)
(***************************************************************************)

\* How far the connection's session was received.
Position ==
    IF sessionId = online \/ handling.session = online THEN lastSeqReceived ELSE 0

\* Messages 2 to n of session s were given to the callback or cut off.
Covered(s, n) == \A k \in 2 .. n : [session |-> s, seq |-> k] \in handled \cup cut \cup {handling}

IsEvent(m)   == m.op = "event"
IsOpening(m) == m.op \in {"hello", "invalid"}
Messages(q)  == {q[i] : i \in DOMAIN q}

OneOpening(q) == \A i, k \in DOMAIN q : IsOpening(q[i]) /\ IsOpening(q[k]) => i = k

\* The events of q are those of session s with numbers a to b, in order.
EventsAre(q, s, a, b) ==
    /\ \A i \in DOMAIN q : IsEvent(q[i]) => q[i].ev.session = s /\ q[i].ev.seq \in a .. b
    /\ \A i, k \in DOMAIN q :
            IsEvent(q[i]) /\ IsEvent(q[k]) /\ i < k => q[i].ev.seq < q[k].ev.seq
    /\ \A n \in a .. b : \E i \in DOMAIN q : IsEvent(q[i]) /\ q[i].ev.seq = n

\* Discord numbers the sessions it opens and keeps the connection's one; the
\* bot knows opened sessions only.
SessionsInv ==
    /\ alive \subseteq 1 .. opened /\ online \in {0} \cup alive
    /\ online # 0 => link \in {"open", "closing"}
    /\ sessionId <= opened /\ conf.session <= opened /\ saving.session <= opened
    /\ \A e \in handled : e.session <= opened

\* The events on their way are those after Position; there are none before a
\* session was identified or resumed, and a refusal is true.
InboxOf(q) ==
    /\ OneOpening(q)
    /\ \A m \in Messages(q) :
            /\ IsOpening(m) => online = 0
            /\ IsEvent(m) => online # 0
            /\ m.op = "invalid" => sessionId \notin alive
    /\ online # 0 => Position <= sent[online] /\ EventsAre(q, online, Position + 1, sent[online])
InboxInv == InboxOf(inbox)

\* What is handled is the connection's, and a session that the bot does not
\* know yet has no handled events.
HandlingInv ==
    /\ handling # NoEvent =>
            /\ online # 0 /\ handling.session = online /\ handling.seq = lastSeqReceived
            /\ handling.seq > 1 => sessionId = online
    /\ online # 0 /\ sessionId # online => \A e \in handled : e.session # online

\* The bot's session, if it can still be resumed, is the connection's, its
\* number is one that was sent, and nothing before it was skipped.
ReceivedInv ==
    sessionId \in alive =>
        /\ online \in {0, sessionId}
        /\ lastSeqReceived <= sent[sessionId] /\ Covered(sessionId, lastSeqReceived)
        /\ \A e \in handled :
                e.session = sessionId /\ (e.seq > lastSeqReceived \/ e = handling)
                    => e \in forgotten

\* An id that a signal's handler has read is this session's or cannot be
\* resumed; the number it has read was received, and what was handled since is
\* known to be replayed.
SavingInv ==
    saving.session \in alive =>
        /\ saving.session = sessionId
        /\ NumberRead => saving.seq <= lastSeqReceived /\ After(handled, saving) \subseteq forgotten

StoredInv ==
    /\ saving.pc = "written" => conf.session = saving.session /\ conf.seq = saving.seq
    /\ conf.session \in alive =>
        /\ conf.seq <= sent[conf.session]
        /\ ~running => After(handled, conf) \subseteq forgotten

\* Between two processes there is nothing on its way and nothing handled.
DownInv == ~running => online = 0 /\ inbox = <<>> /\ handling = NoEvent /\ saving = NotSaving

GatewayInv ==
    /\ TypeOK /\ ConnectionInv /\ SessionsInv /\ InboxInv /\ StoredInv
    /\ NoMessageSkipped /\ StoredPairIsSafe
    /\ running => HandlingInv /\ ReceivedInv /\ SavingInv
    /\ DownInv
=============================================================================
