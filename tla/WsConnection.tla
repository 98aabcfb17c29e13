---------------------------- MODULE WsConnection ----------------------------
(***************************************************************************)
(* One Connection of a venue stream (src/ws/connection.ts): lazy connect   *)
(* under a new-connection budget, heartbeat, staleness, bounded reconnects *)
(* and the outbound limiter, with the stream's part in it (src/ws/         *)
(* stream.ts): whether the socket has channels (`wanted`), and that a bad  *)
(* subscribe or oversized messages drop them.                              *)
(*                                                                         *)
(* JavaScript runs one callback at a time, so an action is a callback.     *)
(* Only the places where setState hands control to the user's state        *)
(* listeners before the callback is over are split: `cont` is what is      *)
(* left to do, and a listener may close or unsubscribe there (Reentrant).  *)
(* Clock readings are abstracted: `recent` and `sent` count what happened  *)
(* in the last minute, `silence` grades the most silent of the channels    *)
(* that have a staleAfterMs.  Which those are stays as it is while channels *)
(* are left: releasing some of them is not modelled.                       *)
(***************************************************************************)
EXTENDS Naturals

CONSTANTS
    Slots,        \* sockets that may exist at a time
    None,         \* no socket
    MaxAttempts,  \* reconnect.maxAttempts, when it is a number
    Unlimited,    \* reconnect.maxAttempts is null, the default
    PerMin,       \* newConnectionsPerMin
    OutPerMin,    \* outboundPerMin
    MaxQueue,     \* bound: messages waiting in sendQueue
    Reentrant,    \* do state listeners call close() / unsubscribe()?
    LateTimers    \* may a subscribe run between the end of a budget delay
                  \* and its timer (a busy event loop, a throttled tab)?

ASSUME ConnectionAssumption ==
    /\ None \notin Slots
    /\ MaxAttempts \in Nat /\ Unlimited # MaxAttempts
    /\ PerMin \in Nat \ {0}
    /\ OutPerMin \in Nat \ {0} /\ MaxQueue \in Nat
    /\ Reentrant \in BOOLEAN /\ LateTimers \in BOOLEAN

VARIABLES
    status,    \* ConnectionState.status
    ws,        \* this.ws
    opened,    \* this.opened
    attempt,   \* consecutive failed attempts; MaxAttempts + 1 stands for more
    maxAttempts, \* reconnect.maxAttempts of the stream's options
    timer,     \* reconnectTimer is set
    awaiting,  \* awaitingPongSince is set
    terminal,
    intervals, \* staleTimer and pingTimer are set
    leaked,    \* intervals still running that no field refers to
    queue,     \* length of sendQueue
    sent,      \* messages sent in the last minute (sendTimes)
    sendTimer, \* sendTimer is set
    recent,    \* connects in the last minute (connectLog)
    wanted,    \* the stream has channels on this socket
    silence,   \* the worst channel: "fresh", "late" (> staleAfterMs), "dead";
               \* "unwatched": no channel has a staleAfterMs (user data, bbo)
    sock,      \* what became of each socket
    cont       \* the rest of a callback after its setState

fields == <<status, ws, opened, attempt, timer, awaiting, terminal>>
outbound == <<queue, sent, sendTimer>>
vars == <<fields, maxAttempts, intervals, leaked, outbound, recent, wanted,
          silence, sock, cont>>

TypeOK ==
    /\ status \in {"idle", "connecting", "live", "stale", "reconnecting", "closed"}
    /\ ws \in Slots \cup {None}
    /\ attempt \in 0..(MaxAttempts + 1)
    /\ maxAttempts \in {MaxAttempts, Unlimited}
    /\ {opened, timer, awaiting, terminal, intervals, sendTimer, wanted}
         \subseteq BOOLEAN
    /\ leaked \in Nat
    /\ queue \in 0..MaxQueue /\ sent \in 0..OutPerMin /\ recent \in 0..PerMin
    /\ silence \in {"unwatched", "fresh", "late", "dead"}
    /\ sock \in [Slots -> {"gone", "connecting", "open", "closing"}]
    /\ cont \in {"none", "connect", "opened", "schedule"}

Init ==
    /\ status = "idle" /\ ws = None /\ opened = FALSE /\ attempt = 0
    /\ maxAttempts \in {MaxAttempts, Unlimited}
    /\ timer = FALSE /\ awaiting = FALSE /\ terminal = FALSE
    /\ intervals = FALSE /\ leaked = 0
    /\ queue = 0 /\ sent = 0 /\ sendTimer = FALSE
    /\ recent = 0 /\ wanted = FALSE /\ silence = "unwatched"
    /\ sock = [i \in Slots |-> "gone"]
    /\ cont = "none"

IsOpen == ws # None /\ opened

-----------------------------------------------------------------------------
(* Parts of callbacks.  A "slip" is a way the code could have been wrong; no   *)
(* action uses one, the properties are tested against them.                *)

\* Slip: The per-socket timers of a dead socket run on.
DetachKeepsTimers ==
    /\ ws' = None /\ opened' = FALSE /\ awaiting' = FALSE
    /\ queue' = 0 /\ sendTimer' = FALSE
    /\ UNCHANGED intervals

\* detach: handlers, queue and per-socket timers go; the socket lives on.
Detach ==
    /\ ws' = None /\ opened' = FALSE /\ awaiting' = FALSE
    /\ queue' = 0 /\ sendTimer' = FALSE
    /\ intervals' = FALSE

\* teardown: no reconnect is pending, and the socket is closed.
Teardown ==
    /\ timer' = FALSE
    /\ Detach
    /\ sock' = [i \in Slots |-> IF i = ws THEN "closing" ELSE sock[i]]

\* Slip: A delayed connect is dropped instead of delayed.
ConnectSkipped ==
    IF recent < PerMin
    THEN /\ recent' = recent + 1
         /\ status' = "connecting" /\ cont' = "connect"
         /\ UNCHANGED timer
    ELSE UNCHANGED <<timer, recent, status, cont>>

\* connectWithBudget, up to the setState in connect.
ConnectWithBudget ==
    IF recent < PerMin
    THEN /\ recent' = recent + 1
         /\ status' = "connecting" /\ cont' = "connect"
         /\ UNCHANGED timer
    ELSE timer' = TRUE /\ UNCHANGED <<recent, status, cont>>

\* What handleClose and fail make of a failure, from the fields as they are
\* (t, s: terminal and status by now).
HandleClose(t, s) ==
    IF t \/ s = "idle"
    THEN UNCHANGED <<attempt, terminal>> /\ status' = s /\ cont' = "none"
    ELSE /\ attempt' = IF attempt > MaxAttempts THEN attempt ELSE attempt + 1
         /\ IF maxAttempts # Unlimited /\ attempt' > maxAttempts
            THEN status' = "closed" /\ terminal' = TRUE /\ cont' = "none"
            ELSE status' = "reconnecting" /\ cont' = "schedule"
                 /\ UNCHANGED terminal

\* fail: the attempts are exhausted, and the stream drops every channel.
GivesUp == terminal' /\ ~terminal

\* send + flush of n messages on an open socket: what exceeds the limit waits.
Send(n) ==
    LET total == queue + n
        now == IF sendTimer THEN 0
               ELSE IF total < OutPerMin - sent THEN total ELSE OutPerMin - sent
    IN  /\ queue' = total - now
        /\ sent' = sent + now
        /\ sendTimer' = (sendTimer \/ total > now)

-----------------------------------------------------------------------------
(* The stream and its user *)

\* activate: channels are registered on the socket; ensureOpen.
Subscribe ==
    /\ cont = "none" /\ ~terminal
    /\ status = "idle" /\ timer => LateTimers \/ recent = PerMin
    /\ wanted' = TRUE
    /\ silence' \in IF wanted /\ silence # "unwatched" THEN {silence}
                   ELSE {"unwatched", "fresh"}
    /\ IF status = "idle" THEN ConnectWithBudget
       ELSE UNCHANGED <<recent, status, timer, cont>>
    /\ IF IsOpen /\ queue < MaxQueue THEN Send(1) ELSE UNCHANGED outbound
    /\ UNCHANGED <<ws, opened, attempt, awaiting, terminal, intervals, leaked,
                   maxAttempts, sock>>

\* Slip: closeIdle in the idle state leaves a deferred connect pending.
CloseIdleKeepsTimer ==
    IF terminal \/ status = "idle"
    THEN UNCHANGED <<timer, ws, opened, awaiting, queue, sendTimer, intervals,
                     sock, attempt, status>>
    ELSE Teardown /\ attempt' = 0 /\ status' = "idle"

\* closeIdle.
CloseIdle ==
    IF terminal
    THEN UNCHANGED <<timer, ws, opened, awaiting, queue, sendTimer, intervals,
                     sock, attempt, status>>
    ELSE IF status = "idle"
    THEN /\ timer' = FALSE
         /\ UNCHANGED <<ws, opened, awaiting, queue, sendTimer, intervals,
                        sock, attempt, status>>
    ELSE Teardown /\ attempt' = 0 /\ status' = "idle"

\* releaseWires of the last channel; from a state listener when Reentrant.
Unsubscribe ==
    /\ cont = "none" \/ Reentrant
    /\ wanted
    /\ wanted' = FALSE
    /\ CloseIdle
    /\ UNCHANGED <<terminal, leaked, maxAttempts, sent, recent, silence, cont>>

\* stream.close().
Close ==
    /\ cont = "none" \/ Reentrant
    /\ ~terminal
    /\ terminal' = TRUE /\ wanted' = FALSE
    /\ Teardown
    /\ status' = "closed"
    /\ UNCHANGED <<attempt, leaked, maxAttempts, sent, recent, silence, cont>>

-----------------------------------------------------------------------------
(* connect *)

\* The reconnect timer fires.
TimerFires ==
    /\ cont = "none" /\ timer
    /\ IF terminal
       THEN timer' = FALSE /\ UNCHANGED <<recent, status, cont>>
       ELSE IF recent < PerMin
       THEN /\ timer' = FALSE /\ recent' = recent + 1
            /\ status' = "connecting" /\ cont' = "connect"
       ELSE UNCHANGED <<timer, recent, status, cont>>
    /\ UNCHANGED <<ws, opened, attempt, awaiting, terminal, intervals, leaked,
                   maxAttempts, outbound, wanted, silence, sock>>

\* After the listeners heard "connecting": the transport is called.
CreateSocket ==
    /\ cont = "connect"
    /\ \E i \in Slots :
         /\ sock[i] = "gone"
         /\ ws' = i
         /\ sock' = [sock EXCEPT ![i] = "connecting"]
    /\ opened' = FALSE
    /\ cont' = "none"
    /\ UNCHANGED <<status, attempt, timer, awaiting, terminal, intervals,
                   leaked, maxAttempts, outbound, recent, wanted, silence>>

\* The transport throws: a definite error ends the stream, another one counts
\* as a failed attempt.
CreateThrows ==
    /\ cont = "connect"
    /\ \/ /\ ~terminal
          /\ terminal' = TRUE /\ status' = "closed" /\ cont' = "none"
          /\ Teardown
          /\ UNCHANGED attempt
       \/ /\ HandleClose(terminal, status)
          /\ opened' = FALSE
          /\ timer' = (timer /\ ~GivesUp)
          /\ UNCHANGED <<ws, awaiting, queue, sendTimer, intervals, sock>>
    /\ wanted' = (wanted /\ ~terminal')
    /\ UNCHANGED <<leaked, maxAttempts, sent, recent, silence>>

\* Slip: The failure count is reset by the open, not by the first data frame.
OpensHealthy(i) ==
    /\ cont = "none"
    /\ sock[i] = "connecting"
    /\ sock' = [sock EXCEPT ![i] = "open"]
    /\ IF ws = i
       THEN /\ opened' = TRUE /\ awaiting' = FALSE /\ attempt' = 0
            /\ status' = "live" /\ cont' = "opened"
       ELSE UNCHANGED <<opened, awaiting, attempt, status, cont>>
    /\ UNCHANGED <<ws, timer, terminal, intervals, leaked, maxAttempts,
                   outbound, recent, wanted, silence>>

\* onopen.
Opens(i) ==
    /\ cont = "none"
    /\ sock[i] = "connecting"
    /\ sock' = [sock EXCEPT ![i] = "open"]
    /\ IF ws = i
       THEN /\ opened' = TRUE /\ awaiting' = FALSE
            /\ status' = "live" /\ cont' = "opened"
       ELSE UNCHANGED <<opened, awaiting, status, cont>>
    /\ UNCHANGED <<ws, attempt, timer, terminal, intervals, leaked,
                   maxAttempts, outbound, recent, wanted, silence>>

\* After the listeners heard "live": startTimers, and the stream subscribes.
Opened ==
    /\ cont = "opened"
    /\ cont' = "none"
    /\ leaked' = IF intervals THEN leaked + 1 ELSE leaked
    /\ intervals' = TRUE
    /\ silence' = IF silence = "unwatched" THEN silence ELSE "fresh"
    /\ IF IsOpen /\ queue < MaxQueue THEN Send(1) ELSE UNCHANGED outbound
    /\ UNCHANGED <<fields, maxAttempts, recent, wanted, sock>>

\* After the listeners heard "reconnecting": scheduleConnect.
Schedule ==
    /\ cont = "schedule"
    /\ cont' = "none"
    /\ timer' = TRUE
    /\ UNCHANGED <<status, ws, opened, attempt, awaiting, terminal, intervals,
                   leaked, maxAttempts, outbound, recent, wanted, silence,
                   sock>>

-----------------------------------------------------------------------------
(* An open socket *)

\* A socket is gone.  When it is the current one (onclose), the stream may
\* drop channels (bad subscribe, oversized messages): without any left it
\* goes idle, otherwise the connection reconnects.
Gone(i) ==
    /\ cont = "none"
    /\ sock[i] # "gone"
    /\ sock' = [sock EXCEPT ![i] = "gone"]
    /\ IF ws = i
       THEN /\ Detach
            /\ \/ /\ opened
                  /\ status' = "idle" /\ timer' = FALSE /\ attempt' = 0
                  /\ wanted' = FALSE
                  /\ UNCHANGED <<terminal, cont>>
               \/ /\ HandleClose(terminal, status)
                  /\ wanted' = (wanted /\ ~terminal')
                  /\ timer' = (timer /\ ~GivesUp)
       ELSE UNCHANGED <<fields, queue, sendTimer, intervals, wanted, cont>>
    /\ UNCHANGED <<leaked, maxAttempts, sent, recent, silence>>

\* forceReconnect: the socket is dropped from this side.
ForceReconnect ==
    /\ Teardown
    /\ HandleClose(terminal, status)
    /\ wanted' = (wanted /\ ~terminal')

\* evaluate, every second, and when the tab becomes visible.
Evaluate ==
    /\ cont = "none" /\ IsOpen
    /\ \/ silence = "dead" /\ ForceReconnect
       \/ /\ \/ silence = "late" /\ status' = "stale"
             \/ silence \in {"fresh", "unwatched"}
                /\ status' = IF status = "stale" THEN "live" ELSE status
          /\ UNCHANGED <<ws, opened, attempt, timer, awaiting, terminal,
                         intervals, queue, sendTimer, wanted, sock, cont>>
    /\ UNCHANGED <<leaked, maxAttempts, sent, recent, silence>>

\* pingTick: a ping every everyMs, and the pong of the last one by then.
PingTick ==
    /\ cont = "none" /\ IsOpen
    /\ intervals \/ leaked > 0
    /\ IF awaiting
       THEN ForceReconnect /\ UNCHANGED sent
       ELSE /\ awaiting' = TRUE
            /\ IF queue < MaxQueue THEN Send(1) ELSE UNCHANGED outbound
            /\ UNCHANGED <<status, ws, opened, attempt, timer, terminal,
                           intervals, wanted, sock, cont>>
    /\ UNCHANGED <<leaked, maxAttempts, recent, silence>>

Pong ==
    /\ cont = "none" /\ IsOpen /\ awaiting
    /\ awaiting' = FALSE
    /\ UNCHANGED <<status, ws, opened, attempt, timer, terminal, intervals,
                   leaked, maxAttempts, outbound, recent, wanted, silence,
                   sock, cont>>

\* A data frame: the connection works (markHealthy); on the most silent
\* channel it ends the silence, and a market frame re-evaluates staleness.
Frame ==
    /\ cont = "none" /\ IsOpen
    /\ attempt' = 0
    /\ silence' \in IF silence = "unwatched" THEN {silence} ELSE {silence, "fresh"}
    /\ \/ UNCHANGED status
       \/ status = "stale" /\ silence' = "fresh" /\ status' = "live"
    /\ UNCHANGED <<ws, opened, timer, awaiting, terminal, intervals, leaked,
                   maxAttempts, outbound, recent, wanted, sock, cont>>

\* flush, when the oldest message left the minute's window.
SendTimerFires ==
    /\ cont = "none" /\ sendTimer /\ sent < OutPerMin
    /\ LET now == IF queue < OutPerMin - sent THEN queue ELSE OutPerMin - sent IN
         /\ queue' = queue - now
         /\ sent' = sent + now
         /\ sendTimer' = (queue > now)
    /\ UNCHANGED <<fields, intervals, leaked, maxAttempts, recent, wanted,
                   silence, sock, cont>>

-----------------------------------------------------------------------------
(* Time *)

SilenceGrows ==
    /\ IsOpen /\ silence \in {"fresh", "late"}
    /\ silence' = IF silence = "fresh" THEN "late" ELSE "dead"
    /\ UNCHANGED <<fields, intervals, leaked, maxAttempts, outbound, recent,
                   wanted, sock, cont>>

ConnectAges ==
    /\ recent > 0
    /\ recent' = recent - 1
    /\ UNCHANGED <<fields, intervals, leaked, maxAttempts, outbound, wanted,
                   silence, sock, cont>>

SendAges ==
    /\ sent > 0
    /\ sent' = sent - 1
    /\ UNCHANGED <<fields, intervals, leaked, maxAttempts, queue, sendTimer,
                   recent, wanted, silence, sock, cont>>

Next ==
    \/ Subscribe \/ Unsubscribe \/ Close
    \/ TimerFires \/ CreateSocket \/ CreateThrows \/ Opened \/ Schedule
    \/ \E i \in Slots : Opens(i) \/ Gone(i)
    \/ Evaluate \/ PingTick \/ Pong \/ Frame \/ SendTimerFires
    \/ SilenceGrows \/ ConnectAges \/ SendAges

Spec == Init /\ [][Next]_vars

\* Callbacks run to their end, timers fire, time passes, and a handshake ends.
Fairness ==
    /\ WF_vars(CreateSocket \/ CreateThrows) /\ WF_vars(Opened)
    /\ WF_vars(Schedule)
    /\ WF_vars(TimerFires) /\ WF_vars(ConnectAges)
    /\ WF_vars(SilenceGrows) /\ WF_vars(Evaluate)
    /\ \A i \in Slots : WF_vars(Opens(i) \/ Gone(i))

FairSpec == Spec /\ Fairness

-----------------------------------------------------------------------------
(* Properties *)

\* The connection is "one socket": a socket that is not the current one was
\* closed; none lives on unseen.
OneSocket == \A i \in Slots : sock[i] \in {"connecting", "open"} => ws = i

\* There is one socket, or one connect that is due, exactly while there are
\* channels to serve and the stream has not ended, whatever callbacks of earlier
\* sockets and timers come in between.
SocketsFollowChannels ==
    /\ OneSocket
    /\ cont = "none" => (ws # None \/ timer <=> wanted /\ ~terminal)

\* Timers and queued messages belong to one open socket: none survives it, no
\* interval runs twice, and messages that wait have a timer to send them.
\* Includes that the variables have their types and counters their limits.
TimersFollowSocket ==
    /\ TypeOK
    /\ leaked = 0
    /\ cont = "none" => intervals = IsOpen
    /\ queue > 0 => sendTimer /\ IsOpen

\* Channels are eventually served by an open connection, or there are none any
\* more (released by the user, or dropped when the connection gave up): neither
\* a deferred connect nor a failed handshake is forgotten.  Two things are left:
\* without a limit of the attempts the connection may reconnect for ever, and
\* when no channel has a staleAfterMs an open socket that never had data may be
\* all there is.
ServedOrEnded ==
    \/ maxAttempts = Unlimited /\ []<>(status = "reconnecting")
    \/ wanted ~> ~wanted \/ (IsOpen /\ (attempt = 0 \/ silence = "unwatched"))

\* With a limit of the attempts, a venue that accepts and then drops the socket,
\* or is found silent, exhausts them: a connection that reconnects for ever got data
\* in between again and again.
FlappingEnds ==
    maxAttempts # Unlimited /\ []<>(status = "reconnecting")
        => []<><<Frame>>_vars \/ []<>(~wanted)
=============================================================================
