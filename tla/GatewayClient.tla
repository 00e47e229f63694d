---------------------------- MODULE GatewayClient ----------------------------
(***************************************************************************)
(* The WebSocket client of packages/host-agent-core/src/ws/                *)
(* gateway-client.ts as the daemon drives it: connection, hello handshake, *)
(* heartbeat, reconnect with backoff, the stop()/connect() pair that a     *)
(* token rotation triggers, and the reverse adapter calls.                 *)
(*                                                                         *)
(* One action is one macrotask of the Node event loop: a socket event, a   *)
(* timer, or a call of the public API.  A WebSocket object is an element   *)
(* of Sockets; one that is closed and that no callback mentions any more   *)
(* is reused for the next `new WebSocket`.                                 *)
(***************************************************************************)
EXTENDS Naturals

CONSTANTS
    Sockets,          \* WebSocket objects
    NoSocket,         \* the null of this.ws
    Calls,            \* adapter calls, by requestId
    BackoffInitial,   \* BACKOFF_INITIAL_MS
    BackoffMax,       \* BACKOFF_MAX_MS
    SettleMs,         \* HELLO_TIMEOUT_MS plus the closing timeout of ws
    MaxFaults,        \* bound on faults of the network and of the gateway
    MaxRestarts       \* bound on stop() calls, alone or in a token rotation

ASSUME GatewayClientAssumption ==
    /\ NoSocket \notin Sockets
    /\ BackoffInitial \in Nat \ {0}
    /\ BackoffMax \in Nat /\ BackoffInitial <= BackoffMax
    /\ SettleMs \in Nat /\ SettleMs <= BackoffMax
    /\ MaxFaults \in Nat
    /\ MaxRestarts \in Nat

VARIABLES
    sock,             \* readyState of each WebSocket; "closed" once 'close' fired
    ws,               \* this.ws
    stopped,          \* this.stopped
    backoffMs,        \* this.backoffMs
    reconnectTimer,   \* is the timeout in this.reconnectTimer pending?
    heartbeatTimer,   \* is the interval in this.heartbeatTimer running?
    strayHeartbeat,   \* is an interval running whose handle was overwritten?
    connected,        \* the flag of daemon.ts that the callbacks maintain
    greeting,         \* per socket: hello not sent, sent, or answered
    helloTimeout,     \* sockets whose 'open' started a still pending helloTimeout
    dueFirst,         \* sockets whose timeout or close comes before the reconnect
    handshake,        \* per socket: whose onOpen attached a once('message') to it
    call,             \* outcome of the promise of each adapter call
    pendingAdapterCalls,
    callTimer,        \* calls whose timeout is pending
    callSocket,       \* the socket a call went out on, while it can be answered
    answer,           \* answer of the gateway in flight on that socket
    tokenValid,       \* does getAccessToken() return, or throw?
    exited,           \* an uncaught error ended the process
    faults, restarts  \* used up part of the bounds

connVars == <<sock, ws, stopped, backoffMs, reconnectTimer>>
beatVars == <<heartbeatTimer, strayHeartbeat, connected>>
helloVars == <<greeting, helloTimeout, dueFirst, handshake>>
callVars == <<call, pendingAdapterCalls, callTimer, callSocket, answer>>
envVars == <<tokenValid, exited, faults, restarts>>
vars == <<connVars, beatVars, helloVars, callVars, envVars>>

Outcomes == {"result", "error", "timedOut", "disconnected", "notConnected"}

CountersOK ==
    /\ backoffMs \in BackoffInitial..BackoffMax
    /\ faults \in 0..MaxFaults
    /\ restarts \in 0..MaxRestarts

FlagsOK ==
    /\ stopped \in BOOLEAN
    /\ reconnectTimer \in BOOLEAN
    /\ heartbeatTimer \in BOOLEAN
    /\ strayHeartbeat \in BOOLEAN
    /\ connected \in BOOLEAN
    /\ tokenValid \in BOOLEAN
    /\ exited \in BOOLEAN

StateOK ==
    /\ sock \in [Sockets -> {"connecting", "open", "closing", "closed"}]
    /\ ws \in Sockets \cup {NoSocket}
    /\ greeting \in [Sockets -> {"none", "hello", "connected"}]
    /\ helloTimeout \subseteq Sockets
    /\ dueFirst \subseteq Sockets
    /\ handshake \in [Sockets -> SUBSET Sockets]
    /\ call \in [Calls -> {"idle", "pending"} \cup Outcomes]
    /\ pendingAdapterCalls \subseteq Calls
    /\ callTimer \subseteq Calls
    /\ callSocket \in [Calls -> Sockets \cup {NoSocket}]
    /\ answer \in [Calls -> {"none", "result", "error"}]

\* Every variable keeps its type; the counters of the model keep their bounds.
TypeOK == CountersOK /\ FlagsOK /\ StateOK

Init ==
    /\ sock = [s \in Sockets |-> "closed"]
    /\ ws = NoSocket
    /\ stopped = FALSE
    /\ backoffMs = BackoffInitial
    /\ reconnectTimer = FALSE
    /\ heartbeatTimer = FALSE
    /\ strayHeartbeat = FALSE
    /\ connected = FALSE
    /\ greeting = [s \in Sockets |-> "none"]
    /\ helloTimeout = {}
    /\ dueFirst = {}
    /\ handshake = [s \in Sockets |-> {}]
    /\ call = [c \in Calls |-> "idle"]
    /\ pendingAdapterCalls = {}
    /\ callTimer = {}
    /\ callSocket = [c \in Calls |-> NoSocket]
    /\ answer = [c \in Calls |-> "none"]
    /\ tokenValid = TRUE
    /\ exited = FALSE
    /\ faults = 0
    /\ restarts = 0

-----------------------------------------------------------------------------
(* Helpers *)

\* The socket still delivers 'message' events: ws emits them while closing.
Delivering(s) == sock[s] \in {"open", "closing"}

\* Neither closed nor finished closing: its 'close' event is still to come.
Live(s) == sock[s] # "closed"

\* this.ws.readyState === OPEN, for this.ws = s in the socket states f.
IsOpen(f, s) == s # NoSocket /\ f[s] = "open"

\* s?.close() in the socket states f: a connecting socket aborts, an open one
\* starts the closing handshake; in both cases 'close' fires later.
Closing(f, s) ==
    IF s # NoSocket /\ f[s] \in {"connecting", "open"}
    THEN [f EXCEPT ![s] = "closing"] ELSE f

\* An object that no pending callback refers to: the next `new WebSocket`.
Free(s) ==
    /\ ~Live(s)
    /\ s \notin helloTimeout
    /\ \A x \in Sockets : s \notin handshake[x]

NextBackoff_Uncapped(b) == 2 * b

NextBackoff_Constant(b) == b

\* The backoff that follows b.
NextBackoff(b) == IF 2 * b <= BackoffMax THEN 2 * b ELSE BackoffMax

\* One more fault of the environment, within the bound.
Fault == faults < MaxFaults /\ faults' = faults + 1

-----------------------------------------------------------------------------
(* connect(), stop() and the reconnect timer *)

\* doConnect() in the socket states f.  getAccessToken() throws once the token
\* has lapsed; no caller handles the rejection, so the process ends.
DoConnect(f, valid) ==
    \/ /\ valid
       /\ \E s \in Sockets :
             /\ Free(s)
             /\ ws' = s
             /\ sock' = [f EXCEPT ![s] = "connecting"]
       /\ UNCHANGED exited
    \/ /\ ~valid
       /\ exited' = TRUE
       /\ UNCHANGED <<sock, ws>>

Connect ==
    /\ ws = NoSocket
    /\ stopped' = FALSE
    /\ DoConnect(sock, tokenValid)
    /\ UNCHANGED <<backoffMs, reconnectTimer, beatVars, helloVars, callVars,
                   tokenValid, faults, restarts>>

\* clearTimers()
ClearTimers ==
    /\ heartbeatTimer' = FALSE
    /\ reconnectTimer' = FALSE
    /\ dueFirst' = {}

Stop ==
    /\ ws # NoSocket
    /\ restarts < MaxRestarts /\ restarts' = restarts + 1
    /\ stopped' = TRUE
    /\ ClearTimers
    /\ sock' = Closing(sock, ws)
    /\ ws' = NoSocket
    /\ UNCHANGED <<backoffMs, strayHeartbeat, connected, greeting, helloTimeout,
                   handshake, callVars, tokenValid, exited, faults>>

\* wsReconnect of the daemon: stop() and connect() in one macrotask, before
\* the 'close' event of the old socket.  The rotated token is usable unless
\* its lifetime is below the clock skew margin.
RotateToken ==
    /\ ws # NoSocket
    /\ restarts < MaxRestarts /\ restarts' = restarts + 1
    /\ \E valid \in BOOLEAN :
          /\ tokenValid' = valid
          /\ DoConnect(Closing(sock, ws), valid)
    /\ stopped' = FALSE
    /\ ClearTimers
    /\ UNCHANGED <<backoffMs, strayHeartbeat, connected, greeting, helloTimeout,
                   handshake, callVars, faults>>

ReconnectTimerFires_Interval ==
    /\ reconnectTimer /\ ~stopped
    /\ dueFirst = {}
    /\ DoConnect(sock, tokenValid)
    /\ backoffMs' = IF tokenValid THEN NextBackoff(backoffMs) ELSE backoffMs
    /\ UNCHANGED <<stopped, reconnectTimer, beatVars, helloVars, callVars, tokenValid,
                   faults, restarts>>

\* A backoff of at least SettleMs outlasts the hello timeouts that were pending
\* when the reconnect was scheduled, and the closes that they start.
ReconnectTimerFires ==
    /\ reconnectTimer /\ ~stopped
    /\ dueFirst = {}
    /\ reconnectTimer' = FALSE
    /\ DoConnect(sock, tokenValid)
    /\ backoffMs' = IF tokenValid THEN NextBackoff(backoffMs) ELSE backoffMs
    /\ UNCHANGED <<stopped, beatVars, helloVars, callVars, tokenValid, faults, restarts>>

\* The token reaches its expiry less the skew margin before it is rotated.
TokenLapses ==
    /\ tokenValid /\ tokenValid' = FALSE
    /\ UNCHANGED <<connVars, beatVars, helloVars, callVars, exited, faults, restarts>>

-----------------------------------------------------------------------------
(* Socket events *)

\* 'open' on o.  The handler works on this.ws, whichever socket that is by now:
\* the hello is dropped unless this.ws is open, the once('message') listener
\* is attached to this.ws (where it never fires if that socket has closed), and
\* this.ws!.once throws when it is null.
OnOpen(o) ==
    LET opened == [sock EXCEPT ![o] = "open"] IN
    /\ sock[o] = "connecting"
    /\ sock' = opened
    /\ helloTimeout' = helloTimeout \cup {o}
    /\ \/ /\ ws # NoSocket
          /\ greeting' = IF IsOpen(opened, ws) THEN [greeting EXCEPT ![ws] = "hello"]
                                                ELSE greeting
          /\ handshake' = IF Live(ws) THEN [handshake EXCEPT ![ws] = @ \cup {o}]
                                       ELSE handshake
          /\ UNCHANGED exited
       \/ /\ ws = NoSocket
          /\ exited' = TRUE
          /\ UNCHANGED <<greeting, handshake>>
    /\ UNCHANGED <<ws, stopped, backoffMs, reconnectTimer, beatVars, dueFirst, callVars,
                   tokenValid, faults, restarts>>

ClearHelloTimeouts(S) ==
    /\ helloTimeout' = helloTimeout \ S
    /\ dueFirst' = dueFirst \ S

\* {type: 'connected'} on s: every attached listener clears its own timeout
\* and starts a heartbeat interval over the handle of the previous one.
ReceiveConnected(s) ==
    LET listeners == handshake[s] IN
    /\ Delivering(s) /\ greeting[s] = "hello"
    /\ greeting' = [greeting EXCEPT ![s] = "connected"]
    /\ ClearHelloTimeouts(listeners)
    /\ handshake' = [handshake EXCEPT ![s] = {}]
    /\ \/ /\ listeners # {}
          /\ backoffMs' = BackoffInitial
          /\ heartbeatTimer' = TRUE
          /\ strayHeartbeat' = (strayHeartbeat \/ heartbeatTimer
                                  \/ \E a, b \in listeners : a # b)
          /\ connected' = TRUE
       \/ /\ listeners = {}
          /\ UNCHANGED <<backoffMs, beatVars>>
    /\ UNCHANGED <<sock, ws, stopped, reconnectTimer, callVars, envVars>>

FailHandshake_LeftOpen(s) ==
    /\ ClearHelloTimeouts(handshake[s])
    /\ handshake' = [handshake EXCEPT ![s] = {}]
    /\ UNCHANGED sock

\* What the listeners attached to s do with a frame that is not 'connected':
\* each clears its timeout and closes this.ws.
FailHandshake(s) ==
    /\ ClearHelloTimeouts(handshake[s])
    /\ handshake' = [handshake EXCEPT ![s] = {}]
    /\ sock' = IF handshake[s] = {} THEN sock ELSE Closing(sock, ws)

\* Any other frame (a call, a heartbeat ack, a malformed one) that comes first.
ReceiveUnexpected(s) ==
    /\ Delivering(s) /\ handshake[s] # {}
    /\ Fault
    /\ FailHandshake(s)
    /\ UNCHANGED <<ws, stopped, backoffMs, reconnectTimer, beatVars, greeting,
                   callVars, tokenValid, exited, restarts>>

\* The gateway got a hello and has not answered the listener that o attached.
Silent(o) ==
    \E s \in Sockets : o \in handshake[s] /\ Delivering(s) /\ greeting[s] = "hello"

\* The gateway did not answer in time, which is a fault of the environment, or
\* the timeout is a leftover: of an earlier connection, or of a hello that was
\* dropped.
HelloTimeoutFires(o) ==
    /\ o \in helloTimeout
    /\ helloTimeout' = helloTimeout \ {o}
    /\ sock' = Closing(sock, ws)
    /\ dueFirst' = (dueFirst \ {o}) \cup
                      {s \in Sockets : s = ws /\ o \in dueFirst /\ sock'[s] = "closing"}
    /\ IF Silent(o) THEN Fault ELSE UNCHANGED faults
    /\ UNCHANGED <<ws, stopped, backoffMs, reconnectTimer, beatVars, greeting,
                   handshake, callVars, tokenValid, exited, restarts>>

RejectAllPendingAdapterCalls_Skipped ==
    UNCHANGED <<call, callTimer, pendingAdapterCalls>>

RejectAllPendingAdapterCalls_OnlyCleared ==
    /\ callTimer' = callTimer \ pendingAdapterCalls
    /\ pendingAdapterCalls' = {}
    /\ UNCHANGED call

\* rejectAllPendingAdapterCalls()
RejectAllPendingAdapterCalls ==
    /\ call' = [c \in Calls |-> IF c \in pendingAdapterCalls THEN "disconnected" ELSE call[c]]
    /\ callTimer' = callTimer \ pendingAdapterCalls
    /\ pendingAdapterCalls' = {}

ScheduleReconnect_ThenCleared ==
    /\ reconnectTimer' = FALSE
    /\ dueFirst' = {}

ScheduleReconnect_Always ==
    /\ reconnectTimer' = TRUE
    /\ dueFirst' = {}

\* clearTimers() and, unless stopped, scheduleReconnect().
ScheduleReconnect ==
    /\ reconnectTimer' = ~stopped
    /\ dueFirst' = IF ~stopped /\ backoffMs >= SettleMs
                   THEN helloTimeout \cup {x \in Sockets : sock'[x] = "closing"} ELSE {}

\* clearTimers() for the heartbeat, and onDisconnected().
StopBeating ==
    /\ connected' = FALSE
    /\ heartbeatTimer' = FALSE

\* onClose().  The handler does not ask which socket closed.
OnClose(s) ==
    /\ sock' = [sock EXCEPT ![s] = "closed"]
    /\ greeting' = [greeting EXCEPT ![s] = "none"]
    /\ handshake' = [handshake EXCEPT ![s] = {}]
    /\ StopBeating
    /\ RejectAllPendingAdapterCalls
    /\ callSocket' = [c \in Calls |-> IF callSocket[c] = s THEN NoSocket ELSE callSocket[c]]
    /\ answer' = [c \in Calls |-> IF callSocket[c] = s THEN "none" ELSE answer[c]]
    /\ ScheduleReconnect
    /\ UNCHANGED <<ws, stopped, backoffMs, strayHeartbeat, helloTimeout,
                   tokenValid, exited, restarts>>

\* The closing handshake the client started is over.
CloseCompletes(s) ==
    /\ sock[s] = "closing"
    /\ OnClose(s)
    /\ UNCHANGED faults

\* The connection is refused, or an open one is lost.
ConnectionLost(s) ==
    /\ sock[s] \in {"connecting", "open"}
    /\ Fault
    /\ OnClose(s)

-----------------------------------------------------------------------------
(* Reverse adapter calls *)

\* sendAdapterCall(): rejected at once unless this.ws is open.
SendAdapterCall(c) ==
    /\ call[c] = "idle"
    /\ \/ /\ IsOpen(sock, ws)
          /\ call' = [call EXCEPT ![c] = "pending"]
          /\ pendingAdapterCalls' = pendingAdapterCalls \cup {c}
          /\ callTimer' = callTimer \cup {c}
          /\ callSocket' = [callSocket EXCEPT ![c] = ws]
       \/ /\ ~IsOpen(sock, ws)
          /\ call' = [call EXCEPT ![c] = "notConnected"]
          /\ UNCHANGED <<pendingAdapterCalls, callTimer, callSocket>>
    /\ UNCHANGED <<connVars, beatVars, helloVars, answer, envVars>>

\* The gateway answers on the connection that carried the call (external).
GatewayAnswers(c) ==
    /\ callSocket[c] # NoSocket /\ answer[c] = "none"
    /\ \E a \in {"result", "error"} : answer' = [answer EXCEPT ![c] = a]
    /\ UNCHANGED <<connVars, beatVars, helloVars, call, pendingAdapterCalls,
                   callTimer, callSocket, envVars>>

ReceiveAnswer_Unchecked(c) ==
    /\ answer[c] # "none"
    /\ call' = [call EXCEPT ![c] = answer[c]]
    /\ callTimer' = callTimer \ (pendingAdapterCalls \cap {c})
    /\ pendingAdapterCalls' = pendingAdapterCalls \ {c}
    /\ answer' = [answer EXCEPT ![c] = "none"]
    /\ callSocket' = [callSocket EXCEPT ![c] = NoSocket]
    /\ FailHandshake(callSocket[c])
    /\ UNCHANGED <<ws, stopped, backoffMs, reconnectTimer, beatVars, greeting, envVars>>

\* adapter:response and adapter:error in onMessage(): a late answer finds no
\* pending entry.  As a first frame it also fails the handshake.
ReceiveAnswer(c) ==
    /\ answer[c] # "none"
    /\ call' = IF c \in pendingAdapterCalls THEN [call EXCEPT ![c] = answer[c]] ELSE call
    /\ callTimer' = callTimer \ (pendingAdapterCalls \cap {c})
    /\ pendingAdapterCalls' = pendingAdapterCalls \ {c}
    /\ answer' = [answer EXCEPT ![c] = "none"]
    /\ callSocket' = [callSocket EXCEPT ![c] = NoSocket]
    /\ FailHandshake(callSocket[c])
    /\ UNCHANGED <<ws, stopped, backoffMs, reconnectTimer, beatVars, greeting, envVars>>

AdapterCallTimesOut_Kept(c) ==
    /\ c \in callTimer
    /\ callTimer' = callTimer \ {c}
    /\ call' = IF call[c] = "pending" THEN [call EXCEPT ![c] = "timedOut"] ELSE call
    /\ UNCHANGED <<connVars, beatVars, helloVars, pendingAdapterCalls, callSocket,
                   answer, envVars>>

\* The timeout of sendAdapterCall().
AdapterCallTimesOut(c) ==
    /\ c \in callTimer
    /\ callTimer' = callTimer \ {c}
    /\ pendingAdapterCalls' = pendingAdapterCalls \ {c}
    /\ call' = IF call[c] = "pending" THEN [call EXCEPT ![c] = "timedOut"] ELSE call
    /\ UNCHANGED <<connVars, beatVars, helloVars, callSocket, answer, envVars>>

-----------------------------------------------------------------------------

SocketEvent(s) ==
    \/ OnOpen(s) \/ ReceiveConnected(s) \/ ReceiveUnexpected(s)
    \/ HelloTimeoutFires(s) \/ CloseCompletes(s) \/ ConnectionLost(s)

CallEvent(c) ==
    \/ SendAdapterCall(c) \/ GatewayAnswers(c)
    \/ ReceiveAnswer(c) \/ AdapterCallTimesOut(c)

ClientEvent == Connect \/ Stop \/ RotateToken \/ ReconnectTimerFires \/ TokenLapses

Next ==
    /\ ~exited
    /\ \/ ClientEvent
       \/ \E s \in Sockets : SocketEvent(s)
       \/ \E c \in Calls : CallEvent(c)

Spec == Init /\ [][Next]_vars

\* Timers run out and the event loop delivers what the network hands it: the
\* client is never stuck by itself.  No fairness for faults, token rotations,
\* stop() or new calls, nor for an answer of the gateway to an adapter call.
Fairness ==
    /\ WF_vars(~exited /\ ~stopped /\ Connect)
    /\ WF_vars(~exited /\ ReconnectTimerFires)
    /\ \A s \in Sockets :
          /\ WF_vars(~exited /\ OnOpen(s))
          /\ WF_vars(~exited /\ ReceiveConnected(s))
          /\ WF_vars(~exited /\ CloseCompletes(s))
          /\ WF_vars(~exited /\ HelloTimeoutFires(s))
    /\ \A c \in Calls : WF_vars(~exited /\ AdapterCallTimesOut(c))

FairSpec == Spec /\ Fairness

-----------------------------------------------------------------------------
(* Properties *)

\* A client that was started and not stopped always has a next step: a socket
\* whose 'close' event will come, or a pending reconnect (scheduleReconnect).
NeverStranded ==
    ws # NoSocket /\ ~exited => Live(ws) \/ reconnectTimer

\* After stop() no reconnect is pending, whatever events were still queued.
StoppedNeverReconnects ==
    stopped => ~reconnectTimer

\* The pending map, the running timeouts and the unsettled promises agree: no
\* timeout outlives its call and no promise is forgotten.
CallBookkeeping ==
    /\ pendingAdapterCalls = {c \in Calls : call[c] = "pending"}
    /\ callTimer = pendingAdapterCalls

\* At-most-once on disconnect: no call stays pending after the connection that
\* carried it has closed.
PendingCallIsCarried ==
    \A c \in pendingAdapterCalls :
        callSocket[c] # NoSocket /\ Delivering(callSocket[c])

\* Until the first stop() or rotation there is one connection, that of this.ws,
\* however often it is lost, refused or fails its handshake.
SingleConnection ==
    restarts = 0 => \A s \in Sockets : Live(s) => s = ws

\* Until then, while the daemon reports itself connected, this.ws has completed
\* the handshake and exactly one heartbeat interval runs.
ConnectedMeansHeartbeat ==
    restarts = 0 /\ connected =>
        /\ ws # NoSocket
        /\ Delivering(ws) /\ greeting[ws] = "connected"
        /\ heartbeatTimer /\ ~strayHeartbeat

\* Until then a gateway that stays silent after 'open' is timed: the socket has
\* completed the handshake or its hello timeout is pending.
SilenceIsTimed ==
    restarts = 0 =>
        \A s \in Sockets :
            sock[s] = "open" => greeting[s] = "connected" \/ s \in helloTimeout

\* Both of them: until the first rotation no phase of a connection goes unwatched.
ConnectionIsWatched == ConnectedMeansHeartbeat /\ SilenceIsTimed

\* Every adapter call settles, by an answer, its timeout or a disconnect.
CallsSettle ==
    \A c \in Calls : call[c] = "pending" ~> (call[c] # "pending" \/ exited)

\* Once faults and rotations cease, the client ends up connected for good.
Recovers ==
    <>[](connected \/ stopped \/ exited)

\* The client keeps the promise of AdapterRpc through reconnects, rotations and
\* overlapping connections.
Rpc == INSTANCE AdapterRpc
         WITH carried <- {c \in Calls : callSocket[c] # NoSocket}, reply <- answer

AdapterRpcSpec == Rpc!Spec

(* What a comment of the code says, and what it does not do *)

\* rejectAllPendingAdapterCalls "on disconnect": of the connection that
\* carried the call.
RejectedByOwnDisconnect ==
    [][\A c \in Calls :
          call[c] = "pending" /\ call'[c] = "disconnected"
             => sock'[callSocket[c]] = "closed"]_vars
=============================================================================
