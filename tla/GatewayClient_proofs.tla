------------------------- MODULE GatewayClient_proofs -------------------------
(* Proofs of the safety properties of GatewayClient, for every set of sockets *)
(* and calls and every bound.                                                 *)
EXTENDS GatewayClient, TLAPS

USE DEF vars, connVars, beatVars, helloVars, callVars, envVars

-----------------------------------------------------------------------------
(* Helpers *)

\* close() moves the one socket it is called on, and only to "closing".
LEMMA ClosingType ==
    ASSUME NEW f \in [Sockets -> {"connecting", "open", "closing", "closed"}],
           NEW s \in Sockets \cup {NoSocket}
    PROVE  /\ Closing(f, s) \in [Sockets -> {"connecting", "open", "closing", "closed"}]
           /\ \A x \in Sockets :
                 /\ Closing(f, s)[x] = f[x] \/ Closing(f, s)[x] = "closing"
                 /\ (Closing(f, s)[x] = "closed") <=> (f[x] = "closed")
                 /\ f[x] = "closing" => Closing(f, s)[x] = "closing"
                 /\ f[x] = "open" => Closing(f, s)[x] \in {"open", "closing"}
  BY GatewayClientAssumption DEF Closing

\* The next backoff stays within its bounds.
LEMMA NextBackoffType ==
    ASSUME NEW b \in BackoffInitial..BackoffMax
    PROVE  NextBackoff(b) \in BackoffInitial..BackoffMax
  BY GatewayClientAssumption DEF NextBackoff

-----------------------------------------------------------------------------
(* Type correctness *)

\* The backoff and the used up bounds stay in their ranges.
LEMMA CountersStep == CountersOK /\ [Next]_vars => CountersOK'
  <1> USE GatewayClientAssumption DEF CountersOK
  <1> SUFFICES ASSUME CountersOK, [Next]_vars PROVE CountersOK'
    OBVIOUS
  <1>1. ASSUME faults' = faults \/ Fault, restarts' = restarts,
               backoffMs' \in {backoffMs, BackoffInitial, NextBackoff(backoffMs)}
        PROVE  CountersOK'
    BY <1>1, NextBackoffType DEF Fault
  <1>2. CASE Stop \/ RotateToken
    BY <1>2 DEF Stop, RotateToken
  <1>3. CASE Connect \/ ReconnectTimerFires \/ TokenLapses
    BY <1>1, <1>3 DEF Connect, ReconnectTimerFires, TokenLapses
  <1>4. ASSUME NEW s \in Sockets, SocketEvent(s) PROVE CountersOK'
    BY <1>1, <1>4
       DEF SocketEvent, OnOpen, ReceiveConnected, ReceiveUnexpected, HelloTimeoutFires,
           CloseCompletes, ConnectionLost, OnClose
  <1>5. ASSUME NEW c \in Calls, CallEvent(c) PROVE CountersOK'
    BY <1>1, <1>5
       DEF CallEvent, SendAdapterCall, GatewayAnswers, ReceiveAnswer, AdapterCallTimesOut
  <1>6. CASE UNCHANGED vars
    BY <1>6
  <1>. QED
    BY <1>2, <1>3, <1>4, <1>5, <1>6 DEF Next, ClientEvent

\* The flags stay Boolean.
LEMMA FlagsStep == FlagsOK /\ [Next]_vars => FlagsOK'
  <1> USE DEF FlagsOK
  <1> SUFFICES ASSUME FlagsOK, [Next]_vars PROVE FlagsOK'
    OBVIOUS
  <1>1. CASE ClientEvent
    BY <1>1 DEF ClientEvent, Connect, Stop, RotateToken, ReconnectTimerFires, TokenLapses,
                DoConnect, ClearTimers
  <1>2. ASSUME NEW s \in Sockets, SocketEvent(s) PROVE FlagsOK'
    BY <1>2 DEF SocketEvent, OnOpen, ReceiveConnected, ReceiveUnexpected, HelloTimeoutFires,
                CloseCompletes, ConnectionLost, OnClose, StopBeating, ScheduleReconnect
  <1>3. ASSUME NEW c \in Calls, CallEvent(c) PROVE FlagsOK'
    BY <1>3 DEF CallEvent, SendAdapterCall, GatewayAnswers, ReceiveAnswer, AdapterCallTimesOut
  <1>4. CASE UNCHANGED vars
    BY <1>4
  <1>. QED
    BY <1>1, <1>2, <1>3, <1>4 DEF Next

\* Every step of the client keeps the sockets, the sets and the calls well typed.
LEMMA StateStep == StateOK /\ [Next]_vars => StateOK'
  <1> USE GatewayClientAssumption
  <1> SUFFICES ASSUME StateOK, [Next]_vars PROVE StateOK'
    OBVIOUS
  <1>1. CASE Connect
    BY <1>1, ClosingType DEF StateOK, Connect, DoConnect, Free, Live
  <1>2. CASE Stop
    BY <1>2, ClosingType DEF StateOK, Stop, ClearTimers
  <1>3. CASE RotateToken
    <2>1. Closing(sock, ws) \in [Sockets -> {"connecting", "open", "closing", "closed"}]
      BY ClosingType DEF StateOK
    <2>2. PICK valid \in BOOLEAN : DoConnect(Closing(sock, ws), valid)
      BY <1>3, Zenon DEF RotateToken
    <2>3. /\ sock' \in [Sockets -> {"connecting", "open", "closing", "closed"}]
          /\ ws' \in Sockets \cup {NoSocket}
      BY <2>1, <2>2 DEF StateOK, DoConnect
    <2>. QED
      BY <1>3, <2>3 DEF StateOK, RotateToken, ClearTimers
  <1>4. CASE ReconnectTimerFires
    BY <1>4 DEF StateOK, ReconnectTimerFires, DoConnect, Free, Live
  <1>5. CASE TokenLapses
    BY <1>5 DEF StateOK, TokenLapses
  <1>6. ASSUME NEW s \in Sockets, OnOpen(s) PROVE StateOK'
    <2>1. /\ sock' \in [Sockets -> {"connecting", "open", "closing", "closed"}]
          /\ greeting' \in [Sockets -> {"none", "hello", "connected"}]
      BY <1>6 DEF StateOK, OnOpen
    <2>2. /\ handshake' \in [Sockets -> SUBSET Sockets]
          /\ helloTimeout' \subseteq Sockets
      BY <1>6 DEF StateOK, OnOpen
    <2>. QED
      BY <1>6, <2>1, <2>2 DEF StateOK, OnOpen
  <1>7. ASSUME NEW s \in Sockets, ReceiveConnected(s) PROVE StateOK'
    BY <1>7 DEF StateOK, ReceiveConnected, ClearHelloTimeouts
  <1>8. ASSUME NEW s \in Sockets, ReceiveUnexpected(s) PROVE StateOK'
    BY <1>8, ClosingType DEF StateOK, ReceiveUnexpected, FailHandshake, ClearHelloTimeouts
  <1>9. ASSUME NEW s \in Sockets, HelloTimeoutFires(s) PROVE StateOK'
    BY <1>9, ClosingType DEF StateOK, HelloTimeoutFires
  <1>10. ASSUME NEW s \in Sockets, OnClose(s) PROVE StateOK'
    BY <1>10 DEF StateOK, OnClose, StopBeating, RejectAllPendingAdapterCalls,
                 ScheduleReconnect, Outcomes
  <1>11. ASSUME NEW c \in Calls, SendAdapterCall(c) PROVE StateOK'
    BY <1>11 DEF StateOK, SendAdapterCall, IsOpen, Outcomes
  <1>12. ASSUME NEW c \in Calls, GatewayAnswers(c) PROVE StateOK'
    BY <1>12 DEF StateOK, GatewayAnswers
  <1>13. ASSUME NEW c \in Calls, ReceiveAnswer(c) PROVE StateOK'
    BY <1>13, ClosingType DEF StateOK, ReceiveAnswer, FailHandshake, ClearHelloTimeouts, Outcomes
  <1>14. ASSUME NEW c \in Calls, AdapterCallTimesOut(c) PROVE StateOK'
    BY <1>14 DEF StateOK, AdapterCallTimesOut, Outcomes
  <1>15. CASE UNCHANGED vars
    BY <1>15 DEF StateOK
  <1>. QED
    BY <1>1, <1>2, <1>3, <1>4, <1>5, <1>6, <1>7, <1>8, <1>9, <1>10, <1>11, <1>12, <1>13,
       <1>14, <1>15
       DEF Next, ClientEvent, SocketEvent, CallEvent, CloseCompletes, ConnectionLost

\* The state of the client is well typed in every reachable state.
THEOREM TypeCorrect == Spec => []TypeOK
  <1>1. Init => TypeOK
    <2>1. Init => CountersOK
      BY GatewayClientAssumption DEF Init, CountersOK
    <2>2. Init => StateOK
      BY DEF Init, StateOK
    <2>3. Init => FlagsOK
      BY DEF Init, FlagsOK
    <2>. QED
      BY <2>1, <2>2, <2>3 DEF TypeOK
  <1>2. TypeOK /\ [Next]_vars => TypeOK'
    BY CountersStep, FlagsStep, StateStep DEF TypeOK
  <1>. QED
    BY <1>1, <1>2, PTL DEF Spec
-----------------------------------------------------------------------------
(* The client is never stranded, and never reconnects after stop() *)

\* stop() is the only way to lose this.ws for good, and connect() undoes it.
ReconnectInv ==
    /\ NeverStranded
    /\ StoppedNeverReconnects
    /\ stopped => ws = NoSocket

\* Only onClose() lets a socket fall to "closed", and it leaves a reconnect
\* pending unless stopped.
LEMMA ReconnectStep == StateOK /\ ReconnectInv /\ [Next]_vars => ReconnectInv'
  <1> USE GatewayClientAssumption
          DEF ReconnectInv, NeverStranded, StoppedNeverReconnects, Live
  <1> SUFFICES ASSUME StateOK, ReconnectInv, [Next]_vars PROVE ReconnectInv'
    OBVIOUS
  <1>1. CASE Connect \/ ReconnectTimerFires
    BY <1>1 DEF StateOK, Connect, ReconnectTimerFires, DoConnect
  <1>2. CASE Stop
    BY <1>2 DEF Stop, ClearTimers
  <1>3. CASE RotateToken
    BY <1>3, ClosingType DEF StateOK, RotateToken, ClearTimers, DoConnect
  <1>4. CASE TokenLapses
    BY <1>4 DEF TokenLapses
  <1>5. ASSUME NEW s \in Sockets, OnOpen(s) \/ ReceiveConnected(s) PROVE ReconnectInv'
    BY <1>5 DEF StateOK, OnOpen, ReceiveConnected
  <1>6. ASSUME NEW s \in Sockets, ReceiveUnexpected(s) \/ HelloTimeoutFires(s)
        PROVE  ReconnectInv'
    BY <1>6, ClosingType
       DEF StateOK, ReceiveUnexpected, FailHandshake, HelloTimeoutFires
  <1>7. ASSUME NEW s \in Sockets, OnClose(s) PROVE ReconnectInv'
    BY <1>7 DEF OnClose, ScheduleReconnect
  <1>8. ASSUME NEW c \in Calls, ReceiveAnswer(c) PROVE ReconnectInv'
    BY <1>8, ClosingType DEF StateOK, ReceiveAnswer, FailHandshake
  <1>9. ASSUME NEW c \in Calls,
               SendAdapterCall(c) \/ GatewayAnswers(c) \/ AdapterCallTimesOut(c)
        PROVE  ReconnectInv'
    BY <1>9 DEF SendAdapterCall, GatewayAnswers, AdapterCallTimesOut
  <1>10. CASE UNCHANGED vars
    BY <1>10
  <1>. QED
    BY <1>1, <1>2, <1>3, <1>4, <1>5, <1>6, <1>7, <1>8, <1>9, <1>10
       DEF Next, ClientEvent, SocketEvent, CallEvent, CloseCompletes, ConnectionLost

\* A client that was started and not stopped has a live socket or a pending
\* reconnect: onClose() never forgets scheduleReconnect().
THEOREM ClientNeverStranded == Spec => []NeverStranded
  <1>1. Init => ReconnectInv
    BY DEF Init, ReconnectInv, NeverStranded, StoppedNeverReconnects
  <1>2. ReconnectInv => NeverStranded
    BY DEF ReconnectInv
  <1>3. TypeOK => StateOK
    BY DEF TypeOK
  <1>. QED
    BY <1>1, <1>2, <1>3, ReconnectStep, TypeCorrect, PTL DEF Spec

\* No reconnect is pending after stop(), whatever close events were queued.
THEOREM StopIsFinal == Spec => []StoppedNeverReconnects
  <1>1. Init => ReconnectInv
    BY DEF Init, ReconnectInv, NeverStranded, StoppedNeverReconnects
  <1>2. ReconnectInv => StoppedNeverReconnects
    BY DEF ReconnectInv
  <1>3. TypeOK => StateOK
    BY DEF TypeOK
  <1>. QED
    BY <1>1, <1>2, <1>3, ReconnectStep, TypeCorrect, PTL DEF Spec

-----------------------------------------------------------------------------
(* Adapter calls: bookkeeping, and at most once per connection *)

\* The three records of a pending call agree, and whatever the gateway can
\* still answer travels on a socket that still delivers.
CallInv ==
    /\ CallBookkeeping
    /\ \A c \in pendingAdapterCalls : callSocket[c] # NoSocket
    /\ \A c \in Calls :
          /\ callSocket[c] # NoSocket => Delivering(callSocket[c])
          /\ answer[c] # "none" => callSocket[c] # NoSocket

\* While the calls stay as they are, no step but onClose() stops a socket from
\* delivering.
LEMMA CarriedStep ==
    ASSUME StateOK, CallInv, UNCHANGED callVars,
           \A s \in Sockets : Delivering(s) => Delivering(s)'
    PROVE  CallInv'
  BY DEF StateOK, CallInv, CallBookkeeping

\* Every step keeps the records of the calls consistent.
LEMMA CallStep == StateOK /\ CallInv /\ [Next]_vars => CallInv'
  <1> USE GatewayClientAssumption
  <1> SUFFICES ASSUME StateOK, CallInv, [Next]_vars PROVE CallInv'
    OBVIOUS
  <1>1. CASE Connect \/ ReconnectTimerFires
    BY <1>1, CarriedStep
       DEF StateOK, Delivering, Connect, ReconnectTimerFires, DoConnect, Free, Live
  <1>2. CASE Stop
    BY <1>2, CarriedStep, ClosingType DEF StateOK, Delivering, Stop
  <1>3. CASE RotateToken
    <2>1. PICK valid \in BOOLEAN : DoConnect(Closing(sock, ws), valid)
      BY <1>3, Zenon DEF RotateToken
    <2>2. \A s \in Sockets : Delivering(s) => Delivering(s)'
      <3>1. \A s \in Sockets :
               Delivering(s) => Closing(sock, ws)[s] \in {"open", "closing"}
        BY ClosingType DEF StateOK, Delivering
      <3>2. \/ UNCHANGED sock
            \/ \E n \in Sockets :
                  Free(n) /\ sock' = [Closing(sock, ws) EXCEPT ![n] = "connecting"]
        BY <2>1 DEF DoConnect
      <3>. QED
        BY <3>1, <3>2, ClosingType DEF StateOK, Delivering, Free, Live
    <2>. QED
      BY <1>3, <2>2, CarriedStep DEF RotateToken
  <1>4. CASE TokenLapses \/ UNCHANGED vars
    BY <1>4, CarriedStep DEF StateOK, Delivering, TokenLapses
  <1>5. ASSUME NEW s \in Sockets, OnOpen(s) \/ ReceiveConnected(s) PROVE CallInv'
    BY <1>5, CarriedStep DEF StateOK, Delivering, OnOpen, ReceiveConnected
  <1>6. ASSUME NEW s \in Sockets, ReceiveUnexpected(s) \/ HelloTimeoutFires(s)
        PROVE  CallInv'
    BY <1>6, CarriedStep, ClosingType
       DEF StateOK, Delivering, ReceiveUnexpected, FailHandshake, HelloTimeoutFires
  <1>7. ASSUME NEW s \in Sockets, OnClose(s) PROVE CallInv'
    BY <1>7
       DEF StateOK, CallInv, CallBookkeeping, Delivering, OnClose, RejectAllPendingAdapterCalls
  <1>8. ASSUME NEW c \in Calls, SendAdapterCall(c) PROVE CallInv'
    <2>1. CASE IsOpen(sock, ws)
      <3>1. /\ call' = [call EXCEPT ![c] = "pending"]
            /\ pendingAdapterCalls' = pendingAdapterCalls \cup {c}
            /\ callTimer' = callTimer \cup {c}
            /\ callSocket' = [callSocket EXCEPT ![c] = ws]
            /\ UNCHANGED <<sock, answer>>
        BY <1>8, <2>1 DEF SendAdapterCall
      <3>2. ws \in Sockets /\ Delivering(ws)
        BY <2>1 DEF StateOK, IsOpen, Delivering
      <3>3. CallBookkeeping'
        BY <3>1 DEF StateOK, CallInv, CallBookkeeping
      <3>. QED
        BY <3>1, <3>2, <3>3 DEF StateOK, CallInv, Delivering
    <2>2. CASE ~IsOpen(sock, ws)
      <3>1. /\ call[c] = "idle" /\ call' = [call EXCEPT ![c] = "notConnected"]
            /\ UNCHANGED <<sock, pendingAdapterCalls, callTimer, callSocket, answer>>
        BY <1>8, <2>2 DEF SendAdapterCall
      <3>2. CallBookkeeping'
        BY <3>1 DEF StateOK, CallInv, CallBookkeeping
      <3>. QED
        BY <3>1, <3>2 DEF CallInv, Delivering
    <2>. QED
      BY <2>1, <2>2
  <1>9. ASSUME NEW c \in Calls, GatewayAnswers(c) PROVE CallInv'
    BY <1>9 DEF StateOK, CallInv, CallBookkeeping, Delivering, GatewayAnswers
  <1>10. ASSUME NEW c \in Calls, ReceiveAnswer(c) PROVE CallInv'
    <2>1. \A s \in Sockets : Delivering(s) => Delivering(s)'
      BY <1>10, ClosingType DEF StateOK, Delivering, ReceiveAnswer, FailHandshake
    <2>. QED
      BY <1>10, <2>1 DEF StateOK, CallInv, CallBookkeeping, ReceiveAnswer
  <1>11. ASSUME NEW c \in Calls, AdapterCallTimesOut(c) PROVE CallInv'
    BY <1>11 DEF StateOK, CallInv, CallBookkeeping, Delivering, AdapterCallTimesOut
  <1>. QED
    BY <1>1, <1>2, <1>3, <1>4, <1>5, <1>6, <1>7, <1>8, <1>9, <1>10, <1>11
       DEF Next, ClientEvent, SocketEvent, CallEvent, CloseCompletes, ConnectionLost

\* The invariant of the calls holds in every reachable state.
LEMMA CallInvariant == Spec => []CallInv
  <1>1. Init => CallInv
    BY DEF Init, CallInv, CallBookkeeping
  <1>2. TypeOK => StateOK
    BY DEF TypeOK
  <1>. QED
    BY <1>1, <1>2, CallStep, TypeCorrect, PTL DEF Spec

\* No timeout outlives its call and no pending promise is forgotten.
THEOREM BookkeepingAgrees == Spec => []CallBookkeeping
  <1>1. CallInv => CallBookkeeping
    BY DEF CallInv
  <1>. QED
    BY <1>1, CallInvariant, PTL

\* No call is pending once the connection that carried it has closed.
THEOREM NoCallOutlivesItsConnection == Spec => []PendingCallIsCarried
  <1>1. StateOK /\ CallInv => PendingCallIsCarried
    BY DEF StateOK, CallInv, PendingCallIsCarried
  <1>2. TypeOK => StateOK
    BY DEF TypeOK
  <1>. QED
    BY <1>1, <1>2, CallInvariant, TypeCorrect, PTL

-----------------------------------------------------------------------------
(* Refinement: the client implements AdapterRpc *)

\* The calls that some socket carries.
Carried == {c \in Calls : callSocket[c] # NoSocket}

\* Losing any of the carried calls is a step of the abstract specification.
LEMMA DisconnectStep ==
    ASSUME NEW lost \in SUBSET Carried, Rpc!Disconnect(lost)
    PROVE  Rpc!Next
  BY DEF Rpc!Next, Carried

\* A step of the client is a step of the abstract specification or leaves the
\* calls alone.
LEMMA RpcStep == StateOK /\ CallInv /\ [Next]_vars => [Rpc!Next]_(Rpc!vars)
  <1> USE GatewayClientAssumption DEF Rpc!vars
  <1> SUFFICES ASSUME StateOK, CallInv, [Next]_vars PROVE [Rpc!Next]_(Rpc!vars)
    OBVIOUS
  <1>1. ASSUME UNCHANGED callVars PROVE UNCHANGED Rpc!vars
    BY <1>1
  <1>2. CASE ClientEvent \/ UNCHANGED vars
    BY <1>1, <1>2
       DEF ClientEvent, Connect, Stop, RotateToken, ReconnectTimerFires, TokenLapses
  <1>3. ASSUME NEW s \in Sockets,
               \/ OnOpen(s) \/ ReceiveConnected(s)
               \/ ReceiveUnexpected(s) \/ HelloTimeoutFires(s)
        PROVE  UNCHANGED Rpc!vars
    BY <1>1, <1>3 DEF OnOpen, ReceiveConnected, ReceiveUnexpected, HelloTimeoutFires
  <1>4. ASSUME NEW s \in Sockets, OnClose(s) PROVE Rpc!Next
    <2>1. PICK lost \in SUBSET Carried : lost = {c \in Calls : callSocket[c] = s}
      BY DEF Carried
    <2>2. call' = [c \in Calls |-> IF call[c] = "pending" THEN "disconnected" ELSE call[c]]
      BY <1>4 DEF StateOK, CallInv, CallBookkeeping, OnClose, RejectAllPendingAdapterCalls
    <2>3. Carried' = Carried \ lost
      BY <1>4, <2>1 DEF StateOK, Carried, OnClose
    <2>4. answer' = [c \in Calls |-> IF c \in lost THEN "none" ELSE answer[c]]
      BY <1>4, <2>1 DEF OnClose
    <2>5. Rpc!Disconnect(lost)
      BY <2>2, <2>3, <2>4 DEF Rpc!Disconnect, Carried
    <2>. QED
      BY <2>5, DisconnectStep
  <1>5. ASSUME NEW c \in Calls, SendAdapterCall(c) PROVE Rpc!Next
    <2>1. CASE IsOpen(sock, ws)
      <3>1. Carried' = Carried \cup {c}
        BY <1>5, <2>1 DEF StateOK, Carried, SendAdapterCall, IsOpen
      <3>2. Rpc!Issue(c)
        BY <1>5, <2>1, <3>1 DEF SendAdapterCall, Rpc!Issue, Carried
      <3>. QED
        BY <3>2 DEF Rpc!Next
    <2>2. CASE ~IsOpen(sock, ws)
      <3>1. Rpc!Refuse(c)
        BY <1>5, <2>2 DEF SendAdapterCall, Rpc!Refuse
      <3>. QED
        BY <3>1 DEF Rpc!Next
    <2>. QED
      BY <2>1, <2>2
  <1>6. ASSUME NEW c \in Calls, GatewayAnswers(c) PROVE Rpc!Next
    <2>1. Rpc!Answer(c)
      BY <1>6 DEF GatewayAnswers, Rpc!Answer
    <2>. QED
      BY <2>1 DEF Rpc!Next
  <1>7. ASSUME NEW c \in Calls, ReceiveAnswer(c) PROVE Rpc!Next
    <2>1. Carried' = Carried \ {c}
      BY <1>7 DEF StateOK, Carried, ReceiveAnswer
    <2>2. c \in pendingAdapterCalls <=> call[c] = "pending"
      BY DEF CallInv, CallBookkeeping
    <2>3. Rpc!Return(c)
      BY <1>7, <2>1, <2>2 DEF ReceiveAnswer, Rpc!Return, Carried
    <2>. QED
      BY <2>3 DEF Rpc!Next
  <1>8. ASSUME NEW c \in Calls, AdapterCallTimesOut(c) PROVE Rpc!Next
    <2>1. Rpc!TimeOut(c)
      BY <1>8 DEF CallInv, CallBookkeeping, AdapterCallTimesOut, Rpc!TimeOut
    <2>. QED
      BY <2>1 DEF Rpc!Next
  <1>. QED
    BY <1>2, <1>3, <1>4, <1>5, <1>6, <1>7, <1>8
       DEF Next, SocketEvent, CallEvent, CloseCompletes, ConnectionLost

\* sendAdapterCall() keeps its promise, whatever the connections do.
THEOREM ImplementsAdapterRpc == Spec => AdapterRpcSpec
  <1>1. Init => Rpc!Init
    BY DEF Init, Rpc!Init
  <1>2. TypeOK => StateOK
    BY DEF TypeOK
  <1>. QED
    BY <1>1, <1>2, RpcStep, CallInvariant, TypeCorrect, PTL DEF Spec, AdapterRpcSpec, Rpc!Spec

-----------------------------------------------------------------------------
(* One connection, as long as nothing calls stop() *)

\* A reconnect is pending only when every socket has closed.
OneConnection ==
    /\ \A s \in Sockets : Live(s) => s = ws
    /\ reconnectTimer => ws # NoSocket /\ \A s \in Sockets : ~Live(s)

SingleInv == restarts = 0 => OneConnection

\* Only stop() and a rotation count as restarts.
LEMMA RestartsCount ==
    ASSUME CountersOK, [Next]_vars, restarts' = 0
    PROVE  restarts = 0 /\ ~Stop /\ ~RotateToken
  <1>1. CASE Stop \/ RotateToken
    <2>. restarts' = restarts + 1
      BY <1>1 DEF Stop, RotateToken
    <2>. QED
      BY DEF CountersOK
  <1>2. ASSUME ~Stop, ~RotateToken PROVE restarts' = restarts
    BY <1>2 DEF Next, ClientEvent, SocketEvent, CallEvent, Connect, ReconnectTimerFires,
                TokenLapses, OnOpen, ReceiveConnected, ReceiveUnexpected,
                HelloTimeoutFires, CloseCompletes, ConnectionLost, OnClose,
                SendAdapterCall, GatewayAnswers, ReceiveAnswer, AdapterCallTimesOut
  <1>. QED
    BY <1>1, <1>2

\* A step that is no stop() and no rotation keeps the one connection: doConnect()
\* runs only when every socket has closed.
LEMMA SingleStep == TypeOK /\ SingleInv /\ [Next]_vars => SingleInv'
  <1> USE GatewayClientAssumption DEF OneConnection, Live
  <1> SUFFICES ASSUME TypeOK, OneConnection, [Next]_vars, ~Stop, ~RotateToken
               PROVE  OneConnection'
    BY RestartsCount DEF SingleInv, TypeOK
  <1>. StateOK
    BY DEF TypeOK
  <1>1. ASSUME UNCHANGED <<ws, reconnectTimer>>,
               \A s \in Sockets : Live(s)' => Live(s)
        PROVE  OneConnection'
    BY <1>1
  <1>2. CASE Connect \/ ReconnectTimerFires
    BY <1>2 DEF StateOK, Connect, ReconnectTimerFires, DoConnect
  <1>3. CASE TokenLapses \/ UNCHANGED vars
    BY <1>1, <1>3 DEF TokenLapses
  <1>4. ASSUME NEW s \in Sockets, OnOpen(s) \/ ReceiveConnected(s) PROVE OneConnection'
    BY <1>1, <1>4 DEF StateOK, OnOpen, ReceiveConnected
  <1>5. ASSUME NEW s \in Sockets, ReceiveUnexpected(s) \/ HelloTimeoutFires(s)
        PROVE  OneConnection'
    BY <1>1, <1>5, ClosingType
       DEF StateOK, ReceiveUnexpected, FailHandshake, HelloTimeoutFires
  <1>6. ASSUME NEW s \in Sockets, OnClose(s), Live(s) PROVE OneConnection'
    BY <1>6 DEF StateOK, OnClose
  <1>7. ASSUME NEW c \in Calls, ReceiveAnswer(c) PROVE OneConnection'
    BY <1>1, <1>7, ClosingType DEF StateOK, ReceiveAnswer, FailHandshake
  <1>8. ASSUME NEW c \in Calls,
               SendAdapterCall(c) \/ GatewayAnswers(c) \/ AdapterCallTimesOut(c)
        PROVE  OneConnection'
    BY <1>1, <1>8 DEF SendAdapterCall, GatewayAnswers, AdapterCallTimesOut
  <1>. QED
    BY <1>2, <1>3, <1>4, <1>5, <1>6, <1>7, <1>8
       DEF Next, ClientEvent, SocketEvent, CallEvent, CloseCompletes, ConnectionLost

\* Lost connections, refused ones and failed handshakes never lead to a second
\* connection; only a token rotation does.
THEOREM OneConnectionUntilRotation == Spec => []SingleConnection
  <1>1. Init => SingleInv
    BY DEF Init, SingleInv, OneConnection, Live
  <1>2. SingleInv => SingleConnection
    BY DEF SingleInv, OneConnection, SingleConnection
  <1>3. TypeOK /\ SingleInv /\ [Next]_vars => SingleInv'
    BY SingleStep
  <1>. QED
    BY <1>1, <1>2, <1>3, TypeCorrect, PTL DEF Spec
-----------------------------------------------------------------------------
(* The one connection is watched *)

\* What the handlers of one connection keep: only the 'open' of a socket attaches a
\* listener to it, the heartbeat runs while the daemon is connected, and whoever is
\* connected has greeted.
Watched ==
    /\ \A s \in Sockets : handshake[s] # {} => handshake[s] = {s} /\ Live(s)
    /\ \A s \in Sockets : sock[s] = "open" => greeting[s] = "connected" \/ s \in helloTimeout
    /\ connected => /\ ws # NoSocket /\ Delivering(ws) /\ greeting[ws] = "connected"
                    /\ heartbeatTimer
    /\ heartbeatTimer => connected
    /\ ~strayHeartbeat

WatchInv == restarts = 0 => Watched

\* A step that leaves heartbeat and greetings alone, and may close sockets or stop timing
\* those that it closes.
LEMMA WatchedQuietly ==
    ASSUME StateOK, OneConnection, Watched,
           UNCHANGED <<ws, beatVars, greeting>>,
           \A s \in Sockets :
              /\ Live(s) <=> Live(s)'
              /\ sock[s] = "closing" => sock'[s] = "closing"
              /\ sock[s] = "open" => sock'[s] \in {"open", "closing"}
              /\ sock'[s] = "open" => sock[s] = "open"
              /\ sock'[s] = "open" /\ s \in helloTimeout => s \in helloTimeout'
              /\ handshake'[s] = handshake[s] \/ handshake'[s] = {}
    PROVE  Watched'
  BY DEF Watched, StateOK, Delivering, Live

\* What fails a handshake closes the socket whose timeout it clears.
LEMMA FailHandshakeWatched ==
    ASSUME StateOK, OneConnection, Watched, NEW s \in Sockets, FailHandshake(s),
           UNCHANGED <<ws, beatVars, greeting>>
    PROVE  Watched'
  <1>1. \A x \in Sockets : handshake'[x] = handshake[x] \/ handshake'[x] = {}
    BY DEF FailHandshake, StateOK
  <1>2. CASE handshake[s] = {}
    <2>1. UNCHANGED sock /\ helloTimeout' = helloTimeout
      BY <1>2 DEF FailHandshake, ClearHelloTimeouts, StateOK
    <2> QED BY <1>1, <2>1, WatchedQuietly DEF Live, StateOK
  <1>3. CASE handshake[s] # {}
    <2>1. handshake[s] = {s} /\ s = ws
      BY <1>3 DEF Watched, OneConnection
    <2>2. sock' = Closing(sock, ws) /\ helloTimeout' = helloTimeout \ {s}
      BY <1>3, <2>1 DEF FailHandshake, ClearHelloTimeouts
    <2>3. sock'[s] # "open"
      BY <2>1, <2>2, GatewayClientAssumption DEF Closing, StateOK
    <2> QED BY <1>1, <2>2, <2>3, ClosingType, WatchedQuietly DEF Live, StateOK
  <1> QED BY <1>2, <1>3

\* A step that is no stop() and no rotation leaves no phase of the connection unwatched.
LEMMA WatchStep ==
    ASSUME StateOK, CallInv, OneConnection, Watched, [Next]_vars, ~Stop, ~RotateToken
    PROVE  Watched'
  <1> USE GatewayClientAssumption
  <1>1. CASE Connect \/ ReconnectTimerFires
    <2>1. \A s \in Sockets : ~Live(s)
      BY <1>1 DEF Connect, ReconnectTimerFires, OneConnection
    <2>2. ~connected /\ ~heartbeatTimer
      BY <2>1 DEF Watched, Delivering, Live, StateOK
    <2>3. \A s \in Sockets : sock'[s] # "open"
      BY <1>1, <2>1 DEF Connect, ReconnectTimerFires, DoConnect, Live, StateOK
    <2>4. \A s \in Sockets : handshake[s] = {}
      BY <2>1 DEF Watched
    <2> QED BY <1>1, <2>2, <2>3, <2>4 DEF Connect, ReconnectTimerFires, Watched
  <1>2. ASSUME NEW o \in Sockets, OnOpen(o) PROVE Watched'
    <2>1. o = ws /\ ws # NoSocket
      BY <1>2 DEF OnOpen, OneConnection, Live
    <2>2. ~connected /\ ~heartbeatTimer
      BY <1>2, <2>1 DEF OnOpen, Watched, Delivering
    <2>3. /\ sock' = [sock EXCEPT ![o] = "open"]
          /\ helloTimeout' = helloTimeout \cup {o}
          /\ greeting' = [greeting EXCEPT ![o] = "hello"]
          /\ handshake' = [handshake EXCEPT ![o] = @ \cup {o}]
          /\ UNCHANGED beatVars
      BY <1>2, <2>1 DEF OnOpen, IsOpen, Live, StateOK
    <2>4. \A s \in Sockets : handshake'[s] # {} => handshake'[s] = {s} /\ Live(s)'
      BY <2>3 DEF Watched, StateOK, Live
    <2>5. \A s \in Sockets : sock'[s] = "open" => s = o
      BY <2>1, <2>3 DEF OneConnection, Live, StateOK
    <2> QED BY <2>2, <2>3, <2>4, <2>5 DEF Watched
  <1>3. ASSUME NEW s \in Sockets, ReceiveConnected(s) PROVE Watched'
    <2>1. s = ws /\ ws # NoSocket /\ Delivering(s) /\ greeting[s] = "hello"
      BY <1>3 DEF ReceiveConnected, OneConnection, Delivering, Live
    <2>2. ~connected /\ ~heartbeatTimer
      BY <2>1 DEF Watched
    <2>3. /\ greeting' = [greeting EXCEPT ![s] = "connected"]
          /\ handshake' = [handshake EXCEPT ![s] = {}]
          /\ UNCHANGED <<sock, ws>>
      BY <1>3 DEF ReceiveConnected
    <2>4. \A x \in Sockets : sock'[x] = "open" => x = s
      BY <2>1, <2>3 DEF OneConnection, Live
    <2>5. /\ ~strayHeartbeat'
          /\ connected' => heartbeatTimer'
          /\ heartbeatTimer' => connected'
      <3>1. ~(strayHeartbeat \/ heartbeatTimer \/ \E a, b \in handshake[s] : a # b)
        BY <2>2 DEF Watched
      <3>2. CASE handshake[s] = {}
        BY <1>3, <2>2, <3>1, <3>2 DEF ReceiveConnected
      <3>3. CASE handshake[s] # {}
        <4>1. /\ connected' = TRUE /\ heartbeatTimer' = TRUE
              /\ strayHeartbeat' = (strayHeartbeat \/ heartbeatTimer
                                      \/ \E a, b \in handshake[s] : a # b)
          BY <1>3, <3>3, Zenon DEF ReceiveConnected
        <4> QED BY <3>1, <4>1
      <3> QED BY <3>2, <3>3
    <2> QED BY <2>1, <2>3, <2>4, <2>5 DEF Watched, Live, Delivering, StateOK
  <1>4. ASSUME NEW s \in Sockets, ReceiveUnexpected(s) PROVE Watched'
    BY <1>4, FailHandshakeWatched DEF ReceiveUnexpected
  <1>5. ASSUME NEW o \in Sockets, HelloTimeoutFires(o) PROVE Watched'
    <2>1. sock' = Closing(sock, ws) /\ helloTimeout' = helloTimeout \ {o}
          /\ UNCHANGED <<ws, beatVars, greeting, handshake>>
      BY <1>5 DEF HelloTimeoutFires
    <2>2. \A s \in Sockets : sock'[s] # "open"
      BY <2>1 DEF Closing, OneConnection, Live, StateOK
    <2> QED BY <2>1, <2>2, ClosingType, WatchedQuietly DEF Live, StateOK
  <1>6. ASSUME NEW s \in Sockets, OnClose(s), Live(s) PROVE Watched'
    <2>1. \A x \in Sockets : Live(x) => x = s
      BY <1>6 DEF OneConnection
    <2>2. /\ sock' = [sock EXCEPT ![s] = "closed"]
          /\ handshake' = [handshake EXCEPT ![s] = {}]
          /\ ~connected' /\ ~heartbeatTimer' /\ UNCHANGED strayHeartbeat
      BY <1>6 DEF OnClose, StopBeating
    <2> QED BY <2>1, <2>2 DEF Watched, Live, StateOK
  <1>7. ASSUME NEW c \in Calls, ReceiveAnswer(c) PROVE Watched'
    <2>1. callSocket[c] \in Sockets
      BY <1>7 DEF ReceiveAnswer, CallInv, StateOK
    <2> QED BY <1>7, <2>1, FailHandshakeWatched DEF ReceiveAnswer
  <1>8. CASE \/ TokenLapses \/ UNCHANGED vars
             \/ \E c \in Calls : SendAdapterCall(c) \/ GatewayAnswers(c) \/ AdapterCallTimesOut(c)
    BY <1>8 DEF TokenLapses, SendAdapterCall, GatewayAnswers, AdapterCallTimesOut, Watched,
                Live, Delivering
  <1> QED
    BY <1>1, <1>2, <1>3, <1>4, <1>5, <1>6, <1>7, <1>8
       DEF Next, ClientEvent, SocketEvent, CallEvent, CloseCompletes, ConnectionLost, Live

\* Until the first stop() or rotation the connection is timed from its 'open' on, and a
\* daemon that calls itself connected has greeted and beats, once.
THEOREM WatchedUntilRotation == Spec => []ConnectionIsWatched
  <1>1. Init => SingleInv /\ WatchInv
    BY DEF Init, SingleInv, OneConnection, WatchInv, Watched, Live
  <1>2. TypeOK /\ CallInv /\ SingleInv /\ WatchInv /\ [Next]_vars => WatchInv'
    <2> SUFFICES ASSUME TypeOK, CallInv, SingleInv, WatchInv, [Next]_vars, restarts' = 0
                 PROVE  Watched'
      BY DEF WatchInv
    <2>1. ~Stop /\ ~RotateToken /\ restarts = 0
      BY RestartsCount DEF TypeOK
    <2> QED BY <2>1, WatchStep DEF TypeOK, SingleInv, WatchInv
  <1>3. WatchInv => ConnectionIsWatched
    BY DEF WatchInv, Watched, ConnectionIsWatched, ConnectedMeansHeartbeat, SilenceIsTimed
  <1> QED
    BY <1>1, <1>2, <1>3, SingleStep, TypeCorrect, CallInvariant, PTL DEF Spec
=============================================================================
