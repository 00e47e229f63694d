----------------------------- MODULE Daemon_proofs ----------------------------
(***************************************************************************)
(* Proofs about TokenManager and about Daemon, which extends it, for every *)
(* choice of their durations and lifetimes.                                *)
(***************************************************************************)
EXTENDS Daemon, TLAPS

USE DEF vars, tokenVars, timerVars, flightVars, offerVars

-----------------------------------------------------------------------------
(* The manager by itself *)

\* The gateway answers no lifetime of zero; one beyond MaxExpiresIn it may.
LifetimesPositive == 0 \notin Lifetimes

-----------------------------------------------------------------------------
(* The rotation is never forgotten *)

\* Every step of a manager that has a token keeps one refresh ahead: the timer
\* or the request.
LEMMA RotationStep == NeverAbandoned /\ [Next]_vars => NeverAbandoned'
  <1> USE DEF NeverAbandoned
  <1> SUFFICES ASSUME NeverAbandoned, [Next]_vars PROVE NeverAbandoned'
    OBVIOUS
  <1>1. CASE Start
    BY <1>1 DEF Start, Send
  <1>2. CASE FetchReturns
    BY <1>2 DEF FetchReturns, ScheduleRefresh, SetTimer, Answered
  <1>3. CASE FetchFails
    BY <1>3 DEF FetchFails
  <1>4. CASE Stop
    BY <1>4 DEF Stop
  <1>5. CASE RefreshStarts
    BY <1>5 DEF RefreshStarts, Send
  <1>6. ASSUME RefreshFailure, UNCHANGED token, flight = "refresh" PROVE NeverAbandoned'
    BY <1>6 DEF RefreshFailure, SetTimer, Answered
  <1>7. CASE RefreshReturns
    <2>1. CASE ScheduleRefresh(offer) /\ Answered
      BY <2>1 DEF ScheduleRefresh, SetTimer, Answered
    <2>2. CASE RefreshFailure
      BY <1>6, <1>7, <2>2 DEF RefreshReturns
    <2>. QED
      BY <1>7, <2>1, <2>2 DEF RefreshReturns
  <1>8. CASE RefreshFails
    BY <1>6, <1>8 DEF RefreshFails
  <1>9. CASE GatewayIssues \/ Tick \/ UNCHANGED vars
    BY <1>9 DEF GatewayIssues, Tick, Elapse
  <1>. QED
    BY <1>1, <1>2, <1>3, <1>4, <1>5, <1>7, <1>8, <1>9 DEF Next

\* A manager that has a token waits for its timer or for one answer, and for one
\* only, until it gives up or is stopped.
THEOREM RotationNeverAbandoned == Spec => []NeverAbandoned
  <1>1. Init => NeverAbandoned
    BY DEF Init, NeverAbandoned
  <1>. QED
    BY <1>1, RotationStep, PTL DEF Spec

-----------------------------------------------------------------------------
(* The token handed out is accepted *)

\* A token is offered only for a request under way, and no request is under way
\* while the timer is pending.
FlightInv ==
    /\ flight = "none" => ~answered
    /\ timer \/ flight = "refresh" => token
    /\ timer => flight = "none"

\* Answers end the request before the timer is set again.
LEMMA FlightStep == FlightInv /\ [Next]_vars => FlightInv'
  <1> USE DEF FlightInv
  <1> SUFFICES ASSUME FlightInv, [Next]_vars PROVE FlightInv'
    OBVIOUS
  <1>1. ASSUME Answered, timer' => token' PROVE FlightInv'
    BY <1>1 DEF Answered
  <1>2. CASE Start \/ RefreshStarts
    BY <1>2 DEF Start, RefreshStarts, Send
  <1>3. CASE FetchReturns \/ FetchFails
    BY <1>1, <1>3 DEF FetchReturns, FetchFails
  <1>4. CASE RefreshReturns \/ RefreshFails
    <2>1. flight = "refresh" /\ Answered /\ UNCHANGED token
      BY <1>4 DEF RefreshReturns, RefreshFails, RefreshFailure
    <2>2. token
      BY <2>1
    <2>. QED
      BY <1>1, <2>1, <2>2
  <1>5. CASE Stop \/ GatewayIssues \/ Tick \/ UNCHANGED vars
    BY <1>5 DEF Stop, GatewayIssues, Tick, Elapse
  <1>. QED
    BY <1>2, <1>3, <1>4, <1>5 DEF Next

\* The client sees a token expire only as late after the gateway as its answer took,
\* because the lifetime of a token starts while its answer is on the way; and a refused
\* lifetime, which leaves the old expiry beside the new token, is longer than any other.
LifeInv ==
    /\ expiry \in Nat /\ serverLife \in Nat /\ waited \in Nat /\ age \in Nat
    /\ offer \in Nat /\ offerLife \in Nat
    /\ answered => offer \in Lifetimes /\ offer <= offerLife + age
    /\ expiry <= serverLife + waited /\ expiry <= MaxExpiresIn
    /\ flight # "none" => expiry = 0 \/ expiry + age <= MaxExpiresIn

\* The steps that leave the token, or replace it by the one that was offered.
LEMMA LifeStep ==
    ASSUME LifetimesPositive
    PROVE  FlightInv /\ LifeInv /\ [Next]_vars => LifeInv'
  <1> USE TokenManagerAssumption DEF LifeInv
  <1> SUFFICES ASSUME FlightInv, LifeInv, [Next]_vars PROVE LifeInv'
    OBVIOUS
  <1>1. ASSUME Answered, UNCHANGED tokenVars PROVE LifeInv'
    BY <1>1 DEF Answered
  <1>2. ASSUME Answered, answered, flight # "none", serverLife' = offerLife,
               \/ expiry' = offer /\ waited' = age /\ ValidLifetime(offer)
               \/ UNCHANGED <<expiry, waited>> /\ ~ValidLifetime(offer)
        PROVE  LifeInv'
    <2>1. offer # 0 /\ offer <= offerLife + age
      BY <1>2 DEF LifetimesPositive
    <2>2. CASE expiry' = offer /\ waited' = age /\ ValidLifetime(offer)
      BY <1>2, <2>1, <2>2 DEF Answered, ValidLifetime
    <2>3. CASE UNCHANGED <<expiry, waited>> /\ ~ValidLifetime(offer)
      <3>1. offer > MaxExpiresIn
        BY <2>1, <2>3 DEF ValidLifetime
      <3>2. expiry <= offerLife
        BY <1>2, <2>1, <3>1
      <3> QED BY <1>2, <2>3, <3>2 DEF Answered
    <2> QED BY <1>2, <2>2, <2>3
  <1>3. CASE Start
    BY <1>3 DEF FlightInv, Start, Send
  <1>4. CASE FetchReturns
    BY <1>2, <1>4 DEF FetchReturns
  <1>5. CASE FetchFails
    BY <1>1, <1>5 DEF FetchFails
  <1>6. CASE Stop
    BY <1>6 DEF Stop
  <1>7. CASE RefreshStarts
    BY <1>7 DEF FlightInv, RefreshStarts, Send
  <1>8. CASE RefreshReturns
    BY <1>2, <1>8 DEF RefreshReturns, RefreshFailure
  <1>9. CASE RefreshFails
    BY <1>1, <1>9 DEF RefreshFails, RefreshFailure
  <1>10. CASE GatewayIssues
    <2>1. /\ offer' \in Lifetimes /\ offerLife' = offer' /\ flight' = flight
          /\ UNCHANGED <<expiry, serverLife, waited, age>>
      BY <1>10 DEF GatewayIssues
    <2>2. offer' \in Nat /\ age \in Nat
      BY <2>1
    <2>3. offer' <= offer' + age
      <3>1. \A m, n \in Nat : m <= m + n
        OBVIOUS
      <3>. QED
        BY <2>2, <3>1, Zenon
    <2>. QED
      BY <2>1, <2>2, <2>3
  <1>11. CASE Tick
    <2>1. /\ Less1(expiry) \in Nat /\ Less1(serverLife) \in Nat /\ Less1(offerLife) \in Nat
          /\ Less1(expiry) <= Less1(serverLife) + waited
          /\ Less1(expiry) <= MaxExpiresIn
          /\ Less1(expiry) = 0 \/ Less1(expiry) + 1 = expiry
          /\ offerLife <= Less1(offerLife) + 1
      BY DEF Less1
    <2>2. CASE flight = "none"
      <3>1. ~answered'
        BY <1>11, <2>2 DEF Tick, Elapse, FlightInv
      <3>. QED
        BY <1>11, <2>1, <2>2, <3>1 DEF Tick, Elapse
    <2>3. CASE flight # "none"
      <3>1. age' = age + 1
        BY <1>11, <2>3 DEF Tick, Elapse
      <3>. QED
        BY <1>11, <2>1, <2>3, <3>1 DEF Tick, Elapse
    <2>. QED
      BY <2>2, <2>3
  <1>12. CASE UNCHANGED vars
    BY <1>12
  <1>. QED
    BY <1>3, <1>4, <1>5, <1>6, <1>7, <1>8, <1>9, <1>10, <1>11, <1>12 DEF Next

\* Whatever the gateway's answers take, the getter hands out only tokens that the gateway
\* accepts, but for one whose own answer took longer than the clock skew margin: also
\* after rotations that failed, and after a lifetime that was refused.
THEOREM HandedOutTokenIsAccepted ==
    ASSUME LifetimesPositive
    PROVE  Spec => []UsableTokenIsAccepted
  <1>1. Init => LifeInv
    BY TokenManagerAssumption DEF Init, LifeInv
  <1>2. LifeInv => UsableTokenIsAccepted
    BY TokenManagerAssumption DEF LifeInv, UsableTokenIsAccepted, Usable
  <1>3. FlightInv /\ LifeInv /\ [Next]_vars => LifeInv'
    BY LifeStep
  <1>4. Init => FlightInv
    BY DEF Init, FlightInv
  <1>. QED
    BY <1>1, <1>2, <1>3, <1>4, FlightStep, PTL DEF Spec

-----------------------------------------------------------------------------
(* The rotation, in a process that starts, blocks and dies *)

USE DEF dvars, linkVars, processVars, configVars, socketVars

\* The token manager of a running process takes a step of its own, or time passes over it.
LEMMA WorkIsManagersOrElapse ==
    ASSUME Working
    PROVE  Next \/ Elapse \/ UNCHANGED vars
  <1>1. CASE TokenAcquired \/ TokenRefused
    BY <1>1 DEF Working, Alive, TokenAcquired, TokenRefused, Next
  <1>2. CASE RemoveSocket \/ Bind \/ LinkLost \/ TokenNeeded
    BY <1>2 DEF RemoveSocket, Bind, LinkLost, TokenNeeded
  <1>3. CASE Refresh \/ RefreshFailsOrStarts \/ GatewayAnswers
    BY <1>3 DEF Working, Alive, Refresh, RefreshFailsOrStarts, GatewayAnswers, Next
  <1>4. CASE Shutdown \/ Passes \/ Blocks
    BY <1>4 DEF Working, Alive, Shutdown, Passes, Blocks, Next
  <1> QED BY <1>1, <1>2, <1>3, <1>4 DEF Working

LEMMA DaemonRotationStep == NeverAbandoned /\ [DaemonNext]_dvars => NeverAbandoned'
  <1> SUFFICES ASSUME NeverAbandoned, [DaemonNext]_dvars PROVE NeverAbandoned'
    OBVIOUS
  <1>1. CASE Elapse
    BY <1>1 DEF Elapse, NeverAbandoned
  <1>2. CASE UNCHANGED vars
    BY <1>2, RotationStep
  <1>3. CASE StartDaemon
    BY <1>2, <1>3 DEF StartDaemon, Start, Send, NeverAbandoned
  <1>4. CASE Working
    BY <1>1, <1>2, <1>4, WorkIsManagersOrElapse, RotationStep
  <1>5. CASE Exit \/ Killed
    BY <1>5 DEF Exit, Killed, Ends, Forgotten, NeverAbandoned
  <1>6. CASE Registering \/ Intruding
    BY <1>2, <1>6 DEF Registering, Register, RegisterFails, OpenConfig, WriteConfig,
                      RegisterKilled, Intruding, OtherListens, OtherEnds
  <1> QED BY <1>2, <1>3, <1>4, <1>5, <1>6 DEF DaemonNext

\* In every life of the daemon a manager that has a token waits for its timer or for one
\* answer, and for one only, until it gives up or is stopped: also across commands that
\* block the event loop, crashes and restarts.
THEOREM RotationSurvives == DaemonSpec => []NeverAbandoned
  <1>1. DaemonInit => NeverAbandoned
    BY DEF DaemonInit, Init, NeverAbandoned
  <1> QED BY <1>1, DaemonRotationStep, PTL DEF DaemonSpec

-----------------------------------------------------------------------------
(* Why a start fails *)

\* A registration that completed is in the file, unless a later one took it out.
ConfigInv == registered = "secure" /\ ~torn /\ cli # "writing" => config = "secure"

\* Between unlink() and bind() only a second daemon puts a file there.
SocketInv ==
    /\ other /\ phase # "down" => intruded
    /\ phase = "binding" /\ socketFile # "absent" => intruded

StartInv == ConfigInv /\ SocketInv

LEMMA StartInit == DaemonInit => StartInv
  BY DEF DaemonInit, StartInv, ConfigInv, SocketInv

LEMMA StartStep == StartInv /\ [DaemonNext]_dvars => StartInv'
  <1> USE DEF StartInv, ConfigInv, SocketInv
  <1> SUFFICES ASSUME StartInv, [DaemonNext]_dvars PROVE StartInv'
    OBVIOUS
  <1>1. CASE StartDaemon
    BY <1>1 DEF StartDaemon
  <1>2. CASE TokenAcquired \/ TokenRefused
    BY <1>2 DEF TokenAcquired, TokenRefused
  <1>3. CASE RemoveSocket \/ Bind
    BY <1>3 DEF RemoveSocket, Bind, Unlink
  <1>4. CASE Refresh \/ RefreshFailsOrStarts \/ GatewayAnswers
    BY <1>4 DEF Refresh, RefreshFailsOrStarts, GatewayAnswers
  <1>5. CASE LinkLost \/ TokenNeeded \/ Shutdown \/ Passes \/ Blocks
    BY <1>5 DEF LinkLost, TokenNeeded, Shutdown, Passes, Blocks
  <1>6. CASE Exit \/ Killed
    BY <1>6 DEF Exit, Killed, Ends
  <1>7. CASE Registering
    BY <1>7 DEF Registering, Register, RegisterFails, OpenConfig, WriteConfig, RegisterKilled
  <1>8. CASE OtherListens
    <2>1. phase' = phase /\ (phase # "down" => intruded') /\ ConfigInv'
      BY <1>8 DEF OtherListens
    <2> QED BY <2>1
  <1>9. CASE OtherEnds
    <2>1. phase' = phase /\ ~other' /\ (phase # "down" => intruded') /\ ConfigInv'
      BY <1>9 DEF OtherEnds
    <2> QED BY <2>1
  <1>10. CASE UNCHANGED dvars
    BY <1>10
  <1> QED BY <1>1, <1>2, <1>3, <1>4, <1>5, <1>6, <1>7, <1>8, <1>9, <1>10
          DEF DaemonNext, Working, Intruding

\* What StartFailsForCause says of one step.
FailsForCause ==
    /\ fate # "config" /\ fate' = "config"
          => registered # "secure" \/ torn \/ cli = "writing"
    /\ fate # "listen" /\ fate' = "listen" => intruded

LEMMA CauseStep == StartInv /\ [DaemonNext]_dvars => FailsForCause
  <1> USE DEF FailsForCause
  <1> SUFFICES ASSUME StartInv, [DaemonNext]_dvars PROVE FailsForCause
    OBVIOUS
  <1>1. CASE StartDaemon
    BY <1>1 DEF StartDaemon, LoadConfig, StartInv, ConfigInv
  <1>2. CASE Bind
    BY <1>2 DEF Bind, StartInv, SocketInv
  <1>3. CASE TokenAcquired \/ Refresh \/ TokenNeeded
    BY <1>3 DEF TokenAcquired, Refresh, OnRefreshed, ConnectWith, TokenNeeded
  <1>4. CASE TokenRefused \/ RemoveSocket \/ RefreshFailsOrStarts \/ GatewayAnswers \/ LinkLost
             \/ Shutdown \/ Passes \/ Blocks
    BY <1>4 DEF TokenRefused, RemoveSocket, RefreshFailsOrStarts, GatewayAnswers, LinkLost,
                Shutdown, Passes, Blocks
  <1>5. CASE Exit \/ Killed
    BY <1>5 DEF Exit, Killed, Ends
  <1>6. CASE Registering \/ Intruding \/ UNCHANGED dvars
    BY <1>6 DEF Registering, Register, RegisterFails, OpenConfig, WriteConfig,
                RegisterKilled, Intruding, OtherListens, OtherEnds
  <1> QED BY <1>1, <1>2, <1>3, <1>4, <1>5, <1>6 DEF DaemonNext, Working

\* A start fails on its configuration only before the first registration over a secure
\* URL or when a later one is writing or was killed, and on its socket only when a second
\* daemon ran: no crash leaves behind what stops startDaemon().
THEOREM StartsUnlessForCause == DaemonSpec => StartFailsForCause
  <1>1. DaemonSpec => []StartInv
    BY StartInit, StartStep, PTL DEF DaemonSpec
  <1>2. DaemonSpec => [][FailsForCause]_dvars
    BY <1>1, CauseStep, PTL DEF DaemonSpec
  <1> QED BY <1>2 DEF StartFailsForCause, FailsForCause

-----------------------------------------------------------------------------
(* The token manager of the daemon, with the time that commands take of it *)

\* The daemon leaves maxRefreshRetries at its default.
DefaultRetries == MaxRetries = 3

\* What the refresh margin has to cover: all attempts, the delays between them, and the
\* margin of the getter.
RetryTime == 3 * MaxLatency + 3 * RetryDelay + Skew + 1

\* What a step of the process does to the manager.
ManagersStep ==
    \/ UNCHANGED <<vars, blocked>>
    \/ /\ ~gaveUp /\ blocked' = blocked
       /\ \/ Start \/ FetchReturns \/ FetchFails \/ Stop
          \/ RefreshStarts \/ RefreshFails \/ GatewayIssues \/ Tick
    \/ /\ ~gaveUp /\ RefreshReturns
       /\ blocked' = IF retryCount' = 0 THEN 0 ELSE blocked
    \/ /\ ~gaveUp /\ Elapse
       /\ blocked < MaxBlocked /\ blocked' = blocked + 1
       /\ (timer /\ delay = 0) \/ age >= MaxLatency
    \/ Forgotten /\ blocked' = 0

\* One request at a time, answered once, retried less than MaxRetries times, and
\* overdue only by what commands took.
RequestInv ==
    /\ TypeOK /\ blocked \in 0..MaxBlocked
    /\ flight = "none" => age = 0 /\ ~answered
    /\ flight # "none" => age <= MaxLatency + blocked
    /\ flight = "fetch" => ~token
    /\ timer => token /\ flight = "none"
    /\ flight = "refresh" => token
    /\ ~token => retryCount = 0
    /\ ~gaveUp => retryCount < MaxRetries

\* The manager sees a token expire only as late after the gateway as its answer took.
ExpiryInv ==
    /\ expiry <= MaxExpiresIn
    /\ answered => offer \in Lifetimes /\ offer <= offerLife + age
    /\ expiry <= serverLife + waited
    /\ flight # "none" => expiry = 0 \/ expiry + age <= MaxExpiresIn

\* What a token must have left when its k-th refresh fails: the delays and attempts
\* still to come, and the margin of the getter.
Reserve(k) ==
    Skew + 1 + (IF k = 0 THEN 3 * RetryDelay + 2 * MaxLatency
                ELSE IF k = 1 THEN 2 * RetryDelay + MaxLatency ELSE 0)

\* What an attempt under way may still take.
Attempt(a) == IF a < MaxLatency THEN MaxLatency - a ELSE 0

\* A token that outlived the refresh margin has the time its retries may take, and the
\* part of the margin that they do not need, less what commands took.
InTime ==
    token /\ lifetime >= RefreshBefore /\ TimeForRetries /\ ~gaveUp /\ ~stopped =>
        /\ timer => expiry + blocked + RetryTime
                       >= RefreshBefore + delay + MaxLatency + Reserve(retryCount)
        /\ flight = "refresh" => expiry + blocked + RetryTime
                                   >= RefreshBefore + Attempt(age) + Reserve(retryCount)

\* The connection presented a token no older than the one the manager counts on.
LinkInv ==
    /\ link = "open" => token /\ ~stopped /\ expiry <= linkLife + waited
    /\ stopped => fate = "shutdown" /\ phase # "down"

-----------------------------------------------------------------------------
(* One request at a time, and its types *)

LEMMA ManagerMoves == [DaemonNext]_dvars => ManagersStep
  <1> SUFFICES ASSUME [DaemonNext]_dvars PROVE ManagersStep
    OBVIOUS
  <1> USE DEF ManagersStep
  <1>1. CASE StartDaemon
    <2>1. CASE LoadConfig /\ Start
      BY <1>1, <2>1 DEF StartDaemon, Start
    <2>2. CASE UNCHANGED vars
      BY <1>1, <2>2 DEF StartDaemon
    <2> QED BY <1>1, <2>1, <2>2 DEF StartDaemon
  <1>2. CASE Working
    <2>1. ~gaveUp
      BY <1>2 DEF Working, Alive
    <2>2. CASE TokenAcquired \/ TokenRefused
      BY <2>1, <2>2 DEF TokenAcquired, TokenRefused
    <2>3. CASE RemoveSocket \/ Bind \/ LinkLost \/ TokenNeeded
      BY <2>3 DEF RemoveSocket, Bind, LinkLost, TokenNeeded
    <2>4. CASE Refresh
      BY <2>1, <2>4 DEF Refresh
    <2>5. CASE RefreshFailsOrStarts \/ GatewayAnswers \/ Shutdown \/ Passes
      BY <2>1, <2>5 DEF RefreshFailsOrStarts, GatewayAnswers, Shutdown, Passes
    <2>6. CASE Blocks
      BY <2>1, <2>6 DEF Blocks
    <2> QED BY <1>2, <2>2, <2>3, <2>4, <2>5, <2>6 DEF Working
  <1>3. CASE Exit \/ Killed
    BY <1>3 DEF Exit, Killed, Ends
  <1>4. CASE Registering \/ Intruding
    BY <1>4 DEF Registering, Register, RegisterFails, OpenConfig, WriteConfig,
                RegisterKilled, Intruding, OtherListens, OtherEnds
  <1>5. CASE UNCHANGED dvars
    BY <1>5
  <1> QED BY <1>1, <1>2, <1>3, <1>4, <1>5 DEF DaemonNext

\* 30, 60 s, and no third delay: the third failure is the last.
LEMMA Backoffs ==
    ASSUME DefaultRetries
    PROVE  /\ RetryBackoff(1) = RetryDelay /\ RetryBackoff(2) = 2 * RetryDelay
           /\ \A k \in Nat : k < MaxRetries => k \in {0, 1, 2}
           /\ MaxRetries \in Nat /\ MaxRetries = 3
  <1>1. 2 ^ (1 - 1) = 1 /\ 2 ^ (2 - 1) = 2
    OBVIOUS
  <1> QED BY <1>1, TokenManagerAssumption DEF RetryBackoff, DefaultRetries

\* A failure counts, and sets the timer only if it was not the last.
LEMMA FailureIs ==
    ASSUME DefaultRetries, TypeOK, ~gaveUp, retryCount < MaxRetries, RefreshFailure
    PROVE  /\ retryCount' = retryCount + 1 /\ retryCount' \in 0..MaxRetries
           /\ delay' \in Nat /\ timer' \in BOOLEAN /\ gaveUp' \in BOOLEAN
           /\ Answered /\ stopped' = stopped
           /\ \/ gaveUp' /\ UNCHANGED timerVars
              \/ /\ ~gaveUp' /\ timer' /\ expiry > Skew /\ retryCount' < MaxRetries
                 /\ delay' <= RetryBackoff(retryCount')
  <1>1. retryCount \in {0, 1, 2} /\ retryCount' = retryCount + 1
    BY Backoffs DEF TypeOK, CountersOK, RefreshFailure
  <1>0. Answered /\ stopped' = stopped
    BY DEF RefreshFailure
  <1>2. CASE gaveUp' = TRUE /\ UNCHANGED timerVars
    BY <1>0, <1>1, <1>2, Backoffs DEF TypeOK, CountersOK, FlagsOK
  <1>3. CASE /\ expiry > Skew /\ retryCount' < MaxRetries
             /\ SetTimer(RetryBackoff(retryCount')) /\ gaveUp' = gaveUp
    <2>1. RetryBackoff(retryCount') \in Nat
      BY <1>1, <1>3, Backoffs, TokenManagerAssumption
    <2>2. timer' = TRUE /\ delay' \in Nat /\ delay' <= RetryBackoff(retryCount')
      BY <1>3, <2>1, TokenManagerAssumption DEF SetTimer
    <2>3. gaveUp' \in BOOLEAN /\ ~gaveUp' /\ timer' \in BOOLEAN /\ timer'
      BY <1>3, <2>2 DEF TypeOK, FlagsOK
    <2>4. retryCount' \in 0..MaxRetries
      BY <1>1, Backoffs
    <2> QED BY <1>0, <1>1, <1>3, <2>2, <2>3, <2>4, Zenon
  <1> QED BY <1>2, <1>3 DEF RefreshFailure

LEMMA LessType == \A n \in Nat : Less1(n) \in Nat /\ Less1(n) <= n /\ n <= Less1(n) + 1
  BY DEF Less1

LEMMA LessIs == \A n \in Nat : n <= Less1(n) + 1 /\ Less1(n) <= n /\ (n > 0 => n = Less1(n) + 1)
  BY DEF Less1

LEMMA TimerType ==
    ASSUME NEW d \in Nat, SetTimer(d)
    PROVE  timer' = TRUE /\ delay' \in Nat /\ delay' <= d
  BY TokenManagerAssumption DEF SetTimer

\* The first refresh is due when the refresh margin begins, or at once.
LEMMA ScheduleIs ==
    ASSUME NEW l \in Nat, ScheduleRefresh(l)
    PROVE  /\ timer' = TRUE /\ delay' \in Nat
           /\ l >= RefreshBefore => delay' + RefreshBefore <= l
  <1> DEFINE d == IF l > RefreshBefore THEN l - RefreshBefore ELSE 0
  <1>1. d \in Nat /\ (l >= RefreshBefore => d + RefreshBefore <= l) /\ RefreshBefore \in Nat
    BY TokenManagerAssumption
  <1>2. timer' = TRUE /\ delay' \in Nat /\ delay' <= d
    BY <1>1, TimerType DEF ScheduleRefresh
  <1>3. \A e \in Nat : e <= d /\ d + RefreshBefore <= l => e + RefreshBefore <= l
    BY <1>1
  <1> QED BY <1>1, <1>2, <1>3

LEMMA RequestStep ==
    ASSUME DefaultRetries
    PROVE  RequestInv /\ ManagersStep => RequestInv'
  <1> SUFFICES ASSUME RequestInv, ManagersStep PROVE RequestInv'
    OBVIOUS
  <1> USE TokenManagerAssumption, DaemonAssumption DEF RequestInv
  <1>t. CountersOK /\ FlagsOK /\ TypeOK
    BY DEF TypeOK
  <1>1. CASE UNCHANGED <<vars, blocked>>
    BY <1>1 DEF TypeOK, CountersOK, FlagsOK
  <1>2. CASE Start /\ blocked' = blocked
    BY <1>2 DEF Start, Send, TypeOK, CountersOK, FlagsOK
  <1>3. CASE FetchReturns /\ blocked' = blocked
    <2>1. offer \in Nat /\ ~token
      BY <1>3, <1>t DEF FetchReturns, CountersOK
    <2>2. timer' \in BOOLEAN /\ delay' \in Nat /\ expiry' \in Nat /\ lifetime' \in Nat
          /\ waited' \in Nat /\ gaveUp' \in BOOLEAN
      <3>1. CASE /\ ScheduleRefresh(offer) /\ expiry' = offer /\ lifetime' = offer
                 /\ waited' = age /\ gaveUp' = gaveUp
        BY <1>t, <2>1, <3>1, ScheduleIs DEF CountersOK, FlagsOK
      <3>2. CASE UNCHANGED <<expiry, lifetime, waited, timerVars>> /\ gaveUp' = TRUE
        BY <1>t, <3>2 DEF CountersOK, FlagsOK
      <3> QED BY <1>3, <3>1, <3>2 DEF FetchReturns
    <2>3. /\ token' = TRUE /\ serverLife' \in Nat /\ flight' = "none" /\ age' = 0 /\ ~answered'
          /\ offer' = 0 /\ offerLife' = 0 /\ answered' = FALSE
          /\ retryCount' = 0 /\ stopped' = stopped
      BY <1>3, <1>t, <2>1 DEF FetchReturns, Answered, CountersOK
    <2>0. CountersOK'
      BY <2>2, <2>3 DEF CountersOK
    <2>b. FlagsOK'
      BY <1>t, <2>2, <2>3 DEF FlagsOK
    <2>4. TypeOK'
      BY <2>0, <2>b, <2>3 DEF TypeOK
    <2>5. MaxRetries > 0
      BY Backoffs
    <2> QED BY <1>3, <2>3, <2>4, <2>5
  <1>4. CASE FetchFails /\ blocked' = blocked
    BY <1>4, <1>t DEF FetchFails, Answered, TypeOK, CountersOK, FlagsOK
  <1>5. CASE Stop /\ blocked' = blocked
    BY <1>5, <1>t DEF Stop, TypeOK, CountersOK, FlagsOK
  <1>14. CASE RefreshStarts /\ blocked' = blocked
    <2>1. TypeOK'
      BY <1>14, <1>t DEF RefreshStarts, Send, TypeOK, CountersOK, FlagsOK
    <2>2. 0 <= MaxLatency + blocked
      OBVIOUS
    <2> QED BY <1>14, <1>t, <2>1, <2>2 DEF RefreshStarts, Send
  <1>6. ASSUME ~gaveUp, flight = "refresh", RefreshFailure, blocked' \in 0..MaxBlocked,
               UNCHANGED <<token, expiry, lifetime, waited>>, serverLife' \in Nat
        PROVE  RequestInv'
    <2>1. /\ retryCount' \in 0..MaxRetries /\ delay' \in Nat /\ timer' \in BOOLEAN
          /\ gaveUp' \in BOOLEAN /\ Answered /\ stopped' = stopped
          /\ gaveUp' \/ retryCount' < MaxRetries
      BY <1>6, <1>t, FailureIs
    <2>2. token
      BY <1>6
    <2> QED BY <1>6, <1>t, <2>1, <2>2 DEF Answered, TypeOK, CountersOK, FlagsOK
  <1>7. CASE ~gaveUp /\ RefreshFails /\ blocked' = blocked
    BY <1>6, <1>7, <1>t DEF RefreshFails, CountersOK
  <1>8. CASE ~gaveUp /\ RefreshReturns /\ blocked' \in {0, blocked}
    <2>1. CASE RefreshFailure
      <3>1. serverLife' \in Nat /\ flight = "refresh" /\ token' = token
        BY <1>8, <1>t DEF RefreshReturns, CountersOK
      <3>2. UNCHANGED <<expiry, lifetime, waited>>
        BY <1>8, <1>t, <2>1, FailureIs DEF RefreshReturns, CountersOK
      <3> QED BY <1>6, <1>8, <2>1, <3>1, <3>2
    <2>2. CASE /\ expiry' = offer /\ lifetime' = offer /\ waited' = age /\ retryCount' = 0
               /\ ScheduleRefresh(offer) /\ Answered /\ UNCHANGED <<gaveUp, stopped>>
      <3>1. offer \in Nat /\ token /\ token' = token /\ serverLife' \in Nat
        BY <1>8, <1>t DEF RefreshReturns, CountersOK
      <3>2. timer' = TRUE /\ delay' \in Nat
        BY <2>2, <3>1, ScheduleIs
      <3>0. CountersOK'
        BY <2>2, <3>1, <3>2, <1>8, <1>t DEF Answered, CountersOK
      <3>b. FlagsOK' /\ flight' = "none"
        BY <1>t, <2>2, <3>1, <3>2 DEF Answered, FlagsOK
      <3>3. TypeOK'
        BY <3>0, <3>b DEF TypeOK
      <3>4. MaxRetries > 0
        BY Backoffs
      <3> QED BY <1>8, <2>2, <3>1, <3>3, <3>4 DEF Answered
    <2> QED BY <1>8, <2>1, <2>2 DEF RefreshReturns
  <1>9. CASE GatewayIssues /\ blocked' = blocked
    <2>1. offer' \in Nat /\ offerLife' \in Nat
      BY <1>9 DEF GatewayIssues
    <2> QED BY <1>9, <1>t, <2>1 DEF GatewayIssues, TypeOK, CountersOK, FlagsOK
  <1>10. ASSUME Elapse, blocked' \in 0..MaxBlocked,
                flight # "none" => age + 1 <= MaxLatency + blocked'
         PROVE  RequestInv'
    <2>1. Less1(expiry) \in Nat /\ Less1(serverLife) \in Nat /\ Less1(delay) \in Nat
          /\ Less1(offerLife) \in Nat
      BY <1>t, LessType DEF CountersOK
    <2>2. age' \in Nat /\ (flight' = "none" => age' = 0)
          /\ (flight' # "none" => age' <= MaxLatency + blocked')
      <3>1. CASE flight = "none"
        BY <1>10, <1>t, <3>1 DEF Elapse, CountersOK
      <3>2. CASE flight # "none"
        <4>1. age' = age + 1 /\ flight' = flight /\ age + 1 \in Nat
          BY <1>10, <1>t, <3>2 DEF Elapse, CountersOK
        <4> QED BY <1>10, <3>2, <4>1
      <3> QED BY <3>1, <3>2
    <2> QED BY <1>10, <1>t, <2>1, <2>2 DEF Elapse, TypeOK, CountersOK, FlagsOK
  <1>11. CASE Tick /\ blocked' = blocked
    <2>1. flight # "none" => age + 1 <= MaxLatency + blocked
      BY <1>11, <1>t DEF Tick, CountersOK
    <2> QED BY <1>10, <1>11, <2>1 DEF Tick
  <1>12. CASE /\ Elapse /\ blocked < MaxBlocked /\ blocked' = blocked + 1
              /\ (timer /\ delay = 0) \/ age >= MaxLatency
    <2>1. flight # "none" => age + 1 <= MaxLatency + blocked'
      BY <1>12, <1>t DEF CountersOK
    <2> QED BY <1>10, <1>12, <2>1
  <1>13. CASE Forgotten /\ blocked' = 0
    <2>0. CountersOK' /\ flight' = "none"
      BY <1>13 DEF Forgotten, CountersOK
    <2>1. TypeOK'
      BY <1>13, <2>0 DEF Forgotten, TypeOK, FlagsOK
    <2>2. MaxRetries > 0
      BY Backoffs
    <2> QED BY <1>13, <2>1, <2>2 DEF Forgotten
  <1> QED BY <1>1, <1>2, <1>3, <1>4, <1>5, <1>7, <1>8, <1>9, <1>11, <1>12, <1>13,
          <1>14 DEF ManagersStep

LEMMA RequestInvariant ==
    ASSUME DefaultRetries
    PROVE  DaemonSpec => []RequestInv
  <1>1. DaemonInit => RequestInv
    <2> SUFFICES ASSUME DaemonInit PROVE RequestInv
      OBVIOUS
    <2> USE DEF DaemonInit, Init
    <2>1. MaxRetries \in Nat /\ 0 < MaxRetries /\ MaxBlocked \in Nat /\ MaxLatency \in Nat
      BY TokenManagerAssumption, DaemonAssumption
    <2>2. CountersOK
      BY <2>1 DEF CountersOK
    <2>3. TypeOK
      BY <2>2 DEF TypeOK, FlagsOK
    <2> QED BY <2>1, <2>3 DEF RequestInv
  <1>2. RequestInv /\ [DaemonNext]_dvars => RequestInv'
    BY RequestStep, ManagerMoves
  <1> QED BY <1>1, <1>2, PTL DEF DaemonSpec

\* Every variable keeps its type, and the retries their bound, in every life of the
\* process.
THEOREM DaemonTypeCorrect ==
    ASSUME DefaultRetries
    PROVE  DaemonSpec => []DaemonTypeOK
  <1>1. DaemonInit /\ RequestInv => DaemonTypeOK
    <2> SUFFICES ASSUME DaemonInit, RequestInv PROVE DaemonTypeOK
      OBVIOUS
    <2>1. TypeOK /\ blocked \in 0..MaxBlocked
      BY DEF RequestInv
    <2>2. {torn, other, intruded} \subseteq BOOLEAN
      BY DEF DaemonInit
    <2>3. link = "none" /\ linkLife \in Nat
      BY DEF DaemonInit
    <2> QED BY <2>1, <2>2, <2>3 DEF DaemonInit, DaemonTypeOK, Urls
  <1>2. DaemonSpec => []RequestInv
    BY RequestInvariant
  <1>3. RequestInv' /\ DaemonTypeOK /\ [DaemonNext]_dvars => DaemonTypeOK'
    <2> SUFFICES ASSUME RequestInv', DaemonTypeOK, [DaemonNext]_dvars PROVE DaemonTypeOK'
      OBVIOUS
    <2>t. TypeOK' /\ blocked' \in 0..MaxBlocked /\ serverLife' \in Nat
      BY DEF RequestInv, TypeOK, CountersOK
    <2>l. linkLife \in Nat /\ Less1(linkLife) \in Nat
      BY LessType DEF DaemonTypeOK
    <2> USE DEF DaemonTypeOK, Urls
    <2>1. CASE StartDaemon
      BY <2>1, <2>t DEF StartDaemon
    <2>2. CASE TokenAcquired \/ TokenRefused
      BY <2>2, <2>t DEF TokenAcquired, TokenRefused, ConnectWith
    <2>3. CASE RemoveSocket \/ Bind
      BY <2>3, <2>t DEF RemoveSocket, Bind, Unlink
    <2>4. CASE Refresh \/ RefreshFailsOrStarts \/ GatewayAnswers
      BY <2>4, <2>t DEF Refresh, OnRefreshed, ConnectWith, RefreshFailsOrStarts, GatewayAnswers
    <2>5. CASE LinkLost \/ TokenNeeded \/ Shutdown
      BY <2>5, <2>t DEF LinkLost, TokenNeeded, Shutdown, TypeOK, CountersOK
    <2>6. CASE Passes \/ Blocks
      BY <2>6, <2>t, <2>l DEF Passes, Blocks, LinkAges
    <2>7. CASE Exit \/ Killed
      <3>1. Ends
        BY <2>7 DEF Exit, Killed
      <3>2. {torn', other', intruded'} \subseteq BOOLEAN
        BY <3>1 DEF Ends
      <3>3. socketFile' \in {"absent", "stale", "ours", "other"} /\ linkLife' \in Nat
        BY <3>1 DEF Ends
      <3> QED BY <3>1, <3>2, <3>3, <2>t DEF Ends
    <2>8. CASE Registering
      BY <2>8, <2>t DEF Registering, Register, RegisterFails, OpenConfig, WriteConfig, RegisterKilled
    <2>9. CASE Intruding
      BY <2>9, <2>t DEF Intruding, OtherListens, OtherEnds
    <2>10. CASE UNCHANGED dvars
      BY <2>10, <2>t
    <2> QED BY <2>1, <2>2, <2>3, <2>4, <2>5, <2>6, <2>7, <2>8, <2>9, <2>10
            DEF DaemonNext, Working
  <1> QED BY <1>1, <1>2, <1>3, PTL DEF DaemonSpec

-----------------------------------------------------------------------------
(* The token handed out is accepted *)

LEMMA ExpiryStep ==
    ASSUME LifetimesPositive
    PROVE  RequestInv /\ ExpiryInv /\ ManagersStep /\ RequestInv' => ExpiryInv'
  <1> SUFFICES ASSUME RequestInv, ExpiryInv, ManagersStep, RequestInv' PROVE ExpiryInv'
    OBVIOUS
  <1> USE TokenManagerAssumption, DaemonAssumption DEF ExpiryInv
  <1>t. /\ expiry \in Nat /\ serverLife \in Nat /\ waited \in Nat
        /\ age \in Nat /\ offer \in Nat /\ offerLife \in Nat
        /\ (flight = "none" => ~answered)
    BY DEF RequestInv, TypeOK, CountersOK
  <1>1. CASE UNCHANGED <<vars, blocked>>
    BY <1>1
  <1>2. CASE Start
    BY <1>2, <1>t DEF Start, Send
  <1>3. ASSUME Answered, UNCHANGED tokenVars PROVE ExpiryInv'
    BY <1>3, <1>t DEF Answered
  <1>4. ASSUME Answered, answered, flight # "none", serverLife' = offerLife,
               \/ expiry' = offer /\ waited' = age /\ ValidLifetime(offer)
               \/ UNCHANGED <<expiry, waited>> /\ ~ValidLifetime(offer)
        PROVE  ExpiryInv'
    <2>1. offer # 0 /\ offer <= offerLife + age
      BY <1>4, <1>t DEF LifetimesPositive
    <2>2. CASE expiry' = offer /\ waited' = age /\ ValidLifetime(offer)
      BY <1>4, <1>t, <2>1, <2>2 DEF Answered, ValidLifetime
    <2>3. CASE UNCHANGED <<expiry, waited>> /\ ~ValidLifetime(offer)
      <3>1. offer > MaxExpiresIn
        BY <1>t, <2>1, <2>3 DEF ValidLifetime
      <3>2. expiry <= offerLife
        BY <1>4, <1>t, <2>1, <3>1
      <3> QED BY <1>4, <1>t, <2>3, <3>2 DEF Answered
    <2> QED BY <1>4, <2>2, <2>3
  <1>5. CASE FetchReturns
    BY <1>4, <1>5 DEF FetchReturns
  <1>6. CASE FetchFails
    BY <1>3, <1>6 DEF FetchFails
  <1>7. CASE Stop
    BY <1>7, <1>t DEF Stop
  <1>8. CASE RefreshStarts
    <2>1. ~answered
      BY <1>8, <1>t DEF RefreshStarts, RequestInv
    <2> QED BY <1>8, <1>t, <2>1 DEF RefreshStarts, Send
  <1>9. CASE RefreshFails
    BY <1>3, <1>9 DEF RefreshFails, RefreshFailure
  <1>10. CASE RefreshReturns
    BY <1>4, <1>10 DEF RefreshReturns, RefreshFailure
  <1>11. CASE GatewayIssues
    <2>1. offer' \in Lifetimes /\ offerLife' = offer' /\ offer' \in Nat
          /\ UNCHANGED <<expiry, serverLife, waited, age, flight>>
      BY <1>11 DEF GatewayIssues
    <2>2. offer' <= offer' + age
      <3>1. \A m, n \in Nat : m <= m + n
        OBVIOUS
      <3> QED BY <1>t, <2>1, <3>1, Zenon
    <2> QED BY <1>t, <2>1, <2>2
  <1>12. CASE Elapse
    <2>1. /\ Less1(expiry) <= Less1(serverLife) + waited
          /\ Less1(expiry) <= MaxExpiresIn /\ Less1(expiry) \in Nat
          /\ Less1(expiry) = 0 \/ Less1(expiry) + 1 = expiry
          /\ offerLife <= Less1(offerLife) + 1 /\ Less1(offerLife) \in Nat
      BY <1>t DEF Less1
    <2>2. flight # "none" => age' = age + 1
      BY <1>12 DEF Elapse
    <2>3. answered' => offer' \in Lifetimes /\ offer' <= offerLife' + age'
      BY <1>12, <1>t, <2>1, <2>2 DEF Elapse
    <2>4. flight' # "none" => expiry' = 0 \/ expiry' + age' <= MaxExpiresIn
      BY <1>12, <1>t, <2>1, <2>2 DEF Elapse
    <2> QED BY <1>12, <2>1, <2>3, <2>4 DEF Elapse
  <1>13. CASE Forgotten
    BY <1>13 DEF Forgotten
  <1> QED BY <1>1, <1>2, <1>5, <1>6, <1>7, <1>8, <1>9, <1>10, <1>11, <1>12, <1>13
          DEF ManagersStep, Tick

LEMMA ExpiryInvariant ==
    ASSUME DefaultRetries, LifetimesPositive
    PROVE  DaemonSpec => [](RequestInv /\ ExpiryInv)
  <1>1. DaemonInit => ExpiryInv
    BY TokenManagerAssumption, DaemonAssumption DEF DaemonInit, Init, ExpiryInv
  <1>2. RequestInv /\ ExpiryInv /\ [DaemonNext]_dvars /\ RequestInv' => ExpiryInv'
    BY ExpiryStep, ManagerMoves
  <1> QED BY <1>1, <1>2, RequestInvariant, PTL DEF DaemonSpec

\* However late answers are read because commands block the event loop, the daemon hands
\* out only tokens that the gateway accepts, but for one whose own answer took longer than
\* the clock skew margin: also when the gateway answers lifetimes that calcExpiresAt()
\* refuses, and across crashes and restarts.
THEOREM DaemonTokenIsAccepted ==
    ASSUME DefaultRetries, LifetimesPositive
    PROVE  DaemonSpec => []UsableTokenIsAccepted
  <1>1. RequestInv /\ ExpiryInv => UsableTokenIsAccepted
    BY TokenManagerAssumption
       DEF RequestInv, TypeOK, CountersOK, ExpiryInv, UsableTokenIsAccepted, Usable
  <1> QED BY <1>1, ExpiryInvariant, PTL

-----------------------------------------------------------------------------
(* The token stays usable, retries included *)

\* What is left when one more attempt failed: its delay and the attempt are spent.
LEMMA ReserveShrinks ==
    ASSUME DefaultRetries, NEW k \in Nat, k + 1 < MaxRetries
    PROVE  /\ RetryBackoff(k + 1) \in Nat
           /\ Reserve(k) = RetryBackoff(k + 1) + MaxLatency + Reserve(k + 1)
  <1>1. k \in {0, 1} /\ (k = 0 => k + 1 = 1) /\ (k = 1 => k + 1 = 2)
    BY Backoffs
  <1> QED BY <1>1, Backoffs, TokenManagerAssumption DEF Reserve

LEMMA ReserveType == \A k \in Nat : Reserve(k) \in Nat /\ Reserve(k) > Skew
  BY TokenManagerAssumption DEF Reserve

\* The retries fit what is left of the margin, in other words.
LEMMA TimeLeft ==
    ASSUME NEW b \in Nat
    PROVE  3 * MaxLatency + 3 * RetryDelay + Skew + b < RefreshBefore
             <=> RetryTime + b <= RefreshBefore
  BY TokenManagerAssumption DEF RetryTime

LEMMA RetryTimeIs == RetryTime \in Nat /\ RetryTime = MaxLatency + Reserve(0)
  BY TokenManagerAssumption DEF RetryTime, Reserve

LEMMA AttemptIs ==
    \A a \in Nat : /\ Attempt(a) \in Nat /\ Attempt(a) <= MaxLatency
                   /\ Attempt(a + 1) <= Attempt(a)
                   /\ a < MaxLatency => Attempt(a) = Attempt(a + 1) + 1
  BY TokenManagerAssumption DEF Attempt

LEMMA InTimeStep ==
    ASSUME DefaultRetries
    PROVE  RequestInv /\ InTime /\ ManagersStep /\ RequestInv' => InTime'
  <1> DEFINE Goal == /\ timer' => expiry' + blocked' + RetryTime
                                    >= RefreshBefore + delay' + MaxLatency + Reserve(retryCount')
                     /\ flight' = "refresh" => expiry' + blocked' + RetryTime
                                    >= RefreshBefore + Attempt(age') + Reserve(retryCount')
  <1> SUFFICES ASSUME RequestInv, InTime, ManagersStep, RequestInv',
                      token', lifetime' >= RefreshBefore, TimeForRetries', ~gaveUp', ~stopped'
               PROVE  Goal
    BY DEF InTime
  <1> HIDE DEF Goal
  <1> USE TokenManagerAssumption, DaemonAssumption
  <1>t. /\ expiry \in Nat /\ delay \in Nat /\ age \in Nat /\ offer \in Nat /\ lifetime \in Nat
        /\ retryCount \in Nat /\ retryCount' \in Nat /\ delay' \in Nat /\ age' \in Nat
        /\ blocked \in Nat /\ blocked' \in Nat /\ expiry' \in Nat
        /\ Reserve(retryCount) \in Nat /\ Reserve(retryCount') \in Nat
        /\ RetryTime \in Nat /\ Attempt(age) \in Nat /\ Attempt(age') \in Nat
        /\ RefreshBefore \in Nat /\ MaxLatency \in Nat
    <2>1. /\ expiry \in Nat /\ delay \in Nat /\ age \in Nat /\ offer \in Nat /\ lifetime \in Nat
          /\ retryCount \in Nat /\ retryCount' \in Nat /\ delay' \in Nat /\ age' \in Nat
          /\ blocked \in Nat /\ blocked' \in Nat /\ expiry' \in Nat
      BY DEF RequestInv, TypeOK, CountersOK
    <2>2. RefreshBefore \in Nat /\ MaxLatency \in Nat
      OBVIOUS
    <2> QED BY <2>1, <2>2, ReserveType, RetryTimeIs, AttemptIs, Zenon
  <1>f. /\ timer => token /\ flight = "none"
        /\ timer' => flight' = "none"
        /\ ~token => retryCount = 0
    BY DEF RequestInv
  <1>b. RetryTime + blocked' <= RefreshBefore
    BY <1>t, TimeLeft DEF TimeForRetries
  <1>i. ~gaveUp /\ ~stopped /\ token /\ lifetime >= RefreshBefore /\ blocked <= blocked' =>
          /\ timer => expiry + blocked + RetryTime
                         >= RefreshBefore + delay + MaxLatency + Reserve(retryCount)
          /\ flight = "refresh" => expiry + blocked + RetryTime
                                     >= RefreshBefore + Attempt(age) + Reserve(retryCount)
    <2>1. blocked <= blocked' => RetryTime + blocked <= RefreshBefore
      <3>1. \A a, c, d, e \in Nat : a <= c /\ d + c <= e => d + a <= e
        OBVIOUS
      <3> QED BY <1>t, <1>b, <3>1, Zenon
    <2>2. blocked <= blocked' => TimeForRetries
      BY <1>t, <2>1, TimeLeft DEF TimeForRetries
    <2> QED BY <2>2 DEF InTime
  <1>1. CASE UNCHANGED <<vars, blocked>>
    BY <1>1, <1>i, <1>t DEF Goal
  <1>2. CASE Start
    BY <1>2 DEF Start, Send
  \* A new token starts with the whole margin.
  <1>3. ASSUME ScheduleRefresh(offer), expiry' = offer, lifetime' = offer, flight' = "none",
               retryCount' = 0
        PROVE  Goal
    <2>1. delay' + RefreshBefore <= offer
      <3>1. offer >= RefreshBefore
        BY <1>3
      <3> QED BY <1>3, <1>t, <3>1, ScheduleIs
    <2>2. RetryTime = MaxLatency + Reserve(0) /\ Reserve(retryCount') = Reserve(0)
      BY <1>3, RetryTimeIs
    <2>3. RetryTime = MaxLatency + Reserve(retryCount')
      BY <2>2
    <2>4. \A o, b, t, d, r, l, q \in Nat :
             d + r <= o /\ t = l + q => o + b + t >= r + d + l + q
      OBVIOUS
    <2>5. offer + blocked' + RetryTime >= RefreshBefore + delay' + MaxLatency + Reserve(retryCount')
      BY <1>t, <2>1, <2>3, <2>4, Zenon
    <2> QED BY <1>3, <2>5 DEF Goal
  <1>4. CASE FetchReturns
    <2>1. ~token /\ retryCount = 0 /\ flight' = "none"
      BY <1>4 DEF RequestInv, FetchReturns, Answered
    <2> QED BY <1>3, <1>4, <2>1 DEF FetchReturns
  <1>5. CASE FetchFails \/ Stop
    BY <1>5 DEF FetchFails, Stop
  <1>6. CASE RefreshStarts /\ blocked' = blocked
    <2>1. /\ timer /\ delay = 0 /\ token /\ ~gaveUp /\ ~stopped
          /\ UNCHANGED <<expiry, lifetime, retryCount>> /\ timer' = FALSE /\ age' = 0
      BY <1>6, <1>f DEF RefreshStarts, Send
    <2>2. expiry + blocked + RetryTime >= RefreshBefore + MaxLatency + Reserve(retryCount)
      BY <1>6, <1>i, <1>t, <2>1
    <2>3. Attempt(age') <= MaxLatency
      BY <2>1, AttemptIs
    <2> QED BY <1>6, <1>t, <2>1, <2>2, <2>3 DEF Goal
  \* A failure uses up its attempt, and leaves the time of the next one.
  <1>7. ASSUME ~gaveUp, flight = "refresh", RefreshFailure, UNCHANGED <<expiry, lifetime>>,
               blocked' = blocked
        PROVE  Goal
    <2>1. /\ retryCount' = retryCount + 1 /\ timer' /\ retryCount' < MaxRetries
          /\ delay' <= RetryBackoff(retryCount') /\ flight' = "none" /\ stopped' = stopped
      <3>1. TypeOK /\ retryCount < MaxRetries
        BY <1>7 DEF RequestInv
      <3> QED BY <1>7, <3>1, FailureIs DEF Answered
    <2>2. /\ RetryBackoff(retryCount') \in Nat
          /\ Reserve(retryCount) = RetryBackoff(retryCount') + MaxLatency + Reserve(retryCount')
      BY <1>t, <2>1, ReserveShrinks
    <2>3. token
      BY <1>7 DEF RequestInv
    <2>4. expiry + blocked + RetryTime >= RefreshBefore + Reserve(retryCount)
      BY <1>7, <1>i, <1>t, <2>1, <2>3
    <2>5. expiry + blocked + RetryTime
            >= RefreshBefore + delay' + MaxLatency + Reserve(retryCount')
      BY <1>t, <2>1, <2>2, <2>4
    <2> QED BY <1>7, <2>1, <2>5 DEF Goal
  <1>8. CASE ~gaveUp /\ RefreshFails /\ blocked' = blocked
    BY <1>7, <1>8 DEF RefreshFails
  <1>9. CASE ~gaveUp /\ RefreshReturns /\ blocked' = IF retryCount' = 0 THEN 0 ELSE blocked
    <2>1. CASE RefreshFailure /\ UNCHANGED <<expiry, lifetime>>
      <3>1. blocked' = blocked
        BY <1>9, <1>t, <2>1 DEF RefreshFailure
      <3> QED BY <1>7, <1>9, <2>1, <3>1 DEF RefreshReturns
    <2>2. CASE /\ expiry' = offer /\ lifetime' = offer /\ retryCount' = 0
               /\ ScheduleRefresh(offer) /\ Answered
      BY <1>3, <2>2 DEF Answered
    <2> QED BY <1>9, <2>1, <2>2 DEF RefreshReturns
  <1>10. CASE GatewayIssues /\ blocked' = blocked
    BY <1>10, <1>i, <1>t DEF GatewayIssues, Goal
  \* The time that passes is taken from the delay, or from the attempt under way.
  <1>11. CASE Tick /\ blocked' = blocked
    <2>1. /\ UNCHANGED <<token, lifetime, timer, retryCount, flight, gaveUp, stopped>>
          /\ expiry' = Less1(expiry) /\ delay' = Less1(delay)
          /\ (timer => delay > 0)
          /\ (flight # "none" => age < MaxLatency /\ age' = age + 1)
      BY <1>11 DEF Tick, Elapse
    <2>2. expiry' + 1 >= expiry /\ (delay > 0 => delay = delay' + 1)
          /\ (flight # "none" => Attempt(age) = Attempt(age') + 1)
      BY <1>t, <2>1, LessIs, AttemptIs
    <2> QED BY <1>11, <1>i, <1>t, <2>1, <2>2 DEF Goal
  \* The time that a command takes is taken from what the retries do not need.
  <1>12. CASE /\ Elapse /\ blocked' = blocked + 1
              /\ (timer /\ delay = 0) \/ age >= MaxLatency
    <2>1. /\ UNCHANGED <<token, lifetime, timer, retryCount, flight, gaveUp, stopped>>
          /\ expiry' = Less1(expiry) /\ delay' = Less1(delay)
          /\ age' \in {age, age + 1}
      BY <1>12 DEF Elapse
    <2>2. expiry' + 1 >= expiry /\ delay' <= delay /\ Attempt(age') <= Attempt(age)
      <3>1. expiry' + 1 >= expiry /\ delay' <= delay
        BY <1>t, <2>1, LessIs
      <3>2. Attempt(age') <= Attempt(age)
        BY <1>t, <2>1, AttemptIs
      <3> QED BY <3>1, <3>2
    <2> QED BY <1>12, <1>i, <1>t, <2>1, <2>2 DEF Goal
  <1>13. CASE Forgotten
    BY <1>13 DEF Forgotten
  <1> QED BY <1>1, <1>2, <1>4, <1>5, <1>6, <1>8, <1>9, <1>10, <1>11, <1>12, <1>13 DEF ManagersStep

LEMMA InTimeInvariant ==
    ASSUME DefaultRetries
    PROVE  DaemonSpec => []InTime
  <1>1. DaemonInit => InTime
    BY DEF DaemonInit, Init, InTime
  <1>2. RequestInv /\ InTime /\ [DaemonNext]_dvars /\ RequestInv' => InTime'
    BY InTimeStep, ManagerMoves
  <1> QED BY <1>1, <1>2, RequestInvariant, PTL DEF DaemonSpec

\* A token that outlived the refresh margin when it was issued stays usable until it is
\* replaced or the daemon gives up: through three attempts that fail as late as they
\* can and the delays between them, as long as the commands that blocked the event loop
\* left the margin time for them.
THEOREM DaemonTokenStaysUsable ==
    ASSUME DefaultRetries
    PROVE  DaemonSpec => []TokenStaysUsable
  <1>1. RequestInv /\ InTime /\ NeverAbandoned => TokenStaysUsable
    <2> SUFFICES ASSUME RequestInv, InTime, NeverAbandoned, TimeForRetries,
                        token, lifetime >= RefreshBefore, ~gaveUp, ~stopped
                 PROVE  expiry > Skew
      BY DEF TokenStaysUsable, Usable
    <2>t. /\ expiry \in Nat /\ delay \in Nat /\ age \in Nat /\ blocked \in Nat
          /\ Reserve(retryCount) \in Nat /\ Reserve(retryCount) > Skew
          /\ Attempt(age) \in Nat /\ MaxLatency \in Nat /\ Skew \in Nat
          /\ RetryTime \in Nat /\ RefreshBefore \in Nat /\ RetryTime + blocked <= RefreshBefore
      <3>1. /\ expiry \in Nat /\ delay \in Nat /\ age \in Nat /\ blocked \in Nat
            /\ retryCount \in Nat
        BY DaemonAssumption DEF RequestInv, TypeOK, CountersOK
      <3>2. RetryTime + blocked <= RefreshBefore
        BY <3>1, TimeLeft DEF TimeForRetries
      <3> QED BY <3>1, <3>2, ReserveType, RetryTimeIs, AttemptIs, TokenManagerAssumption
    <2>1. CASE timer
      BY <2>1, <2>t DEF InTime
    <2>2. CASE flight = "refresh"
      BY <2>2, <2>t DEF InTime
    <2> QED BY <2>1, <2>2 DEF NeverAbandoned
  <1> QED BY <1>1, RequestInvariant, InTimeInvariant, RotationSurvives, PTL

-----------------------------------------------------------------------------
(* The token that the connection presented *)

LEMMA LinkStep ==
    ASSUME LifetimesPositive
    PROVE  /\ RequestInv /\ DaemonTypeOK /\ ExpiryInv /\ LinkInv
           /\ [DaemonNext]_dvars /\ ExpiryInv'
           => LinkInv'
  <1> SUFFICES ASSUME RequestInv, DaemonTypeOK, ExpiryInv, LinkInv, [DaemonNext]_dvars,
                      ExpiryInv'
               PROVE  LinkInv'
    OBVIOUS
  <1> USE TokenManagerAssumption, DaemonAssumption DEF LinkInv
  <1>t. expiry \in Nat /\ waited \in Nat /\ linkLife \in Nat /\ (stopped => fate # "none")
    BY DEF RequestInv, TypeOK, CountersOK, DaemonTypeOK
  \* A connection is opened with the token at hand.
  <1>1. ASSUME Usable', stopped' = stopped, ~stopped, linkLife' = serverLife'
        PROVE  LinkInv'
    BY <1>1 DEF ExpiryInv, Usable
  <1>2. ASSUME UNCHANGED <<link, linkLife, token, expiry, waited>>, ~stopped, ~stopped'
        PROVE  LinkInv'
    BY <1>2
  <1>3. ASSUME link' # "open", ~stopped'
        PROVE  LinkInv'
    BY <1>3
  <1>4. ASSUME Working, Alive PROVE ~stopped /\ fate = "none"
    BY <1>4, <1>t DEF Alive
  <1>5. ASSUME NEW failure, ConnectWith(failure), ~stopped, stopped' = stopped PROVE LinkInv'
    BY <1>1, <1>3, <1>5 DEF ConnectWith
  <1>6. CASE StartDaemon
    BY <1>2, <1>6 DEF StartDaemon, Start
  <1>7. ASSUME ~stopped, TokenAcquired PROVE LinkInv'
    <2>1. ~token /\ stopped' = stopped /\ link # "open"
      BY <1>7 DEF RequestInv, TokenAcquired, FetchReturns
    <2> QED BY <1>3, <1>5, <1>7, <2>1 DEF TokenAcquired
  <1>8. ASSUME ~stopped, TokenRefused \/ RemoveSocket \/ Bind \/ RefreshFailsOrStarts \/ GatewayAnswers
        PROVE  LinkInv'
    BY <1>2, <1>8 DEF TokenRefused, FetchFails, RemoveSocket, Bind, RefreshFailsOrStarts,
                      RefreshFails, RefreshStarts, RefreshFailure, GatewayAnswers, GatewayIssues
  <1>9. ASSUME ~stopped, Refresh PROVE LinkInv'
    <2>1. stopped' = stopped
      BY <1>9 DEF Refresh, RefreshReturns, RefreshFailure
    <2>2. CASE OnRefreshed
      BY <1>5, <1>9, <2>1, <2>2 DEF OnRefreshed
    <2>3. CASE retryCount' # 0 /\ UNCHANGED linkVars
      <3>1. UNCHANGED <<token, expiry, waited>>
        BY <1>9, <2>3 DEF Refresh, RefreshReturns
      <3> QED BY <1>2, <1>9, <2>1, <2>3, <3>1
    <2> QED BY <1>9, <2>2, <2>3 DEF Refresh
  <1>10. ASSUME ~stopped, LinkLost PROVE LinkInv'
    BY <1>3, <1>10 DEF LinkLost
  <1>11. ASSUME ~stopped, TokenNeeded PROVE LinkInv'
    <2>1. CASE Usable /\ linkLife' = serverLife
      BY <1>1, <1>11, <2>1 DEF TokenNeeded, Usable
    <2>2. CASE UNCHANGED linkVars
      BY <1>2, <1>11, <2>2 DEF TokenNeeded
    <2> QED BY <1>11, <2>1, <2>2 DEF TokenNeeded
  <1>12. ASSUME Shutdown PROVE LinkInv'
    BY <1>12 DEF Shutdown
  <1>13. ASSUME ~stopped, Elapse, LinkAges, link' = link PROVE LinkInv'
    BY <1>13, <1>t DEF Elapse, LinkAges, Less1
  <1>14. CASE Working
    <2>1. ~stopped
      BY <1>4, <1>14 DEF Working
    <2> QED BY <1>7, <1>8, <1>9, <1>10, <1>11, <1>12, <1>13, <1>14, <2>1
            DEF Working, Passes, Blocks, Tick
  <1>15. CASE Exit \/ Killed
    BY <1>3, <1>15 DEF Exit, Killed, Ends, Forgotten
  <1>16. CASE Registering \/ Intruding \/ UNCHANGED dvars
    BY <1>16 DEF Registering, Register, RegisterFails, OpenConfig, WriteConfig,
                 RegisterKilled, Intruding, OtherListens, OtherEnds
  <1> QED BY <1>6, <1>14, <1>15, <1>16 DEF DaemonNext

\* While a token that outlived the refresh margin is in use, the connection presented one
\* that the gateway still accepts: every rotation reconnects before the old token expires,
\* and no reconnect presents an older one; unless commands took the time of the retries,
\* or the answer that brought the token took longer than the clock skew margin.
THEOREM LinkStaysAccepted ==
    ASSUME DefaultRetries, LifetimesPositive
    PROVE  DaemonSpec => []LinkTokenIsAccepted
  <1>1. DaemonInit => LinkInv
    BY DEF DaemonInit, Init, LinkInv
  <1>2. DaemonSpec => []LinkInv
    BY <1>1, LinkStep, ExpiryInvariant, DaemonTypeCorrect, PTL DEF DaemonSpec
  <1>3. RequestInv /\ TokenStaysUsable /\ LinkInv /\ linkLife \in Nat => LinkTokenIsAccepted
    BY TokenManagerAssumption
       DEF RequestInv, TypeOK, CountersOK, TokenStaysUsable, Usable, LinkInv,
           LinkTokenIsAccepted
  <1>4. DaemonTypeOK => linkLife \in Nat
    BY DEF DaemonTypeOK
  <1> QED BY <1>2, <1>3, <1>4, RequestInvariant, DaemonTokenStaysUsable, DaemonTypeCorrect, PTL
=============================================================================
