-------------------------------- MODULE Daemon --------------------------------
(***************************************************************************)
(* The life of a daemon process: startDaemon() of                          *)
(* apps/host-agent-app/src/daemon.ts and its main in index.ts, around the  *)
(* token that TokenManager keeps, with the files it shares with others:    *)
(* the configuration that workspace:register writes, and the socket of the *)
(* local channel.                                                          *)
(*                                                                         *)
(* The connection to the gateway is reduced to what the token decides:     *)
(* GatewayClient.tla has its sockets.  Search and shell commands run with  *)
(* execSync() and stop the event loop: time passes, and nothing else does. *)
(***************************************************************************)
EXTENDS TokenManager

CONSTANT MaxBlocked    \* bound: time that commands take of one token; the code has none

ASSUME DaemonAssumption == MaxBlocked \in Nat

VARIABLES
    phase,       \* how far startDaemon() has come
    fate,        \* why the process is about to end
    link,        \* the WebSocket, or the reconnect timer, of GatewayClient
    linkLife,    \* time for which the gateway accepts the token that link presented
    blocked,     \* history: time that commands took since the token was issued
    config,      \* ~/.kb/agent.json
    cli,         \* where a workspace:register command is
    url,         \* the kind of gateway URL it was given
    registered,  \* history: the URL of the last registration that completed
    torn,        \* history: a registration since was killed while it wrote
    socketFile,  \* who listens on ~/.kb/agent.sock
    other,       \* is a second daemon running?
    intruded     \* history: one was, during the life of this process

linkVars == <<link, linkLife>>
processVars == <<phase, fate, blocked>>
configVars == <<config, cli, url, registered, torn>>
socketVars == <<socketFile, other, intruded>>
dvars == <<vars, processVars, linkVars, configVars, socketVars>>

Urls == {"secure", "insecure"}

\* Every variable keeps its type, the manager's included.
DaemonTypeOK ==
    /\ TypeOK
    /\ phase \in {"down", "starting", "listening", "binding", "running"}
    /\ fate \in {"none", "config", "fatal", "listen", "crash", "shutdown"}
    /\ link \in {"none", "open", "waiting"}
    /\ linkLife \in Nat /\ blocked \in 0..MaxBlocked
    /\ config \in Urls \cup {"absent", "partial"}
    /\ cli \in {"idle", "asking", "writing"} /\ url \in Urls
    /\ registered \in Urls \cup {"none"}
    /\ socketFile \in {"absent", "stale", "ours", "other"}
    /\ {torn, other, intruded} \subseteq BOOLEAN

DaemonInit ==
    /\ Init
    /\ phase = "down" /\ fate = "none" /\ blocked = 0
    /\ link = "none" /\ linkLife = 0
    /\ config = "absent" /\ cli = "idle" /\ url = "secure"
    /\ registered = "none" /\ torn = FALSE
    /\ socketFile = "absent" /\ other = FALSE /\ intruded = FALSE

\* The event loop of the process runs.
Alive == phase # "down" /\ fate = "none" /\ ~gaveUp

-----------------------------------------------------------------------------
(* startDaemon() *)

\* The file is there, is JSON and passes AgentConfigSchema.
LoadConfig == config = "secure"

StartDaemon ==
    /\ phase = "down"
    /\ phase' = "starting"
    /\ intruded' = other
    /\ \/ LoadConfig /\ Start /\ UNCHANGED fate
       \/ ~LoadConfig /\ fate' = "config" /\ UNCHANGED vars
    /\ UNCHANGED <<blocked, linkVars, configVars, socketFile, other>>

\* connect() right after a token was stored: its getter throws for one of short life.
ConnectWith(failure) ==
    \/ /\ Usable'
       /\ link' = "open" /\ linkLife' = serverLife'
       /\ UNCHANGED fate
    \/ /\ ~Usable'
       /\ link' = "none" /\ linkLife' = 0
       /\ fate' = failure

\* tokenManager.start() resolves, and connect() follows.
TokenAcquired ==
    /\ phase = "starting"
    /\ FetchReturns
    /\ \/ /\ ~gaveUp'
          /\ phase' = "listening"
          /\ ConnectWith("fatal")
       \/ gaveUp' /\ UNCHANGED <<phase, fate, linkVars>>
    /\ UNCHANGED <<blocked, configVars, socketVars>>

\* start() rejects.
TokenRefused ==
    /\ phase = "starting"
    /\ FetchFails
    /\ UNCHANGED <<processVars, linkVars, configVars, socketVars>>

Unlink_KeepsFile == UNCHANGED socketFile

\* listen() removes the file, whoever listens on it.
Unlink == socketFile' = "absent"

RemoveSocket ==
    /\ phase = "listening"
    /\ phase' = "binding"
    /\ Unlink
    /\ UNCHANGED <<vars, fate, blocked, linkVars, configVars, other, intruded>>

Bind ==
    /\ phase = "binding"
    /\ \/ socketFile = "absent" /\ socketFile' = "ours" /\ phase' = "running" /\ UNCHANGED fate
       \/ socketFile # "absent" /\ fate' = "listen" /\ UNCHANGED <<phase, socketFile>>
    /\ UNCHANGED <<vars, blocked, linkVars, configVars, other, intruded>>

-----------------------------------------------------------------------------
(* The running process *)

OnRefreshed_LinkKept == UNCHANGED <<fate, linkVars>>

\* onRefreshed(): stop() and connect(), whose rejection nobody handles.
OnRefreshed == ConnectWith("crash")

Refresh ==
    /\ RefreshReturns
    /\ \/ retryCount' = 0 /\ blocked' = 0 /\ OnRefreshed
       \/ retryCount' # 0 /\ UNCHANGED <<blocked, fate, linkVars>>
    /\ UNCHANGED <<phase, configVars, socketVars>>

RefreshFailsOrStarts ==
    /\ RefreshFails \/ RefreshStarts
    /\ UNCHANGED <<processVars, linkVars, configVars, socketVars>>

\* The socket closes; onClose() schedules a reconnect.
LinkLost ==
    /\ link = "open"
    /\ link' = "waiting" /\ linkLife' = 0
    /\ UNCHANGED <<vars, processVars, configVars, socketVars>>

\* The reconnect timer fires; doConnect() asks for the token, and so do execute and
\* cancel requests of the local channel.
TokenNeeded ==
    /\ \/ /\ link = "waiting" /\ Usable
          /\ link' = "open" /\ linkLife' = serverLife
          /\ UNCHANGED fate
       \/ /\ link = "waiting" \/ phase = "running"
          /\ ~Usable
          /\ fate' = "crash"
          /\ UNCHANGED linkVars
    /\ UNCHANGED <<vars, phase, blocked, configVars, socketVars>>

\* SIGTERM or SIGINT; the handlers are installed once startDaemon() is through.
Shutdown ==
    /\ phase = "running"
    /\ Stop
    /\ fate' = "shutdown"
    /\ link' = "none" /\ linkLife' = 0
    /\ socketFile' = "absent"
    /\ UNCHANGED <<phase, blocked, configVars, other, intruded>>

-----------------------------------------------------------------------------
(* The end of the process *)

\* The state of the token manager is gone.
Forgotten ==
    /\ token' = FALSE /\ expiry' = 0 /\ lifetime' = 0 /\ serverLife' = 0 /\ waited' = 0
    /\ timer' = FALSE /\ delay' = 0 /\ retryCount' = 0
    /\ flight' = "none" /\ age' = 0
    /\ answered' = FALSE /\ offer' = 0 /\ offerLife' = 0
    /\ gaveUp' = FALSE /\ stopped' = FALSE

\* What was in memory is gone; a socket file that nobody closed stays.
Ends ==
    /\ Forgotten
    /\ phase' = "down" /\ fate' = "none" /\ blocked' = 0
    /\ link' = "none" /\ linkLife' = 0
    /\ socketFile' = IF socketFile = "ours" THEN "stale" ELSE socketFile
    /\ intruded' = FALSE
    /\ UNCHANGED <<configVars, other>>

\* process.exit(), after onRefreshFailed(), a rejection of startDaemon(), an
\* unhandled rejection or shutdown().
Exit ==
    /\ phase # "down" /\ (fate # "none" \/ gaveUp)
    /\ Ends

Killed == phase # "down" /\ Ends

-----------------------------------------------------------------------------
(* workspace:register *)

Register(u) ==
    /\ cli = "idle"
    /\ cli' = "asking" /\ url' = u
    /\ UNCHANGED <<vars, processVars, linkVars, config, registered, torn, socketVars>>

\* The gateway is out of reach or refuses, or its answer is not valid.
RegisterFails ==
    /\ cli = "asking"
    /\ cli' = "idle" /\ url' = "secure"
    /\ UNCHANGED <<vars, processVars, linkVars, config, registered, torn, socketVars>>

\* writeFile() opens the file, which empties it, ...
OpenConfig ==
    /\ cli = "asking"
    /\ cli' = "writing" /\ config' = "partial"
    /\ UNCHANGED <<vars, processVars, linkVars, url, registered, torn, socketVars>>

\* ... and writes it.
WriteConfig ==
    /\ cli = "writing"
    /\ cli' = "idle" /\ url' = "secure"
    /\ config' = url /\ registered' = url /\ torn' = FALSE
    /\ UNCHANGED <<vars, processVars, linkVars, socketVars>>

RegisterKilled ==
    /\ cli = "writing"
    /\ cli' = "idle" /\ url' = "secure" /\ torn' = TRUE
    /\ UNCHANGED <<vars, processVars, linkVars, config, registered, socketVars>>

-----------------------------------------------------------------------------
(* A second daemon of the same user, and time *)

OtherListens ==
    /\ ~other
    /\ other' = TRUE /\ socketFile' = "other"
    /\ intruded' = (phase # "down")
    /\ UNCHANGED <<vars, processVars, linkVars, configVars>>

\* It closes its server, which removes the file, also when the file is ours by now; or
\* it is killed.
OtherEnds ==
    /\ other /\ other' = FALSE
    /\ \/ socketFile' = "absent"
       \/ socketFile' = IF socketFile = "other" THEN "stale" ELSE socketFile
    /\ UNCHANGED <<vars, processVars, linkVars, configVars, intruded>>

LinkAges == linkLife' = Less1(linkLife)

Passes ==
    /\ Tick /\ LinkAges
    /\ UNCHANGED <<processVars, link, configVars, socketVars>>

\* A search or a command of the gateway runs, while a timer or an answer waits.
Blocks ==
    /\ link = "open" /\ blocked < MaxBlocked
    /\ (timer /\ delay = 0) \/ age >= MaxLatency
    /\ Elapse /\ LinkAges
    /\ blocked' = blocked + 1
    /\ UNCHANGED <<phase, fate, link, configVars, socketVars>>

-----------------------------------------------------------------------------

GatewayAnswers == GatewayIssues /\ UNCHANGED <<processVars, linkVars, configVars, socketVars>>

Working ==
    /\ Alive
    /\ \/ TokenAcquired \/ TokenRefused \/ RemoveSocket \/ Bind
       \/ Refresh \/ RefreshFailsOrStarts \/ GatewayAnswers
       \/ LinkLost \/ TokenNeeded \/ Shutdown \/ Passes \/ Blocks

\* The file is read at the start only: a registration beside a process that runs is
\* like one before its start or after its end, and one that has not opened the file when
\* the process starts is like a later one.
Registering ==
    /\ phase = "down"
    /\ (\E u \in Urls : Register(u)) \/ RegisterFails \/ OpenConfig \/ WriteConfig \/ RegisterKilled

\* So is a second daemon that comes or goes while nobody listens or unlinks here.
Intruding ==
    /\ phase \in {"down", "listening", "binding"}
    /\ OtherListens \/ OtherEnds

DaemonNext == (cli # "asking" /\ StartDaemon) \/ Working \/ Exit \/ Killed \/ Registering \/ Intruding

DaemonSpec == DaemonInit /\ [][DaemonNext]_dvars

\* Time passes, timers fire, requests settle within MaxLatency and process.exit() ends
\* the process.
DaemonFairSpec ==
    /\ DaemonSpec
    /\ WF_dvars(Alive /\ RefreshFailsOrStarts)
    /\ WF_dvars(Alive /\ Passes)
    /\ WF_dvars(Exit)

-----------------------------------------------------------------------------
(* Properties *)

\* What commands took of the refresh margin leaves time for three attempts, the two
\* delays between them (RetryDelay and twice that) and the margin of the getter.
TimeForRetries ==
    3 * MaxLatency + 3 * RetryDelay + Skew + blocked < RefreshBefore

\* Until it gives up, a manager whose token outlived the refresh margin when it was
\* issued has a usable one, through all retries, as long as commands leave them time.
TokenStaysUsable ==
    token /\ lifetime >= RefreshBefore /\ TimeForRetries /\ ~gaveUp /\ ~stopped => Usable

\* As long as that is so, and the token's answer took no longer than the margin for the
\* clock skew, the connection was opened with a token that the gateway accepts: rotation
\* reconnects before the old one expires, and no reconnect presents an older one.
LinkTokenIsAccepted ==
    link = "open" /\ lifetime >= RefreshBefore /\ TimeForRetries /\ waited <= Skew /\ ~gaveUp
        => linkLife > 0

\* A start is refused for a reason that outlives no registration and no crash: the
\* configuration only before the first registration over a secure URL, or when a later
\* one is writing or was killed; the socket only when a second daemon runs.
StartFailsForCause ==
    [][/\ fate # "config" /\ fate' = "config"
            => registered # "secure" \/ torn \/ cli = "writing"
       /\ fate # "listen" /\ fate' = "listen" => intruded]_dvars
=============================================================================
