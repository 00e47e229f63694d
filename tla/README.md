# Specifications of kb-labs-host-agent

TLA+ models of the workspace agent (the daemon that connects a developer's machine
to the KB Labs gateway), the TLC runs that check them, and TLAPS proofs. Every
definition is translated from the TypeScript source; `PROJECT.json` maps each one to its
lines. Paths below are relative to the repository.

Contents: 1 the system, 2 the modules, 3 the runs, 4 fairness, 5 the proofs, 6 where
the code differs from what it says, 7 what is not modelled, 8 the plan.

## 1. The system

| Component | Source | State | Operations | Hard part |
|---|---|---|---|---|
| GatewayClient, connection | `packages/host-agent-core/src/ws/gateway-client.ts` | `ws`, `stopped`, `backoffMs`, two timers, the hello timeouts in closures | connect, stop, socket events, reconnect, heartbeat | events of an old socket reach handlers that work on the new one |
| GatewayClient, reverse adapter calls | same | `pendingAdapterCalls`, a timeout per call | sendAdapterCall, two answers, timeout, disconnect | an answer, a timeout and a disconnect race |
| GatewayClient, HTTP execute tunnel | same | one fetch and one decoder per execution | executeTunnel, doExecuteHttp | a stream that breaks or ends anywhere |
| GatewayClient, capability calls | same | none beyond the socket | handleCall | the reply goes out on whatever socket is current |
| TokenManager | `packages/host-agent-core/src/token/token-manager.ts` | tokens, expiry, timer, retry count | start, getter, doRefresh, stop | retries against a token that runs out |
| Daemon | `apps/host-agent-app/src/daemon.ts`, `index.ts` | `connected`, `wsReconnect`, the configuration file, the socket file | startDaemon, rotation, shutdown, exit | a rotation is `stop(); connect()` without waiting; a start after a crash |
| ExecutionHandler | `apps/host-agent-app/src/handlers/execution-handler.ts` | journal, cleanup interval, a timeout per run | execute, cleanupJournal, stop | duplicates and cleanup between five awaits |
| LocalPluginResolver | `.../handlers/local-plugin-resolver.ts` | cache, scanned | resolve, listPlugins, rescan | several scans fill one cache |
| IpcServer | `packages/host-agent-core/src/ipc/ipc-server.ts` | none beyond the transport | handleMessage, handleExecute | replies go to the last connection |
| Local transports | `packages/host-agent-transport/src/` | one `socket` | listen, connect, send, handleConnection | a second connection replaces the first |
| NdjsonFramer | `.../ndjson-framer.ts` | buffer | feed, reset, writeNdjson | chunk boundaries, byte limit |
| HostAgentClient | `packages/host-agent-client/src/client.ts` | `pending` map, generator locals, timeouts | connect, status, execute, close | a generator that waits for a callback |
| GatewayTransport | `packages/host-agent-core/src/transport/gateway-transport.ts` | closed flag | send, close | hands over to sendAdapterCall |
| Filesystem, search, shell handlers | `packages/host-agent-fs/src/` | none; the workspace is shared | readFile, writeFile, listDir, stat, exists, fetchWorkspace, grep, glob, exec | overlapping calls on one file, a tree that changes under a snapshot, commands that block the event loop |
| CLI, contracts | `packages/host-agent-cli`, `packages/host-agent-contracts` | `~/.kb/agent.json` | register, status, list; schemas | a configuration written in place |

How they interact. The daemon starts the TokenManager, connects the GatewayClient with
the token, and starts the IpcServer. A refreshed token makes the daemon call
`stop(); connect()` on the client. The gateway sends capability calls; those for
`filesystem`, `search` and `shell` go to the handlers of host-agent-fs, those for
`execution` go to the ExecutionHandler, which resolves the plugin with the
LocalPluginResolver and runs it with a GatewayTransport, whose calls are reverse adapter calls
of the GatewayClient. A CLI process talks NDJSON to the IpcServer over one of three
transports; an execute request goes through the HTTP tunnel of the GatewayClient, and its
events come back the same way.

All of the daemon runs on one Node event loop, so an action of a model is one macrotask,
or the stretch between two awaits of an async function. Interleaving comes from the order of
socket events, timers and continuations.

## 2. The modules

| Module | Models | Lines of note |
|---|---|---|
| `GatewayClient` | connection and reverse adapter calls | gateway-client.ts 74-132, 260-461; daemon.ts 101-125 |
| `AdapterRpc` | abstract: what sendAdapterCall() promises | implemented by `GatewayClient` (`AdapterRpcSpec`) |
| `CapabilityCalls` | calls of the gateway: handleCall and the handlers of host-agent-fs over a shared workspace | gateway-client.ts 388-411; filesystem-, search-, shell-handler.ts |
| `TokenManager` | the token and its rotation, with time | token-manager.ts |
| `Daemon` | EXTENDS `TokenManager`: whole lives of the process, with configuration, registration, socket file, blocking commands, and the token that the connection presented | daemon.ts, index.ts, register.ts, unix-socket.ts 17-54 |
| `ExecutionHandler` | executions and their journal | execution-handler.ts 49-257 |
| `Ipc` | CLI client, transport, IpcServer and HTTP tunnel, composed | client.ts, ipc-server.ts, unix-socket.ts, gateway-client.ts 142-241 |
| `ExecutionStream` | abstract: what execute() of the client promises | implemented by `Ipc` (`ExecutionStreamSpec`) |
| `PluginResolver` | scans, cache and resolve() | local-plugin-resolver.ts |
| `Ndjson` | framing | ndjson-framer.ts |
| `MC*` | constants for TLC | |
| `*_proofs` | theorems | section 5 |

**GatewayClient.** A WebSocket object is a member of `Sockets` with a ready state. An
object that is closed and that no pending callback mentions is reused for the next `new
WebSocket`, so that the number of sockets bounds how many overlap and not how many
connections there are. `ws` is `this.ws`. `handshake[s]` are the `once('message')` listeners that
onOpen() calls attached to socket `s`: onOpen() uses `this.ws`, which may be another socket than
the one that opened. `helloTimeout` are pending hello timeouts by the socket whose `open`
started them, each of which closes `this.ws` at the time it fires. `dueFirst` keeps the
one order of timers the code guarantees: see section 4. Actions: `Connect`, `Stop`,
`RotateToken` (the daemon's `stop(); connect()`), `ReconnectTimerFires`, `OnOpen`,
`ReceiveConnected`, `ReceiveUnexpected`, `HelloTimeoutFires`, `CloseCompletes`,
`ConnectionLost`, `SendAdapterCall`, `ReceiveAnswer`, `AdapterCallTimesOut`, and for the gateway
`GatewayAnswers`. An uncaught throw (a lapsed token in the reconnect timer) sets `exited`.

**TokenManager.** `Tick` passes one unit of time (30 s, RETRY_DELAY_MS); a due timer fires
before time passes, and a request settles within `MaxLatency`. `expiry` is what the
client believes, `serverLife` what the gateway accepts; the difference is the time the
answer took to be read, which `waited` remembers for the properties. setTimeout() is modelled with its limit: a delay above `MaxDelay` fires at once.

**Daemon.** Every action is one of `TokenManager` with what the process does beside it.
`phase` is how far startDaemon() has come, `fate` why the process is about to end, `link` and
`linkLife` the connection and the life that is left of the token it presented. `Blocks` is a
search or command under execSync(): time passes although a timer or an answer is due. The code
sets no limit to that: the timeout of a command is the caller's, and commands may follow each
other. `MaxBlocked` units per token are a bound of the model; `blocked` counts them, and no
property relies on the bound (section 3). `Ends` forgets the memory and leaves the socket file
behind. `OpenConfig` and `WriteConfig` are the two halves of register's writeFile().
`OtherListens`, `OtherEnds` are a second daemon of the same user, which takes the socket file
over and removes it when it closes. `registered`, `torn`, `intruded` are history. A
registration is taken only while the process is down and a second daemon only while it is down or
about to listen: at other times neither can be told from one before or after, because the
process reads the configuration once and touches the socket file twice.

**CapabilityCalls.** `todo[c]` are the file operations that the handler of a call has
still to await; a snapshot puts those of the entries it saw in front. `session` is the
connection that `this.ws` has open, and a reply goes there, whichever session asked. writeFile() is two
operations: the open empties the file, the write fills it, and what overlapping writes leave is one
of them or a mixture. Search and exec() run under execSync(), so that they are one step; rg,
grep and find are a number of matching lines per file, or an exit status; those that --max-count lets
pass are a set of lines. grep() keeps any part of them, because a line of output that
is not `file:line:text` is skipped without a word; glob() gets any part of the files with
status 0, because the status of `find ... | head` is that of head. `dropped` records either.
exists() of a path that is not allowed answers false, as a success. `IsTree` says that directories form a tree, which is what a walk
needs to reach every file. `sole`, `failed` and
what `search` holds are history.

**ExecutionHandler.** A request is at one of five awaits (`stage`). The journal maps an
execution to absent, started or completed with an outcome; `recent` are executions that
started within the TTL. Both modes are checked (`subprocess` is chosen initially). `Restart`
drops the memory of the process.

**Ipc.** Two mailboxes per connection keep the order of messages; `socket` is the one
socket of the transport, that of the last connection accepted. A generator is suspended at a yield,
awaiting `notify()`, or ended; `pending`, `asked` and `timer` are the map of the client and its
timeouts. An execute request that fails its schema is dropped with a warning. `tunnel` is the HTTP request of an execution. The refinement of
`ExecutionStream` maps `queue` to what was received, the generator's end to `returned`, and a
tunnel that has no further event to `finished`.

**PluginResolver.** A scan is the list of file operations it still has to await; a
listing adds those of the entries it saw. A directory is a place `[base, sub, package]`: a
workspace path, one of its `Subdirs`, one of their `Packages`, as deep as scanDir() goes. What a
caller has read from a manifest (`found`) is cached in a later step, as in the code, where an
await is between. Requests look at the cache once (`LookUp`). The workspace may change between
any two operations. `changed`, `crossed` and `current` are history variables for the properties only.

**Ndjson.** A text is its UTF-8 bytes: characters of one and of two bytes, a newline, and a mark
that makes a line unparseable. `Feed(n)` is a `data` event with the next `n` bytes, and decodes
them alone, as `chunk.toString()` does: a half character at an end of the chunk becomes U+FFFD, of
three bytes. A line and a message carry the place where they end, so that `sent` and `emitted` are
sets that can be compared, and the places are their order. `split` and `cut` are history.

## 3. The runs

| Run | Checks | Bounds and why they are enough |
|---|---|---|
| `gc` | types; never stranded; stopped stays stopped; call bookkeeping; calls are carried; until the first rotation one connection, timed, greeted and beating; refinement of `AdapterRpc`; every call settles; the client recovers | Three sockets: an old one closing, the current one, and one more from a reconnect. Two faults and one stop() or rotation: two disturbances overlap with a restart, and all of the safety is proved for every bound (section 5). One call, because calls influence each other only through a disconnect, which treats all alike. The backoff grows once to its cap. No symmetry, which liveness forbids. |
| `gc_bug_reject` | violation, section 6 | |
| `caps` | one answer over one session; acknowledged writes; snapshots; searches that are cut off or fail; every call is answered | two calls of fourteen requests, in any order and overlap: write against write, read, snapshot, search and command. Four nodes below a root: a file, a file and a denied one in a directory, an excluded directory; contents absent, large, binary, text. Up to three hits per file against a limit of two, so that a file alone and two together reach and pass it. Two sessions |
| `daemon` | rotation neither forgotten nor doubled; usable through all retries; handed-out tokens accepted; the connection's token accepted; a lapse is resolved; a start fails for cause | units of 30 s; margin, skew and retries are the defaults of the code (10, 2, 3). Lifetimes below the skew, between skew and margin, at and above the margin, and one that is refused. Two units of commands per token: with an answer of one unit that is more than the skew, and with the retries more than the margin, so that the conditions of the properties are met and missed |
| `tm_bug_delay` | violation, section 6 | a lifetime whose delay is above `MaxDelay` |
| `eh` | one run at a time, journalled; at most once per TTL; faithful replay; timeout covers run; every request settles | three requests for one execution: an owner, a duplicate and a retry; executions share nothing but the cleanup. One restart |
| `eh_bug_stuck` | violation, section 6 | |
| `ipc` | refinement of `ExecutionStream`; the last connection loses nothing; verdict final; every call ends | two clients, so that a connection is replaced; an execute and a status call, on one client or on two; two events, so that order and gaps show. `OneClientExecutes` fixes which of the two alike clients executes; a call keeps its owner |
| `ipc_bug_caller` | violation, section 6 | |
| `plr` | what was in place is found; concurrent scans leave the cache of one scan | three requests of any kind, a tree three levels deep, an id given twice, a broken build, one edit at any time |
| `ndjson` | chunks do not matter; only long lines are cut off | four lines, chunks of one to four bytes, a buffer of eight: a line of exactly buffer minus chunk and one that is longer |
| `ndjson_bug` | violation, section 6 | |

`CHECK_DEADLOCK FALSE` is in every configuration because each system may stop: calls,
requests and lines are bounded and used once, a process may exit, a manager may give up.

Some properties carry a condition, each because the code does not give more: SingleConnection
and ConnectionIsWatched speak of the time until the first rotation
(`restarts = 0`), ReplayIsFaithful excepts an empty error message, TokenStaysUsable
and LinkTokenIsAccepted speak of lifetimes of at least the refresh margin and of histories in
which commands left the retries their time (`TimeForRetries`), UsableTokenIsAccepted and
LinkTokenIsAccepted of tokens whose answer was read within the skew (`waited <= Skew`),
AckedWriteIsOnDisk and FetchCoversQuietFiles of files that nobody else changed since the call
arrived (and the latter of text files), CutsAreTold of searches that lost no line of the
command's output and excepts the failures of glob() and exec(), EveryCallAnswered calls whose
session ended, PresentIsFound of histories in which no
rescan began beside another request, the properties of `Ndjson` of streams that are cut between
characters. The exceptions are described in section 6.

## 4. Fairness

Assumed only where Node gives it: timers fire, socket events that are there are delivered,
and promises resume. Never assumed: that the gateway answers an adapter call, that
connections stay up, that stop(), a rotation, an edit or a new call happens, or that a daemon
reads a request.

- `gc`: weak fairness of the timers and of delivery, also of the gateway's
  answer to a hello (`ReceiveConnected`) on connections that no fault hit. After a restart,
  hello timeouts of earlier sockets may still close the new connection; that this ends needs
  the growing backoff: the 60 s cap is longer than the 5 s of the hello timeout and the 30 s that
  ws takes to give up a closing handshake (`SettleMs <= BackoffMax`). `dueFirst` records
  the sockets whose timeout or close is due before a reconnect of that length. The mutant with
  constant backoff does not recover.
- `eh`: the awaits before the run settle, the timeout fires, and a run whose signal
  aborted ends. A plugin need not end by itself.
- `daemon`: time passes, a due timer fires, a request settles within `MaxLatency`, and process.exit() ends
  the process.
- `caps`: the operating system completes every file operation, one way or the other. A file
  operation that hangs (a dead network mount) leaves its call without an answer; the code has no timeout there.
- `ipc`: the timeouts of the client, its promises, and callers that go on asking
  (`Pull`). Nothing of daemon, network and gateway.

## 5. The proofs

TLAPS proves, for every value of the constants that meets the named assumptions of the modules:

| Theorem | Statement | Inductive invariant |
|---|---|---|
| GatewayClient `TypeCorrect` | `[]TypeOK` | itself, in the parts counters, flags, state |
| `ClientNeverStranded`, `StopIsFinal` | `[]NeverStranded`, `[]StoppedNeverReconnects` | `ReconnectInv`: both, and that a stopped client has no `ws`, because the close of a socket asks `stopped` before it schedules the reconnect |
| `BookkeepingAgrees`, `NoCallOutlivesItsConnection` | `[]CallBookkeeping`, `[]PendingCallIsCarried` | `CallInv`: pending map, timeouts and promises agree, and answers in flight belong to calls a live socket carries |
| `ImplementsAdapterRpc` | `Spec => AdapterRpcSpec` | `CallInv`; each step is a step of `AdapterRpc` or stutters |
| `OneConnectionUntilRotation` | `[]SingleConnection` | `SingleInv`: also that a reconnect is pending only when every socket has closed |
| `WatchedUntilRotation` | `[]ConnectionIsWatched` | `WatchInv`: until the first restart only the 'open' of a socket attaches a listener to it, the heartbeat runs exactly while the daemon is connected, and whoever is connected has greeted |
| ExecutionHandler `TypeCorrect`, `OneRunAtATime`, `TimeoutEndsWithRun`, `AtMostOnce` | `[]TypeOK`, `[]OneJournalledOwner`, `[]TimeoutCoversRun`, `AtMostOncePerTtl` | `JournalInv`: a request under way owns a "started" entry, and a recent execution has an entry |
| `ReplaysAreFaithful` | `ReplayIsFaithful` | `RecordInv`: a completed entry tells how the last run of its execution ended |
| TokenManager (in `Daemon_proofs`) `RotationNeverAbandoned` | `[]NeverAbandoned` | itself |
| `HandedOutTokenIsAccepted` | `[]UsableTokenIsAccepted`, if `LifetimesPositive` | `FlightInv`, `LifeInv`: `expiry <= serverLife + waited`, through the age of an answer in flight |
| Daemon `RotationSurvives` | `DaemonSpec => []NeverAbandoned` | itself: a step of a running process is one of `TokenManager` or lets time pass (`WorkIsManagersOrElapse`), and an end forgets the token |
| `StartsUnlessForCause` | `DaemonSpec => StartFailsForCause` | `StartInv`: a completed registration is in the file unless a later one took it out, and between unlink and bind only a second daemon puts a socket file there |
| `DaemonTypeCorrect` | `[]DaemonTypeOK`, if `DefaultRetries` | `RequestInv`: one request at a time, answered once, overdue by no more than what commands took |
| `DaemonTokenIsAccepted` | `[]UsableTokenIsAccepted`, if also `LifetimesPositive` | `ExpiryInv`: `expiry <= serverLife + waited`, with commands delaying the reading by any time |
| `DaemonTokenStaysUsable` | `[]TokenStaysUsable`, if `DefaultRetries` | `InTime`: as long as commands leave the time, after the k-th failure the token has what the delays and attempts to come may take (`Reserve(k)`), and the margin of the getter |
| `LinkStaysAccepted` | `[]LinkTokenIsAccepted`, if both | `LinkInv`: the connection presented a token no older than the one the manager counts on |
| CapabilityCalls `TypeCorrect` | `[]TypeOK` | `TypeInv`: a pending operation is on a path that was asked for or listed, and only writeFile() opens and writes |
| `AnsweredOnce` | `[]OneAnswer` | `AnswerInv`: only a handler that has ended has replied, so that each reply is the first (`FirstReply`) |
| `AcknowledgedWrites` | `[]AckedWriteIsOnDisk` | `WriteInv`: a write that is alone with its file finds it empty, as its open left it |
| `SnapshotsAreComplete` | `[]FetchCoversQuietFiles` | `FetchInv`: a readable file that was left alone is collected, or an operation on it or on a directory above it is still in `todo` (`WayToFile` goes down the tree) |
| `SearchCutsAreTold` | `[]CutsAreTold` | `HiddenInv`; a file with more than --max-count lines fills the answer by itself (`FullFile`) |
| ExecutionStream `InOrder`, `Complete` | `[]EventsInOrder`, `[]DoneMeansComplete` of the abstract specification | what arrived is the first events, and success is reported only when they are all |
| Ipc `TypeCorrect` | `[]TypeOK` | `IpcInv`, the invariant of the next rows: that a generator yields no more than it was sent needs all of it |
| `VerdictStays` | `VerdictIsFinal` | `VerdictInv`: a call with a reported end has neither an entry nor a timeout that could change it |
| `NoEventIsLost` | `[]LatestLosesNothing` | `WireInv`: a request is sent once, on the connection of its caller (`RequestOnce`), and the events in flight for a pending call follow those that it has queued, without a gap as long as its connection is the last (`Streams`) |
| `ImplementsExecutionStream`, `SuccessMeansComplete` | `Spec => ExecutionStreamSpec`, `DoneMeansComplete` of it | `IpcInv`; each step is a step of `ExecutionStream` or stutters (`StreamMaps`), and a success comes after all events, which the instance of `ExecutionStream_proofs` turns into the promise |
| PluginResolver `TypeCorrect` | `[]TypeOK` | `TypeInv`: what a scan has still to do is of its tree and in its order |
| `PresentPluginsAreFound` | `[]PresentIsFound` | `PresentInv`, `ReadInv`: a scan that has not ended still has before it, or has just read, every lasting plugin that is not cached |
| `ConcurrentScansAgree` | `[]CacheMatchesDisk` | `CacheInv`: every plugin is ahead of or behind each scan, and the last directory that gives it is cached or ahead of some scan |
| Ndjson `TypeCorrect` | `[]TypeOK` | itself |
| `ChunksMakeNoDifference` | `[]ChunksDoNotMatter` | `FramerInv`: buffer and wire together are, byte for byte, the lines that are not split off yet (`StreamInv`), and the messages of all others were emitted (`EmitInv`) |
| `ShortLinesAreSafe` | `[]OnlyLongLinesDestroy` | the same; what the buffer holds is the beginning of one line (`BufferInLine`) |

The assumptions are those the modules declare (`GatewayClientAssumption`,
`TokenManagerAssumption`, ...), which TLC evaluates in the runs, and for the tokens these hypotheses:

- `LifetimesPositive`: no lifetime of zero, which TokenPairSchema of the daemon refuses.
- `DefaultRetries`: the daemon leaves maxRefreshRetries at 3.

Nothing is assumed of how long answers and commands take: the theorems hold for every
`MaxLatency` and `MaxBlocked`. The properties say of which histories they speak. `waited <=
Skew` is what the skew of the getter (60 s) is for; without it the getter may hand out a token
that the gateway refuses (section 6). `TimeForRetries` says that three
delays, three answers, the skew and the commands that ran since the token was stored fit into
the refresh margin. With the numbers of the code (300 s, 30 s, 60 s) this leaves 150 s for answers and commands.

The theorems about `TokenManager` are in `Daemon_proofs`, whose module extends it.

Every invariant and every action property that a run expects to hold is proved, and so are both
refinements. Model-checked only is liveness (CallsSettle, Recovers, LapseIsResolved,
EveryRequestSettles, EveryCallEnds, EveryCallAnswered), which needs fairness and ENABLED and is out
of the prover's reach. The violations of section 6 are counterexamples of TLC.

Some definitions have the form they have for the proofs: the lines of a search and the messages of a stream
are sets, a recursion over directories is a list of operations, and the tree of the resolver has
a fixed depth, so that no proof needs an induction over data.

## 6. Where the code differs from what it says

Shown by a run that finds the violation:

- `gc_bug_reject`: the close of the old socket after a rotation rejects calls of the new one.
- `eh_bug_stuck`: a request whose plugin does not resolve leaves "started" in the journal for good.
- `tm_bug_delay`: a lifetime above 25 days plus the margin refreshes without delay, again and again.
- `ipc_bug_caller`: with a second CLI process connected, replies go to the wrong one.
- `ndjson_bug`: a character split over two chunks is replaced.

Seen while modelling and part of the models, without a run of their own:

- The late close of an old socket stops the heartbeat, clears the connected flag and schedules a
  reconnect beside the new connection. Together with a hello timeout that closes `this.ws` whichever socket that is,
  a new connection can be closed by the remains of an old one.
- `getAccessToken()` throws once the token has lapsed. In the reconnect timer and in an
  execute request nobody handles that, and the process ends; `onTokenExpired` in daemon.ts is empty.
- A journal entry with an empty error message is replayed as a success.
- An invalid `expiresIn` is detected after the new token was stored. A lifetime of zero
  would be handed out under the expiry of the old token; the schema of the daemon
  (TokenPairSchema) refuses it, and lets one of more than a year pass.
- `TokenManager.stop()` does not stop a refresh in flight.
- A status answer carries no requestId; a late one resolves the next status() call.
- The timeout of execute() counts from its start, whatever events come.
- rescan() beside a scan: the scan that was under way ends first and declares the
  emptied cache complete; until the rescan ends, installed plugins are not found. Only tests
  call rescan(), so that a plugin installed after the first request is not found at all.
- README.md:77 says that a call is dispatched and answered with a chunk and a result. The
  answer goes to the session that is open when the handler ends, which may be another than the one
  that asked, and is dropped when none is.
- token-manager.ts:29 says of the skew margin "treat token as expired this many seconds before
  server expiry". A command that runs while the answer of a refresh waits moves the expiry by its
  length; past 60 s (two commands with the default timeout) the getter hands out a token that has
  lapsed at the gateway. This is why UsableTokenIsAccepted and LinkTokenIsAccepted need `waited <= Skew`.
- filesystem-handler.ts:103 and 143 say that binary files are skipped. `readFile(path, 'utf-8')`
  throws for no content, so that they are in the snapshot, garbled. FetchCoversQuietFiles says
  nothing of them.
- A writeFile() that fails after its open, or a process that dies there, leaves the file empty.
  A snapshot reads one file after the other and is not one state of the workspace.
- glob() answers a failure, a timeout included, as an empty list. grep() that found matches
  and met an unreadable file exits with 2, and its matches are lost.
- grep() skips a line of output that is not `file:line:text`: all lines when grep searches a single
  file and prints no name, and "Binary file ... matches". `truncated` stays false. So it does when find
  fails under way, for `find ... | head` exits as head does: the list is partial or empty.
- Search and shell commands stop the event loop, for up to their timeout: heartbeats and rotation
  wait, and `workspace:status`, which waits three seconds, says "not running"
  (status.ts:39, a swallowed timeout).
- workspace:register accepts any http:// URL (register.ts:58); the daemon refuses to start with one
  that is not local (config.ts:38). It writes the file in place, so that one that is killed
  while it writes takes the valid configuration with it.
- A second daemon takes the socket file of the first over, and the first removes the file of the
  second when it closes its server: the second runs on, but no CLI finds it.
- With an id given twice, a second scan under way puts the first directory back for a time.
- The limit of the framer counts bytes before decoding; replacement characters take three.

## 7. What is not modelled

- GatewayTransport: send() hands a call to sendAdapterCall() and returns its answer; its closed
  flag is set by close(), which nothing under `src/` calls. There is nothing beyond `AdapterRpc` to check.
- `cancel` in IpcServer: a request to the gateway that changes no state; no client sends it.
- The choice of transport; the three transports differ in the address, and only the Unix
  socket has a file. chmod() after listen().
- The path checks of the handlers (an outcome `refused`), the command lines of rg, grep and find,
  the output of commands.
- workspace:list, and the output of workspace:status and workspace:register.
- The schemas of the contracts, but for the messages of the local channel (`Ipc`) and the rule for the
  gateway URL (`Daemon`).
- How long the platform's fetch() waits for an answer: `MaxLatency` bounds it.
- A stream that goes on after `execution:done`: the loop that reads it (gateway-client.ts:209-224)
  would still call onEvent and onDone. `Ipc` assumes that the gateway sends nothing after the end.
- URL and protocol checks, logging, the contents of messages, results and errors.

## 8. The plan

Done: GatewayClient with AdapterRpc, CapabilityCalls, TokenManager, Daemon, ExecutionHandler,
Ipc with ExecutionStream, PluginResolver, Ndjson, and the theorems of section 5.

Next, in this order:

1. GatewayClient with the rotation of `Daemon` as its source of `RotateToken`, so that the overlap
   of sockets is bounded by the time between rotations.
2. An execution whose plugin makes adapter calls: ExecutionHandler over `AdapterRpc`.
3. The ranking arguments behind the liveness properties as safety theorems, such as that a call
   which is not settled always has an action enabled that its fairness covers, once stated without ENABLED.
