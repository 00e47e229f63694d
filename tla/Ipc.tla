--------------------------------- MODULE Ipc ---------------------------------
(***************************************************************************)
(* The local channel between CLI processes and the daemon: HostAgentClient *)
(* (packages/host-agent-client), the transports of host-agent-transport,   *)
(* IpcServer, and the HTTP tunnel of gateway-client.ts that executes a     *)
(* command and streams its events back.                                    *)
(*                                                                         *)
(* A client is one HostAgentClient over one connection.  The transport of  *)
(* the daemon keeps one socket: that of the connection it accepted last.   *)
(***************************************************************************)
EXTENDS Naturals, SequencesExt

CONSTANTS
    Clients,       \* HostAgentClient objects, one connection each
    NoClient,      \* the null of transport.socket
    Executes,      \* calls of execute(), by requestId
    Statuses,      \* calls of status()
    MaxEvents      \* bound on the events of one execution

ASSUME IpcAssumption ==
    /\ NoClient \notin Clients
    /\ Executes \cap Statuses = {}
    /\ MaxEvents \in Nat

Requests == Executes \cup Statuses

VARIABLES
    owner,         \* the client that makes each call
    up,            \* is the daemon running?
    conn,          \* socket of each client
    accepted,      \* connections whose handleConnection() ran in the daemon
    socket,        \* transport.socket of the daemon
    toServer, toClient,  \* messages in flight on each connection
    pending,       \* calls with an entry in the pending map of their client
    asked,         \* per client: its pending status() calls, in map order
    timer,         \* calls whose timeout is pending
    phase,         \* where the generator of execute(), or the promise of status(), is
    notified,      \* awaiting generators whose notify() was called
    verdict,       \* done and error of each call
    queue,         \* events pushed to each execute(), taken ones included
    taken,         \* how many of them were yielded
    tunnel,        \* the HTTP request of each execute()
    sent           \* events of each execution that onEvent() got

connVars == <<conn, accepted, socket>>
wireVars == <<toServer, toClient>>
entryVars == <<pending, asked, timer>>
callVars == <<phase, notified, verdict>>
eventVars == <<queue, taken>>
tunnelVars == <<tunnel, sent>>
vars == <<owner, up, connVars, wireVars, entryVars, callVars, eventVars, tunnelVars>>

Status == [type |-> "status"]
Execute(r) == [type |-> "execute", requestId |-> r]
Event(r, n) == [type |-> "event", requestId |-> r, data |-> n]
Done(r) == [type |-> "done", requestId |-> r]
Error(r) == [type |-> "error", requestId |-> r]

Requested == {Status} \cup {Execute(r) : r \in Executes}
Replies == {Status} \cup {Event(r, n) : r \in Executes, n \in 1..MaxEvents}
             \cup {Done(r) : r \in Executes} \cup {Error(r) : r \in Executes}

LinksOK ==
    /\ owner \in [Requests -> Clients]
    /\ up \in BOOLEAN
    /\ conn \in [Clients -> {"new", "open", "broken", "closed"}]
    /\ accepted \subseteq Clients
    /\ socket \in Clients \cup {NoClient}

WiresOK ==
    /\ toServer \in [Clients -> Seq(Requested)]
    /\ toClient \in [Clients -> Seq(Replies)]

EntriesOK ==
    /\ pending \subseteq Requests
    /\ asked \in [Clients -> Seq(Statuses)]
    /\ timer \subseteq Requests

CallsOK ==
    /\ phase \in [Requests -> {"idle", "suspended", "awaiting", "ended", "left"}]
    /\ notified \subseteq Executes
    /\ verdict \in [Requests -> {"none", "done", "failed", "timedOut", "closed"}]

EventsOK ==
    /\ queue \in [Executes -> Seq(1..MaxEvents)]
    /\ taken \in [Executes -> 0..MaxEvents]
    /\ tunnel \in [Executes -> {"none", "fetching", "streaming", "finished", "over"}]
    /\ sent \in [Executes -> 0..MaxEvents]

\* Every variable keeps its type; no generator yields more than it was sent.
TypeOK == LinksOK /\ WiresOK /\ EntriesOK /\ CallsOK /\ EventsOK

Init ==
    /\ owner \in [Requests -> Clients]
    /\ up = TRUE
    /\ conn = [c \in Clients |-> "new"]
    /\ accepted = {}
    /\ socket = NoClient
    /\ toServer = [c \in Clients |-> <<>>]
    /\ toClient = [c \in Clients |-> <<>>]
    /\ pending = {}
    /\ asked = [c \in Clients |-> <<>>]
    /\ timer = {}
    /\ phase = [r \in Requests |-> "idle"]
    /\ notified = {}
    /\ verdict = [r \in Requests |-> "none"]
    /\ queue = [r \in Executes |-> <<>>]
    /\ taken = [r \in Executes |-> 0]
    /\ tunnel = [r \in Executes |-> "none"]
    /\ sent = [r \in Executes |-> 0]

-----------------------------------------------------------------------------
(* Connections *)

\* connect() of the client: the kernel completes it before the daemon accepts.
Connect(c) ==
    /\ conn[c] = "new"
    /\ conn' = [conn EXCEPT ![c] = IF up THEN "open" ELSE "closed"]
    /\ UNCHANGED <<owner, up, accepted, socket, wireVars, entryVars, callVars, eventVars,
                   tunnelVars>>

\* handleConnection(): the new connection replaces the one before.
HandleConnection(c) ==
    /\ up /\ conn[c] # "new" /\ c \notin accepted
    /\ accepted' = accepted \cup {c}
    /\ socket' = c
    /\ UNCHANGED <<owner, up, conn, wireVars, entryVars, callVars, eventVars, tunnelVars>>

\* The reply ms of the daemon goes out on transport.socket, and is dropped when
\* that socket is destroyed.
Reply(ms) ==
    toClient' = [c \in Clients |->
                    IF c = socket /\ conn[c] = "open" THEN toClient[c] \o ms ELSE toClient[c]]

\* A request of client c, dropped when its socket is destroyed.
Request(c, m) ==
    toServer' = [toServer EXCEPT ![c] = IF up /\ conn[c] = "open" THEN Append(@, m) ELSE @]

-----------------------------------------------------------------------------
(* HostAgentClient *)

\* An answer, an error, a timeout or close() reaches the calls S: a generator
\* that awaits is notified, the promise of status() settles at once.
Wake(S) ==
    /\ notified' = notified \cup {r \in S \cap Executes : phase[r] = "awaiting"}
    /\ phase' = [r \in Requests |-> IF r \in S \cap Statuses THEN "ended" ELSE phase[r]]

\* resolve() keeps an error that came before; reject() replaces it.
Resolve(r) == verdict' = [verdict EXCEPT ![r] = IF @ = "none" THEN "done" ELSE @]
Reject(S, error) == verdict' = [r \in Requests |-> IF r \in S THEN error ELSE verdict[r]]

Forget(S) ==
    /\ pending' = pending \ S
    /\ timer' = timer \ S

CallStatus(r) ==
    /\ phase[r] = "idle" /\ conn[owner[r]] \in {"open", "broken"}
    /\ phase' = [phase EXCEPT ![r] = "awaiting"]
    /\ pending' = pending \cup {r}
    /\ asked' = [asked EXCEPT ![owner[r]] = Append(@, r)]
    /\ timer' = timer \cup {r}
    /\ Request(owner[r], Status)
    /\ UNCHANGED <<owner, up, connVars, toClient, notified, verdict, eventVars, tunnelVars>>

\* The first next() of the generator sends the request and awaits.
CallExecute(r) ==
    /\ phase[r] = "idle" /\ conn[owner[r]] \in {"open", "broken"}
    /\ phase' = [phase EXCEPT ![r] = "awaiting"]
    /\ pending' = pending \cup {r}
    /\ timer' = timer \cup {r}
    /\ Request(owner[r], Execute(r))
    /\ UNCHANGED <<owner, up, connVars, toClient, asked, notified, verdict, eventVars,
                   tunnelVars>>

Resume_PastEnd(r) ==
    \/ /\ taken[r] <= Len(queue[r])
       /\ taken' = [taken EXCEPT ![r] = @ + 1]
       /\ phase' = [phase EXCEPT ![r] = "suspended"]
    \/ /\ taken[r] > Len(queue[r])
       /\ phase' = [phase EXCEPT ![r] = IF verdict[r] = "none" THEN "awaiting" ELSE "ended"]
       /\ UNCHANGED taken

\* The loop of the generator: yield, await or end.
Resume(r) ==
    \/ /\ taken[r] < Len(queue[r])
       /\ taken' = [taken EXCEPT ![r] = @ + 1]
       /\ phase' = [phase EXCEPT ![r] = "suspended"]
    \/ /\ taken[r] = Len(queue[r])
       /\ phase' = [phase EXCEPT ![r] = IF verdict[r] = "none" THEN "awaiting" ELSE "ended"]
       /\ UNCHANGED taken

\* The caller asks for the next event.
Pull(r) ==
    /\ phase[r] = "suspended"
    /\ Resume(r)
    /\ UNCHANGED <<owner, up, connVars, wireVars, entryVars, notified, verdict, queue,
                   tunnelVars>>

\* The promise that notify() resolved: notify is null again.
Awake(r) ==
    /\ phase[r] = "awaiting" /\ r \in notified
    /\ notified' = notified \ {r}
    /\ Resume(r)
    /\ UNCHANGED <<owner, up, connVars, wireVars, entryVars, verdict, queue, tunnelVars>>

\* The caller leaves its loop: the entry and the timeout stay.
Abandon(r) ==
    /\ phase[r] = "suspended"
    /\ phase' = [phase EXCEPT ![r] = "left"]
    /\ UNCHANGED <<owner, up, connVars, wireVars, entryVars, notified, verdict, eventVars,
                   tunnelVars>>

StatusTimesOut(r) ==
    /\ r \in timer
    /\ Forget({r})
    /\ \E i \in DOMAIN asked[owner[r]] :
          /\ asked[owner[r]][i] = r
          /\ asked' = [asked EXCEPT ![owner[r]] = RemoveAt(@, i)]
    /\ Reject({r}, "timedOut")
    /\ Wake({r})
    /\ UNCHANGED <<owner, up, connVars, wireVars, eventVars, tunnelVars>>

ExecuteTimesOut_Quiet(r) ==
    /\ r \in timer
    /\ timer' = timer \ {r}
    /\ Reject({r}, "timedOut")
    /\ UNCHANGED <<owner, up, connVars, wireVars, pending, asked, phase, notified,
                   eventVars, tunnelVars>>

\* The timeout of execute() leaves the entry in the pending map.
ExecuteTimesOut(r) ==
    /\ r \in timer
    /\ timer' = timer \ {r}
    /\ Reject({r}, "timedOut")
    /\ Wake({r})
    /\ UNCHANGED <<owner, up, connVars, wireVars, pending, asked, eventVars, tunnelVars>>

\* A status message resolves the first status() call of the map.
ReceiveStatus(c) ==
    /\ UNCHANGED eventVars
    /\ \/ /\ asked[c] # <<>>
          /\ Forget({Head(asked[c])})
          /\ asked' = [asked EXCEPT ![c] = Tail(@)]
          /\ Resolve(Head(asked[c]))
          /\ Wake({Head(asked[c])})
       \/ /\ asked[c] = <<>>
          /\ UNCHANGED <<entryVars, callVars>>

ReceiveEvent_UnlessOver(r, n) ==
    /\ queue' = IF verdict[r] = "none" THEN [queue EXCEPT ![r] = Append(@, n)] ELSE queue
    /\ Wake({r})
    /\ UNCHANGED <<taken, entryVars, verdict>>

\* Events are pushed as long as the entry exists, after a timeout as well.
ReceiveEvent(r, n) ==
    /\ queue' = [queue EXCEPT ![r] = Append(@, n)]
    /\ Wake({r})
    /\ UNCHANGED <<taken, entryVars, verdict>>

ReceiveDone_TimerLeft(r) ==
    /\ pending' = pending \ {r}
    /\ Resolve(r)
    /\ Wake({r})
    /\ UNCHANGED <<timer, asked, eventVars>>

ReceiveDone(r) ==
    /\ Forget({r})
    /\ Resolve(r)
    /\ Wake({r})
    /\ UNCHANGED <<asked, eventVars>>

ReceiveError(r) ==
    /\ Forget({r})
    /\ Reject({r}, "failed")
    /\ Wake({r})
    /\ UNCHANGED <<asked, eventVars>>

\* handleMessage(): a message for a call that is not pending here is dropped.
ReceiveReply(c) ==
    LET m == Head(toClient[c]) IN
    /\ conn[c] = "open" /\ toClient[c] # <<>>
    /\ toClient' = [toClient EXCEPT ![c] = Tail(@)]
    /\ \/ m.type = "status" /\ ReceiveStatus(c)
       \/ /\ m.type # "status"
          /\ LET known == m.requestId \in pending /\ owner[m.requestId] = c IN
             \/ known /\ m.type = "event" /\ ReceiveEvent(m.requestId, m.data)
             \/ known /\ m.type = "done" /\ ReceiveDone(m.requestId)
             \/ known /\ m.type = "error" /\ ReceiveError(m.requestId)
             \/ ~known /\ UNCHANGED <<entryVars, callVars, eventVars>>
    /\ UNCHANGED <<owner, up, connVars, toServer, tunnelVars>>

\* close(): what the daemon sent is lost, what was written to it may arrive.
Close(c) ==
    LET mine == {r \in pending : owner[r] = c} IN
    /\ conn[c] \in {"open", "broken"}
    /\ conn' = [conn EXCEPT ![c] = "closed"]
    /\ toClient' = [toClient EXCEPT ![c] = <<>>]
    /\ \/ UNCHANGED toServer
       \/ /\ toServer[c] # <<>>
          /\ toServer' = [toServer EXCEPT ![c] = <<>>]
    /\ Forget(mine)
    /\ asked' = [asked EXCEPT ![c] = <<>>]
    /\ Reject(mine, "closed")
    /\ Wake(mine)
    /\ UNCHANGED <<owner, up, accepted, socket, eventVars, tunnelVars>>

\* A socket is destroyed: an error, or more than MAX_BUFFER_BYTES in one line.
\* Neither side tells its calls.
Break(c) ==
    /\ conn[c] = "open"
    /\ conn' = [conn EXCEPT ![c] = "broken"]
    /\ toClient' = [toClient EXCEPT ![c] = <<>>]
    /\ toServer' = [toServer EXCEPT ![c] = <<>>]
    /\ UNCHANGED <<owner, up, accepted, socket, entryVars, callVars, eventVars, tunnelVars>>

-----------------------------------------------------------------------------
(* IpcServer and executeTunnel() *)

\* The request to the gateway starts; but getAccessToken() throws when the token has
\* lapsed, the rejection of handleMessage() is not handled and ends the process.
ExecuteTunnel(r) ==
    \/ /\ tunnel' = [tunnel EXCEPT ![r] = "fetching"]
       /\ UNCHANGED up
    \/ /\ up' = FALSE
       /\ UNCHANGED tunnel

\* handleMessage(): a request that fails its schema is dropped, and the client is not
\* told; execute() takes any params, the schema only an object.
ReadRequest(c) ==
    LET m == Head(toServer[c]) IN
    /\ up /\ c \in accepted /\ toServer[c] # <<>>
    /\ toServer' = [toServer EXCEPT ![c] = Tail(@)]
    /\ \/ /\ m.type = "status"
          /\ Reply(<<Status>>)
          /\ UNCHANGED <<up, tunnel>>
       \/ /\ m.type = "execute"
          /\ ExecuteTunnel(m.requestId)
          /\ UNCHANGED toClient
       \/ /\ m.type = "execute"
          /\ UNCHANGED <<up, tunnel, toClient>>
    /\ UNCHANGED <<owner, connVars, entryVars, callVars, eventVars, sent>>

\* The response of the gateway is there, and is a stream.
FetchReturns(r) ==
    /\ up /\ tunnel[r] = "fetching"
    /\ tunnel' = [tunnel EXCEPT ![r] = "streaming"]
    /\ UNCHANGED <<owner, up, connVars, wireVars, entryVars, callVars, eventVars, sent>>

\* An HTTP error, a response without a body, a network error before or in the
\* stream, also after its last event: onError().
TunnelFails(r) ==
    /\ up /\ tunnel[r] \in {"fetching", "streaming", "finished"}
    /\ tunnel' = [tunnel EXCEPT ![r] = "over"]
    /\ Reply(<<Error(r)>>)
    /\ UNCHANGED <<owner, up, connVars, toServer, entryVars, callVars, eventVars, sent>>

\* A line of the stream: onEvent().
StreamEvent(r) ==
    /\ up /\ tunnel[r] = "streaming" /\ sent[r] < MaxEvents
    /\ sent' = [sent EXCEPT ![r] = @ + 1]
    /\ Reply(<<Event(r, sent[r] + 1)>>)
    /\ UNCHANGED <<owner, up, connVars, toServer, entryVars, callVars, eventVars, tunnel>>

StreamDone_DoneFirst(r) ==
    /\ up /\ tunnel[r] = "streaming" /\ sent[r] < MaxEvents
    /\ sent' = [sent EXCEPT ![r] = @ + 1]
    /\ tunnel' = [tunnel EXCEPT ![r] = "finished"]
    /\ Reply(<<Done(r), Event(r, sent[r] + 1)>>)
    /\ UNCHANGED <<owner, up, connVars, toServer, entryVars, callVars, eventVars>>

\* The line 'execution:done': onEvent() and onDone().  The loop would forward lines after
\* it as well; that the gateway sends none is an assumption about it.
StreamDone(r) ==
    /\ up /\ tunnel[r] = "streaming" /\ sent[r] < MaxEvents
    /\ sent' = [sent EXCEPT ![r] = @ + 1]
    /\ tunnel' = [tunnel EXCEPT ![r] = "finished"]
    /\ Reply(<<Event(r, sent[r] + 1), Done(r)>>)
    /\ UNCHANGED <<owner, up, connVars, toServer, entryVars, callVars, eventVars>>

\* The stream ends; without 'execution:done' the client is told nothing.
StreamEnds(r) ==
    /\ up /\ tunnel[r] \in {"streaming", "finished"}
    /\ tunnel' = [tunnel EXCEPT ![r] = "over"]
    /\ UNCHANGED <<owner, up, connVars, wireVars, entryVars, callVars, eventVars, sent>>

\* SIGTERM, SIGINT, a refresh that failed for good, or a crash.
DaemonExits ==
    /\ up /\ up' = FALSE
    /\ UNCHANGED <<owner, connVars, wireVars, entryVars, callVars, eventVars, tunnelVars>>

-----------------------------------------------------------------------------

ClientEvent(c) ==
    \/ Connect(c) \/ HandleConnection(c) \/ ReceiveReply(c) \/ ReadRequest(c)
    \/ Close(c) \/ Break(c)

ExecuteEvent(r) ==
    \/ CallExecute(r) \/ Pull(r) \/ Awake(r) \/ Abandon(r) \/ ExecuteTimesOut(r)

TunnelEvent(r) ==
    \/ FetchReturns(r) \/ TunnelFails(r) \/ StreamEvent(r) \/ StreamDone(r) \/ StreamEnds(r)

Next ==
    \/ \E c \in Clients : ClientEvent(c)
    \/ \E r \in Executes : ExecuteEvent(r) \/ TunnelEvent(r)
    \/ \E r \in Statuses : CallStatus(r) \/ StatusTimesOut(r)
    \/ DaemonExits

Spec == Init /\ [][Next]_vars

\* Timers run out, promises resume, and callers keep asking for events.  Nothing
\* is assumed of the daemon, the connections or the gateway.
Fairness ==
    /\ \A r \in Executes : WF_vars(Pull(r)) /\ WF_vars(Awake(r)) /\ WF_vars(ExecuteTimesOut(r))
    /\ \A r \in Statuses : WF_vars(StatusTimesOut(r))

FairSpec == Spec /\ Fairness

-----------------------------------------------------------------------------
(* Properties *)

\* A caller gets its events in order and without a gap, and all of them when it ends
\* without an error, also when its connection is replaced or breaks: execute() keeps
\* the promise of ExecutionStream.
Stream == INSTANCE ExecutionStream
            WITH finished <- {r \in Executes : tunnel[r] \in {"finished", "over"}},
                 received <- queue,
                 verdict <- [r \in Executes |-> verdict[r]],
                 returned <- {r \in Executes : phase[r] = "ended"}
ExecutionStreamSpec == Stream!Spec

\* The end that the daemon reported is the end the caller sees: no timeout, late
\* error or close() replaces it.
VerdictIsFinal ==
    [][\A r \in Requests :
          verdict[r] \in {"done", "failed"} => verdict'[r] = verdict[r]]_vars

\* The events of r in flight on the connection of its caller.
InFlight(r) ==
    LET wire == toClient[owner[r]]
    IN  {n \in 1..MaxEvents : \E i \in DOMAIN wire : wire[i] = Event(r, n)}

\* A call on the connection accepted last loses no event, also after its own
\* timeout: those that did not arrive are on their way.
LatestLosesNothing ==
    \A r \in Executes :
        r \in pending /\ socket = owner[r] /\ conn[socket] = "open"
            => InFlight(r) = (Len(queue[r]) + 1)..sent[r]

\* Every call ends, whatever becomes of the daemon and of the connection.
EveryCallEnds ==
    \A r \in Requests : phase[r] # "idle" ~> phase[r] \in {"ended", "left"}

(* What a comment of the code says, and what it does not do *)

\* "Forward execution events to CLI via IPC": to the CLI that asked.
RepliesReachTheirCaller ==
    \A c \in Clients : \A i \in DOMAIN toClient[c] :
        toClient[c][i].type # "status" => owner[toClient[c][i].requestId] = c
=============================================================================
