--------------------------- MODULE ExecutionHandler ---------------------------
(***************************************************************************)
(* The capability handler of apps/host-agent-app/src/handlers/             *)
(* execution-handler.ts: execute() requests that interleave at their       *)
(* awaits, the journal that answers duplicates, its TTL and cleanup, the   *)
(* timeout that aborts a run, and a restart of the daemon, which forgets   *)
(* the journal.                                                            *)
(*                                                                         *)
(* One action is one macrotask: the code between two awaits.               *)
(***************************************************************************)
EXTENDS Naturals

CONSTANTS
    Requests,      \* calls of execute(), retries and duplicates included
    Executions,    \* values of executionId
    MaxRestarts    \* bound on restarts of the daemon

ASSUME ExecutionHandlerAssumption == MaxRestarts \in Nat

VARIABLES
    subprocess,    \* opts.executionMode === 'subprocess'
    stage,         \* the await each request is at
    target,        \* the executionId of each request
    outcome,       \* what a subprocess ended with, while its server closes
    reply,         \* what execute() returned or threw
    journal,       \* this.journal; absent: no entry
    recent,        \* executions that started less than JOURNAL_TTL_MS ago
    timer,         \* requests whose timeout is pending
    aborted,       \* requests whose AbortController aborted
    lastRun,       \* outcome of the last run of each execution, for the properties
    restarts

journalVars == <<journal, recent>>
requestVars == <<stage, outcome, reply>>
abortVars == <<timer, aborted>>
vars == <<subprocess, target, requestVars, journalVars, abortVars, lastRun, restarts>>

\* How a run ends: with a result, an error, or an error whose message is empty.
Outcomes == {"result", "error", "emptyError"}

Stages == {"idle", "resolving", "connecting", "starting", "running", "closing",
           "done", "lost"}

Entry(status, end) == [status |-> status, end |-> end]
Absent == Entry("absent", "none")
Started == Entry("started", "none")
Completed(end) == Entry("completed", end)

TypeOK ==
    /\ subprocess \in BOOLEAN
    /\ stage \in [Requests -> Stages]
    /\ target \in [Requests -> Executions]
    /\ outcome \in [Requests -> Outcomes \cup {"none"}]
    /\ reply \in [Requests -> Outcomes \cup {"none", "busy", "refused", "unprepared"}]
    /\ journal \in [Executions -> {Absent, Started} \cup {Completed(end) : end \in Outcomes}]
    /\ recent \subseteq Executions
    /\ timer \subseteq Requests
    /\ aborted \subseteq Requests
    /\ lastRun \in [Executions -> Outcomes \cup {"none"}]
    /\ restarts \in 0..MaxRestarts

Init ==
    /\ subprocess \in BOOLEAN
    /\ stage = [r \in Requests |-> "idle"]
    /\ target \in [Requests -> Executions]
    /\ outcome = [r \in Requests |-> "none"]
    /\ reply = [r \in Requests |-> "none"]
    /\ journal = [e \in Executions |-> Absent]
    /\ recent = {}
    /\ timer = {}
    /\ aborted = {}
    /\ lastRun = [e \in Executions |-> "none"]
    /\ restarts = 0

-----------------------------------------------------------------------------
(* Helpers *)

\* The request passed the journal check and has not settled.
Working(r) == stage[r] \in {"resolving", "connecting", "starting", "running", "closing"}

\* The request is inside the try of execute().
InTry(r) == stage[r] \in {"starting", "running", "closing"}

Settle(r, answer) ==
    /\ stage' = [stage EXCEPT ![r] = "done"]
    /\ reply' = [reply EXCEPT ![r] = answer]

\* What a duplicate of a completed execution gets: `if (existing.error)` takes
\* an empty message for success.
Replay(entry) == IF entry.end = "emptyError" THEN "result" ELSE entry.end

Set(e, entry) == journal' = [journal EXCEPT ![e] = entry]

-----------------------------------------------------------------------------
(* execute() *)

\* The idempotency check, for an executionId that the journal knows.
ReceiveDuplicate(r) ==
    LET entry == journal[target[r]] IN
    /\ stage[r] = "idle"
    /\ entry.status # "absent"
    /\ Settle(r, IF entry.status = "completed" THEN Replay(entry) ELSE "busy")
    /\ UNCHANGED <<subprocess, target, outcome, journalVars, abortVars, lastRun, restarts>>

\* A new executionId: the entry is set, and deleted at once if the plugin is not
\* in the allowlist.
ReceiveNew(r) ==
    LET e == target[r] IN
    /\ stage[r] = "idle"
    /\ journal[e] = Absent
    /\ \/ /\ Settle(r, "refused")
          /\ UNCHANGED journalVars
       \/ /\ stage' = [stage EXCEPT ![r] = "resolving"]
          /\ Set(e, Started)
          /\ recent' = recent \cup {e}
          /\ UNCHANGED reply
    /\ UNCHANGED <<subprocess, target, outcome, abortVars, lastRun, restarts>>

Resolved(r) ==
    /\ stage[r] = "resolving"
    /\ stage' = [stage EXCEPT ![r] = "connecting"]
    /\ UNCHANGED <<subprocess, target, outcome, reply, journalVars, abortVars, lastRun,
                   restarts>>

\* resolve() or createProxyPlatform() throws before the try: the journal keeps
\* its "started" entry.
PreparationFails(r) ==
    /\ stage[r] \in {"resolving", "connecting"}
    /\ Settle(r, "unprepared")
    /\ UNCHANGED <<subprocess, target, outcome, journalVars, abortVars, lastRun, restarts>>

PlatformReady_Untimed(r) ==
    /\ stage[r] = "connecting"
    /\ stage' = [stage EXCEPT ![r] = IF subprocess THEN "starting" ELSE "running"]
    /\ UNCHANGED <<subprocess, target, outcome, reply, journalVars, abortVars, lastRun,
                   restarts>>

\* The platform is there: the timeout starts, and the run, or its socket server.
PlatformReady(r) ==
    /\ stage[r] = "connecting"
    /\ stage' = [stage EXCEPT ![r] = IF subprocess THEN "starting" ELSE "running"]
    /\ timer' = timer \cup {r}
    /\ UNCHANGED <<subprocess, target, outcome, reply, journalVars, aborted, lastRun,
                   restarts>>

Finish_TimerLeft(r, end) ==
    /\ Settle(r, end)
    /\ Set(target[r], Completed(end))
    /\ lastRun' = [lastRun EXCEPT ![target[r]] = end]
    /\ UNCHANGED <<subprocess, target, outcome, recent, abortVars, restarts>>

Finish_ErrorDropped(r, end) ==
    /\ Settle(r, end)
    /\ Set(target[r], Completed("result"))
    /\ lastRun' = [lastRun EXCEPT ![target[r]] = end]
    /\ timer' = timer \ {r}
    /\ UNCHANGED <<subprocess, target, outcome, recent, aborted, restarts>>

\* The end of the try: the journal records how the run ended, the timeout is
\* cleared, and the caller gets the same.
Finish(r, end) ==
    /\ Settle(r, end)
    /\ Set(target[r], Completed(end))
    /\ lastRun' = [lastRun EXCEPT ![target[r]] = end]
    /\ timer' = timer \ {r}
    /\ UNCHANGED <<subprocess, target, outcome, recent, aborted, restarts>>

ServerStarted(r) ==
    /\ stage[r] = "starting"
    /\ stage' = [stage EXCEPT ![r] = "running"]
    /\ UNCHANGED <<subprocess, target, outcome, reply, journalVars, abortVars, lastRun,
                   restarts>>

ServerStartFails(r) ==
    /\ stage[r] = "starting"
    /\ Finish(r, "error")

RunEnds_ResultDropped(r) ==
    /\ stage[r] = "running"
    /\ \/ /\ subprocess
          /\ stage' = [stage EXCEPT ![r] = "closing"]
          /\ UNCHANGED <<subprocess, target, outcome, reply, journalVars, abortVars, lastRun,
                         restarts>>
       \/ /\ ~subprocess
          /\ \E end \in Outcomes : Finish(r, end)

\* runInProcess() or runInSubprocess() settles (external): by itself, or because
\* the signal aborted.
RunEnds(r) ==
    /\ stage[r] = "running"
    /\ \E end \in Outcomes :
          \/ /\ subprocess
             /\ stage' = [stage EXCEPT ![r] = "closing"]
             /\ outcome' = [outcome EXCEPT ![r] = end]
             /\ UNCHANGED <<subprocess, target, reply, journalVars, abortVars, lastRun,
                            restarts>>
          \/ /\ ~subprocess
             /\ Finish(r, end)

\* The server of the subprocess closes; if close() throws, its error replaces
\* the outcome of the run.
ServerCloses(r) ==
    /\ stage[r] = "closing"
    /\ \E end \in {outcome[r], "error"} : Finish(r, end)

-----------------------------------------------------------------------------
(* Timers, cleanup and restart *)

TimeoutFires(r) ==
    /\ r \in timer
    /\ timer' = timer \ {r}
    /\ aborted' = aborted \cup {r}
    /\ UNCHANGED <<subprocess, target, requestVars, journalVars, lastRun, restarts>>

\* The start of e is JOURNAL_TTL_MS ago.
TtlPasses(e) ==
    /\ e \in recent
    /\ recent' = recent \ {e}
    /\ UNCHANGED <<subprocess, target, requestVars, journal, abortVars, lastRun, restarts>>

CleanupJournal_AnyStatus ==
    LET expired == {e \in Executions : journal[e] # Absent /\ e \notin recent} IN
    /\ expired # {}
    /\ journal' = [e \in Executions |-> IF e \in expired THEN Absent ELSE journal[e]]
    /\ UNCHANGED <<subprocess, target, requestVars, recent, abortVars, lastRun, restarts>>

CleanupJournal_AnyAge ==
    LET expired == {e \in Executions : journal[e].status = "completed"} IN
    /\ expired # {}
    /\ journal' = [e \in Executions |-> IF e \in expired THEN Absent ELSE journal[e]]
    /\ UNCHANGED <<subprocess, target, requestVars, recent, abortVars, lastRun, restarts>>

\* cleanupJournal()
CleanupJournal ==
    LET expired == {e \in Executions : journal[e].status = "completed" /\ e \notin recent} IN
    /\ expired # {}
    /\ journal' = [e \in Executions |-> IF e \in expired THEN Absent ELSE journal[e]]
    /\ UNCHANGED <<subprocess, target, requestVars, recent, abortVars, lastRun, restarts>>

\* The daemon dies and is started again: its memory is gone, and the requests
\* under way are never answered.
Restart ==
    /\ restarts < MaxRestarts /\ restarts' = restarts + 1
    /\ stage' = [r \in Requests |-> IF Working(r) THEN "lost" ELSE stage[r]]
    /\ journal' = [e \in Executions |-> Absent]
    /\ recent' = {}
    /\ timer' = {}
    /\ UNCHANGED <<subprocess, target, outcome, reply, aborted, lastRun>>

-----------------------------------------------------------------------------

RequestEvent(r) ==
    \/ ReceiveDuplicate(r) \/ ReceiveNew(r)
    \/ Resolved(r) \/ PreparationFails(r) \/ PlatformReady(r)
    \/ ServerStarted(r) \/ ServerStartFails(r) \/ RunEnds(r) \/ ServerCloses(r)
    \/ TimeoutFires(r)

Next ==
    \/ \E r \in Requests : RequestEvent(r)
    \/ \E e \in Executions : TtlPasses(e)
    \/ CleanupJournal
    \/ Restart

Spec == Init /\ [][Next]_vars

\* The awaits before the run settle and timers run out.  The plugin code may
\* never end by itself; the runtime ends a run whose signal aborted (external).
Fairness ==
    \A r \in Requests :
        /\ WF_vars(Resolved(r) \/ PreparationFails(r) \/ PlatformReady(r))
        /\ WF_vars(ServerStarted(r) \/ ServerStartFails(r))
        /\ WF_vars(TimeoutFires(r))
        /\ WF_vars(r \in aborted /\ RunEnds(r))
        /\ WF_vars(ServerCloses(r))

FairSpec == Spec /\ Fairness

-----------------------------------------------------------------------------
(* Properties *)

\* Two requests never run the same execution at once, ...
SingleOwner ==
    \A r, q \in Requests :
        Working(r) /\ Working(q) /\ target[r] = target[q] => r = q

\* ... and the journal never loses an execution under way: `journal.get(executionId)!`
\* at its end finds the entry, and duplicates meet it until then.
WorkIsJournalled ==
    \A r \in Requests : Working(r) => journal[target[r]].status = "started"

\* Check and entry of the journal are never apart.
OneJournalledOwner == SingleOwner /\ WorkIsJournalled

\* A duplicate that is answered from the journal gets what the execution ended
\* with, as long as the message of its error is not empty.
ReplayIsFaithful ==
    [][\A r \in Requests :
          stage[r] = "idle" /\ reply'[r] \in Outcomes
             => lastRun[target[r]] \in {reply'[r], "emptyError"}]_vars

\* At most once: an execution that started in this process less than
\* JOURNAL_TTL_MS ago does not start again.
AtMostOncePerTtl ==
    [][\A r \in Requests :
          stage[r] = "idle" /\ stage'[r] = "resolving" => target[r] \notin recent]_vars

\* The timeout runs only while the request is inside the try, so that it never
\* aborts after the end of its run.
TimeoutCoversRun ==
    timer \subseteq {r \in Requests : InTry(r)}

\* Every request that passed the journal check settles, unless the daemon dies.
EveryRequestSettles ==
    \A r \in Requests : Working(r) ~> ~Working(r)

(* What a message of the code says, and what it does not do *)

\* "already in progress": some request is working on an execution whose entry
\* says "started".
StartedMeansInProgress ==
    \A e \in Executions :
        journal[e].status = "started"
            => \E r \in Requests : Working(r) /\ target[r] = e
=============================================================================
