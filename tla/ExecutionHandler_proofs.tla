----------------------- MODULE ExecutionHandler_proofs ------------------------
(* Proofs about ExecutionHandler, for every set of requests and executions. *)
EXTENDS ExecutionHandler, TLAPS

USE DEF vars, requestVars, journalVars, abortVars

-----------------------------------------------------------------------------
(* Journal entries *)

\* The three kinds of entries differ, and their status tells them apart.
LEMMA EntriesDiffer ==
    /\ Absent # Started
    /\ Absent.status = "absent" /\ Started.status = "started"
    /\ \A end \in Outcomes :
          /\ Completed(end) # Absent /\ Completed(end) # Started
          /\ Completed(end).status = "completed"
          /\ Completed(end).end = end
  BY DEF Absent, Started, Completed, Entry

-----------------------------------------------------------------------------
(* Type correctness *)

\* The journal and the requests, without the mode and the counter.
StateOK ==
    /\ stage \in [Requests -> Stages]
    /\ target \in [Requests -> Executions]
    /\ outcome \in [Requests -> Outcomes \cup {"none"}]
    /\ \A r \in Requests : stage[r] = "closing" => outcome[r] \in Outcomes
    /\ reply \in [Requests -> Outcomes \cup {"none", "busy", "refused", "unprepared"}]
    /\ journal \in [Executions -> {Absent, Started} \cup {Completed(end) : end \in Outcomes}]
    /\ recent \subseteq Executions
    /\ timer \subseteq Requests
    /\ aborted \subseteq Requests
    /\ lastRun \in [Executions -> Outcomes \cup {"none"}]

LEMMA FinishType ==
    ASSUME StateOK, NEW r \in Requests, NEW end \in Outcomes, Finish(r, end)
    PROVE  StateOK'
  BY DEF StateOK, Finish, Settle, Set, Stages

\* Every step keeps the state well typed.
LEMMA StateStep == StateOK /\ [Next]_vars => StateOK'
  <1> SUFFICES ASSUME StateOK, [Next]_vars PROVE StateOK'
    OBVIOUS
  <1>1. ASSUME NEW r \in Requests, ReceiveDuplicate(r) PROVE StateOK'
    <2>1. journal[target[r]].status = "completed" => Replay(journal[target[r]]) \in Outcomes
      BY EntriesDiffer DEF StateOK, Replay, Outcomes
    <2>. QED
      BY <1>1, <2>1 DEF StateOK, ReceiveDuplicate, Settle, Stages
  <1>2. ASSUME NEW r \in Requests, ReceiveNew(r) PROVE StateOK'
    BY <1>2 DEF StateOK, ReceiveNew, Settle, Set, Stages
  <1>3. ASSUME NEW r \in Requests,
               \/ Resolved(r) \/ PreparationFails(r) \/ PlatformReady(r)
               \/ ServerStarted(r) \/ TimeoutFires(r)
        PROVE  StateOK'
    BY <1>3 DEF StateOK, Resolved, PreparationFails, PlatformReady, ServerStarted,
                TimeoutFires, Settle, Stages
  <1>4. ASSUME NEW r \in Requests, ServerStartFails(r) PROVE StateOK'
    BY <1>4, FinishType DEF ServerStartFails, Outcomes
  <1>5. ASSUME NEW r \in Requests, RunEnds(r) PROVE StateOK'
    <2>1. PICK end \in Outcomes :
             \/ /\ stage' = [stage EXCEPT ![r] = "closing"]
                /\ outcome' = [outcome EXCEPT ![r] = end]
                /\ UNCHANGED <<target, reply, journal, recent, timer, aborted, lastRun>>
             \/ Finish(r, end)
      BY <1>5 DEF RunEnds
    <2>. QED
      BY <2>1, FinishType DEF StateOK, Stages
  <1>6. ASSUME NEW r \in Requests, ServerCloses(r) PROVE StateOK'
    BY <1>6, FinishType DEF StateOK, ServerCloses, Outcomes
  <1>7. ASSUME NEW e \in Executions, TtlPasses(e) PROVE StateOK'
    BY <1>7 DEF StateOK, TtlPasses
  <1>8. CASE CleanupJournal
    BY <1>8 DEF StateOK, CleanupJournal
  <1>9. CASE Restart
    BY <1>9 DEF StateOK, Restart, Working, Stages
  <1>10. CASE UNCHANGED vars
    BY <1>10 DEF StateOK
  <1>. QED
    BY <1>1, <1>2, <1>3, <1>4, <1>5, <1>6, <1>7, <1>8, <1>9, <1>10 DEF Next, RequestEvent

\* The mode is a constant of the process, and restarts are counted up to the bound.
ModeOK == subprocess \in BOOLEAN
RestartsOK == restarts \in 0..MaxRestarts

LEMMA ModeStep == ModeOK /\ [Next]_vars => ModeOK'
  BY DEF ModeOK, Next, RequestEvent, ReceiveDuplicate, ReceiveNew, Resolved, PreparationFails,
         PlatformReady, ServerStarted, ServerStartFails, RunEnds, ServerCloses, Finish,
         TimeoutFires, TtlPasses, CleanupJournal, Restart

LEMMA RestartsStep == RestartsOK /\ [Next]_vars => RestartsOK'
  <1> SUFFICES ASSUME RestartsOK, [Next]_vars PROVE RestartsOK'
    OBVIOUS
  <1>1. CASE Restart
    BY <1>1, ExecutionHandlerAssumption DEF RestartsOK, Restart
  <1>2. CASE UNCHANGED restarts
    BY <1>2 DEF RestartsOK
  <1>. QED
    BY <1>1, <1>2
       DEF Next, RequestEvent, ReceiveDuplicate, ReceiveNew, Resolved, PreparationFails,
           PlatformReady, ServerStarted, ServerStartFails, RunEnds, ServerCloses, Finish,
           TimeoutFires, TtlPasses, CleanupJournal

\* The state of the handler is well typed in every reachable state.
THEOREM TypeCorrect == Spec => []TypeOK
  <1>1. Init => StateOK
    BY DEF Init, StateOK, Stages
  <1>2. Init => ModeOK /\ RestartsOK
    BY ExecutionHandlerAssumption DEF Init, ModeOK, RestartsOK
  <1>3. StateOK /\ ModeOK /\ RestartsOK => TypeOK
    BY DEF StateOK, ModeOK, RestartsOK, TypeOK
  <1>. QED
    BY <1>1, <1>2, <1>3, StateStep, ModeStep, RestartsStep, PTL DEF Spec

-----------------------------------------------------------------------------
(* At most once *)

\* A working request owns the "started" entry of its execution, nobody else does,
\* and no entry younger than the TTL is missing.
JournalInv ==
    /\ WorkIsJournalled
    /\ SingleOwner
    /\ TimeoutCoversRun
    /\ \A e \in recent : journal[e] # Absent

\* A working request moves on while the journal stays as it is.
LEMMA AdvanceStep ==
    ASSUME StateOK, JournalInv, NEW r \in Requests, Working(r),
           NEW next \in Stages, stage' = [stage EXCEPT ![r] = next],
           UNCHANGED <<target, journal>>, recent' \subseteq recent,
           \/ timer' = timer /\ (InTry(r) => next \in {"running", "closing"})
           \/ timer' = timer \cup {r} /\ next \in {"starting", "running"}
    PROVE  JournalInv'
  <1>1. \A q \in Requests : Working(q)' => Working(q)
    BY DEF StateOK, Working
  <1>2. TimeoutCoversRun'
    BY DEF StateOK, JournalInv, TimeoutCoversRun, InTry, Working
  <1>. QED
    BY <1>1, <1>2 DEF StateOK, JournalInv, WorkIsJournalled, SingleOwner

\* The end of a try completes the entry that only this request owns.
LEMMA FinishStep ==
    ASSUME StateOK, JournalInv, NEW r \in Requests, NEW end \in Outcomes,
           Working(r), Finish(r, end)
    PROVE  JournalInv'
  <1>1. /\ \A q \in Requests : Working(q)' <=> Working(q) /\ q # r
        /\ \A q \in Requests : InTry(q)' <=> InTry(q) /\ q # r
    BY DEF StateOK, Finish, Settle, Working, InTry
  <1>2. \A q \in Requests : Working(q)' => target[q] # target[r]
    BY <1>1 DEF JournalInv, SingleOwner
  <1>3. /\ UNCHANGED <<target, recent>> /\ timer' = timer \ {r}
        /\ journal' = [journal EXCEPT ![target[r]] = Completed(end)]
    BY DEF Finish, Set
  <1>4. WorkIsJournalled'
    BY <1>1, <1>2, <1>3 DEF StateOK, JournalInv, WorkIsJournalled
  <1>5. \A e \in recent' : journal'[e] # Absent
    BY <1>3, EntriesDiffer DEF StateOK, JournalInv
  <1>6. SingleOwner' /\ TimeoutCoversRun'
    BY <1>1, <1>3 DEF JournalInv, SingleOwner, TimeoutCoversRun
  <1>. QED
    BY <1>4, <1>5, <1>6 DEF JournalInv

\* Every step keeps the journal and the requests in agreement.
LEMMA JournalStep == StateOK /\ JournalInv /\ [Next]_vars => JournalInv'
  <1> SUFFICES ASSUME StateOK, JournalInv, [Next]_vars PROVE JournalInv'
    OBVIOUS
  <1>1. ASSUME NEW r \in Requests, NEW answer, stage[r] = "idle", Settle(r, answer),
               UNCHANGED <<target, journal, recent, timer>>
        PROVE  JournalInv'
    <2>1. \A q \in Requests : (Working(q)' <=> Working(q)) /\ (InTry(q)' <=> InTry(q))
      BY <1>1 DEF StateOK, Settle, Working, InTry
    <2>. QED
      BY <1>1, <2>1 DEF JournalInv, WorkIsJournalled, SingleOwner, TimeoutCoversRun
  <1>2. ASSUME NEW r \in Requests, ReceiveDuplicate(r) PROVE JournalInv'
    BY <1>1, <1>2 DEF ReceiveDuplicate
  <1>3. ASSUME NEW r \in Requests, ReceiveNew(r) PROVE JournalInv'
    <2>1. CASE Settle(r, "refused") /\ UNCHANGED journalVars
      BY <1>1, <1>3, <2>1 DEF ReceiveNew
    <2>2. CASE /\ stage' = [stage EXCEPT ![r] = "resolving"]
               /\ journal' = [journal EXCEPT ![target[r]] = Started]
               /\ recent' = recent \cup {target[r]}
      <3>1. journal[target[r]] = Absent /\ stage[r] = "idle" /\ UNCHANGED <<target, timer>>
        BY <1>3 DEF ReceiveNew
      <3>2. \A q \in Requests : Working(q) => target[q] # target[r]
        BY <3>1, EntriesDiffer DEF JournalInv, WorkIsJournalled
      <3>3. /\ \A q \in Requests : Working(q)' <=> Working(q) \/ q = r
            /\ \A q \in Requests : InTry(q)' <=> InTry(q)
        BY <2>2, <3>1 DEF StateOK, Working, InTry
      <3>4. WorkIsJournalled'
        BY <2>2, <3>1, <3>2, <3>3, EntriesDiffer DEF StateOK, JournalInv, WorkIsJournalled
      <3>5. SingleOwner'
        BY <3>1, <3>2, <3>3 DEF JournalInv, SingleOwner
      <3>6. TimeoutCoversRun'
        BY <3>1, <3>3 DEF JournalInv, TimeoutCoversRun
      <3>7. \A e \in recent' : journal'[e] # Absent
        BY <2>2, EntriesDiffer DEF StateOK, JournalInv
      <3>. QED
        BY <3>4, <3>5, <3>6, <3>7 DEF JournalInv
    <2>. QED
      BY <1>3, <2>1, <2>2 DEF ReceiveNew, Set
  <1>4. ASSUME NEW r \in Requests,
               \/ Resolved(r) \/ PreparationFails(r) \/ PlatformReady(r) \/ ServerStarted(r)
        PROVE  JournalInv'
    BY <1>4, AdvanceStep
       DEF Resolved, PreparationFails, PlatformReady, ServerStarted, Settle, Working, InTry,
           Stages
  <1>5. ASSUME NEW r \in Requests, ServerStartFails(r) PROVE JournalInv'
    BY <1>5, FinishStep DEF ServerStartFails, Outcomes, Working
  <1>6. ASSUME NEW r \in Requests, RunEnds(r) PROVE JournalInv'
    <2>1. Working(r) /\ InTry(r)
      BY <1>6 DEF RunEnds, Working, InTry
    <2>2. CASE \E end \in Outcomes : Finish(r, end)
      BY <2>1, <2>2, FinishStep
    <2>3. CASE /\ stage' = [stage EXCEPT ![r] = "closing"]
               /\ UNCHANGED <<target, journal, recent, timer>>
      BY <2>1, <2>3, AdvanceStep DEF Stages
    <2>. QED
      BY <1>6, <2>2, <2>3 DEF RunEnds
  <1>7. ASSUME NEW r \in Requests, ServerCloses(r) PROVE JournalInv'
    BY <1>7, FinishStep DEF StateOK, ServerCloses, Outcomes, Working
  <1>8. ASSUME NEW r \in Requests, TimeoutFires(r) PROVE JournalInv'
    BY <1>8 DEF TimeoutFires, JournalInv, WorkIsJournalled, SingleOwner, TimeoutCoversRun,
                Working, InTry
  <1>9. ASSUME NEW e \in Executions, TtlPasses(e) PROVE JournalInv'
    BY <1>9 DEF TtlPasses, JournalInv, WorkIsJournalled, SingleOwner, TimeoutCoversRun,
                Working, InTry
  <1>10. CASE CleanupJournal
    BY <1>10, EntriesDiffer
       DEF StateOK, CleanupJournal, JournalInv, WorkIsJournalled, SingleOwner,
           TimeoutCoversRun, Working, InTry
  <1>11. CASE Restart
    BY <1>11 DEF StateOK, Restart, JournalInv, WorkIsJournalled, SingleOwner,
                 TimeoutCoversRun, Working, InTry
  <1>12. CASE UNCHANGED vars
    BY <1>12 DEF JournalInv, WorkIsJournalled, SingleOwner, TimeoutCoversRun, Working, InTry
  <1>. QED
    BY <1>2, <1>3, <1>4, <1>5, <1>6, <1>7, <1>8, <1>9, <1>10, <1>11, <1>12
       DEF Next, RequestEvent

LEMMA JournalInvariant == Spec => [](StateOK /\ JournalInv)
  <1>1. Init => StateOK /\ JournalInv
    BY DEF Init, StateOK, Stages, JournalInv, WorkIsJournalled, SingleOwner,
           TimeoutCoversRun, Working
  <1>. QED
    BY <1>1, StateStep, JournalStep, PTL DEF Spec

\* No two requests run the same execution at once, and each finds its entry in
\* the journal when it ends.
THEOREM OneRunAtATime == Spec => []OneJournalledOwner
  <1>1. JournalInv => OneJournalledOwner
    BY DEF JournalInv, OneJournalledOwner
  <1>. QED
    BY <1>1, JournalInvariant, PTL

\* The abort timer of a request is pending only inside its try.
THEOREM TimeoutEndsWithRun == Spec => []TimeoutCoversRun
  <1>1. JournalInv => TimeoutCoversRun
    BY DEF JournalInv
  <1>. QED
    BY <1>1, JournalInvariant, PTL

\* An execution that started less than the TTL ago is not started again.
THEOREM AtMostOnce == Spec => AtMostOncePerTtl
  <1> DEFINE Step == \A r \in Requests :
                        stage[r] = "idle" /\ stage'[r] = "resolving" => target[r] \notin recent
  <1>1. StateOK /\ JournalInv /\ [Next]_vars => Step
    <2> SUFFICES ASSUME StateOK, JournalInv, [Next]_vars, NEW r \in Requests,
                        stage[r] = "idle", stage'[r] = "resolving"
                 PROVE  target[r] \notin recent
      OBVIOUS
    <2>1. ReceiveNew(r)
      BY DEF StateOK, Next, RequestEvent, ReceiveDuplicate, ReceiveNew, Resolved,
             PreparationFails, PlatformReady, ServerStarted, ServerStartFails, RunEnds,
             ServerCloses, Finish, Settle, TimeoutFires, TtlPasses, CleanupJournal, Restart
    <2>. QED
      BY <2>1 DEF ReceiveNew, JournalInv
  <1>. QED
    BY <1>1, JournalInvariant, PTL DEF Spec, AtMostOncePerTtl

-----------------------------------------------------------------------------
(* Replays *)

\* A completed entry tells how the last run of its execution ended, and a request that
\* has not arrived has no answer.
RecordInv ==
    /\ \A e \in Executions : journal[e].status = "completed" => journal[e].end = lastRun[e]
    /\ \A r \in Requests : stage[r] = "idle" => reply[r] = "none"

\* What the end of a try writes into the journal is how its run ended.
LEMMA FinishRecords ==
    ASSUME StateOK, RecordInv, NEW r \in Requests, NEW end \in Outcomes, stage[r] # "idle",
           Finish(r, end)
    PROVE  RecordInv'
  <1>1. /\ journal' = [journal EXCEPT ![target[r]] = Completed(end)]
        /\ lastRun' = [lastRun EXCEPT ![target[r]] = end]
        /\ stage' = [stage EXCEPT ![r] = "done"] /\ reply' = [reply EXCEPT ![r] = end]
    BY DEF Finish, Settle, Set
  <1>2. \A e \in Executions : journal'[e].status = "completed" => journal'[e].end = lastRun'[e]
    BY <1>1, EntriesDiffer DEF StateOK, RecordInv
  <1>3. \A q \in Requests : stage'[q] = "idle" => reply'[q] = "none"
    BY <1>1 DEF StateOK, RecordInv
  <1>. QED
    BY <1>2, <1>3 DEF RecordInv

LEMMA RecordStep == StateOK /\ RecordInv /\ [Next]_vars => RecordInv'
  <1> SUFFICES ASSUME StateOK, RecordInv, [Next]_vars PROVE RecordInv'
    OBVIOUS
  <1>1. ASSUME NEW r \in Requests, NEW answer, Settle(r, answer), UNCHANGED <<journal, lastRun>>
        PROVE  RecordInv'
    BY <1>1 DEF StateOK, RecordInv, Settle
  <1>2. ASSUME NEW r \in Requests, NEW next \in Stages \ {"idle"},
               stage' = [stage EXCEPT ![r] = next], UNCHANGED <<reply, journal, lastRun>>
        PROVE  RecordInv'
    BY <1>2 DEF StateOK, RecordInv
  <1>3. ASSUME NEW r \in Requests, ReceiveDuplicate(r) \/ PreparationFails(r) PROVE RecordInv'
    BY <1>1, <1>3 DEF ReceiveDuplicate, PreparationFails
  <1>4. ASSUME NEW r \in Requests, ReceiveNew(r) PROVE RecordInv'
    <2>1. CASE Settle(r, "refused") /\ UNCHANGED journalVars
      BY <1>1, <1>4, <2>1 DEF ReceiveNew
    <2>2. CASE /\ stage' = [stage EXCEPT ![r] = "resolving"]
               /\ journal' = [journal EXCEPT ![target[r]] = Started]
               /\ UNCHANGED <<reply, lastRun>>
      BY <2>2, EntriesDiffer DEF StateOK, RecordInv
    <2>. QED
      BY <1>4, <2>1, <2>2 DEF ReceiveNew, Set
  <1>5. ASSUME NEW r \in Requests, Resolved(r) \/ PlatformReady(r) \/ ServerStarted(r)
        PROVE  RecordInv'
    BY <1>2, <1>5 DEF Resolved, PlatformReady, ServerStarted, Stages
  <1>6. ASSUME NEW r \in Requests, ServerStartFails(r) \/ ServerCloses(r) PROVE RecordInv'
    BY <1>6, FinishRecords DEF ServerStartFails, ServerCloses, StateOK, Outcomes
  <1>7. ASSUME NEW r \in Requests, RunEnds(r) PROVE RecordInv'
    <2>1. stage[r] # "idle"
      BY <1>7 DEF RunEnds
    <2>2. CASE \E end \in Outcomes : Finish(r, end)
      BY <2>1, <2>2, FinishRecords
    <2>3. CASE /\ stage' = [stage EXCEPT ![r] = "closing"] /\ UNCHANGED <<reply, journal, lastRun>>
      BY <1>2, <2>3 DEF Stages
    <2>. QED
      BY <1>7, <2>2, <2>3 DEF RunEnds
  <1>8. CASE \/ \E r \in Requests : TimeoutFires(r)
             \/ \E e \in Executions : TtlPasses(e)
             \/ UNCHANGED vars
    BY <1>8 DEF TimeoutFires, TtlPasses, RecordInv
  <1>9. CASE CleanupJournal
    BY <1>9, EntriesDiffer DEF CleanupJournal, StateOK, RecordInv
  <1>10. CASE Restart
    BY <1>10, EntriesDiffer DEF Restart, StateOK, RecordInv, Working
  <1>. QED
    BY <1>3, <1>4, <1>5, <1>6, <1>7, <1>8, <1>9, <1>10 DEF Next, RequestEvent

\* A duplicate of a completed execution is answered by execution-handler.ts with what the
\* execution last ended with, across cleanups and restarts, unless that was an error without
\* a message.
THEOREM ReplaysAreFaithful == Spec => ReplayIsFaithful
  <1> DEFINE Step == \A r \in Requests :
                        stage[r] = "idle" /\ reply'[r] \in Outcomes
                           => lastRun[target[r]] \in {reply'[r], "emptyError"}
  <1>1. StateOK /\ RecordInv /\ [Next]_vars => Step
    <2> SUFFICES ASSUME StateOK, RecordInv, [Next]_vars, NEW r \in Requests,
                        stage[r] = "idle", reply'[r] \in Outcomes
                 PROVE  lastRun[target[r]] \in {reply'[r], "emptyError"}
      OBVIOUS
    <2>1. reply'[r] # reply[r] /\ reply'[r] \notin {"busy", "refused"}
      BY DEF RecordInv, Outcomes
    <2>2. ReceiveDuplicate(r)
      BY <2>1 DEF StateOK, Next, RequestEvent, ReceiveDuplicate, ReceiveNew, Resolved,
             PreparationFails, PlatformReady, ServerStarted, ServerStartFails, RunEnds,
             ServerCloses, Finish, Settle, TimeoutFires, TtlPasses, CleanupJournal, Restart
    <2>3. journal[target[r]].status = "completed" /\ reply'[r] = Replay(journal[target[r]])
      BY <2>1, <2>2 DEF ReceiveDuplicate, Settle, StateOK
    <2>. QED
      BY <2>3 DEF RecordInv, Replay, StateOK
  <1>2. Init => StateOK /\ RecordInv
    BY EntriesDiffer DEF Init, StateOK, RecordInv, Stages
  <1>. QED
    BY <1>1, <1>2, StateStep, RecordStep, PTL DEF Spec, ReplayIsFaithful
=============================================================================
