----------------------- MODULE ExecutionStream_proofs -----------------------
(* Proofs about ExecutionStream, for any set of executions. *)
EXTENDS ExecutionStream, TLAPS

USE DEF vars

TypeInv ==
    /\ sent \in [Executes -> Nat]
    /\ received \in [Executes -> Seq(Nat)]
    /\ taken \in [Executes -> Nat]
    /\ verdict \in [Executes -> {"none", "done", "failed", "timedOut", "closed"}]
    /\ returned \subseteq Executes

\* What a caller with verdict "done" has got no longer changes: no event is left, and
\* none will come.
StreamInv ==
    /\ TypeInv
    /\ EventsInOrder
    /\ \A r \in Executes :
          /\ Len(received[r]) <= sent[r]
          /\ verdict[r] = "done" => r \in finished /\ Len(received[r]) = sent[r]
    /\ \A r \in returned :
          /\ verdict[r] # "none"
          /\ verdict[r] = "done" => taken[r] = Len(received[r])

LEMMA TypeStep == TypeInv /\ [Next]_vars => TypeInv'
  <1> USE DEF TypeInv
  <1> SUFFICES ASSUME TypeInv, [Next]_vars PROVE TypeInv'
    OBVIOUS
  <1>1. ASSUME NEW r \in Executes, Emit(r) PROVE TypeInv'
    BY <1>1 DEF Emit
  <1>2. ASSUME NEW r \in Executes, Finish(r) PROVE TypeInv'
    BY <1>2 DEF Finish
  <1>3. ASSUME NEW r \in Executes, Deliver(r) PROVE TypeInv'
    <2>1. Append(received[r], Len(received[r]) + 1) \in Seq(Nat)
      OBVIOUS
    <2>. QED
      BY <1>3, <2>1 DEF Deliver
  <1>4. ASSUME NEW r \in Executes, Take(r) PROVE TypeInv'
    BY <1>4 DEF Take
  <1>5. ASSUME NEW r \in Executes, Report(r) PROVE TypeInv'
    BY <1>5 DEF Report
  <1>6. ASSUME NEW calls \in SUBSET Executes, NEW error \in {"timedOut", "closed"},
               GiveUp(calls, error)
        PROVE  TypeInv'
    BY <1>6 DEF GiveUp
  <1>7. ASSUME NEW r \in Executes, Return(r) PROVE TypeInv'
    BY <1>7 DEF Return
  <1>8. CASE UNCHANGED vars
    BY <1>8
  <1>. QED
    BY <1>1, <1>2, <1>3, <1>4, <1>5, <1>6, <1>7, <1>8 DEF Next

LEMMA StreamStep == StreamInv /\ [Next]_vars => StreamInv'
  <1> SUFFICES ASSUME StreamInv, [Next]_vars PROVE StreamInv'
    OBVIOUS
  <1>t. TypeInv /\ TypeInv'
    BY TypeStep DEF StreamInv
  <1> USE DEF StreamInv, EventsInOrder
  <1>1. ASSUME NEW r \in Executes, Emit(r) PROVE StreamInv'
    <2>1. verdict[r] # "done" /\ sent'[r] = sent[r] + 1
      BY <1>1, <1>t DEF Emit, TypeInv
    <2>. QED
      BY <1>1, <1>t, <2>1 DEF Emit, TypeInv
  <1>2. ASSUME NEW r \in Executes, Finish(r) PROVE StreamInv'
    BY <1>2, <1>t DEF Finish
  <1>3. ASSUME NEW r \in Executes, Deliver(r) PROVE StreamInv'
    <2> DEFINE s == received[r]
    <2>1. s \in Seq(Nat) /\ Len(s) \in Nat /\ sent[r] \in Nat
      BY <1>t DEF TypeInv
    <2>2. received' = [received EXCEPT ![r] = Append(s, Len(s) + 1)]
      BY <1>3 DEF Deliver
    <2>3. received'[r] = Append(s, Len(s) + 1) /\ \A q \in Executes \ {r} : received'[q] = received[q]
      BY <2>2, <1>t DEF TypeInv
    <2>4. verdict[r] # "done" /\ Len(s) + 1 <= sent[r]
      BY <1>3, <2>1 DEF Deliver
    <2>5. EventsInOrder'
      <3>1. \A i \in DOMAIN received'[r] : received'[r][i] = i
        BY <2>1, <2>3
      <3>. QED
        BY <2>3, <3>1
    <2>6. Len(received'[r]) = Len(s) + 1
      BY <2>1, <2>3
    <2>. QED
      BY <1>3, <1>t, <2>3, <2>4, <2>5, <2>6 DEF Deliver, TypeInv
  <1>4. ASSUME NEW r \in Executes, Take(r) PROVE StreamInv'
    <2>1. \A q \in returned : taken'[q] = taken[q]
      BY <1>4, <1>t DEF Take, TypeInv
    <2>. QED
      BY <1>4, <1>t, <2>1 DEF Take
  <1>5. ASSUME NEW r \in Executes, Report(r) PROVE StreamInv'
    <2>1. \A q \in Executes : verdict'[q] = IF q = r THEN verdict'[r] ELSE verdict[q]
      BY <1>5, <1>t DEF Report, TypeInv
    <2>2. \/ verdict'[r] = "failed"
          \/ /\ verdict'[r] = "done" /\ r \notin returned
             /\ r \in finished /\ Len(received[r]) = sent[r]
      BY <1>5, <1>t DEF Report, TypeInv
    <2>. QED
      BY <1>5, <1>t, <2>1, <2>2 DEF Report, TypeInv
  <1>6. ASSUME NEW calls \in SUBSET Executes, NEW error \in {"timedOut", "closed"},
               GiveUp(calls, error)
        PROVE  StreamInv'
    BY <1>6, <1>t DEF GiveUp, TypeInv
  <1>7. ASSUME NEW r \in Executes, Return(r) PROVE StreamInv'
    BY <1>7, <1>t DEF Return, TypeInv
  <1>8. CASE UNCHANGED vars
    BY <1>8, <1>t
  <1>. QED
    BY <1>1, <1>2, <1>3, <1>4, <1>5, <1>6, <1>7, <1>8 DEF Next

LEMMA StreamInvariant == Spec => []StreamInv
  <1>1. Init => StreamInv
    BY DEF Init, StreamInv, TypeInv, EventsInOrder
  <1>. QED
    BY <1>1, StreamStep, PTL DEF Spec

\* The events that reach a caller are the first ones of its execution, in order and
\* without a gap.
THEOREM InOrder == Spec => []EventsInOrder
  <1>1. StreamInv => EventsInOrder
    BY DEF StreamInv
  <1>. QED
    BY <1>1, StreamInvariant, PTL

\* A generator that returns without an error has yielded every event.
THEOREM Complete == Spec => []DoneMeansComplete
  <1>1. StreamInv => DoneMeansComplete
    BY DEF StreamInv, TypeInv, DoneMeansComplete
  <1>. QED
    BY <1>1, StreamInvariant, PTL
=============================================================================
