--------------------------- MODULE ExecutionStream ---------------------------
(***************************************************************************)
(* What execute() of HostAgentClient promises its caller, with no          *)
(* connection, daemon or gateway in sight: the events of an execution      *)
(* arrive one by one, in order, and the generator returns without an error *)
(* only to a caller that has got all of them.                              *)
(***************************************************************************)
EXTENDS Naturals, Sequences

CONSTANT Executes

VARIABLES
    sent,      \* events of each execution so far
    finished,  \* executions without further events
    received,  \* those that reached the caller's side
    taken,     \* how many of them the caller got
    verdict,   \* how the call ended
    returned   \* calls whose generator came to its end

vars == <<sent, finished, received, taken, verdict, returned>>

Init ==
    /\ sent = [r \in Executes |-> 0]
    /\ finished = {}
    /\ received = [r \in Executes |-> <<>>]
    /\ taken = [r \in Executes |-> 0]
    /\ verdict = [r \in Executes |-> "none"]
    /\ returned = {}

\* The execution has an event, which may be its last.
Emit(r) ==
    /\ r \notin finished
    /\ sent' = [sent EXCEPT ![r] = @ + 1]
    /\ finished' \in {finished, finished \cup {r}}
    /\ UNCHANGED <<received, taken, verdict, returned>>

Finish(r) ==
    /\ finished' = finished \cup {r}
    /\ UNCHANGED <<sent, received, taken, verdict, returned>>

\* The next event arrives; later ones may be lost for good.
Deliver(r) ==
    /\ Len(received[r]) < sent[r]
    /\ received' = [received EXCEPT ![r] = Append(@, Len(@) + 1)]
    /\ UNCHANGED <<sent, finished, taken, verdict, returned>>

Take(r) ==
    /\ r \notin returned /\ taken[r] < Len(received[r])
    /\ taken' = [taken EXCEPT ![r] = @ + 1]
    /\ UNCHANGED <<sent, finished, received, verdict, returned>>

\* The end that the daemon reports: with success only after every event.
Report(r) ==
    /\ \/ /\ verdict[r] = "none"
          /\ r \in finished /\ Len(received[r]) = sent[r]
          /\ verdict' = [verdict EXCEPT ![r] = "done"]
       \/ /\ verdict[r] \in {"none", "timedOut"}
          /\ verdict' = [verdict EXCEPT ![r] = "failed"]
    /\ UNCHANGED <<sent, finished, received, taken, returned>>

\* A timeout or close() ends calls that were not ended by the daemon.
GiveUp(calls, error) ==
    /\ \A r \in calls : verdict[r] \in {"none", "timedOut"}
    /\ verdict' = [r \in Executes |-> IF r \in calls THEN error ELSE verdict[r]]
    /\ UNCHANGED <<sent, finished, received, taken, returned>>

\* The generator ends once it has yielded what arrived.
Return(r) ==
    /\ verdict[r] # "none" /\ taken[r] = Len(received[r])
    /\ returned' = returned \cup {r}
    /\ UNCHANGED <<sent, finished, received, taken, verdict>>

Next ==
    \/ \E r \in Executes :
          Emit(r) \/ Finish(r) \/ Deliver(r) \/ Take(r) \/ Report(r) \/ Return(r)
    \/ \E calls \in SUBSET Executes, error \in {"timedOut", "closed"} : GiveUp(calls, error)

Spec == Init /\ [][Next]_vars

-----------------------------------------------------------------------------
(* What follows from it *)

\* The events that arrive are the first ones, in order and without a gap.
EventsInOrder ==
    \A r \in Executes : \A i \in DOMAIN received[r] : received[r][i] = i

\* A caller whose generator returned without an error has got every event.
DoneMeansComplete ==
    \A r \in returned : verdict[r] = "done" => taken[r] = sent[r]
=============================================================================
