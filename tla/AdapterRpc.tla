----------------------------- MODULE AdapterRpc ------------------------------
(***************************************************************************)
(* What sendAdapterCall() of gateway-client.ts promises its callers, with  *)
(* no connection in sight: a request is carried to the gateway at most     *)
(* once, its promise settles once, and a disconnect rejects every pending  *)
(* call, also the ones whose answer is on its way.                         *)
(***************************************************************************)
CONSTANT Calls

VARIABLES
    call,     \* outcome of the promise of each call
    carried,  \* calls that some connection carries and that were not answered
    reply     \* answer on its way back

vars == <<call, carried, reply>>

Init ==
    /\ call = [c \in Calls |-> "idle"]
    /\ carried = {}
    /\ reply = [c \in Calls |-> "none"]

\* The request goes out.
Issue(c) ==
    /\ call[c] = "idle"
    /\ call' = [call EXCEPT ![c] = "pending"]
    /\ carried' = carried \cup {c}
    /\ UNCHANGED reply

\* There is no connection, and nothing is sent.
Refuse(c) ==
    /\ call[c] = "idle"
    /\ call' = [call EXCEPT ![c] = "notConnected"]
    /\ UNCHANGED <<carried, reply>>

\* The gateway answers, once, a request that reached it.
Answer(c) ==
    /\ c \in carried /\ reply[c] = "none"
    /\ \E a \in {"result", "error"} : reply' = [reply EXCEPT ![c] = a]
    /\ UNCHANGED <<call, carried>>

\* The answer arrives: it settles a pending promise, and is dropped otherwise.
Return(c) ==
    /\ reply[c] # "none"
    /\ \/ /\ call[c] = "pending"
          /\ call' = [call EXCEPT ![c] = reply[c]]
       \/ /\ call[c] # "pending"
          /\ UNCHANGED call
    /\ reply' = [reply EXCEPT ![c] = "none"]
    /\ carried' = carried \ {c}

\* The caller's timeout; the gateway may still answer.
TimeOut(c) ==
    /\ call[c] = "pending"
    /\ call' = [call EXCEPT ![c] = "timedOut"]
    /\ UNCHANGED <<carried, reply>>

\* A connection is gone, and the calls it carried with it.
Disconnect(lost) ==
    /\ call' = [c \in Calls |-> IF call[c] = "pending" THEN "disconnected" ELSE call[c]]
    /\ carried' = carried \ lost
    /\ reply' = [c \in Calls |-> IF c \in lost THEN "none" ELSE reply[c]]

Next ==
    \/ \E c \in Calls : Issue(c) \/ Refuse(c) \/ Answer(c) \/ Return(c) \/ TimeOut(c)
    \/ \E lost \in SUBSET carried : Disconnect(lost)

Spec == Init /\ [][Next]_vars
=============================================================================
