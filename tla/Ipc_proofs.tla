------------------------------ MODULE Ipc_proofs ------------------------------
(***************************************************************************)
(* Proofs about Ipc, for any clients, calls and bound on the events.       *)
(***************************************************************************)
EXTENDS Ipc, TLAPS

USE DEF vars, connVars, wireVars, entryVars, callVars, eventVars, tunnelVars

\* What is left of a sequence without one element.
LEMMA RemoveAtType ==
    ASSUME NEW S, NEW s \in Seq(S), NEW i \in DOMAIN s
    PROVE  RemoveAt(s, i) \in Seq(S)
  BY DEF RemoveAt

-----------------------------------------------------------------------------
(* The part of the state that decides how a call ends *)

\* The owner of a call is fixed.
IpcTyped == owner \in [Requests -> Clients]

LEMMA OwnerStays == IpcTyped /\ [Next]_vars => IpcTyped'
  BY DEF IpcTyped, Next, ClientEvent, ExecuteEvent, TunnelEvent, Connect,
         HandleConnection, ReceiveReply, ReadRequest, Close, Break, CallStatus,
         CallExecute, Pull, Awake, Abandon, StatusTimesOut, ExecuteTimesOut,
         FetchReturns, TunnelFails, StreamEvent, StreamDone, StreamEnds, DaemonExits

\* A timeout belongs to a pending call, and a call that the daemon or close() has
\* ended is pending no more.  A call that was not made has neither entry nor verdict.
VerdictInv ==
    /\ timer \subseteq pending
    /\ pending \subseteq Requests
    /\ asked \in [Clients -> Seq(Statuses)]
    /\ verdict \in [Requests -> {"none", "done", "failed", "timedOut", "closed"}]
    /\ phase \in [Requests -> {"idle", "suspended", "awaiting", "ended", "left"}]
    /\ \A r \in Requests : verdict[r] \in {"done", "failed", "closed"} => r \notin pending
    /\ \A r \in Requests : phase[r] = "idle" => verdict[r] = "none" /\ r \notin pending

\* A verdict of the daemon stays what it is.
Kept == \A r \in Requests : verdict[r] \in {"done", "failed"} => verdict'[r] = verdict[r]

\* The end of a call: its entry and its timeout go together.
LEMMA Ending ==
    ASSUME VerdictInv, NEW S \in SUBSET Requests, Forget(S), Wake(S),
           asked' \in [Clients -> Seq(Statuses)],
           \/ /\ S \subseteq pending
              /\ \E error \in {"failed", "timedOut", "closed"} : Reject(S, error)
           \/ \E r \in pending \cup Statuses : S = {r} /\ Resolve(r)
    PROVE  VerdictInv' /\ Kept
  BY DEF VerdictInv, Kept, Forget, Wake, Reject, Resolve, Requests

\* Steps that leave entries and verdicts alone, and start no call.
LEMMA NoVerdict ==
    ASSUME VerdictInv, UNCHANGED <<entryVars, verdict>>,
           phase' \in [Requests -> {"idle", "suspended", "awaiting", "ended", "left"}],
           \A r \in Requests : phase'[r] = "idle" => phase[r] = "idle"
    PROVE  VerdictInv' /\ Kept
  BY DEF VerdictInv, Kept

LEMMA VerdictStep == IpcTyped /\ VerdictInv /\ [Next]_vars => VerdictInv' /\ Kept
  <1> SUFFICES ASSUME IpcTyped, VerdictInv, [Next]_vars PROVE VerdictInv' /\ Kept
    OBVIOUS
  <1>1. ASSUME NEW r \in Executes, CallExecute(r) PROVE VerdictInv' /\ Kept
    BY <1>1 DEF CallExecute, VerdictInv, Kept, Requests
  <1>2. ASSUME NEW r \in Statuses, CallStatus(r) PROVE VerdictInv' /\ Kept
    <2>. owner[r] \in Clients
      BY DEF IpcTyped, Requests
    <2>1. asked' \in [Clients -> Seq(Statuses)]
      BY <1>2 DEF CallStatus, VerdictInv
    <2>. QED
      BY <1>2, <2>1 DEF CallStatus, VerdictInv, Kept, Requests
  <1>3. ASSUME NEW r \in Executes, Pull(r) \/ Awake(r) PROVE VerdictInv' /\ Kept
    <2>1. /\ UNCHANGED <<entryVars, verdict>>
          /\ \E p \in {"suspended", "awaiting", "ended"} :
                phase' = [phase EXCEPT ![r] = p]
      BY <1>3 DEF Pull, Awake, Resume
    <2>. QED
      BY <2>1, NoVerdict DEF VerdictInv, Requests
  <1>4. ASSUME NEW r \in Executes, Abandon(r) PROVE VerdictInv' /\ Kept
    BY <1>4, NoVerdict DEF Abandon, VerdictInv, Requests
  <1>5. ASSUME NEW r \in Executes, ExecuteTimesOut(r) PROVE VerdictInv' /\ Kept
    BY <1>5 DEF ExecuteTimesOut, Reject, Wake, VerdictInv, Kept, Requests
  <1>6. ASSUME NEW r \in Statuses, StatusTimesOut(r) PROVE VerdictInv' /\ Kept
    <2>1. owner[r] \in Clients
      BY DEF IpcTyped, Requests
    <2>2. asked' \in [Clients -> Seq(Statuses)]
      <3>1. PICK i \in DOMAIN asked[owner[r]] :
               asked' = [asked EXCEPT ![owner[r]] = RemoveAt(@, i)]
        BY <1>6 DEF StatusTimesOut
      <3>2. RemoveAt(asked[owner[r]], i) \in Seq(Statuses)
        BY <2>1, RemoveAtType DEF VerdictInv
      <3>. QED
        BY <2>1, <3>1, <3>2 DEF VerdictInv
    <2>3. {r} \subseteq pending /\ {r} \in SUBSET Requests
      BY <1>6 DEF StatusTimesOut, VerdictInv
    <2>4. Forget({r}) /\ Wake({r}) /\ Reject({r}, "timedOut")
      BY <1>6 DEF StatusTimesOut
    <2>. QED
      BY <2>2, <2>3, <2>4, Ending
  <1>7. ASSUME NEW c \in Clients, Close(c) PROVE VerdictInv' /\ Kept
    <2> DEFINE mine == {r \in pending : owner[r] = c}
    <2>1. Forget(mine) /\ Wake(mine) /\ Reject(mine, "closed")
      BY <1>7 DEF Close
    <2>2. mine \subseteq pending /\ mine \in SUBSET Requests
      BY DEF VerdictInv
    <2>3. asked' \in [Clients -> Seq(Statuses)]
      BY <1>7 DEF Close, VerdictInv
    <2>. QED
      BY <2>1, <2>2, <2>3, Ending
  <1>8. ASSUME NEW c \in Clients, ReceiveReply(c) PROVE VerdictInv' /\ Kept
    <2> DEFINE m == Head(toClient[c])
    <2>1. CASE ReceiveStatus(c)
      <3>1. CASE asked[c] = <<>>
        BY <2>1, <3>1, NoVerdict DEF ReceiveStatus, VerdictInv
      <3>2. CASE asked[c] # <<>>
        <4>1. Head(asked[c]) \in Statuses /\ Tail(asked[c]) \in Seq(Statuses)
          BY <3>2 DEF VerdictInv
        <4>2. /\ Forget({Head(asked[c])}) /\ Wake({Head(asked[c])})
              /\ Resolve(Head(asked[c]))
              /\ asked' = [asked EXCEPT ![c] = Tail(@)]
          BY <2>1, <3>2 DEF ReceiveStatus
        <4>3. asked' \in [Clients -> Seq(Statuses)]
          BY <4>1, <4>2 DEF VerdictInv
        <4>4. {Head(asked[c])} \in SUBSET Requests
          BY <4>1 DEF Requests
        <4>. QED
          BY <4>1, <4>2, <4>3, <4>4, Ending
      <3>. QED
        BY <3>1, <3>2
    <2>2. ASSUME m.requestId \in pending, ReceiveEvent(m.requestId, m.data)
          PROVE  VerdictInv' /\ Kept
      BY <2>2, NoVerdict DEF ReceiveEvent, Wake, VerdictInv, Requests
    <2>3. ASSUME m.requestId \in pending,
                 ReceiveDone(m.requestId) \/ ReceiveError(m.requestId)
          PROVE  VerdictInv' /\ Kept
      <3>1. {m.requestId} \subseteq pending /\ {m.requestId} \in SUBSET Requests
        BY <2>3 DEF VerdictInv
      <3>2. /\ Forget({m.requestId}) /\ Wake({m.requestId})
            /\ asked' \in [Clients -> Seq(Statuses)]
            /\ Resolve(m.requestId) \/ Reject({m.requestId}, "failed")
        BY <2>3 DEF ReceiveDone, ReceiveError, VerdictInv
      <3>. QED
        BY <3>1, <3>2, Ending
    <2>4. CASE UNCHANGED <<entryVars, callVars, eventVars>>
      BY <2>4, NoVerdict DEF VerdictInv
    <2>. QED
      BY <1>8, <2>1, <2>2, <2>3, <2>4 DEF ReceiveReply
  <1>9. CASE UNCHANGED <<entryVars, callVars>>
    BY <1>9, NoVerdict DEF VerdictInv
  <1>10. ASSUME NEW c \in Clients,
                Connect(c) \/ HandleConnection(c) \/ ReadRequest(c) \/ Break(c)
         PROVE  VerdictInv' /\ Kept
    BY <1>9, <1>10 DEF Connect, HandleConnection, ReadRequest, Break
  <1>11. ASSUME NEW r \in Executes, TunnelEvent(r) PROVE VerdictInv' /\ Kept
    BY <1>9, <1>11 DEF TunnelEvent, FetchReturns, TunnelFails, StreamEvent, StreamDone,
                       StreamEnds
  <1>12. CASE DaemonExits \/ UNCHANGED vars
    BY <1>9, <1>12 DEF DaemonExits
  <1>. QED
    BY <1>1, <1>2, <1>3, <1>4, <1>5, <1>6, <1>7, <1>8, <1>10, <1>11, <1>12
       DEF Next, ClientEvent, ExecuteEvent

\* What the daemon said of a call is what its caller gets: neither a timeout, nor
\* a later error of the stream, nor close() replaces it.
THEOREM VerdictStays == Spec => VerdictIsFinal
  <1>1. Init => IpcTyped /\ VerdictInv
    BY DEF Init, IpcTyped, VerdictInv
  <1>2. IpcTyped /\ [Next]_vars => IpcTyped'
    BY OwnerStays
  <1>3. IpcTyped /\ VerdictInv /\ [Next]_vars => VerdictInv' /\ Kept
    BY VerdictStep
  <1>4. Kept <=> \A r \in Requests :
                    verdict[r] \in {"done", "failed"} => verdict'[r] = verdict[r]
    BY DEF Kept
  <1>. QED
    BY <1>1, <1>2, <1>3, <1>4, PTL DEF Spec, VerdictIsFinal

-----------------------------------------------------------------------------
(* What is on the wires *)

\* The events that follow the first q, up to s, are in the wire w before its place i.
AllBefore(w, r, q, s, i) ==
    \A k \in (q + 1)..s : \E j \in 1..(i - 1) : w[j] = Event(r, k)

\* The events of r in the wire w are the ones after the first q, none above s, each
\* preceded by the one before it, in increasing order.
EventsFollow(w, r, q, s) ==
    \A i \in DOMAIN w, n \in 1..MaxEvents : w[i] = Event(r, n) =>
        /\ q < n /\ n <= s
        /\ AllBefore(w, r, q, n - 1, i)
        /\ \A j \in 1..(i - 1), k \in 1..MaxEvents : w[j] = Event(r, k) => k < n

\* A success comes after all events, once there are no more.
DoneIsLast(w, r, q, s, over) ==
    \A i \in DOMAIN w : w[i] = Done(r) => over /\ AllBefore(w, r, q, s, i)

Follows(w, r, q, s, over, live) ==
    /\ EventsFollow(w, r, q, s)
    /\ DoneIsLast(w, r, q, s, over)
    /\ live => AllBefore(w, r, q, s, Len(w) + 1)

\* Neither an event nor the success of r.
Foreign(m, r) == m # Done(r) /\ \A n \in 1..MaxEvents : m # Event(r, n)

LEMMA Messages ==
    /\ \A q, r, m, n : Event(q, m) = Event(r, n) <=> q = r /\ m = n
    /\ \A q, r : Done(q) = Done(r) <=> q = r
    /\ \A q, r, n : Done(q) # Event(r, n)
    /\ \A q, r, n : Error(q) # Event(r, n) /\ Error(q) # Done(r)
    /\ \A r, n : Status # Event(r, n) /\ Status # Done(r) /\ Status # Execute(r)
    /\ \A q, r : Execute(q) = Execute(r) <=> q = r
  BY DEF Event, Done, Error, Status, Execute

\* One more message that does not concern r.
LEMMA AppendForeign ==
    ASSUME NEW w \in Seq(Replies), NEW r \in Executes, NEW q \in Nat, NEW s \in Nat,
           NEW over \in BOOLEAN, NEW live \in BOOLEAN, Follows(w, r, q, s, over, live),
           NEW m \in Replies, Foreign(m, r)
    PROVE  Follows(Append(w, m), r, q, s, over, live)
  <1> DEFINE v == Append(w, m)
  <1>1. /\ Len(v) = Len(w) + 1 /\ DOMAIN v = 1..Len(v)
        /\ DOMAIN w = 1..Len(w) /\ Len(w) \in Nat
        /\ v[Len(v)] = m /\ \A j \in DOMAIN w : v[j] = w[j]
    OBVIOUS
  <1> HIDE DEF v
  <1>2. \A i \in 1..(Len(w) + 1), t \in Nat : AllBefore(w, r, q, t, i) => AllBefore(v, r, q, t, i)
    BY <1>1 DEF AllBefore
  <1>3. EventsFollow(v, r, q, s)
    <2> SUFFICES ASSUME NEW i \in DOMAIN v, NEW n \in 1..MaxEvents, v[i] = Event(r, n)
                 PROVE  /\ q < n /\ n <= s /\ AllBefore(v, r, q, n - 1, i)
                        /\ \A j \in 1..(i - 1), k \in 1..MaxEvents : v[j] = Event(r, k) => k < n
      BY DEF EventsFollow
    <2>1. i \in DOMAIN w
      BY <1>1 DEF Foreign
    <2>2. /\ q < n /\ n <= s /\ AllBefore(w, r, q, n - 1, i)
          /\ \A j \in 1..(i - 1), k \in 1..MaxEvents : w[j] = Event(r, k) => k < n
      BY <1>1, <2>1 DEF EventsFollow, Follows
    <2> QED BY <1>1, <1>2, <2>1, <2>2, IpcAssumption
  <1>4. DoneIsLast(v, r, q, s, over)
    BY <1>1, <1>2 DEF DoneIsLast, Follows, Foreign
  <1>5. live => AllBefore(v, r, q, s, Len(v) + 1)
    BY <1>1 DEF AllBefore, Follows
  <1> QED BY <1>3, <1>4, <1>5 DEF Follows, v

\* The next event is sent on the wire of its caller.
LEMMA AppendEvent ==
    ASSUME NEW w \in Seq(Replies), NEW r \in Executes, NEW q \in Nat, NEW s \in Nat,
           s < MaxEvents, q <= s,
           Follows(w, r, q, s, FALSE, TRUE)
    PROVE  Follows(Append(w, Event(r, s + 1)), r, q, s + 1, FALSE, TRUE)
  <1> DEFINE v == Append(w, Event(r, s + 1))
  <1>1. /\ Len(v) = Len(w) + 1 /\ DOMAIN v = 1..Len(v)
        /\ DOMAIN w = 1..Len(w) /\ Len(w) \in Nat
        /\ v[Len(v)] = Event(r, s + 1) /\ \A j \in DOMAIN w : v[j] = w[j]
    OBVIOUS
  <1> HIDE DEF v
  <1>2. \A i \in 1..(Len(w) + 1), t \in Nat : AllBefore(w, r, q, t, i) => AllBefore(v, r, q, t, i)
    BY <1>1 DEF AllBefore
  <1>3. ASSUME NEW i \in DOMAIN v, NEW n \in 1..MaxEvents, v[i] = Event(r, n)
        PROVE  /\ q < n /\ n <= s + 1
               /\ AllBefore(v, r, q, n - 1, i)
               /\ \A j \in 1..(i - 1), k \in 1..MaxEvents : v[j] = Event(r, k) => k < n
    <2>1. CASE i \in DOMAIN w
      BY <1>1, <1>2, <1>3, <2>1 DEF EventsFollow, Follows
    <2>2. CASE i = Len(v)
      <3>1. n = s + 1
        BY <1>1, <1>3, <2>2, Messages
      <3>2. AllBefore(v, r, q, s, i)
        BY <1>1, <1>2, <2>2 DEF Follows
      <3> QED BY <1>1, <2>2, <3>1, <3>2 DEF EventsFollow, Follows
    <2> QED BY <1>1, <2>1, <2>2
  <1>4. \A i \in DOMAIN v : v[i] # Done(r)
    BY <1>1, Messages DEF Follows, DoneIsLast
  <1>5. AllBefore(v, r, q, s + 1, Len(v) + 1)
    BY <1>1 DEF AllBefore, Follows
  <1> QED BY <1>3, <1>4, <1>5 DEF Follows, EventsFollow, DoneIsLast, v

\* The success is sent after the last event.
LEMMA AppendDone ==
    ASSUME NEW w \in Seq(Replies), NEW r \in Executes, NEW q \in Nat, NEW s \in Nat,
           NEW over \in BOOLEAN, Follows(w, r, q, s, over, TRUE)
    PROVE  Follows(Append(w, Done(r)), r, q, s, TRUE, TRUE)
  <1> DEFINE v == Append(w, Done(r))
  <1>1. /\ Len(v) = Len(w) + 1 /\ DOMAIN v = 1..Len(v)
        /\ DOMAIN w = 1..Len(w) /\ Len(w) \in Nat
        /\ v[Len(v)] = Done(r) /\ \A j \in DOMAIN w : v[j] = w[j]
    BY Messages DEF Done, Replies
  <1> HIDE DEF v
  <1>2. \A i \in 1..(Len(w) + 1), t \in Nat : AllBefore(w, r, q, t, i) => AllBefore(v, r, q, t, i)
    BY <1>1 DEF AllBefore
  <1>3. EventsFollow(v, r, q, s)
    BY <1>1, <1>2, Messages DEF EventsFollow, Follows
  <1>4. DoneIsLast(v, r, q, s, TRUE)
    BY <1>1, <1>2 DEF DoneIsLast, Follows
  <1>5. AllBefore(v, r, q, s, Len(v) + 1)
    BY <1>1 DEF AllBefore, Follows
  <1> QED BY <1>3, <1>4, <1>5 DEF Follows, v

\* A message of the daemon that is lost leaves what is on a wire that no longer counts.
LEMMA SentElsewhere ==
    ASSUME NEW w \in Seq(Replies), NEW r \in Executes, NEW q \in Nat, NEW s \in Nat,
           Follows(w, r, q, s, FALSE, FALSE), NEW over \in BOOLEAN
    PROVE  Follows(w, r, q, s + 1, over, FALSE)
  BY DEF Follows, EventsFollow, DoneIsLast

\* The first message is read: one that does not concern r ...
LEMMA TailForeign ==
    ASSUME NEW w \in Seq(Replies), NEW r \in Executes, NEW q \in Nat, NEW s \in Nat,
           NEW over \in BOOLEAN, NEW live \in BOOLEAN, Follows(w, r, q, s, over, live),
           s <= MaxEvents, w # <<>>, Foreign(Head(w), r)
    PROVE  Follows(Tail(w), r, q, s, over, live)
  <1> DEFINE v == Tail(w)
  <1>1. /\ Len(v) = Len(w) - 1 /\ Len(v) \in Nat /\ DOMAIN v = 1..Len(v)
        /\ DOMAIN w = 1..Len(w) /\ Len(w) \in Nat
        /\ Head(w) = w[1] /\ \A j \in DOMAIN v : v[j] = w[j + 1]
    OBVIOUS
  <1> HIDE DEF v
  <1>2. ASSUME NEW i \in 1..(Len(v) + 1), NEW t \in 0..MaxEvents, AllBefore(w, r, q, t, i + 1)
        PROVE  AllBefore(v, r, q, t, i)
    <2> SUFFICES ASSUME NEW k \in (q + 1)..t PROVE \E j \in 1..(i - 1) : v[j] = Event(r, k)
      BY DEF AllBefore
    <2>1. PICK j \in 1..i : w[j] = Event(r, k)
      BY <1>2 DEF AllBefore
    <2>2. j # 1
      BY <1>1, <2>1, IpcAssumption DEF Foreign
    <2>3. j - 1 \in 1..(i - 1) /\ v[j - 1] = Event(r, k)
      BY <1>1, <2>1, <2>2
    <2> QED BY <2>3
  <1>3. ASSUME NEW i \in DOMAIN v, NEW n \in 1..MaxEvents, v[i] = Event(r, n)
        PROVE  /\ q < n /\ n <= s
               /\ AllBefore(v, r, q, n - 1, i)
               /\ \A j \in 1..(i - 1), k \in 1..MaxEvents : v[j] = Event(r, k) => k < n
    <2>1. i + 1 \in DOMAIN w /\ w[i + 1] = Event(r, n)
      BY <1>1, <1>3
    <2>2. /\ q < n /\ n <= s /\ AllBefore(w, r, q, n - 1, i + 1)
          /\ \A j \in 1..i, k \in 1..MaxEvents : w[j] = Event(r, k) => k < n
      BY <2>1, <1>1 DEF EventsFollow, Follows
    <2>3. AllBefore(v, r, q, n - 1, i)
      BY <1>1, <1>2, <2>2, IpcAssumption
    <2> QED BY <1>1, <2>2, <2>3
  <1>4. ASSUME NEW i \in DOMAIN v, v[i] = Done(r)
        PROVE  over /\ AllBefore(v, r, q, s, i)
    <2>1. i + 1 \in DOMAIN w /\ w[i + 1] = Done(r)
      BY <1>1, <1>4
    <2> QED BY <1>1, <1>2, <2>1 DEF DoneIsLast, Follows
  <1>5. live => AllBefore(v, r, q, s, Len(v) + 1)
    BY <1>1, <1>2 DEF Follows
  <1> QED BY <1>3, <1>4, <1>5 DEF Follows, EventsFollow, DoneIsLast, v

\* ... the event of r, which is the next one, ...
LEMMA TailEvent ==
    ASSUME NEW w \in Seq(Replies), NEW r \in Executes, NEW q \in Nat, NEW s \in Nat,
           NEW over \in BOOLEAN, NEW live \in BOOLEAN, Follows(w, r, q, s, over, live),
           s <= MaxEvents, w # <<>>, NEW n \in 1..MaxEvents, Head(w) = Event(r, n)
    PROVE  n = q + 1 /\ n <= s /\ Follows(Tail(w), r, n, s, over, live)
  <1> DEFINE v == Tail(w)
  <1>1. /\ Len(v) = Len(w) - 1 /\ Len(v) \in Nat /\ DOMAIN v = 1..Len(v)
        /\ DOMAIN w = 1..Len(w) /\ Len(w) \in Nat
        /\ w[1] = Event(r, n) /\ \A j \in DOMAIN v : v[j] = w[j + 1]
    OBVIOUS
  <1> HIDE DEF v
  <1>2. n = q + 1 /\ n <= s
    <2>1. q < n /\ n <= s /\ AllBefore(w, r, q, n - 1, 1)
      BY <1>1 DEF Follows, EventsFollow
    <2>2. ~(q + 1 <= n - 1)
      BY <2>1, IpcAssumption DEF AllBefore
    <2> QED BY <2>1, <2>2, IpcAssumption
  <1>3. ASSUME NEW i \in 1..(Len(v) + 1), NEW t \in 0..MaxEvents, AllBefore(w, r, q, t, i + 1)
        PROVE  AllBefore(v, r, n, t, i)
    <2> SUFFICES ASSUME NEW k \in (n + 1)..t PROVE \E j \in 1..(i - 1) : v[j] = Event(r, k)
      BY DEF AllBefore
    <2>1. PICK j \in 1..i : w[j] = Event(r, k)
      BY <1>2, <1>3, IpcAssumption DEF AllBefore
    <2>2. j # 1
      BY <1>1, <2>1, Messages, IpcAssumption
    <2>3. j - 1 \in 1..(i - 1) /\ v[j - 1] = Event(r, k)
      BY <1>1, <2>1, <2>2
    <2> QED BY <2>3
  <1>4. ASSUME NEW i \in DOMAIN v, NEW m \in 1..MaxEvents, v[i] = Event(r, m)
        PROVE  /\ n < m /\ m <= s
               /\ AllBefore(v, r, n, m - 1, i)
               /\ \A j \in 1..(i - 1), k \in 1..MaxEvents : v[j] = Event(r, k) => k < m
    <2>1. i + 1 \in DOMAIN w /\ w[i + 1] = Event(r, m)
      BY <1>1, <1>4
    <2>2. /\ m <= s /\ AllBefore(w, r, q, m - 1, i + 1)
          /\ \A j \in 1..i, k \in 1..MaxEvents : w[j] = Event(r, k) => k < m
      BY <2>1, <1>1 DEF EventsFollow, Follows
    <2>3. n < m
      BY <1>1, <2>2
    <2>4. AllBefore(v, r, n, m - 1, i)
      BY <1>1, <1>3, <2>2, IpcAssumption
    <2> QED BY <1>1, <2>2, <2>3, <2>4
  <1>5. ASSUME NEW i \in DOMAIN v, v[i] = Done(r)
        PROVE  over /\ AllBefore(v, r, n, s, i)
    <2>1. i + 1 \in DOMAIN w /\ w[i + 1] = Done(r)
      BY <1>1, <1>5
    <2> QED BY <1>1, <1>3, <2>1 DEF DoneIsLast, Follows
  <1>6. live => AllBefore(v, r, n, s, Len(v) + 1)
    BY <1>1, <1>3 DEF Follows
  <1> QED BY <1>2, <1>4, <1>5, <1>6 DEF Follows, EventsFollow, DoneIsLast, v

\* ... or its end, which finds every event read.
LEMMA HeadDone ==
    ASSUME NEW w \in Seq(Replies), NEW r \in Executes, NEW q \in Nat, NEW s \in Nat,
           NEW over \in BOOLEAN, NEW live \in BOOLEAN, Follows(w, r, q, s, over, live),
           q <= s, w # <<>>, Head(w) = Done(r)
    PROVE  over /\ q = s
  <1>1. 1 \in DOMAIN w /\ w[1] = Done(r)
    OBVIOUS
  <1>2. over /\ AllBefore(w, r, q, s, 1)
    BY <1>1 DEF Follows, DoneIsLast
  <1> QED BY <1>2 DEF AllBefore

LEMMA EmptyWire ==
    ASSUME NEW r, NEW q, NEW s, NEW over, NEW live, ~live
    PROVE  Follows(<<>>, r, q, s, over, live)
  BY DEF Follows, EventsFollow, DoneIsLast

-----------------------------------------------------------------------------
(* The invariant *)

\* The connection of the caller.
Wire(r) == toClient[owner[r]]

Over(r) == tunnel[r] \in {"finished", "over"}

Live(r) == socket = owner[r] /\ conn[socket] = "open"

\* The events in flight for a pending call are the next ones, in order and without a
\* gap, the success comes after all of them, and none is lost while the connection is
\* the one accepted last.
Streams(r) == Follows(Wire(r), r, Len(queue[r]), sent[r], Over(r), Live(r))

\* The request of a call is sent once, on the connection of its caller.
Asks(s, r) == \E i \in DOMAIN s : s[i] = Execute(r)

AsksOnce(s, r) == \A i, j \in DOMAIN s : s[i] = Execute(r) /\ s[j] = Execute(r) => i = j

RequestOnce(r) ==
    /\ \A c \in Clients :
          /\ AsksOnce(toServer[c], r)
          /\ Asks(toServer[c], r) => c = owner[r] /\ tunnel[r] = "none" /\ phase[r] # "idle"
    /\ phase[r] = "idle" => tunnel[r] = "none"
    /\ tunnel[r] # "none" => owner[r] \in accepted

\* Nothing comes back before the request was read.
Untold(r) == sent[r] = 0 /\ \A i \in DOMAIN Wire(r) : Foreign(Wire(r)[i], r)

\* A generator yields what was pushed, and nothing is pushed that was not sent.
StreamInv(r) ==
    /\ taken[r] <= Len(queue[r]) /\ Len(queue[r]) <= sent[r]
    /\ tunnel[r] = "none" => Untold(r)
    /\ r \in pending => Streams(r)

WireInv ==
    /\ \A c \in accepted : conn[c] # "new"
    /\ \A r \in Executes : RequestOnce(r) /\ StreamInv(r)

IpcInv == TypeOK /\ VerdictInv /\ WireInv

-----------------------------------------------------------------------------
(* Types *)

LEMMA LinksStep == TypeOK /\ [Next]_vars => LinksOK'
  <1> SUFFICES ASSUME LinksOK, [Next]_vars PROVE LinksOK'
    BY DEF TypeOK
  <1> USE DEF LinksOK
  <1>1. ASSUME NEW c \in Clients, ClientEvent(c) PROVE LinksOK'
    BY <1>1 DEF ClientEvent, Connect, HandleConnection, ReceiveReply, ReadRequest,
                ExecuteTunnel, Close, Break
  <1>2. ASSUME NEW r \in Executes, ExecuteEvent(r) \/ TunnelEvent(r) PROVE LinksOK'
    BY <1>2 DEF ExecuteEvent, CallExecute, Pull, Awake, Abandon, ExecuteTimesOut,
                TunnelEvent, FetchReturns, TunnelFails, StreamEvent, StreamDone, StreamEnds
  <1>3. ASSUME NEW r \in Statuses, CallStatus(r) \/ StatusTimesOut(r) PROVE LinksOK'
    BY <1>3 DEF CallStatus, StatusTimesOut
  <1>4. CASE DaemonExits \/ UNCHANGED vars
    BY <1>4 DEF DaemonExits
  <1> QED BY <1>1, <1>2, <1>3, <1>4 DEF Next

\* A reply is appended to one wire, or to none.
LEMMA ReplyType ==
    ASSUME WiresOK, NEW ms \in Seq(Replies), Reply(ms)
    PROVE  toClient' \in [Clients -> Seq(Replies)]
  BY DEF WiresOK, Reply

LEMMA RequestType ==
    ASSUME WiresOK, NEW c \in Clients, NEW m \in Requested, Request(c, m)
    PROVE  toServer' \in [Clients -> Seq(Requested)]
  BY DEF WiresOK, Request

LEMMA WiresStep == TypeOK /\ [Next]_vars => WiresOK'
  <1> SUFFICES ASSUME TypeOK, WiresOK, [Next]_vars PROVE WiresOK'
    BY DEF TypeOK
  <1>1. ASSUME NEW c \in Clients, ReceiveReply(c) PROVE WiresOK'
    BY <1>1 DEF ReceiveReply, WiresOK
  <1>2. ASSUME NEW c \in Clients, ReadRequest(c) PROVE WiresOK'
    <2>1. toServer' \in [Clients -> Seq(Requested)]
      BY <1>2 DEF ReadRequest, WiresOK
    <2>2. <<Status>> \in Seq(Replies)
      BY DEF Replies
    <2>3. toClient' \in [Clients -> Seq(Replies)]
      BY <1>2, <2>2, ReplyType DEF ReadRequest, WiresOK
    <2> QED BY <2>1, <2>3 DEF WiresOK
  <1>3. ASSUME NEW c \in Clients, Close(c) \/ Break(c) PROVE WiresOK'
    <2>1. <<>> \in Seq(Replies) /\ <<>> \in Seq(Requested)
      OBVIOUS
    <2> QED BY <1>3, <2>1 DEF Close, Break, WiresOK
  <1>4. ASSUME NEW c \in Clients, Connect(c) \/ HandleConnection(c) PROVE WiresOK'
    BY <1>4 DEF Connect, HandleConnection, WiresOK
  <1>5. ASSUME NEW r \in Executes, CallExecute(r) PROVE WiresOK'
    <2>1. Execute(r) \in Requested /\ owner[r] \in Clients
      BY DEF Requested, TypeOK, LinksOK, Requests
    <2> QED BY <1>5, <2>1, RequestType DEF CallExecute, WiresOK
  <1>6. ASSUME NEW r \in Statuses, CallStatus(r) PROVE WiresOK'
    <2>1. Status \in Requested /\ owner[r] \in Clients
      BY DEF Requested, TypeOK, LinksOK, Requests
    <2> QED BY <1>6, <2>1, RequestType DEF CallStatus, WiresOK
  <1>7. ASSUME NEW r \in Executes, TunnelEvent(r) PROVE WiresOK'
    <2>1. Error(r) \in Replies /\ Done(r) \in Replies
      BY DEF Replies
    <2>2. sent[r] < MaxEvents => Event(r, sent[r] + 1) \in Replies
      <3>1. sent[r] < MaxEvents => sent[r] + 1 \in 1..MaxEvents
        BY IpcAssumption DEF TypeOK, EventsOK
      <3> QED BY <3>1 DEF Replies
    <2>3. CASE TunnelFails(r)
      <3>1. <<Error(r)>> \in Seq(Replies)
        BY <2>1
      <3> QED BY <2>3, <3>1, ReplyType DEF TunnelFails, WiresOK
    <2>4. CASE StreamEvent(r)
      <3>1. <<Event(r, sent[r] + 1)>> \in Seq(Replies)
        BY <2>2, <2>4 DEF StreamEvent
      <3> QED BY <2>4, <3>1, ReplyType DEF StreamEvent, WiresOK
    <2>5. CASE StreamDone(r)
      <3>1. <<Event(r, sent[r] + 1), Done(r)>> \in Seq(Replies)
        BY <2>1, <2>2, <2>5 DEF StreamDone
      <3> QED BY <2>5, <3>1, ReplyType DEF StreamDone, WiresOK
    <2>6. CASE FetchReturns(r) \/ StreamEnds(r)
      BY <2>6 DEF FetchReturns, StreamEnds, WiresOK
    <2> QED BY <1>7, <2>3, <2>4, <2>5, <2>6 DEF TunnelEvent
  <1>8. ASSUME NEW r \in Executes, Pull(r) \/ Awake(r) \/ Abandon(r) \/ ExecuteTimesOut(r)
        PROVE  WiresOK'
    BY <1>8 DEF Pull, Awake, Abandon, ExecuteTimesOut, WiresOK
  <1>9. ASSUME NEW r \in Statuses, StatusTimesOut(r) PROVE WiresOK'
    BY <1>9 DEF StatusTimesOut, WiresOK
  <1>10. CASE DaemonExits \/ UNCHANGED vars
    BY <1>10 DEF DaemonExits, WiresOK
  <1> QED BY <1>1, <1>2, <1>3, <1>4, <1>5, <1>6, <1>7, <1>8, <1>9, <1>10
          DEF Next, ClientEvent, ExecuteEvent

\* Entries and calls: VerdictInv has their types, but for the generators notified.
LEMMA CallsStep == TypeOK /\ VerdictInv /\ [Next]_vars => EntriesOK' /\ CallsOK'
  <1> SUFFICES ASSUME TypeOK, VerdictInv, [Next]_vars, VerdictInv' PROVE EntriesOK' /\ CallsOK'
    BY VerdictStep DEF TypeOK, LinksOK, IpcTyped
  <1>1. EntriesOK'
    BY DEF VerdictInv, EntriesOK
  <1>2. notified' \subseteq Executes
    <2> SUFFICES ASSUME notified \subseteq Executes PROVE notified' \subseteq Executes
      BY DEF TypeOK, CallsOK
    <2>1. ASSUME NEW c \in Clients, ClientEvent(c) PROVE notified' \subseteq Executes
      BY <2>1 DEF ClientEvent, Connect, HandleConnection, ReceiveReply, ReceiveStatus,
                  ReceiveEvent, ReceiveDone, ReceiveError, Wake, ReadRequest, Close, Break
    <2>2. ASSUME NEW r \in Executes, ExecuteEvent(r) \/ TunnelEvent(r)
          PROVE  notified' \subseteq Executes
      BY <2>2 DEF ExecuteEvent, CallExecute, Pull, Awake, Abandon, ExecuteTimesOut, Wake,
                  TunnelEvent, FetchReturns, TunnelFails, StreamEvent, StreamDone, StreamEnds
    <2>3. ASSUME NEW r \in Statuses, CallStatus(r) \/ StatusTimesOut(r)
          PROVE  notified' \subseteq Executes
      BY <2>3 DEF CallStatus, StatusTimesOut, Wake
    <2>4. CASE DaemonExits \/ UNCHANGED vars
      BY <2>4 DEF DaemonExits
    <2> QED BY <2>1, <2>2, <2>3, <2>4 DEF Next
  <1> QED BY <1>1, <1>2 DEF VerdictInv, CallsOK

-----------------------------------------------------------------------------
(* Requests *)

LEMMA ShorterRequests ==
    ASSUME NEW s \in Seq(Requested), NEW r, NEW t \in {s, <<>>, Tail(s)},
           s # <<>> \/ t # Tail(s), AsksOnce(s, r)
    PROVE  AsksOnce(t, r) /\ (Asks(t, r) => Asks(s, r))
  BY DEF AsksOnce, Asks

LEMMA RequestIsRead ==
    ASSUME NEW s \in Seq(Requested), NEW r, s # <<>>, Head(s) = Execute(r), AsksOnce(s, r)
    PROVE  ~Asks(Tail(s), r)
  BY DEF AsksOnce, Asks

LEMMA OneMoreRequest ==
    ASSUME NEW s \in Seq(Requested), NEW m \in Requested, NEW r, AsksOnce(s, r),
           m = Execute(r) => ~Asks(s, r)
    PROVE  /\ AsksOnce(Append(s, m), r)
           /\ Asks(Append(s, m), r) => Asks(s, r) \/ m = Execute(r)
  BY DEF AsksOnce, Asks

\* A step that sends and reads no request.
LEMMA SameRequests ==
    ASSUME IpcInv, NEW r \in Executes, UNCHANGED <<owner, toServer>>,
           accepted \subseteq accepted', phase'[r] = "idle" <=> phase[r] = "idle",
           tunnel'[r] = "none" <=> tunnel[r] = "none"
    PROVE  RequestOnce(r)'
  BY DEF IpcInv, WireInv, RequestOnce

LEMMA RequestStep == IpcInv /\ [Next]_vars => \A r \in Executes : RequestOnce(r)'
  <1> SUFFICES ASSUME IpcInv, [Next]_vars, NEW r \in Executes PROVE RequestOnce(r)'
    OBVIOUS
  <1>t. /\ TypeOK /\ RequestOnce(r) /\ owner \in [Requests -> Clients] /\ r \in Requests
        /\ toServer \in [Clients -> Seq(Requested)]
    BY DEF IpcInv, WireInv, TypeOK, LinksOK, WiresOK, Requests
  <1>p. phase \in [Requests -> {"idle", "suspended", "awaiting", "ended", "left"}]
        /\ tunnel \in [Executes -> {"none", "fetching", "streaming", "finished", "over"}]
    BY <1>t DEF TypeOK, CallsOK, EventsOK
  <1>1. ASSUME NEW c \in Clients, Connect(c) \/ HandleConnection(c) PROVE RequestOnce(r)'
    BY <1>1, SameRequests DEF Connect, HandleConnection
  <1>2. ASSUME NEW c \in Clients, ReceiveReply(c) PROVE RequestOnce(r)'
    <2>1. phase'[r] = phase[r]
      BY <1>2, <1>t, IpcAssumption
         DEF ReceiveReply, ReceiveStatus, ReceiveEvent, ReceiveDone, ReceiveError, Wake
    <2> QED BY <1>2, <2>1, SameRequests DEF ReceiveReply
  <1>3. ASSUME NEW c \in Clients, ReadRequest(c) PROVE RequestOnce(r)'
    <2> DEFINE m == Head(toServer[c])
    <2>1. /\ toServer' = [toServer EXCEPT ![c] = Tail(toServer[c])] /\ toServer[c] # <<>>
          /\ c \in accepted /\ UNCHANGED <<owner, accepted, phase>>
      BY <1>3 DEF ReadRequest
    <2>2. /\ \A d \in Clients \ {c} : toServer'[d] = toServer[d]
          /\ toServer'[c] = Tail(toServer[c])
      BY <1>t, <2>1
    <2>3. \A d \in Clients : /\ AsksOnce(toServer'[d], r)
                             /\ Asks(toServer'[d], r) => Asks(toServer[d], r)
      BY <1>t, <2>1, <2>2, ShorterRequests DEF RequestOnce
    <2>4. CASE tunnel'[r] = tunnel[r]
      BY <1>t, <2>1, <2>3, <2>4 DEF RequestOnce
    <2>5. CASE tunnel'[r] # tunnel[r]
      <3>1. m.type = "execute" /\ ExecuteTunnel(m.requestId)
        BY <1>3, <2>5 DEF ReadRequest
      <3>2. m \in Requested
        BY <1>t, <2>1
      <3>3. PICK q \in Executes : m = Execute(q)
        BY <3>1, <3>2 DEF Requested, Status
      <3>4. m = Execute(r) /\ tunnel'[r] = "fetching"
        BY <1>p, <2>5, <3>1, <3>3 DEF ExecuteTunnel, Execute
      <3>5. Asks(toServer[c], r)
        BY <1>t, <2>1, <3>4 DEF Asks
      <3>6. ~Asks(toServer'[c], r)
        BY <1>t, <2>1, <2>2, <3>4, RequestIsRead DEF RequestOnce
      <3>7. c = owner[r] /\ phase[r] # "idle"
        BY <1>t, <3>5 DEF RequestOnce
      <3> QED BY <1>t, <2>1, <2>3, <3>4, <3>6, <3>7 DEF RequestOnce
    <2> QED BY <2>4, <2>5
  <1>4. ASSUME NEW c \in Clients, Close(c) \/ Break(c) PROVE RequestOnce(r)'
    <2>1. /\ UNCHANGED <<owner, accepted, tunnel>>
          /\ \A d \in Clients : toServer'[d] \in {toServer[d], <<>>}
      BY <1>4, <1>t DEF Close, Break
    <2>2. phase'[r] = phase[r]
      BY <1>4, <1>t, IpcAssumption DEF Close, Break, Wake
    <2>3. \A d \in Clients : /\ AsksOnce(toServer'[d], r)
                             /\ Asks(toServer'[d], r) => Asks(toServer[d], r)
      BY <1>t, <2>1 DEF RequestOnce, AsksOnce, Asks
    <2> QED BY <1>t, <2>1, <2>2, <2>3 DEF RequestOnce
  <1>5. ASSUME NEW q \in Requests, NEW m \in Requested, Request(owner[q], m),
               phase[q] = "idle", phase' = [phase EXCEPT ![q] = "awaiting"],
               UNCHANGED <<owner, accepted, tunnel>>, m = Execute(r) <=> q = r
        PROVE  RequestOnce(r)'
    <2>1. owner[q] \in Clients
      BY <1>t
    <2>2. \A d \in Clients : \/ toServer'[d] = toServer[d]
                            \/ (d = owner[q] /\ toServer'[d] = Append(toServer[d], m))
      <3>1. PICK s : /\ toServer' = [toServer EXCEPT ![owner[q]] = s]
                     /\ s \in {toServer[owner[q]], Append(toServer[owner[q]], m)}
        BY <1>5 DEF Request
      <3> QED BY <1>t, <2>1, <3>1
    <2>3. \A d \in Clients : m = Execute(r) => ~Asks(toServer[d], r)
      BY <1>5, <1>t DEF RequestOnce
    <2>4. \A d \in Clients :
              /\ AsksOnce(toServer'[d], r)
              /\ Asks(toServer'[d], r) => Asks(toServer[d], r) \/ (d = owner[q] /\ q = r)
      <3> TAKE d \in Clients
      <3>1. AsksOnce(toServer[d], r) /\ toServer[d] \in Seq(Requested)
        BY <1>t DEF RequestOnce
      <3>2. CASE toServer'[d] = toServer[d]
        BY <3>1, <3>2
      <3>3. CASE d = owner[q] /\ toServer'[d] = Append(toServer[d], m)
        BY <1>5, <2>3, <3>1, <3>3, OneMoreRequest
      <3> QED BY <2>2, <3>2, <3>3
    <2>5. phase'[r] = IF r = q THEN "awaiting" ELSE phase[r]
      BY <1>5, <1>t, <1>p
    <2> QED BY <1>5, <1>t, <2>4, <2>5 DEF RequestOnce
  <1>6. ASSUME NEW q \in Executes, CallExecute(q) PROVE RequestOnce(r)'
    <2>1. Execute(q) \in Requested /\ (Execute(q) = Execute(r) <=> q = r) /\ q \in Requests
      BY Messages DEF Requested, Requests
    <2> QED BY <1>5, <1>6, <2>1 DEF CallExecute
  <1>7. ASSUME NEW q \in Statuses, CallStatus(q) PROVE RequestOnce(r)'
    <2>1. Status \in Requested /\ Status # Execute(r) /\ q # r /\ q \in Requests
      BY Messages, IpcAssumption DEF Requested, Requests
    <2> QED BY <1>5, <1>7, <2>1 DEF CallStatus
  <1>8. ASSUME NEW q \in Executes, Pull(q) \/ Awake(q) \/ Abandon(q) PROVE RequestOnce(r)'
    <2>1. phase'[r] = "idle" <=> phase[r] = "idle"
      BY <1>8, <1>t, <1>p DEF Pull, Awake, Abandon, Resume
    <2> QED BY <1>8, <2>1, SameRequests DEF Pull, Awake, Abandon
  <1>9. ASSUME (\E q \in Executes : ExecuteTimesOut(q)) \/ (\E q \in Statuses : StatusTimesOut(q))
        PROVE  RequestOnce(r)'
    <2>1. phase'[r] = phase[r]
      BY <1>9, <1>t, IpcAssumption DEF ExecuteTimesOut, StatusTimesOut, Wake
    <2> QED BY <1>9, <2>1, SameRequests DEF ExecuteTimesOut, StatusTimesOut
  <1>10. ASSUME NEW q \in Executes, TunnelEvent(q) PROVE RequestOnce(r)'
    <2>1. (tunnel'[r] = "none" <=> tunnel[r] = "none")
          /\ UNCHANGED <<owner, toServer, accepted, phase>>
      BY <1>10, <1>p DEF TunnelEvent, FetchReturns, TunnelFails, StreamEvent, StreamDone, StreamEnds
    <2> QED BY <2>1, SameRequests
  <1>11. CASE DaemonExits \/ UNCHANGED vars
    BY <1>11, SameRequests DEF DaemonExits
  <1> QED BY <1>1, <1>2, <1>3, <1>4, <1>6, <1>7, <1>8, <1>9, <1>10, <1>11
          DEF Next, ClientEvent, ExecuteEvent

-----------------------------------------------------------------------------
(* Streams *)

\* A call whose request was not read has nothing on its wire to go wrong.
LEMMA FreshStream ==
    ASSUME NEW r \in Executes, Untold(r), NEW q \in Nat, NEW over, NEW live
    PROVE  Follows(Wire(r), r, q, sent[r], over, live)
  BY DEF Untold, Foreign, Follows, EventsFollow, DoneIsLast, AllBefore

StreamTypes(r) ==
    /\ owner[r] \in Clients /\ Wire(r) \in Seq(Replies)
    /\ queue[r] \in Seq(1..MaxEvents) /\ Len(queue[r]) \in Nat
    /\ sent[r] \in 0..MaxEvents /\ sent[r] \in Nat /\ taken[r] \in Nat

LEMMA StreamTyped ==
    ASSUME TypeOK, NEW r \in Executes
    PROVE  StreamTypes(r)
  <1>1. owner[r] \in Clients
    BY DEF TypeOK, LinksOK, Requests
  <1>2. Wire(r) \in Seq(Replies)
    BY <1>1 DEF TypeOK, WiresOK, Wire
  <1> QED BY <1>1, <1>2, IpcAssumption DEF TypeOK, EventsOK, StreamTypes

\* A step that leaves what is on the wire and what was pushed.
LEMMA SameStream ==
    ASSUME IpcInv, NEW r \in Executes,
           UNCHANGED owner, toClient'[owner[r]] = toClient[owner[r]],
           queue'[r] = queue[r], sent'[r] = sent[r], taken'[r] <= Len(queue[r]),
           Over(r) => Over(r)', tunnel'[r] = "none" => tunnel[r] = "none",
           r \in pending' => r \in pending \/ tunnel[r] = "none",
           Live(r)' => Live(r) \/ tunnel[r] = "none"
    PROVE  StreamInv(r)'
  <1>1. StreamInv(r) /\ StreamTypes(r) /\ Wire(r)' = Wire(r)
    BY StreamTyped DEF IpcInv, WireInv, Wire
  <1>2. tunnel'[r] = "none" => Untold(r)'
    BY <1>1 DEF StreamInv, Untold
  <1>3. CASE tunnel[r] = "none"
    <2>1. Follows(Wire(r), r, Len(queue[r]), sent[r], Over(r)', Live(r)')
      BY <1>1, <1>3, FreshStream DEF StreamInv, StreamTypes
    <2> QED BY <1>1, <1>2, <2>1 DEF StreamInv, Streams
  <1>4. CASE tunnel[r] # "none"
    <2>1. Streams(r) => Streams(r)'
      BY <1>1, <1>4 DEF Streams, Follows, DoneIsLast
    <2> QED BY <1>1, <1>2, <1>4, <2>1 DEF StreamInv
  <1> QED BY <1>3, <1>4

\* A step that loses the wire, and the connection with it.
LEMMA LostStream ==
    ASSUME IpcInv, NEW r \in Executes,
           UNCHANGED <<owner, queue, sent, taken, tunnel>>, toClient'[owner[r]] = <<>>,
           ~Live(r)'
    PROVE  StreamInv(r)'
  <1>1. StreamInv(r) /\ Wire(r)' = <<>>
    BY DEF IpcInv, WireInv, Wire
  <1>2. Streams(r)'
    BY <1>1, EmptyWire DEF Streams
  <1> QED BY <1>1, <1>2 DEF StreamInv, Untold

LEMMA ReplyWire ==
    ASSUME TypeOK, NEW r \in Executes, NEW ms, Reply(ms)
    PROVE  toClient'[owner[r]] = IF Live(r) THEN Wire(r) \o ms ELSE Wire(r)
  BY StreamTyped DEF Reply, Live, Wire, StreamTypes

LEMMA OneMore ==
    ASSUME NEW w \in Seq(Replies), NEW m \in Replies
    PROVE  w \o <<m>> = Append(w, m)
  OBVIOUS

LEMMA TwoMore ==
    ASSUME NEW w \in Seq(Replies), NEW m \in Replies, NEW n \in Replies
    PROVE  w \o <<m, n>> = Append(Append(w, m), n)
  OBVIOUS

\* A reply that does not concern r.
LEMMA ForeignReply ==
    ASSUME IpcInv, NEW r \in Executes, NEW m \in Replies, Foreign(m, r),
           toClient'[owner[r]] = IF Live(r) THEN Append(Wire(r), m) ELSE Wire(r),
           UNCHANGED <<owner, conn, socket, pending, queue, taken>>,
           sent'[r] = sent[r], Over(r) => Over(r)',
           tunnel'[r] = "none" => tunnel[r] = "none"
    PROVE  StreamInv(r)'
  <1>1. StreamInv(r) /\ StreamTypes(r) /\ Wire(r)' = toClient'[owner[r]]
    BY StreamTyped DEF IpcInv, WireInv, Wire
  <1>2. CASE ~Live(r)
    BY <1>1, <1>2, SameStream DEF Wire, Live, StreamInv
  <1>3. CASE Live(r)
    <2>1. Wire(r)' = Append(Wire(r), m)
      BY <1>1, <1>3
    <2>2. Untold(r) => Untold(r)'
      BY <1>1, <2>1 DEF Untold, StreamTypes
    <2>3. Over(r) \in BOOLEAN /\ Live(r) \in BOOLEAN
      BY DEF Over, Live
    <2>4. Streams(r) => Follows(Wire(r)', r, Len(queue[r]), sent[r], Over(r), Live(r))
      BY <1>1, <2>1, <2>3, AppendForeign DEF Streams, StreamTypes
    <2>5. Streams(r) => Streams(r)'
      BY <1>3, <2>4 DEF Streams, Follows, DoneIsLast, Live
    <2> QED BY <1>1, <2>2, <2>5 DEF StreamInv
  <1> QED BY <1>2, <1>3

\* The tunnel of r sends an event, with or without the success that follows it.
LEMMA OwnEvent ==
    ASSUME IpcInv, NEW r \in Executes, StreamEvent(r) \/ StreamDone(r)
    PROVE  StreamInv(r)'
  <1> DEFINE w == Wire(r)
             q == Len(queue[r])
             s == sent[r]
             v == Append(w, Event(r, s + 1))
  <1>1. StreamInv(r) /\ StreamTypes(r) /\ TypeOK
    BY StreamTyped DEF IpcInv, WireInv
  <1>2. /\ tunnel[r] = "streaming" /\ ~Over(r) /\ s < MaxEvents /\ tunnel'[r] # "none"
        /\ sent'[r] = s + 1 /\ UNCHANGED <<owner, conn, socket, pending, queue, taken>>
        /\ StreamDone(r) => Over(r)'
    BY <1>1 DEF StreamEvent, StreamDone, Over, TypeOK, EventsOK
  <1>3. w \in Seq(Replies) /\ q \in Nat /\ s \in Nat /\ q <= s
        /\ Event(r, s + 1) \in Replies /\ Done(r) \in Replies
    <2>1. s + 1 \in 1..MaxEvents
      BY <1>1, <1>2, IpcAssumption DEF StreamTypes
    <2> QED BY <1>1, <2>1 DEF StreamTypes, StreamInv, Replies
  <1>4. CASE ~Live(r)
    <2>1. Wire(r)' = w
      BY <1>1, <1>2, <1>4, ReplyWire DEF StreamEvent, StreamDone, Wire
    <2>2. r \in pending => Follows(w, r, q, s, FALSE, FALSE)
      BY <1>1, <1>2, <1>4 DEF StreamInv, Streams, Follows, DoneIsLast
    <2>3. r \in pending => \A over \in BOOLEAN : Follows(w, r, q, s + 1, over, FALSE)
      BY <1>3, <2>2, SentElsewhere
    <2>4. Over(r)' \in BOOLEAN /\ ~Live(r)'
      BY <1>2, <1>4 DEF Over, Live
    <2>5. r \in pending => Streams(r)'
      BY <1>2, <2>1, <2>3, <2>4 DEF Streams, Follows
    <2> QED BY <1>1, <1>2, <1>3, <2>5 DEF StreamInv
  <1>5. CASE Live(r)
    <2>1. r \in pending => Follows(w, r, q, s, FALSE, TRUE)
      BY <1>1, <1>2, <1>5 DEF StreamInv, Streams, Follows, DoneIsLast
    <2>2. r \in pending => Follows(v, r, q, s + 1, FALSE, TRUE)
      BY <1>2, <1>3, <2>1, AppendEvent
    <2>3. Live(r)'
      BY <1>2, <1>5 DEF Live
    <2>4. CASE StreamEvent(r)
      <3>1. Wire(r)' = v
        <4>1. Reply(<<Event(r, s + 1)>>)
          BY <2>4 DEF StreamEvent
        <4>2. toClient'[owner[r]] = w \o <<Event(r, s + 1)>>
          BY <1>1, <1>5, <4>1, ReplyWire
        <4> QED BY <1>2, <1>3, <4>2, OneMore DEF Wire
      <3>2. r \in pending => Streams(r)'
        BY <1>2, <2>2, <3>1 DEF Streams, Follows, DoneIsLast
      <3> QED BY <1>1, <1>2, <1>3, <3>2 DEF StreamInv
    <2>5. CASE StreamDone(r)
      <3>1. Wire(r)' = Append(v, Done(r))
        <4>1. Reply(<<Event(r, s + 1), Done(r)>>)
          BY <2>5 DEF StreamDone
        <4>2. toClient'[owner[r]] = w \o <<Event(r, s + 1), Done(r)>>
          BY <1>1, <1>5, <4>1, ReplyWire
        <4> QED BY <1>2, <1>3, <4>2, TwoMore DEF Wire
      <3>2. v \in Seq(Replies) /\ s + 1 \in Nat
        BY <1>3
      <3>3. r \in pending => Follows(Append(v, Done(r)), r, q, s + 1, TRUE, TRUE)
        BY <1>3, <2>2, <3>2, AppendDone
      <3>4. r \in pending => Streams(r)'
        BY <1>2, <2>5, <3>1, <3>3 DEF Streams, Follows, DoneIsLast
      <3> QED BY <1>1, <1>2, <1>3, <3>4 DEF StreamInv
    <2> QED BY <2>4, <2>5
  <1> QED BY <1>4, <1>5

\* What becomes of r when a client reads the first message of its wire.
LEMMA ReceiveStep ==
    ASSUME IpcInv, NEW r \in Executes, NEW c \in Clients, ReceiveReply(c)
    PROVE  StreamInv(r)'
  <1> DEFINE w == Wire(r)
             m == Head(toClient[c])
             q == Len(queue[r])
             s == sent[r]
  <1>1. StreamInv(r) /\ StreamTypes(r) /\ TypeOK
    BY StreamTyped DEF IpcInv, WireInv
  <1>2. /\ UNCHANGED <<owner, conn, socket, sent, taken, tunnel>>
        /\ pending' \subseteq pending
        /\ toClient[c] # <<>>
        /\ toClient' = [toClient EXCEPT ![c] = Tail(toClient[c])]
    BY DEF ReceiveReply, ReceiveStatus, ReceiveEvent, ReceiveDone, ReceiveError, Forget
  <1>3. m \in Replies /\ toClient \in [Clients -> Seq(Replies)]
    BY <1>1, <1>2 DEF TypeOK, WiresOK
  <1>4. CASE queue'[r] = queue[r] /\ owner[r] # c
    <2>1. toClient'[owner[r]] = toClient[owner[r]]
      BY <1>1, <1>2, <1>3, <1>4 DEF StreamTypes
    <2> QED BY <1>1, <1>2, <1>4, <2>1, SameStream DEF StreamInv, Over, Live
  <1>5. ASSUME owner[r] = c
        PROVE  w = toClient[c] /\ Wire(r)' = Tail(w) /\ w # <<>> /\ w \in Seq(Replies)
    BY <1>1, <1>2, <1>3, <1>5 DEF Wire, StreamTypes
  <1>6. CASE queue'[r] = queue[r] /\ owner[r] = c /\ Foreign(m, r)
    <2>1. Untold(r) => Untold(r)'
      BY <1>2, <1>5, <1>6 DEF Untold
    <2>2. Over(r) \in BOOLEAN /\ Live(r) \in BOOLEAN
      BY DEF Over, Live
    <2>3. s <= MaxEvents /\ q \in Nat /\ s \in Nat
      BY <1>1, IpcAssumption DEF StreamTypes
    <2>4. r \in pending => Follows(Tail(w), r, q, s, Over(r), Live(r))
      BY <1>1, <1>5, <1>6, <2>2, <2>3, TailForeign DEF StreamInv, Streams
    <2>5. r \in pending' => Streams(r)'
      BY <1>2, <1>5, <1>6, <2>4 DEF Streams, Over, Live
    <2> QED BY <1>1, <1>2, <1>6, <2>1, <2>5 DEF StreamInv
  <1>7. ASSUME owner[r] = c, ~Foreign(m, r)
        PROVE  tunnel[r] # "none"
    <2>1. 1 \in DOMAIN w /\ w[1] = m
      BY <1>5, <1>7
    <2> QED BY <1>1, <1>7, <2>1 DEF StreamInv, Untold
  <1>8. CASE queue'[r] = queue[r] /\ owner[r] = c /\ ~Foreign(m, r) /\ r \notin pending'
    BY <1>1, <1>2, <1>7, <1>8 DEF StreamInv
  <1>9. CASE \E n \in 1..MaxEvents : /\ owner[r] = c /\ r \in pending /\ m = Event(r, n)
                                     /\ queue' = [queue EXCEPT ![r] = Append(queue[r], n)]
    <2>1. PICK n \in 1..MaxEvents : /\ m = Event(r, n)
                                     /\ queue' = [queue EXCEPT ![r] = Append(queue[r], n)]
      BY <1>9
    <2>2. Over(r) \in BOOLEAN /\ Live(r) \in BOOLEAN
      BY DEF Over, Live
    <2>3. s <= MaxEvents /\ q \in Nat /\ s \in Nat
      BY <1>1, IpcAssumption DEF StreamTypes
    <2>4. n = q + 1 /\ n <= s /\ Follows(Tail(w), r, n, s, Over(r), Live(r))
      BY <1>1, <1>5, <1>9, <2>1, <2>2, <2>3, TailEvent DEF StreamInv, Streams
    <2>5. Len(queue'[r]) = n
      <3>1. queue'[r] = Append(queue[r], n)
        BY <1>1, <2>1 DEF TypeOK, EventsOK
      <3> QED BY <1>1, <2>4, <3>1 DEF StreamTypes
    <2>6. tunnel'[r] # "none"
      <3>1. ~Foreign(m, r)
        BY <2>1 DEF Foreign
      <3> QED BY <1>2, <1>7, <1>9, <3>1
    <2>7. Streams(r)'
      BY <1>2, <1>5, <1>9, <2>4, <2>5 DEF Streams, Over, Live
    <2>8. taken'[r] <= Len(queue'[r]) /\ Len(queue'[r]) <= sent'[r]
      BY <1>1, <1>2, <2>3, <2>4, <2>5 DEF StreamInv, StreamTypes
    <2> QED BY <2>6, <2>7, <2>8 DEF StreamInv
  <1>10. CASE m.type = "event" /\ ReceiveEvent(m.requestId, m.data) /\ m.requestId \in pending
              /\ owner[m.requestId] = c
    <2>1. PICK p \in Executes, n \in 1..MaxEvents : m = Event(p, n)
      BY <1>3, <1>10 DEF Replies, Status, Done, Error
    <2>2. m.requestId = p /\ m.data = n
      BY <2>1 DEF Event
    <2>3. CASE p = r
      BY <1>9, <1>10, <2>1, <2>2, <2>3 DEF ReceiveEvent
    <2>4. CASE p # r
      <3>1. queue'[r] = queue[r]
        BY <1>1, <1>10, <2>2, <2>4 DEF ReceiveEvent, TypeOK, EventsOK
      <3>2. Foreign(m, r)
        BY <2>1, <2>4, Messages DEF Foreign
      <3> QED BY <1>4, <1>6, <3>1, <3>2
    <2> QED BY <2>3, <2>4
  <1>11. CASE queue' = queue /\ (Foreign(m, r) \/ owner[r] # c \/ r \notin pending')
    BY <1>4, <1>6, <1>8, <1>11
  <1>12. m.type = "status" => Foreign(m, r)
    BY DEF Foreign, Event, Done
  <1>13. m.type = "error" => Foreign(m, r)
    BY DEF Foreign, Event, Done
  <1>14. m.type = "done" => Foreign(m, r) \/ m.requestId = r
    BY DEF Foreign, Event, Done
  <1>15. ~Foreign(m, r) => m.requestId = r
    BY DEF Foreign, Event, Done
  <1>16. CASE m.type = "status" /\ ReceiveStatus(c)
    BY <1>11, <1>12, <1>16 DEF ReceiveStatus
  <1>17. CASE m.type = "done" /\ ReceiveDone(m.requestId)
    BY <1>11, <1>14, <1>17 DEF ReceiveDone, Forget
  <1>18. CASE m.type = "error" /\ ReceiveError(m.requestId)
    BY <1>11, <1>13, <1>18 DEF ReceiveError
  <1>19. CASE ~(m.requestId \in pending /\ owner[m.requestId] = c)
              /\ UNCHANGED <<entryVars, callVars, eventVars>>
    BY <1>11, <1>15, <1>19
  <1> QED BY <1>10, <1>16, <1>17, <1>18, <1>19 DEF ReceiveReply

LEMMA StreamStep == IpcInv /\ [Next]_vars => \A r \in Executes : StreamInv(r)'
  <1> SUFFICES ASSUME IpcInv, [Next]_vars, NEW r \in Executes PROVE StreamInv(r)'
    OBVIOUS
  <1>t. /\ TypeOK /\ StreamInv(r) /\ StreamTypes(r) /\ RequestOnce(r)
        /\ owner \in [Requests -> Clients]
    BY StreamTyped DEF IpcInv, WireInv, TypeOK, LinksOK
  <1>c. taken[r] <= Len(queue[r])
    BY <1>t DEF StreamInv
  <1>1. ASSUME UNCHANGED <<owner, toClient, queue, taken, sent, tunnel, conn, socket>>,
               pending' \subseteq pending
        PROVE  StreamInv(r)'
    BY <1>1, <1>c, SameStream DEF Over, Live
  <1>2. ASSUME NEW c \in Clients, Connect(c) \/ HandleConnection(c) PROVE StreamInv(r)'
    <2>1. CASE c = owner[r] /\ (Connect(c) \/ c \notin accepted)
      <3>1. owner[r] \notin accepted
        BY <2>1, <1>2 DEF Connect, IpcInv, WireInv
      <3>2. tunnel[r] = "none"
        BY <1>t, <3>1 DEF RequestOnce
      <3> QED BY <1>2, <1>c, <3>2, SameStream DEF Connect, HandleConnection, Over
    <2>2. CASE c # owner[r]
      <3>1. Live(r)' => Live(r)
        BY <1>2, <1>t, <2>2 DEF Connect, HandleConnection, Live, TypeOK, LinksOK, StreamTypes
      <3> QED BY <1>2, <1>c, <3>1, SameStream DEF Connect, HandleConnection, Over
    <2> QED BY <1>2, <2>1, <2>2 DEF HandleConnection
  <1>3. ASSUME NEW c \in Clients, Close(c) \/ Break(c) PROVE StreamInv(r)'
    <2>1. /\ UNCHANGED <<owner, queue, sent, taken, tunnel, socket>> /\ pending' \subseteq pending
          /\ toClient' = [toClient EXCEPT ![c] = <<>>]
          /\ \E v \in {"closed", "broken"} : conn' = [conn EXCEPT ![c] = v]
      BY <1>3 DEF Close, Break, Forget
    <2>2. /\ toClient \in [Clients -> Seq(Replies)]
          /\ conn \in [Clients -> {"new", "open", "broken", "closed"}]
      BY <1>t DEF TypeOK, WiresOK, LinksOK
    <2>3. CASE c = owner[r]
      <3>1. toClient'[owner[r]] = <<>> /\ conn'[owner[r]] # "open"
        BY <1>t, <2>1, <2>2, <2>3 DEF StreamTypes
      <3> QED BY <2>1, <3>1, LostStream DEF Live
    <2>4. CASE c # owner[r]
      <3>1. toClient'[owner[r]] = toClient[owner[r]] /\ conn'[owner[r]] = conn[owner[r]]
        BY <1>t, <2>1, <2>2, <2>4 DEF StreamTypes
      <3> QED BY <1>c, <2>1, <3>1, SameStream DEF Over, Live
    <2> QED BY <2>3, <2>4
  <1>4. ASSUME NEW q \in Executes, CallExecute(q) PROVE StreamInv(r)'
    <2>1. r \in pending' => r \in pending \/ tunnel[r] = "none"
      BY <1>4, <1>t DEF CallExecute, RequestOnce
    <2> QED BY <1>4, <1>c, <2>1, SameStream DEF CallExecute, Over, Live
  <1>5. ASSUME NEW q \in Statuses, CallStatus(q) PROVE StreamInv(r)'
    <2>1. r \in pending' => r \in pending
      BY <1>5, IpcAssumption DEF CallStatus
    <2> QED BY <1>5, <1>c, <2>1, SameStream DEF CallStatus, Over, Live
  <1>6. ASSUME NEW q \in Executes, Pull(q) \/ Awake(q) PROVE StreamInv(r)'
    <2>1. taken'[r] <= Len(queue[r])
      <3>1. Resume(q) /\ taken \in [Executes -> 0..MaxEvents]
        BY <1>6, <1>t DEF Pull, Awake, TypeOK, EventsOK
      <3>2. CASE taken' = taken
        BY <1>c, <3>2
      <3>3. CASE taken[q] < Len(queue[q]) /\ taken' = [taken EXCEPT ![q] = taken[q] + 1]
        <4>1. taken'[r] = IF q = r THEN taken[r] + 1 ELSE taken[r]
          BY <3>1, <3>3
        <4> QED BY <1>c, <1>t, <3>3, <4>1 DEF StreamTypes
      <3> QED BY <3>1, <3>2, <3>3 DEF Resume
    <2>2. UNCHANGED <<owner, toClient, queue, sent, tunnel, conn, socket, pending>>
      BY <1>6 DEF Pull, Awake
    <2> QED BY <2>1, <2>2, SameStream DEF Over, Live
  <1>7. ASSUME (\E q \in Executes : Abandon(q) \/ ExecuteTimesOut(q))
                 \/ (\E q \in Statuses : StatusTimesOut(q))
        PROVE  StreamInv(r)'
    BY <1>7, <1>1 DEF Abandon, ExecuteTimesOut, StatusTimesOut, Forget
  <1>8. ASSUME NEW q \in Executes, FetchReturns(q) \/ StreamEnds(q) PROVE StreamInv(r)'
    <2>1. (Over(r) => Over(r)') /\ (tunnel'[r] = "none" => tunnel[r] = "none")
      BY <1>8, <1>t DEF FetchReturns, StreamEnds, Over, TypeOK, EventsOK
    <2> QED BY <1>8, <1>c, <2>1, SameStream DEF FetchReturns, StreamEnds, Live
  <1>9. ASSUME NEW m \in Replies, Foreign(m, r), Reply(<<m>>),
               UNCHANGED <<owner, conn, socket, pending, queue, taken>>,
               sent'[r] = sent[r], Over(r) => Over(r)',
               tunnel'[r] = "none" => tunnel[r] = "none"
        PROVE  StreamInv(r)'
    <2>1. toClient'[owner[r]] = IF Live(r) THEN Append(Wire(r), m) ELSE Wire(r)
      BY <1>9, <1>t, ReplyWire, OneMore DEF StreamTypes
    <2> QED BY <1>9, <2>1, ForeignReply
  <1>10. ASSUME NEW q \in Executes, TunnelFails(q) PROVE StreamInv(r)'
    <2>1. Error(q) \in Replies /\ Foreign(Error(q), r)
      BY Messages DEF Replies, Foreign
    <2>2. (Over(r) => Over(r)') /\ (tunnel'[r] = "none" => tunnel[r] = "none")
      BY <1>10, <1>t DEF TunnelFails, Over, TypeOK, EventsOK
    <2> QED BY <1>9, <1>10, <2>1, <2>2 DEF TunnelFails
  <1>11. ASSUME NEW q \in Executes, StreamEvent(q) \/ StreamDone(q) PROVE StreamInv(r)'
    <2>1. CASE q = r
      BY <1>11, <2>1, OwnEvent
    <2>2. CASE q # r
      <3>1. sent[q] + 1 \in 1..MaxEvents /\ sent'[r] = sent[r] /\ tunnel'[r] = tunnel[r]
        BY <1>11, <1>t, <2>2, IpcAssumption DEF StreamEvent, StreamDone, TypeOK, EventsOK
      <3> DEFINE e == Event(q, sent[q] + 1)
      <3>2. e \in Replies /\ Done(q) \in Replies /\ Foreign(e, r) /\ Foreign(Done(q), r)
        BY <2>2, <3>1, Messages DEF Replies, Foreign
      <3>3. CASE StreamEvent(q)
        BY <1>9, <3>1, <3>2, <3>3 DEF StreamEvent, Over
      <3>4. CASE StreamDone(q)
        <4>1. /\ Reply(<<e, Done(q)>>)
              /\ UNCHANGED <<owner, conn, socket, pending, queue, taken>>
          BY <3>4 DEF StreamDone
        <4>2. toClient'[owner[r]] = IF Live(r) THEN Append(Append(Wire(r), e), Done(q)) ELSE Wire(r)
          BY <1>t, <3>2, <4>1, ReplyWire, TwoMore DEF StreamTypes
        <4>3. CASE ~Live(r)
          BY <1>c, <3>1, <4>1, <4>2, <4>3, SameStream DEF Wire, Over, Live
        <4>4. CASE Live(r)
          <5>1. Wire(r)' = Append(Append(Wire(r), e), Done(q))
            BY <4>1, <4>2, <4>4 DEF Wire
          <5>2. Append(Wire(r), e) \in Seq(Replies) /\ Over(r) \in BOOLEAN /\ Live(r) \in BOOLEAN
            BY <1>t, <3>2 DEF StreamTypes, Over, Live
          <5>3. Streams(r) => Follows(Append(Wire(r), e), r, Len(queue[r]), sent[r], Over(r), Live(r))
            BY <1>t, <3>2, <5>2, AppendForeign DEF Streams, StreamTypes
          <5>4. Streams(r) => Follows(Wire(r)', r, Len(queue[r]), sent[r], Over(r), Live(r))
            BY <1>t, <3>2, <5>1, <5>2, <5>3, AppendForeign DEF StreamTypes
          <5>5. Untold(r) => Untold(r)'
            BY <1>t, <3>1, <3>2, <5>1, <5>2 DEF Untold, StreamTypes
          <5> QED BY <1>t, <3>1, <4>1, <5>4, <5>5 DEF StreamInv, Streams, Over, Live
        <4> QED BY <4>3, <4>4
      <3> QED BY <1>11, <3>3, <3>4
    <2> QED BY <2>1, <2>2
  <1>12. ASSUME NEW c \in Clients, ReadRequest(c) PROVE StreamInv(r)'
    <2> DEFINE m == Head(toServer[c])
    <2>1. UNCHANGED <<owner, conn, socket, pending, queue, taken, sent>>
      BY <1>12 DEF ReadRequest
    <2>2. CASE m.type = "status"
      <3>1. Status \in Replies /\ Foreign(Status, r)
        BY Messages DEF Replies, Foreign
      <3>2. Reply(<<Status>>) /\ tunnel' = tunnel
        BY <1>12, <2>2 DEF ReadRequest
      <3> QED BY <1>9, <2>1, <3>1, <3>2 DEF Over
    <2>3. CASE m.type = "execute"
      <3>1. toClient' = toClient /\ (ExecuteTunnel(m.requestId) \/ UNCHANGED <<up, tunnel>>)
        BY <1>12, <2>3 DEF ReadRequest
      <3>2. tunnel'[r] = "none" => tunnel[r] = "none"
        BY <1>t, <3>1 DEF ExecuteTunnel, TypeOK, EventsOK
      <3>3. CASE tunnel'[r] = tunnel[r]
        BY <1>c, <2>1, <3>1, <3>2, <3>3, SameStream DEF Over, Live
      <3>4. CASE tunnel'[r] # tunnel[r]
        <4>1. m.requestId = r
          BY <1>t, <3>1, <3>4 DEF ExecuteTunnel, TypeOK, EventsOK
        <4>2. toServer[c] \in Seq(Requested) /\ toServer[c] # <<>>
          BY <1>12, <1>t DEF ReadRequest, TypeOK, WiresOK
        <4>3. m \in Requested
          BY <4>2
        <4>4. m = Execute(r)
          BY <2>3, <4>1, <4>3 DEF Requested, Status, Execute
        <4>5. Asks(toServer[c], r)
          BY <4>2, <4>4 DEF Asks
        <4>6. tunnel[r] = "none"
          BY <1>t, <4>5 DEF RequestOnce
        <4> QED BY <1>c, <2>1, <3>1, <4>6, SameStream DEF Over
      <3> QED BY <3>3, <3>4
    <2> QED BY <1>12, <2>2, <2>3 DEF ReadRequest
  <1>13. CASE DaemonExits \/ UNCHANGED vars
    BY <1>1, <1>13 DEF DaemonExits
  <1>14. ASSUME NEW c \in Clients, ReceiveReply(c) PROVE StreamInv(r)'
    BY <1>14, ReceiveStep
  <1> QED BY <1>2, <1>3, <1>4, <1>5, <1>6, <1>7, <1>8, <1>10, <1>11, <1>12, <1>13, <1>14
          DEF Next, ClientEvent, ExecuteEvent, TunnelEvent

-----------------------------------------------------------------------------
(* The invariant is inductive *)

\* Only numbers that are on the wire are pushed.
LEMMA QueueStep == TypeOK /\ [Next]_vars => queue' \in [Executes -> Seq(1..MaxEvents)]
  <1> SUFFICES ASSUME TypeOK, [Next]_vars PROVE queue' \in [Executes -> Seq(1..MaxEvents)]
    OBVIOUS
  <1>1. queue \in [Executes -> Seq(1..MaxEvents)]
    BY DEF TypeOK, EventsOK
  <1>2. ASSUME NEW c \in Clients, ReceiveReply(c)
        PROVE  queue' \in [Executes -> Seq(1..MaxEvents)]
    <2> DEFINE m == Head(toClient[c])
    <2>1. m \in Replies
      BY <1>2 DEF ReceiveReply, TypeOK, WiresOK
    <2>2. CASE m.type = "event" /\ ReceiveEvent(m.requestId, m.data)
      <3>1. PICK r \in Executes, n \in 1..MaxEvents : m = Event(r, n)
        BY <2>1, <2>2 DEF Replies, Status, Done, Error
      <3>2. m.requestId = r /\ m.data = n
        BY <3>1 DEF Event
      <3>3. queue' = [queue EXCEPT ![r] = Append(queue[r], n)]
        BY <2>2, <3>2 DEF ReceiveEvent
      <3> QED BY <1>1, <3>3
    <2>3. CASE queue' = queue
      BY <1>1, <2>3
    <2> QED BY <1>2, <2>2, <2>3 DEF ReceiveReply, ReceiveStatus, ReceiveDone, ReceiveError
  <1>3. ASSUME NEW c \in Clients,
               Connect(c) \/ HandleConnection(c) \/ ReadRequest(c) \/ Close(c) \/ Break(c)
        PROVE  queue' = queue
    BY <1>3 DEF Connect, HandleConnection, ReadRequest, Close, Break
  <1>4. ASSUME NEW r \in Executes, ExecuteEvent(r) \/ TunnelEvent(r) PROVE queue' = queue
    <2>1. CASE ExecuteEvent(r)
      BY <2>1 DEF ExecuteEvent, CallExecute, Pull, Awake, Abandon, ExecuteTimesOut
    <2>2. CASE TunnelEvent(r)
      BY <2>2 DEF TunnelEvent, FetchReturns, TunnelFails, StreamEvent, StreamDone, StreamEnds
    <2> QED BY <1>4, <2>1, <2>2
  <1>5. ASSUME NEW r \in Statuses, CallStatus(r) \/ StatusTimesOut(r) PROVE queue' = queue
    BY <1>5 DEF CallStatus, StatusTimesOut
  <1>6. CASE DaemonExits \/ UNCHANGED vars
    BY <1>1, <1>6 DEF DaemonExits
  <1> QED BY <1>1, <1>2, <1>3, <1>4, <1>5, <1>6 DEF Next, ClientEvent

\* The tunnel follows its stream, which has at most MaxEvents events.
LEMMA TunnelStep ==
    TypeOK /\ [Next]_vars =>
        /\ tunnel' \in [Executes -> {"none", "fetching", "streaming", "finished", "over"}]
        /\ sent' \in [Executes -> 0..MaxEvents]
        /\ taken' = [r \in Executes |-> taken'[r]]
  <1> SUFFICES ASSUME TypeOK, [Next]_vars
      PROVE  /\ tunnel' \in [Executes -> {"none", "fetching", "streaming", "finished", "over"}]
             /\ sent' \in [Executes -> 0..MaxEvents]
             /\ taken' = [r \in Executes |-> taken'[r]]
    OBVIOUS
  <1>t. /\ tunnel \in [Executes -> {"none", "fetching", "streaming", "finished", "over"}]
        /\ sent \in [Executes -> 0..MaxEvents]
        /\ taken = [r \in Executes |-> taken[r]]
    BY DEF TypeOK, EventsOK
  <1>1. ASSUME NEW c \in Clients, ReadRequest(c)
        PROVE  /\ tunnel' \in [Executes -> {"none", "fetching", "streaming", "finished", "over"}]
               /\ UNCHANGED <<sent, taken>>
    BY <1>1, <1>t DEF ReadRequest, ExecuteTunnel
  <1>2. ASSUME NEW c \in Clients,
               Connect(c) \/ HandleConnection(c) \/ ReceiveReply(c) \/ Close(c) \/ Break(c)
        PROVE  UNCHANGED <<tunnel, sent, taken>>
    BY <1>2 DEF Connect, HandleConnection, ReceiveReply, ReceiveStatus, ReceiveEvent,
                ReceiveDone, ReceiveError, Close, Break
  <1>3. ASSUME NEW r \in Executes, ExecuteEvent(r)
        PROVE  UNCHANGED <<tunnel, sent>> /\ taken' = [q \in Executes |-> taken'[q]]
    BY <1>3, <1>t DEF ExecuteEvent, CallExecute, Pull, Awake, Abandon, ExecuteTimesOut, Resume
  <1>4. ASSUME NEW r \in Executes, TunnelEvent(r)
        PROVE  /\ tunnel' \in [Executes -> {"none", "fetching", "streaming", "finished", "over"}]
               /\ sent' \in [Executes -> 0..MaxEvents] /\ UNCHANGED taken
    BY <1>4, <1>t, IpcAssumption
       DEF TunnelEvent, FetchReturns, TunnelFails, StreamEvent, StreamDone, StreamEnds
  <1>5. ASSUME NEW r \in Statuses, CallStatus(r) \/ StatusTimesOut(r)
        PROVE  UNCHANGED <<tunnel, sent, taken>>
    BY <1>5 DEF CallStatus, StatusTimesOut
  <1>6. CASE DaemonExits \/ UNCHANGED vars
    BY <1>6, <1>t DEF DaemonExits
  <1> QED BY <1>t, <1>1, <1>2, <1>3, <1>4, <1>5, <1>6 DEF Next, ClientEvent

LEMMA TakenStep == TypeOK /\ [Next]_vars => \A r \in Executes : taken'[r] \in Nat
  <1> SUFFICES ASSUME TypeOK, [Next]_vars, NEW r \in Executes PROVE taken'[r] \in Nat
    OBVIOUS
  <1>t. taken \in [Executes -> 0..MaxEvents] /\ taken[r] \in Nat
    BY IpcAssumption DEF TypeOK, EventsOK
  <1>1. ASSUME NEW c \in Clients, ClientEvent(c) PROVE UNCHANGED taken
    BY <1>1 DEF ClientEvent, Connect, HandleConnection, ReceiveReply, ReceiveStatus,
                ReceiveEvent, ReceiveDone, ReceiveError, ReadRequest, Close, Break
  <1>2. ASSUME NEW q \in Executes, ExecuteEvent(q) PROVE taken'[r] \in {taken[r], taken[r] + 1}
    <2>1. CASE Resume(q)
      BY <1>t, <2>1 DEF Resume
    <2>2. CASE CallExecute(q) \/ Abandon(q) \/ ExecuteTimesOut(q)
      BY <2>2 DEF CallExecute, Abandon, ExecuteTimesOut
    <2> QED BY <1>2, <2>1, <2>2 DEF ExecuteEvent, Pull, Awake
  <1>3. ASSUME NEW q \in Executes, TunnelEvent(q) PROVE UNCHANGED taken
    BY <1>3 DEF TunnelEvent, FetchReturns, TunnelFails, StreamEvent, StreamDone, StreamEnds
  <1>4. ASSUME NEW q \in Statuses, CallStatus(q) \/ StatusTimesOut(q) PROVE UNCHANGED taken
    BY <1>4 DEF CallStatus, StatusTimesOut
  <1>5. CASE DaemonExits \/ UNCHANGED vars
    BY <1>t, <1>5 DEF DaemonExits
  <1> QED BY <1>t, <1>1, <1>2, <1>3, <1>4, <1>5 DEF Next

LEMMA EventsStep == IpcInv /\ [Next]_vars => EventsOK'
  <1> SUFFICES ASSUME IpcInv, [Next]_vars PROVE EventsOK'
    OBVIOUS
  <1>1. TypeOK
    BY DEF IpcInv
  <1>2. /\ queue' \in [Executes -> Seq(1..MaxEvents)] /\ sent' \in [Executes -> 0..MaxEvents]
        /\ tunnel' \in [Executes -> {"none", "fetching", "streaming", "finished", "over"}]
        /\ taken' = [r \in Executes |-> taken'[r]]
    BY <1>1, QueueStep, TunnelStep
  <1>3. ASSUME NEW r \in Executes PROVE taken'[r] \in 0..MaxEvents
    <2>1. taken'[r] <= Len(queue'[r]) /\ Len(queue'[r]) <= sent'[r]
      BY StreamStep DEF StreamInv
    <2>2. taken'[r] \in Nat
      BY <1>1, TakenStep
    <2>3. Len(queue'[r]) \in Nat /\ sent'[r] \in 0..MaxEvents
      BY <1>2
    <2> QED BY <2>1, <2>2, <2>3, IpcAssumption
  <1> QED BY <1>2, <1>3 DEF EventsOK

LEMMA AcceptedStep == IpcInv /\ [Next]_vars => \A c \in accepted' : conn'[c] # "new"
  <1> SUFFICES ASSUME TypeOK, \A c \in accepted : conn[c] # "new", [Next]_vars
               PROVE  \A c \in accepted' : conn'[c] # "new"
    BY DEF IpcInv, WireInv
  <1>1. ASSUME NEW c \in Clients, ClientEvent(c) PROVE \A d \in accepted' : conn'[d] # "new"
    BY <1>1 DEF ClientEvent, Connect, HandleConnection, ReceiveReply, ReadRequest, Close, Break,
                TypeOK, LinksOK
  <1>2. ASSUME NEW r \in Executes, ExecuteEvent(r) \/ TunnelEvent(r)
        PROVE  UNCHANGED <<conn, accepted>>
    BY <1>2 DEF ExecuteEvent, CallExecute, Pull, Awake, Abandon, ExecuteTimesOut,
                TunnelEvent, FetchReturns, TunnelFails, StreamEvent, StreamDone, StreamEnds
  <1>3. ASSUME NEW r \in Statuses, CallStatus(r) \/ StatusTimesOut(r)
        PROVE  UNCHANGED <<conn, accepted>>
    BY <1>3 DEF CallStatus, StatusTimesOut
  <1>4. CASE DaemonExits \/ UNCHANGED vars
    BY <1>4 DEF DaemonExits
  <1> QED BY <1>1, <1>2, <1>3, <1>4 DEF Next

LEMMA IpcInvInit == Init => IpcInv
  <1> SUFFICES ASSUME Init PROVE IpcInv
    OBVIOUS
  <1> USE DEF Init
  <1>1. TypeOK
    <2>1. LinksOK /\ EntriesOK /\ CallsOK
      BY DEF LinksOK, EntriesOK, CallsOK
    <2>2. <<>> \in Seq(Requested) /\ <<>> \in Seq(Replies) /\ <<>> \in Seq(1..MaxEvents)
      OBVIOUS
    <2>3. WiresOK
      BY <2>2 DEF WiresOK
    <2>4. EventsOK
      BY <2>2, IpcAssumption DEF EventsOK
    <2> QED BY <2>1, <2>3, <2>4 DEF TypeOK
  <1>2. VerdictInv
    BY DEF VerdictInv
  <1>3. ASSUME NEW r \in Executes PROVE RequestOnce(r) /\ StreamInv(r)
    <2>1. owner[r] \in Clients /\ phase[r] = "idle" /\ tunnel[r] = "none" /\ Wire(r) = <<>>
      BY DEF Requests, Wire
    <2>2. \A c \in Clients : AsksOnce(toServer[c], r) /\ ~Asks(toServer[c], r)
      BY DEF AsksOnce, Asks
    <2>3. Len(queue[r]) = 0 /\ taken[r] = 0 /\ sent[r] = 0 /\ Untold(r)
      BY <2>1 DEF Untold
    <2> QED BY <2>1, <2>2, <2>3 DEF RequestOnce, StreamInv
  <1> QED BY <1>1, <1>2, <1>3 DEF IpcInv, WireInv

LEMMA IpcInvStep == IpcInv /\ [Next]_vars => IpcInv'
  <1> SUFFICES ASSUME IpcInv, [Next]_vars PROVE IpcInv'
    OBVIOUS
  <1>1. TypeOK /\ VerdictInv /\ IpcTyped
    BY DEF IpcInv, TypeOK, LinksOK, IpcTyped
  <1>2. TypeOK'
    BY <1>1, LinksStep, WiresStep, CallsStep, EventsStep DEF TypeOK
  <1>3. VerdictInv'
    BY <1>1, VerdictStep
  <1>4. WireInv'
    BY AcceptedStep, RequestStep, StreamStep DEF WireInv
  <1> QED BY <1>2, <1>3, <1>4 DEF IpcInv

LEMMA IpcInvHolds == Spec => []IpcInv
  BY IpcInvInit, IpcInvStep, PTL DEF Spec

\* Every variable keeps its type, and no generator yields more than it was sent.
THEOREM TypeCorrect == Spec => []TypeOK
  <1>1. IpcInv => TypeOK
    BY DEF IpcInv
  <1> QED BY <1>1, IpcInvHolds, PTL

\* The call on the connection accepted last: every event that the daemon sent of it has
\* arrived or is on its way, also when the caller has given up waiting.
THEOREM NoEventIsLost == Spec => []LatestLosesNothing
  <1>1. IpcInv => LatestLosesNothing
    <2> SUFFICES ASSUME IpcInv, NEW r \in Executes, r \in pending, Live(r)
                 PROVE  InFlight(r) = (Len(queue[r]) + 1)..sent[r]
      BY DEF LatestLosesNothing, Live
    <2> DEFINE w == Wire(r)
               q == Len(queue[r])
    <2>1. StreamTypes(r) /\ Streams(r)
      BY StreamTyped DEF IpcInv, WireInv, StreamInv
    <2>2. /\ \A i \in DOMAIN w, n \in 1..MaxEvents : w[i] = Event(r, n) => q < n /\ n <= sent[r]
          /\ \A k \in (q + 1)..sent[r] : \E j \in 1..Len(w) : w[j] = Event(r, k)
      <3>1. (Len(w) + 1) - 1 = Len(w)
        BY <2>1 DEF StreamTypes
      <3> QED BY <2>1, <3>1 DEF Streams, Follows, EventsFollow, AllBefore
    <2>3. InFlight(r) \subseteq (q + 1)..sent[r]
      BY <2>1, <2>2, IpcAssumption DEF InFlight, Wire, StreamTypes
    <2>4. (q + 1)..sent[r] \subseteq InFlight(r)
      <3> SUFFICES ASSUME NEW k \in (q + 1)..sent[r] PROVE k \in InFlight(r)
        OBVIOUS
      <3>1. k \in 1..MaxEvents
        BY <2>1, IpcAssumption DEF StreamTypes
      <3>2. DOMAIN w = 1..Len(w)
        BY <2>1 DEF StreamTypes
      <3> QED BY <2>2, <3>1, <3>2 DEF InFlight, Wire
    <2> QED BY <2>3, <2>4
  <1> QED BY <1>1, IpcInvHolds, PTL

-----------------------------------------------------------------------------
(* execute() keeps the promise of ExecutionStream *)

\* What the abstract stream sees of the calls.
finishedOnes == {r \in Executes : Over(r)}
verdicts == [r \in Executes |-> verdict[r]]
returnedOnes == {r \in Executes : phase[r] = "ended"}

LEMMA StreamVars ==
    /\ Stream!vars = <<sent, finishedOnes, queue, taken, verdicts, returnedOnes>>
    /\ Stream!vars' = <<sent, finishedOnes, queue, taken, verdicts, returnedOnes>>'
  BY DEF Stream!vars, finishedOnes, verdicts, returnedOnes, Over

LEMMA ReportIs ==
    ASSUME NEW r \in Executes
    PROVE  Stream!Report(r) <=>
             /\ \/ /\ verdicts[r] = "none"
                   /\ r \in finishedOnes /\ Len(queue[r]) = sent[r]
                   /\ verdicts' = [verdicts EXCEPT ![r] = "done"]
                \/ /\ verdicts[r] \in {"none", "timedOut"}
                   /\ verdicts' = [verdicts EXCEPT ![r] = "failed"]
             /\ UNCHANGED <<sent, finishedOnes, queue, taken, returnedOnes>>
  BY Zenon DEF Stream!Report, finishedOnes, verdicts, returnedOnes, Over

\* A step that the abstract stream does not see.
LEMMA Unseen ==
    ASSUME UNCHANGED <<sent, queue, taken>>,
           \A r \in Executes : /\ Over(r)' <=> Over(r)
                               /\ verdict'[r] = verdict[r]
                               /\ phase'[r] = "ended" <=> phase[r] = "ended"
    PROVE  UNCHANGED Stream!vars
  BY StreamVars DEF finishedOnes, verdicts, returnedOnes

\* A pending call has no end yet, or only that of its own timeout.
LEMMA PendingVerdict ==
    ASSUME IpcInv, NEW r \in pending
    PROVE  r \in Requests /\ verdict[r] \in {"none", "timedOut"}
  BY DEF IpcInv, VerdictInv

\* Wake() ends no generator by itself.
LEMMA WakeUnseen ==
    ASSUME TypeOK, NEW S, Wake(S), NEW r \in Executes
    PROVE  phase'[r] = phase[r]
  BY IpcAssumption DEF Wake, Requests

\* The event on top of the wire of a pending call is the next one ...
LEMMA EventDelivers ==
    ASSUME IpcInv, NEW r \in Executes, r \in pending, NEW n \in 1..MaxEvents,
           Wire(r) # <<>>, Head(Wire(r)) = Event(r, n)
    PROVE  n = Len(queue[r]) + 1 /\ n <= sent[r]
  <1>1. StreamTypes(r) /\ Streams(r)
    BY StreamTyped DEF IpcInv, WireInv, StreamInv
  <1>2. Over(r) \in BOOLEAN /\ Live(r) \in BOOLEAN /\ sent[r] <= MaxEvents
    BY <1>1, IpcAssumption DEF Over, Live, StreamTypes
  <1> QED BY <1>1, <1>2, TailEvent DEF Streams, StreamTypes

\* ... and its success comes when all of them were pushed.
LEMMA DoneReports ==
    ASSUME IpcInv, NEW r \in Executes, r \in pending,
           Wire(r) # <<>>, Head(Wire(r)) = Done(r)
    PROVE  Over(r) /\ Len(queue[r]) = sent[r]
  <1>1. StreamTypes(r) /\ Streams(r) /\ Len(queue[r]) <= sent[r]
    BY StreamTyped DEF IpcInv, WireInv, StreamInv
  <1>2. Over(r) \in BOOLEAN /\ Live(r) \in BOOLEAN
    BY DEF Over, Live
  <1> QED BY <1>1, <1>2, HeadDone DEF Streams, StreamTypes

LEMMA ReceiveMaps ==
    ASSUME IpcInv, NEW c \in Clients, ReceiveReply(c)
    PROVE  [Stream!Next]_Stream!vars
  <1> DEFINE m == Head(toClient[c])
             r == m.requestId
  <1>1. TypeOK /\ m \in Replies /\ toClient[c] # <<>>
    BY DEF IpcInv, ReceiveReply, TypeOK, WiresOK
  <1>2. UNCHANGED <<sent, tunnel, taken>> /\ \A q \in Executes : Over(q)' <=> Over(q)
    BY DEF ReceiveReply, ReceiveStatus, ReceiveEvent, ReceiveDone, ReceiveError, Over
  <1>3. \A q \in Executes : phase'[q] = phase[q]
    <2>1. CASE \E S : Wake(S)
      BY <1>1, <2>1, WakeUnseen
    <2> QED BY <2>1 DEF ReceiveReply, ReceiveStatus, ReceiveEvent, ReceiveDone, ReceiveError
  <1>4. CASE queue' = queue /\ \A q \in Executes : verdict'[q] = verdict[q]
    BY <1>2, <1>3, <1>4, Unseen
  <1>5. CASE ReceiveStatus(c)
    <2>1. CASE asked[c] # <<>>
      <3>1. /\ Head(asked[c]) \in Statuses
            /\ verdict \in [Requests -> {"none", "done", "failed", "timedOut", "closed"}]
        BY <1>1, <2>1 DEF TypeOK, EntriesOK, CallsOK
      <3>2. queue' = queue /\ Resolve(Head(asked[c]))
        BY <1>5, <2>1 DEF ReceiveStatus
      <3>3. \A q \in Executes : verdict'[q] = verdict[q]
        BY <3>1, <3>2, IpcAssumption DEF Resolve, Requests
      <3> QED BY <1>4, <3>2, <3>3
    <2> QED BY <1>4, <1>5, <2>1 DEF ReceiveStatus
  <1>6. CASE r \in pending /\ owner[r] = c /\ m.type = "event" /\ ReceiveEvent(r, m.data)
    <2>1. PICK q \in Executes, n \in 1..MaxEvents : m = Event(q, n)
      BY <1>1, <1>6 DEF Replies, Status, Done, Error
    <2>2. r = q /\ m.data = n
      BY <2>1 DEF Event
    <2>3. n = Len(queue[q]) + 1 /\ n <= sent[q]
      BY <1>1, <1>6, <2>1, <2>2, EventDelivers DEF Wire
    <2>4. Len(queue[q]) < sent[q] /\ queue' = [queue EXCEPT ![q] = Append(@, Len(@) + 1)]
      <3>1. Len(queue[q]) \in Nat /\ sent[q] \in Nat
        BY <1>1, StreamTyped DEF StreamTypes
      <3>2. queue' = [queue EXCEPT ![q] = Append(@, n)]
        BY <1>6, <2>2 DEF ReceiveEvent
      <3> QED BY <2>3, <3>1, <3>2
    <2>5. UNCHANGED <<finishedOnes, verdicts, returnedOnes>>
      BY <1>2, <1>3, <1>6 DEF ReceiveEvent, finishedOnes, verdicts, returnedOnes
    <2>6. Stream!Deliver(q)
      BY <1>2, <2>4, <2>5 DEF Stream!Deliver, finishedOnes, verdicts, returnedOnes, Over
    <2> QED BY <2>6 DEF Stream!Next
  <1>7. CASE /\ r \in pending /\ owner[r] = c
             /\ \/ m.type = "done" /\ ReceiveDone(r)
                \/ m.type = "error" /\ ReceiveError(r)
    <2>1. PICK q \in Executes : m = Done(q) \/ m = Error(q)
      BY <1>1, <1>7 DEF Replies, Status, Event
    <2>2. r = q /\ q \in Requests /\ verdict[q] \in {"none", "timedOut"}
      <3>1. r = q
        BY <2>1 DEF Done, Error
      <3> QED BY <1>7, <3>1, PendingVerdict
    <2>3. verdict \in [Requests -> {"none", "done", "failed", "timedOut", "closed"}]
          /\ \A p \in Executes : p \in Requests
      BY <1>1 DEF TypeOK, CallsOK, Requests
    <2>4. UNCHANGED <<sent, queue, taken, finishedOnes, returnedOnes>>
      BY <1>2, <1>3, <1>7 DEF ReceiveDone, ReceiveError, finishedOnes, returnedOnes
    <2>5. CASE ReceiveDone(r) /\ m.type = "done" /\ verdict[q] = "none"
      <3>1. m = Done(q)
        BY <2>1, <2>5 DEF Error
      <3>2. Over(q) /\ Len(queue[q]) = sent[q]
        BY <1>1, <1>7, <2>2, <3>1, DoneReports DEF Wire
      <3>3. verdicts' = [verdicts EXCEPT ![q] = "done"]
        BY <2>2, <2>3, <2>5 DEF ReceiveDone, Resolve, verdicts
      <3>4. verdicts[q] = "none" /\ q \in finishedOnes
        BY <2>5, <3>2 DEF verdicts, finishedOnes
      <3>5. Stream!Report(q)
        BY <2>4, <3>2, <3>3, <3>4, ReportIs
      <3> QED BY <3>5 DEF Stream!Next
    <2>6. CASE ReceiveDone(r) /\ verdict[q] = "timedOut"
      BY <1>4, <2>2, <2>3, <2>6 DEF ReceiveDone, Resolve
    <2>7. CASE ReceiveError(r)
      <3>1. verdicts' = [verdicts EXCEPT ![q] = "failed"]
        BY <2>2, <2>3, <2>7 DEF ReceiveError, Reject, verdicts
      <3>2. verdicts[q] \in {"none", "timedOut"}
        BY <2>2 DEF verdicts
      <3>3. Stream!Report(q)
        BY <2>4, <3>1, <3>2, ReportIs
      <3> QED BY <3>3 DEF Stream!Next
    <2> QED BY <1>7, <2>2, <2>5, <2>6, <2>7
  <1>8. CASE UNCHANGED <<entryVars, callVars, eventVars>>
    BY <1>4, <1>8
  <1> QED BY <1>5, <1>6, <1>7, <1>8 DEF ReceiveReply

LEMMA GiveUpIs ==
    ASSUME NEW calls, NEW error
    PROVE  Stream!GiveUp(calls, error) <=>
             /\ \A r \in calls : verdicts[r] \in {"none", "timedOut"}
             /\ verdicts' = [r \in Executes |-> IF r \in calls THEN error ELSE verdicts[r]]
             /\ UNCHANGED <<sent, finishedOnes, queue, taken, returnedOnes>>
  BY Zenon DEF Stream!GiveUp, finishedOnes, verdicts, returnedOnes, Over

LEMMA ReturnIs ==
    ASSUME NEW r \in Executes
    PROVE  Stream!Return(r) <=>
             /\ verdicts[r] # "none" /\ taken[r] = Len(queue[r])
             /\ returnedOnes' = returnedOnes \cup {r}
             /\ UNCHANGED <<sent, finishedOnes, queue, taken, verdicts>>
  BY Zenon DEF Stream!Return, finishedOnes, verdicts, returnedOnes, Over

LEMMA TakeIs ==
    ASSUME NEW r \in Executes
    PROVE  Stream!Take(r) <=>
             /\ r \notin returnedOnes /\ taken[r] < Len(queue[r])
             /\ taken' = [taken EXCEPT ![r] = @ + 1]
             /\ UNCHANGED <<sent, finishedOnes, queue, verdicts, returnedOnes>>
  BY Zenon DEF Stream!Take, finishedOnes, verdicts, returnedOnes, Over

LEMMA EmitIs ==
    ASSUME NEW r \in Executes
    PROVE  Stream!Emit(r) <=>
             /\ r \notin finishedOnes
             /\ sent' = [sent EXCEPT ![r] = @ + 1]
             /\ finishedOnes' \in {finishedOnes, finishedOnes \cup {r}}
             /\ UNCHANGED <<queue, taken, verdicts, returnedOnes>>
  BY Zenon DEF Stream!Emit, finishedOnes, verdicts, returnedOnes, Over

LEMMA FinishIs ==
    ASSUME NEW r \in Executes
    PROVE  Stream!Finish(r) <=>
             /\ finishedOnes' = finishedOnes \cup {r}
             /\ UNCHANGED <<sent, queue, taken, verdicts, returnedOnes>>
  BY Zenon DEF Stream!Finish, finishedOnes, verdicts, returnedOnes, Over

\* The steps of the tunnel are those of the execution.
LEMMA TunnelMaps ==
    ASSUME IpcInv, NEW r \in Executes, TunnelEvent(r)
    PROVE  [Stream!Next]_Stream!vars
  <1>t. /\ tunnel \in [Executes -> {"none", "fetching", "streaming", "finished", "over"}]
        /\ UNCHANGED <<queue, taken, verdict, phase>>
    BY DEF IpcInv, TypeOK, EventsOK, TunnelEvent, FetchReturns, TunnelFails, StreamEvent,
           StreamDone, StreamEnds
  <1>u. UNCHANGED <<queue, taken, verdicts, returnedOnes>>
    BY <1>t DEF verdicts, returnedOnes
  <1>1. CASE FetchReturns(r)
    <2>1. \A q \in Executes : Over(q)' <=> Over(q)
      BY <1>t, <1>1 DEF FetchReturns, Over
    <2> QED BY <1>t, <1>1, <2>1, Unseen DEF FetchReturns
  <1>2. CASE TunnelFails(r) \/ StreamEnds(r)
    <2>1. tunnel' = [tunnel EXCEPT ![r] = "over"] /\ sent' = sent
      BY <1>2 DEF TunnelFails, StreamEnds
    <2>2. finishedOnes' = finishedOnes \cup {r}
      BY <1>t, <2>1 DEF finishedOnes, Over
    <2> QED BY <1>u, <2>1, <2>2, FinishIs DEF Stream!Next
  <1>3. CASE StreamEvent(r) \/ StreamDone(r)
    <2>1. sent' = [sent EXCEPT ![r] = @ + 1] /\ tunnel[r] = "streaming"
          /\ \/ tunnel' = tunnel
             \/ tunnel' = [tunnel EXCEPT ![r] = "finished"]
      BY <1>3 DEF StreamEvent, StreamDone
    <2>2. r \notin finishedOnes /\ finishedOnes' \in {finishedOnes, finishedOnes \cup {r}}
      BY <1>t, <2>1 DEF finishedOnes, Over
    <2> QED BY <1>u, <2>1, <2>2, EmitIs DEF Stream!Next
  <1> QED BY <1>1, <1>2, <1>3 DEF TunnelEvent

\* A generator that goes on takes an event, returns, or waits.
LEMMA ResumeMaps ==
    ASSUME IpcInv, NEW r \in Executes, Pull(r) \/ Awake(r)
    PROVE  [Stream!Next]_Stream!vars
  <1>t. /\ phase \in [Requests -> {"idle", "suspended", "awaiting", "ended", "left"}]
        /\ r \in Requests /\ phase[r] # "ended"
        /\ Resume(r) /\ UNCHANGED <<sent, tunnel, queue, verdict>>
    BY DEF IpcInv, TypeOK, CallsOK, Requests, Pull, Awake
  <1>u. UNCHANGED <<sent, finishedOnes, queue, verdicts>>
    BY <1>t DEF verdicts, finishedOnes, Over
  <1>1. CASE taken[r] < Len(queue[r]) /\ taken' = [taken EXCEPT ![r] = @ + 1]
             /\ phase' = [phase EXCEPT ![r] = "suspended"]
    <2>1. r \notin returnedOnes /\ returnedOnes' = returnedOnes
      BY <1>t, <1>1 DEF returnedOnes, Requests
    <2> QED BY <1>u, <1>1, <2>1, TakeIs DEF Stream!Next
  <1>2. CASE taken[r] = Len(queue[r]) /\ taken' = taken /\ verdict[r] # "none"
             /\ phase' = [phase EXCEPT ![r] = "ended"]
    <2>1. returnedOnes' = returnedOnes \cup {r} /\ verdicts[r] # "none"
      BY <1>t, <1>2 DEF returnedOnes, verdicts, Requests
    <2> QED BY <1>u, <1>2, <2>1, ReturnIs DEF Stream!Next
  <1>3. CASE taken' = taken /\ phase' = [phase EXCEPT ![r] = "awaiting"]
    <2>1. \A q \in Executes : phase'[q] = "ended" <=> phase[q] = "ended"
      BY <1>t, <1>3 DEF Requests
    <2> QED BY <1>t, <1>3, <2>1, Unseen DEF Over
  <1> QED BY <1>t, <1>1, <1>2, <1>3 DEF Resume

\* The timeout of a call and close() give up.
LEMMA GiveUpMaps ==
    ASSUME IpcInv, NEW S \in SUBSET pending, NEW error \in {"timedOut", "closed"},
           Reject(S, error), Wake(S), UNCHANGED <<sent, tunnel, queue, taken>>
    PROVE  [Stream!Next]_Stream!vars
  <1> DEFINE calls == S \cap Executes
  <1>1. \A r \in Executes : phase'[r] = phase[r]
    BY WakeUnseen DEF IpcInv
  <1>2. UNCHANGED <<sent, finishedOnes, queue, taken, returnedOnes>>
    BY <1>1 DEF finishedOnes, returnedOnes, Over
  <1>3. \A r \in calls : verdicts[r] \in {"none", "timedOut"}
    BY PendingVerdict DEF verdicts
  <1>4. verdicts' = [r \in Executes |-> IF r \in calls THEN error ELSE verdicts[r]]
    BY DEF Reject, verdicts, Requests
  <1>5. Stream!GiveUp(calls, error)
    BY <1>2, <1>3, <1>4, GiveUpIs
  <1> QED BY <1>5 DEF Stream!Next

LEMMA StreamMaps == IpcInv /\ [Next]_vars => [Stream!Next]_Stream!vars
  <1> SUFFICES ASSUME IpcInv, [Next]_vars PROVE [Stream!Next]_Stream!vars
    OBVIOUS
  <1>t. /\ TypeOK /\ VerdictInv /\ WireInv
        /\ phase \in [Requests -> {"idle", "suspended", "awaiting", "ended", "left"}]
        /\ tunnel \in [Executes -> {"none", "fetching", "streaming", "finished", "over"}]
        /\ Executes \subseteq Requests
    BY DEF IpcInv, TypeOK, CallsOK, EventsOK, Requests
  <1>1. ASSUME UNCHANGED <<sent, tunnel, queue, taken, verdict>>,
               \A r \in Executes : phase'[r] = "ended" <=> phase[r] = "ended"
        PROVE  [Stream!Next]_Stream!vars
    BY <1>1, Unseen DEF Over
  <1>2. ASSUME NEW c \in Clients, Connect(c) \/ HandleConnection(c) \/ Break(c)
        PROVE  [Stream!Next]_Stream!vars
    BY <1>1, <1>2 DEF Connect, HandleConnection, Break
  <1>3. ASSUME NEW c \in Clients, ReadRequest(c) PROVE [Stream!Next]_Stream!vars
    <2> DEFINE m == Head(toServer[c])
    <2>1. UNCHANGED <<sent, queue, taken, verdict, phase>>
      BY <1>3 DEF ReadRequest
    <2>2. CASE tunnel' = tunnel
      BY <1>1, <2>1, <2>2
    <2>3. CASE m.type = "execute" /\ tunnel' = [tunnel EXCEPT ![m.requestId] = "fetching"]
      <3>1. toServer[c] \in Seq(Requested) /\ toServer[c] # <<>>
        BY <1>3, <1>t DEF ReadRequest, TypeOK, WiresOK
      <3>2. m \in Requested
        BY <3>1
      <3>3. PICK r \in Executes : m = Execute(r)
        BY <2>3, <3>2 DEF Requested, Status
      <3>4. Asks(toServer[c], r) /\ m.requestId = r
        BY <3>1, <3>3 DEF Asks, Execute
      <3>5. tunnel[r] = "none"
        BY <1>t, <3>4 DEF WireInv, RequestOnce
      <3>6. \A q \in Executes : Over(q)' <=> Over(q)
        BY <1>t, <2>3, <3>4, <3>5 DEF Over
      <3> QED BY <2>1, <3>6, Unseen
    <2> QED BY <1>3, <2>2, <2>3 DEF ReadRequest, ExecuteTunnel
  <1>4. ASSUME NEW c \in Clients, Close(c) PROVE [Stream!Next]_Stream!vars
    <2> DEFINE mine == {r \in pending : owner[r] = c}
    <2>1. Reject(mine, "closed") /\ Wake(mine) /\ UNCHANGED <<sent, tunnel, queue, taken>>
      BY <1>4 DEF Close
    <2> QED BY <2>1, GiveUpMaps
  <1>5. ASSUME NEW r \in Executes, ExecuteTimesOut(r) PROVE [Stream!Next]_Stream!vars
    <2>1. {r} \in SUBSET pending /\ Reject({r}, "timedOut") /\ Wake({r})
          /\ UNCHANGED <<sent, tunnel, queue, taken>>
      BY <1>5, <1>t DEF ExecuteTimesOut, VerdictInv
    <2> QED BY <2>1, GiveUpMaps
  <1>6. ASSUME NEW r \in Statuses, StatusTimesOut(r) PROVE [Stream!Next]_Stream!vars
    <2>1. {r} \in SUBSET pending /\ Reject({r}, "timedOut") /\ Wake({r})
          /\ UNCHANGED <<sent, tunnel, queue, taken>>
      BY <1>6, <1>t DEF StatusTimesOut, VerdictInv
    <2> QED BY <2>1, GiveUpMaps
  <1>7. ASSUME NEW r \in Requests, CallExecute(r) \/ CallStatus(r) \/ Abandon(r)
        PROVE  [Stream!Next]_Stream!vars
    <2>1. \A q \in Executes : phase'[q] = "ended" <=> phase[q] = "ended"
      BY <1>7, <1>t DEF CallExecute, CallStatus, Abandon
    <2> QED BY <1>1, <1>7, <2>1 DEF CallExecute, CallStatus, Abandon
  <1>8. CASE DaemonExits \/ UNCHANGED vars
    BY <1>1, <1>8 DEF DaemonExits
  <1> QED BY <1>2, <1>3, <1>4, <1>5, <1>6, <1>7, <1>8, ReceiveMaps, TunnelMaps, ResumeMaps
          DEF Next, ClientEvent, ExecuteEvent, Requests

\* Whatever the connections, the daemon, the gateway and the callers do: the events of
\* a call arrive in order and without a gap, and a generator that returns without an
\* error has yielded all of them.
THEOREM ImplementsExecutionStream == Spec => ExecutionStreamSpec
  <1>1. Init => Stream!Init
    <2> SUFFICES ASSUME Init PROVE Stream!Init
      OBVIOUS
    <2>1. {r \in Executes : tunnel[r] \in {"finished", "over"}} = {}
          /\ {r \in Executes : phase[r] = "ended"} = {}
          /\ [r \in Executes |-> verdict[r]] = [r \in Executes |-> "none"]
      BY DEF Init, Requests
    <2> QED BY <2>1 DEF Init, Stream!Init
  <1> QED BY <1>1, StreamMaps, IpcInvHolds, PTL DEF Spec, ExecutionStreamSpec, Stream!Spec

-----------------------------------------------------------------------------
(* What ExecutionStream_proofs proves of the promise holds of the calls *)

Promise == INSTANCE ExecutionStream_proofs
             WITH finished <- {r \in Executes : tunnel[r] \in {"finished", "over"}},
                  received <- queue,
                  verdict <- [r \in Executes |-> verdict[r]],
                  returned <- {r \in Executes : phase[r] = "ended"}

LEMMA SamePromise == ExecutionStreamSpec => Promise!Spec
  <1>1. Stream!Init => Promise!Init
    BY Zenon DEF Stream!Init, Promise!Init
  <1>2. [Stream!Next]_Stream!vars => [Promise!Next]_Promise!vars
    BY Zenon DEF Stream!Next, Promise!Next, Stream!vars, Promise!vars,
       Stream!Emit, Promise!Emit, Stream!Finish, Promise!Finish,
       Stream!Deliver, Promise!Deliver, Stream!Take, Promise!Take,
       Stream!Report, Promise!Report, Stream!Return, Promise!Return,
       Stream!GiveUp, Promise!GiveUp
  <1> QED BY <1>1, <1>2, PTL DEF ExecutionStreamSpec, Stream!Spec, Promise!Spec

\* execute() of a daemon that reported success: its generator has yielded every event
\* that the daemon got from the gateway, from the first to the last.
SuccessIsComplete ==
    \A r \in Executes : phase[r] = "ended" /\ verdict[r] = "done" =>
        /\ taken[r] = sent[r]
        /\ \A i \in DOMAIN queue[r] : queue[r][i] = i

COROLLARY SuccessMeansComplete == Spec => []SuccessIsComplete
  <1>1. Promise!DoneMeansComplete /\ Promise!EventsInOrder => SuccessIsComplete
    BY DEF Promise!DoneMeansComplete, Promise!EventsInOrder, SuccessIsComplete
  <1> QED BY <1>1, ImplementsExecutionStream, SamePromise, Promise!InOrder, Promise!Complete, PTL
=============================================================================
