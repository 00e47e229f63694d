------------------------ MODULE CapabilityCalls_proofs ------------------------
(***************************************************************************)
(* Proofs about CapabilityCalls, for any calls, requests and files.        *)
(***************************************************************************)
EXTENDS CapabilityCalls, FiniteSetTheorems, SequenceTheorems, TLAPS

USE DEF vars, connVars, diskVars, callVars, replyVars

\* The replies that a call may have got, all of them over the session s.
ChunkAndResult(s) == <<[type |-> "chunk", session |-> s], [type |-> "result", session |-> s]>>
ErrorFrame(s) == <<[type |-> "error", session |-> s]>>

Answers == {<<>>} \cup {ChunkAndResult(s) : s \in Nat} \cup {ErrorFrame(s) : s \in Nat}

StateOK ==
    /\ session \in Nat /\ sessions \in Nat
    /\ DOMAIN todo = Calls /\ DOMAIN request = Calls
    /\ frames \in [Calls -> Answers]

\* Only a handler that has ended has replied: one that waits for a file operation has
\* not, nor has a call that did not arrive.
RepliedIsOver ==
    \A c \in Calls :
        /\ todo[c] # <<>> => frames[c] = <<>>
        /\ request[c] = NoRequest => frames[c] = <<>> /\ todo[c] = <<>>

AnswerInv == StateOK /\ RepliedIsOver

-----------------------------------------------------------------------------
(* What one reply does *)

\* A first reply is one of the answers.
LEMMA FirstReply ==
    ASSUME StateOK, NEW c \in Calls, frames[c] = <<>>,
           NEW types \in {<<"chunk", "result">>, <<"error">>}, Reply(c, types)
    PROVE  /\ frames' \in [Calls -> Answers]
           /\ \A d \in Calls \ {c} : frames'[d] = frames[d]
           /\ Types(c)' \in {<<>>, types}
  <1>1. PICK t : /\ frames' = [frames EXCEPT ![c] = t]
                 /\ t = <<>> \o (IF Sendable THEN [i \in DOMAIN types |-> [type |-> types[i], session |-> session]]
                         ELSE <<>>)
    BY DEF Reply, StateOK
  <1>2. t \in Answers /\ [i \in DOMAIN t |-> t[i].type] \in {<<>>, types}
    <2>1. CASE ~Sendable
      <3>1. t = <<>>
        BY <1>1, <2>1
      <3> QED BY <3>1 DEF Answers
    <2>2. CASE Sendable /\ types = <<"chunk", "result">>
      <3>1. [i \in DOMAIN types |-> [type |-> types[i], session |-> session]] = ChunkAndResult(session)
        BY <2>2 DEF ChunkAndResult
      <3>2. t = ChunkAndResult(session)
        BY <1>1, <2>2, <3>1 DEF ChunkAndResult
      <3>3. [i \in DOMAIN t |-> t[i].type] = types
        BY <2>2, <3>2 DEF ChunkAndResult
      <3> QED BY <3>2, <3>3 DEF Answers, StateOK
    <2>3. CASE Sendable /\ types = <<"error">>
      <3>1. [i \in DOMAIN types |-> [type |-> types[i], session |-> session]] = ErrorFrame(session)
        BY <2>3 DEF ErrorFrame
      <3>2. t = ErrorFrame(session)
        BY <1>1, <2>3, <3>1 DEF ErrorFrame
      <3>3. [i \in DOMAIN t |-> t[i].type] = types
        BY <2>3, <3>2 DEF ErrorFrame
      <3> QED BY <3>2, <3>3 DEF Answers, StateOK
    <2> QED BY <2>1, <2>2, <2>3
  <1>3. frames'[c] = t
    BY <1>1 DEF StateOK
  <1> QED BY <1>1, <1>2, <1>3 DEF StateOK, Types

\* A step that takes the call c as far as its reply, or part of the way.
Handles(c) ==
    /\ frames[c] = <<>>
    /\ \A d \in Calls \ {c} : request'[d] = request[d] /\ todo'[d] = todo[d]
    /\ request'[c] # NoRequest
    /\ DOMAIN todo' = Calls /\ DOMAIN request' = Calls
    /\ UNCHANGED <<session, sessions>>
    /\ \/ UNCHANGED frames
       \/ /\ todo'[c] = <<>>
          /\ \E types \in {<<"chunk", "result">>, <<"error">>} : Reply(c, types)

LEMMA HandlesKeeps ==
    ASSUME AnswerInv, NEW c \in Calls, Handles(c)
    PROVE  AnswerInv'
  <1>1. CASE UNCHANGED frames
    BY <1>1 DEF AnswerInv, StateOK, RepliedIsOver, Handles
  <1>2. ASSUME NEW types \in {<<"chunk", "result">>, <<"error">>}, Reply(c, types), todo'[c] = <<>>
        PROVE  AnswerInv'
    <2>1. frames' \in [Calls -> Answers] /\ \A d \in Calls \ {c} : frames'[d] = frames[d]
      BY <1>2, FirstReply DEF AnswerInv, Handles
    <2> QED BY <1>2, <2>1 DEF AnswerInv, StateOK, RepliedIsOver, Handles
  <1> QED BY <1>1, <1>2 DEF Handles

-----------------------------------------------------------------------------
(* Every action *)

LEMMA AnswerInit == Init => AnswerInv
  BY DEF Init, AnswerInv, StateOK, RepliedIsOver, Answers

LEMMA ReceiveHandles ==
    ASSUME AnswerInv, NEW c \in Calls, NEW r \in Requests, Receive(c, r)
    PROVE  Handles(c)
  <1> DEFINE Kinds == {<<"chunk", "result">>, <<"error">>}
  <1>1. /\ frames[c] = <<>> /\ todo[c] = <<>>
        /\ DOMAIN request' = Calls /\ request'[c] = r
        /\ \A d \in Calls \ {c} : request'[d] = request[d]
    BY DEF AnswerInv, StateOK, RepliedIsOver, Receive, ReceiveFile, ReceiveRefused,
           ReceiveSearch, ReceiveExec, Arrives
  <1>2. r # NoRequest
    BY CapabilityCallsAssumption
  <1>3. CASE ReceiveFile(c, r)
    BY <1>1, <1>2, <1>3 DEF Handles, ReceiveFile, AnswerInv, StateOK
  <1>4. ASSUME UNCHANGED <<session, sessions, todo>>, NEW types \in Kinds, Reply(c, types)
        PROVE  Handles(c)
    BY <1>1, <1>2, <1>4 DEF Handles, AnswerInv, StateOK
  <1>5. CASE ReceiveRefused(c, r)
    BY <1>4, <1>5 DEF ReceiveRefused, HandlerError, UnknownAdapter, Succeeded
  <1>6. CASE ReceiveExec(c, r)
    BY <1>4, <1>6 DEF ReceiveExec, Succeeded
  <1>7. CASE ReceiveSearch(c, r)
    <2>1. PICK hits \in [Files -> 0..MaxHits], status \in 0..2 :
             Grep(c, hits, status) \/ Glob(c, hits, status)
      BY <1>7 DEF ReceiveSearch
    <2>2. CASE Grep(c, hits, status)
      BY <1>4, <1>7, <2>2 DEF ReceiveSearch, Grep, Succeeded, HandlerError
    <2>3. CASE Glob(c, hits, status)
      BY <1>4, <1>7, <2>3 DEF ReceiveSearch, Glob, Succeeded
    <2> QED BY <2>1, <2>2, <2>3
  <1> QED BY <1>3, <1>5, <1>6, <1>7 DEF Receive

LEMMA OperationHandles ==
    ASSUME AnswerInv, NEW c \in Calls, Operation(c)
    PROVE  Handles(c)
  <1> DEFINE Kinds == {<<"chunk", "result">>, <<"error">>}
  <1>1. todo[c] # <<>> /\ UNCHANGED <<session, sessions, request>>
    BY DEF Operation, OpenFile, WriteFile, ReadDirectory, Stat, ReadFile, Pending
  <1>2. frames[c] = <<>> /\ request[c] # NoRequest
    BY <1>1 DEF AnswerInv, RepliedIsOver
  <1>3. ASSUME NEW types \in Kinds, Finish(c, types)
        PROVE  Handles(c)
    BY <1>1, <1>2, <1>3 DEF Finish, Handles, AnswerInv, StateOK
  <1>4. ASSUME NEW ops, todo' = [todo EXCEPT ![c] = ops], UNCHANGED frames
        PROVE  Handles(c)
    BY <1>1, <1>2, <1>4 DEF Handles, AnswerInv, StateOK
  <1>5. Fails(c) => Handles(c)
    BY <1>3 DEF Fails, HandlerError
  <1>6. ASSUME NEW ok, Single(c, ok)
        PROVE  Handles(c)
    BY <1>3, <1>5, <1>6 DEF Single, Succeeded
  <1>7. ASSUME NEW ops, Continue(c, ops)
        PROVE  Handles(c)
    BY <1>3, <1>4, <1>7 DEF Continue, Succeeded
  <1>8. CASE OpenFile(c)
    BY <1>4, <1>5, <1>8 DEF OpenFile, Opened
  <1>9. CASE WriteFile(c)
    BY <1>3, <1>5, <1>9 DEF WriteFile, Succeeded
  <1>10. CASE ReadDirectory(c)
    BY <1>6, <1>7, <1>10 DEF ReadDirectory
  <1>11. CASE Stat(c)
    BY <1>6, <1>7, <1>11 DEF Stat
  <1>12. CASE ReadFile(c)
    BY <1>6, <1>7, <1>12 DEF ReadFile
  <1> QED BY <1>8, <1>9, <1>10, <1>11, <1>12 DEF Operation

LEMMA AnswerStep == AnswerInv /\ [Next]_vars => AnswerInv'
  <1> SUFFICES ASSUME AnswerInv, [Next]_vars PROVE AnswerInv'
    OBVIOUS
  <1>1. CASE Connect \/ Disconnect
    BY <1>1 DEF Connect, Disconnect, AnswerInv, StateOK, RepliedIsOver
  <1>2. ASSUME NEW c \in Calls, Operation(c) PROVE AnswerInv'
    BY <1>2, OperationHandles, HandlesKeeps
  <1>3. ASSUME NEW c \in Calls, NEW r \in Requests, Receive(c, r) PROVE AnswerInv'
    BY <1>3, ReceiveHandles, HandlesKeeps
  <1>4. CASE UNCHANGED vars
    BY <1>4 DEF AnswerInv, StateOK, RepliedIsOver
  <1> QED BY <1>1, <1>2, <1>3, <1>4 DEF Next

LEMMA AnswersAreOne == AnswerInv => OneAnswer
  <1> SUFFICES ASSUME AnswerInv, NEW c \in Calls
               PROVE  /\ Types(c) \in {<<>>, <<"chunk", "result">>, <<"error">>}
                      /\ \A i, j \in DOMAIN frames[c] :
                            frames[c][i].session = frames[c][j].session
    BY DEF OneAnswer
  <1>1. frames[c] \in Answers
    BY DEF AnswerInv, StateOK
  <1>2. CASE frames[c] = <<>>
    BY <1>2 DEF Types
  <1>3. ASSUME NEW s \in Nat, frames[c] = ChunkAndResult(s)
        PROVE  /\ Types(c) = <<"chunk", "result">>
               /\ \A i \in DOMAIN frames[c] : frames[c][i].session = s
    BY <1>3 DEF Types, ChunkAndResult
  <1>4. ASSUME NEW s \in Nat, frames[c] = ErrorFrame(s)
        PROVE  /\ Types(c) = <<"error">>
               /\ \A i \in DOMAIN frames[c] : frames[c][i].session = s
    BY <1>4 DEF Types, ErrorFrame
  <1> QED BY <1>1, <1>2, <1>3, <1>4 DEF Answers

\* A call of the gateway is answered at most once, by a chunk and the result that ends
\* it or by an error, over one session: handleCall() of gateway-client.ts sends nothing
\* before its handler has ended, and nothing after its reply.
THEOREM AnsweredOnce == Spec => []OneAnswer
  <1>1. Spec => []AnswerInv
    BY AnswerInit, AnswerStep, PTL DEF Spec
  <1> QED BY <1>1, AnswersAreOne, PTL

-----------------------------------------------------------------------------
(* Acknowledged writes *)

OpOf(op, c) == <<[op |-> op, path |-> request[c].path]>>

\* A write that is alone with its file finds it empty, as its open left it, and leaves
\* its text in it.
OwnWrite(c) ==
    request[c] # NoRequest /\ request[c].method = "writeFile" =>
        /\ todo[c] \in {<<>>, OpOf("open", c), OpOf("write", c)}
        /\ request[c].path \in sole[c] =>
              /\ todo[c] = OpOf("write", c) => disk[request[c].path] = "empty"
              /\ Types(c) = Succeeded => disk[request[c].path] = request[c].text

FilesOK == DOMAIN disk = Files /\ sole \in [Calls -> SUBSET Files]

WriteInv == FilesOK /\ \A c \in Calls : OwnWrite(c)

LEMMA WriteInit == Init => WriteInv
  BY CapabilityCallsAssumption DEF Init, WriteInv, FilesOK, OwnWrite

\* A step of c leaves the other calls what they had, or takes a file from them.
SparesOthers(c) ==
    \A d \in Calls \ {c} :
        /\ request'[d] = request[d] /\ todo'[d] = todo[d] /\ frames'[d] = frames[d]
        /\ sole'[d] \subseteq sole[d]
        /\ \A f \in sole'[d] : disk'[f] = disk[f]

LEMMA OthersKeep ==
    ASSUME WriteInv, NEW c \in Calls, SparesOthers(c)
    PROVE  \A d \in Calls \ {c} : OwnWrite(d)'
  BY DEF WriteInv, OwnWrite, SparesOthers, OpOf, Types, FilesOK

\* What a step does to the files.
Touches(c) ==
    \/ \E f, v : Change(f, v, c)
    \/ UNCHANGED disk /\ \E S \in SUBSET Files : sole' = [sole EXCEPT ![c] = S]
    \/ UNCHANGED <<disk, sole>>

LEMMA TouchesSpares ==
    ASSUME FilesOK, NEW c \in Calls, Touches(c)
    PROVE  /\ FilesOK'
           /\ \A d \in Calls \ {c} : sole'[d] \subseteq sole[d] /\ \A f \in sole'[d] : disk'[f] = disk[f]
  <1>1. ASSUME NEW f, NEW v, Change(f, v, c)
        PROVE  /\ FilesOK'
               /\ \A d \in Calls \ {c} : sole'[d] \subseteq sole[d] /\ \A g \in sole'[d] : disk'[g] = disk[g]
    <2>1. /\ disk' = [disk EXCEPT ![f] = v]
          /\ sole' = [d \in Calls |-> IF d = c THEN sole[d] ELSE sole[d] \ {f}]
      BY <1>1 DEF Change
    <2> QED BY <2>1 DEF FilesOK
  <1>2. CASE UNCHANGED disk /\ \E S \in SUBSET Files : sole' = [sole EXCEPT ![c] = S]
    BY <1>2 DEF FilesOK
  <1>3. CASE UNCHANGED <<disk, sole>>
    BY <1>3 DEF FilesOK
  <1> QED BY <1>1, <1>2, <1>3 DEF Touches

LEMMA HandlesSpares ==
    ASSUME AnswerInv, WriteInv, NEW c \in Calls, Handles(c), Touches(c)
    PROVE  FilesOK' /\ SparesOthers(c) /\ \A d \in Calls \ {c} : OwnWrite(d)'
  <1>1. \A d \in Calls \ {c} : frames'[d] = frames[d]
    <2>1. CASE UNCHANGED frames
      BY <2>1
    <2>2. ASSUME NEW types \in {<<"chunk", "result">>, <<"error">>}, Reply(c, types)
          PROVE  \A d \in Calls \ {c} : frames'[d] = frames[d]
      BY <2>2, FirstReply DEF AnswerInv, Handles
    <2> QED BY <2>1, <2>2 DEF Handles
  <1>2. FilesOK' /\ SparesOthers(c)
    BY <1>1, TouchesSpares DEF WriteInv, SparesOthers, Handles
  <1> QED BY <1>2, OthersKeep

LEMMA ReceiveTouches ==
    ASSUME NEW c \in Calls, NEW r \in Requests, Receive(c, r)
    PROVE  Touches(c)
  <1>1. CASE ReceiveFile(c, r)
    BY <1>1 DEF ReceiveFile, Touches
  <1>2. CASE ReceiveRefused(c, r) \/ ReceiveSearch(c, r)
    BY <1>2 DEF ReceiveRefused, ReceiveSearch, Touches
  <1>3. CASE ReceiveExec(c, r)
    BY <1>3 DEF ReceiveExec, Touches
  <1> QED BY <1>1, <1>2, <1>3 DEF Receive

LEMMA OperationTouches ==
    ASSUME NEW c \in Calls, Operation(c)
    PROVE  Touches(c)
  <1>1. CASE OpenFile(c)
    BY <1>1 DEF OpenFile, Touches
  <1>2. CASE WriteFile(c)
    BY <1>2 DEF WriteFile, Touches
  <1>3. CASE ReadDirectory(c) \/ Stat(c) \/ ReadFile(c)
    BY <1>3 DEF ReadDirectory, Stat, ReadFile, Touches
  <1> QED BY <1>1, <1>2, <1>3 DEF Operation

LEMMA ReceiveWrites ==
    ASSUME AnswerInv, WriteInv, NEW c \in Calls, NEW r \in Requests, Receive(c, r)
    PROVE  WriteInv'
  <1>1. Touches(c)
    BY ReceiveTouches
  <1>2. FilesOK' /\ \A d \in Calls \ {c} : OwnWrite(d)'
    BY <1>1, ReceiveHandles, HandlesSpares
  <1>3. request'[c] = r
    BY DEF Receive, ReceiveFile, ReceiveRefused, ReceiveSearch, ReceiveExec, Arrives,
           AnswerInv, StateOK
  <1>4. CASE r.method = "writeFile"
    <2>1. ReceiveFile(c, r)
      BY <1>4 DEF Receive, ReceiveRefused, ReceiveSearch, ReceiveExec
    <2>2. todo'[c] = <<[op |-> "open", path |-> r.path]>>
      BY <1>4, <2>1 DEF ReceiveFile, FirstOp, AnswerInv, StateOK
    <2>3. Types(c)' = <<>>
      BY <2>1 DEF ReceiveFile, Arrives, AnswerInv, RepliedIsOver, Types
    <2>4. OwnWrite(c)'
      BY <1>3, <2>2, <2>3 DEF OwnWrite, OpOf, Succeeded
    <2> QED BY <1>2, <2>4 DEF WriteInv
  <1>5. CASE r.method # "writeFile"
    BY <1>2, <1>3, <1>5 DEF WriteInv, OwnWrite
  <1> QED BY <1>4, <1>5

LEMMA OperationWrites ==
    ASSUME AnswerInv, WriteInv, NEW c \in Calls, Operation(c)
    PROVE  WriteInv'
  <1>1. Touches(c)
    BY OperationTouches
  <1>2. FilesOK' /\ \A d \in Calls \ {c} : OwnWrite(d)'
    BY <1>1, OperationHandles, HandlesSpares
  <1>3. request' = request /\ todo[c] # <<>> /\ frames[c] = <<>>
    BY DEF Operation, OpenFile, WriteFile, ReadDirectory, Stat, ReadFile, Pending,
           AnswerInv, RepliedIsOver
  <1>4. CASE request[c] # NoRequest /\ request[c].method = "writeFile"
    <2> DEFINE x == request[c].path
    <2>1. todo[c] \in {OpOf("open", c), OpOf("write", c)} /\ Types(c) = <<>>
      BY <1>3, <1>4 DEF WriteInv, OwnWrite, Types
    <2>2. Path(c) = x
      BY <2>1 DEF Path, OpOf
    <2>3. OpenFile(c) \/ WriteFile(c)
      BY <2>1 DEF Operation, ReadDirectory, Stat, ReadFile, Pending, OpOf
    <2>4. ASSUME Fails(c)
          PROVE  OwnWrite(c)'
      <3>1. todo'[c] = <<>> /\ Reply(c, <<"error">>)
        BY <2>4 DEF Fails, Finish, HandlerError, AnswerInv, StateOK
      <3>2. Types(c)' \in {<<>>, <<"error">>}
        BY <1>3, <3>1, FirstReply DEF AnswerInv
      <3>3. Types(c)' # Succeeded
        BY <3>2 DEF Succeeded
      <3> QED BY <3>1, <3>3 DEF OwnWrite, OpOf
    <2>5. ASSUME Change(x, "empty", c), Opened(c)
          PROVE  OwnWrite(c)'
      <3>1. todo'[c] = OpOf("write", c)' /\ Types(c)' = <<>>
        BY <1>3, <2>1, <2>2, <2>5 DEF Opened, OpOf, AnswerInv, StateOK, Types
      <3>2. x \in sole'[c] => disk'[x] = "empty"
        BY <2>5 DEF Change, WriteInv, FilesOK
      <3> QED BY <1>3, <3>1, <3>2 DEF OwnWrite, Succeeded, OpOf
    <2>6. ASSUME WriteFile(c), NEW v \in Written(disk[x], request[c].text), Change(x, v, c),
                 Finish(c, Succeeded)
          PROVE  OwnWrite(c)'
      <3>1. todo[c] = OpOf("write", c)
        BY <2>1, <2>6 DEF WriteFile, Pending, OpOf
      <3>2. todo'[c] = <<>>
        BY <2>6 DEF Finish, AnswerInv, StateOK
      <3>3. x \in sole'[c] => x \in sole[c] /\ x \in Files /\ disk'[x] = v
        BY <2>6 DEF Change, WriteInv, FilesOK
      <3>4. x \in sole[c] => v = request[c].text
        BY <1>4, <2>6, <3>1 DEF WriteInv, OwnWrite, Written
      <3> QED BY <1>3, <3>2, <3>3, <3>4 DEF OwnWrite, OpOf
    <2>7. OwnWrite(c)'
      BY <2>2, <2>3, <2>4, <2>5, <2>6 DEF OpenFile, WriteFile
    <2> QED BY <1>2, <2>7 DEF WriteInv
  <1>5. CASE ~(request[c] # NoRequest /\ request[c].method = "writeFile")
    BY <1>2, <1>3, <1>5 DEF WriteInv, OwnWrite
  <1> QED BY <1>4, <1>5

LEMMA WriteStep == AnswerInv /\ WriteInv /\ [Next]_vars => WriteInv'
  <1> SUFFICES ASSUME AnswerInv, WriteInv, [Next]_vars PROVE WriteInv'
    OBVIOUS
  <1>1. CASE Connect \/ Disconnect \/ UNCHANGED vars
    BY <1>1 DEF Connect, Disconnect, WriteInv, FilesOK, OwnWrite, OpOf, Types
  <1>2. ASSUME NEW c \in Calls, Operation(c) PROVE WriteInv'
    BY <1>2, OperationWrites
  <1>3. ASSUME NEW c \in Calls, NEW r \in Requests, Receive(c, r) PROVE WriteInv'
    BY <1>3, ReceiveWrites
  <1> QED BY <1>1, <1>2, <1>3 DEF Next

\* What writeFile() acknowledged is in the file unless someone else changed the file
\* since the call arrived: writeFileMethod() of filesystem-handler.ts awaits the whole
\* write, whatever runs beside it.
THEOREM AcknowledgedWrites == Spec => []AckedWriteIsOnDisk
  <1>1. Spec => [](AnswerInv /\ WriteInv)
    BY AnswerInit, AnswerStep, WriteInit, WriteStep, PTL DEF Spec
  <1>2. WriteInv => AckedWriteIsOnDisk
    BY DEF WriteInv, OwnWrite, AckedWriteIsOnDisk
  <1> QED BY <1>1, <1>2, PTL

-----------------------------------------------------------------------------
(* Lists of file operations *)

LEMMA MembersOfList ==
    ASSUME NEW S, NEW s \in Seq(S), s # <<>>
    PROVE  /\ Head(s) \in S /\ Tail(s) \in Seq(S)
           /\ ToSet(s) = {Head(s)} \cup ToSet(Tail(s))
  <1>1. /\ Head(s) \in S /\ Tail(s) \in Seq(S) /\ Len(Tail(s)) = Len(s) - 1
        /\ \A i \in 1..Len(Tail(s)) : Tail(s)[i] = s[i + 1]
    BY HeadTailProperties
  <1>2. Head(s) = s[1] /\ Len(s) \in Nat \ {0} /\ DOMAIN s = 1..Len(s)
        /\ DOMAIN Tail(s) = 1..Len(Tail(s))
    BY <1>1
  <1>3. ASSUME NEW i \in DOMAIN s PROVE s[i] \in {Head(s)} \cup ToSet(Tail(s))
    <2>1. i = 1 \/ (i - 1 \in DOMAIN Tail(s) /\ Tail(s)[i - 1] = s[i])
      BY <1>1, <1>2
    <2> QED BY <1>2, <2>1 DEF ToSet
  <1>4. ASSUME NEW i \in DOMAIN Tail(s) PROVE Tail(s)[i] \in ToSet(s)
    <2>1. i + 1 \in DOMAIN s /\ Tail(s)[i] = s[i + 1]
      BY <1>1, <1>2
    <2> QED BY <2>1 DEF ToSet
  <1> QED BY <1>1, <1>2, <1>3, <1>4 DEF ToSet

LEMMA MembersOfConcat ==
    ASSUME NEW S, NEW s \in Seq(S), NEW t \in Seq(S)
    PROVE  s \o t \in Seq(S) /\ ToSet(s \o t) = ToSet(s) \cup ToSet(t)
  <1>1. /\ s \o t \in Seq(S) /\ Len(s \o t) = Len(s) + Len(t)
        /\ \A i \in 1..(Len(s) + Len(t)) :
              (s \o t)[i] = IF i <= Len(s) THEN s[i] ELSE t[i - Len(s)]
    BY ConcatProperties
  <1>2. /\ Len(s) \in Nat /\ Len(t) \in Nat
        /\ DOMAIN s = 1..Len(s) /\ DOMAIN t = 1..Len(t) /\ DOMAIN (s \o t) = 1..(Len(s) + Len(t))
    BY <1>1
  <1>3. ASSUME NEW i \in DOMAIN (s \o t) PROVE (s \o t)[i] \in ToSet(s) \cup ToSet(t)
    <2>1. CASE i <= Len(s)
      BY <1>1, <1>2, <2>1 DEF ToSet
    <2>2. CASE ~(i <= Len(s))
      <3>1. i - Len(s) \in DOMAIN t /\ (s \o t)[i] = t[i - Len(s)]
        BY <1>1, <1>2, <2>2
      <3> QED BY <3>1 DEF ToSet
    <2> QED BY <2>1, <2>2
  <1>4. ASSUME NEW i \in DOMAIN s PROVE s[i] \in ToSet(s \o t)
    <2>1. i \in DOMAIN (s \o t) /\ (s \o t)[i] = s[i]
      BY <1>1, <1>2
    <2> QED BY <2>1 DEF ToSet
  <1>5. ASSUME NEW i \in DOMAIN t PROVE t[i] \in ToSet(s \o t)
    <2>1. i + Len(s) \in DOMAIN (s \o t) /\ (s \o t)[i + Len(s)] = t[i]
      BY <1>1, <1>2
    <2> QED BY <2>1 DEF ToSet
  <1> QED BY <1>1, <1>3, <1>4, <1>5 DEF ToSet

LEMMA OpsConcat ==
    \A s, t \in Seq(Op) : s \o t \in Seq(Op) /\ ToSet(s \o t) = ToSet(s) \cup ToSet(t)
  BY MembersOfConcat

\* A listing in some order leaves out no entry.
LEMMA ListingIsComplete ==
    ASSUME NEW S, IsFiniteSet(S), NEW s \in SetToSeqs(S)
    PROVE  s \in Seq(S) /\ ToSet(s) = S
  <1> DEFINE D == 1..Cardinality(S)
  <1>1. Cardinality(S) \in Nat
    BY FS_CardinalityType
  <1>2. s \in [D -> S] /\ \A i, j \in D : i # j => s[i] # s[j]
    BY DEF SetToSeqs
  <1>3. s \in Injection(D, S)
    BY <1>2 DEF Injection, IsInjective
  <1>4. Cardinality(D) = Cardinality(S)
    BY <1>1, FS_Interval
  <1>5. s \in Surjection(D, S)
    BY <1>3, <1>4, FS_Injection
  <1>6. \A x \in S : \E i \in D : s[i] = x
    BY <1>5 DEF Surjection
  <1> QED BY <1>1, <1>2, <1>6 DEF ToSet

-----------------------------------------------------------------------------
(* Types *)

ConnOK == sessions \in 0..MaxSessions /\ session \in 0..sessions

CallsOK ==
    /\ request \in [Calls -> Requests \cup {NoRequest}]
    /\ asked \in [Calls -> 0..MaxSessions]
    /\ search \in [Calls -> [lacks : BOOLEAN, truncated : BOOLEAN, dropped : BOOLEAN]]
    /\ failed \subseteq Calls

DiskOK == disk \in [Files -> Contents] /\ sole \in [Calls -> SUBSET Files]

OutOK == out \in [Calls -> [Files -> Collected]]

\* Only writeFile() opens files, and what it has opened it writes.
Awaits(c) ==
    \A o \in ToSet(todo[c]) :
        /\ o.op = "write" => o.path \in Files
        /\ o.op \in {"open", "write"} => request[c] # NoRequest /\ request[c].method = "writeFile"

TodoOK == todo \in [Calls -> Seq(Op)] /\ \A c \in Calls : Awaits(c)

FramesOK == frames \in [Calls -> Seq(Frame)]

TypeInv == ConnOK /\ CallsOK /\ DiskOK /\ OutOK /\ TodoOK /\ FramesOK

LEMMA TypeInvImplies == TypeInv => TypeOK
  BY DEF TypeInv, ConnOK, CallsOK, DiskOK, OutOK, TodoOK, FramesOK, TypeOK

LEMMA TypeInvInit == Init => TypeInv
  <1> SUFFICES ASSUME Init PROVE TypeInv
    OBVIOUS
  <1>1. <<>> \in Seq(Op) /\ <<>> \in Seq(Frame) /\ ToSet(<<>>) = {}
    BY DEF ToSet
  <1>2. TodoOK /\ FramesOK
    BY <1>1 DEF Init, TodoOK, Awaits, FramesOK
  <1>3. ConnOK /\ CallsOK /\ DiskOK /\ OutOK
    BY CapabilityCallsAssumption DEF Init, ConnOK, CallsOK, DiskOK, OutOK, NoSearch, Collected
  <1> QED BY <1>2, <1>3 DEF TypeInv

\* A reply adds frames of the session that is open.
LEMMA ReplyTyped ==
    ASSUME TypeInv, NEW c \in Calls, NEW types \in {<<"chunk", "result">>, <<"error">>},
           Reply(c, types)
    PROVE  FramesOK'
  <1> DEFINE sent == [i \in DOMAIN types |-> [type |-> types[i], session |-> session]]
  <1>1. Sendable => sent \in Seq(Frame)
    <2>1. Sendable => session \in 1..MaxSessions
      BY CapabilityCallsAssumption DEF Sendable, TypeInv, ConnOK
    <2>2. \A i \in DOMAIN types : types[i] \in {"chunk", "result", "error"}
      OBVIOUS
    <2>3. Sendable => \A i \in DOMAIN types : sent[i] \in Frame
      BY <2>1, <2>2 DEF Frame
    <2>4. CASE types = <<"error">>
      <3>1. DOMAIN types = 1..1
        BY <2>4
      <3> HIDE DEF Frame
      <3> QED BY <2>3, <3>1
    <2>5. CASE types = <<"chunk", "result">>
      <3>1. DOMAIN types = 1..2
        BY <2>5
      <3> HIDE DEF Frame
      <3> QED BY <2>3, <3>1
    <2> QED BY <2>4, <2>5
  <1>2. (IF Sendable THEN sent ELSE <<>>) \in Seq(Frame)
    BY <1>1
  <1>3. \A s, t \in Seq(Frame) : s \o t \in Seq(Frame)
    OBVIOUS
  <1> HIDE DEF sent
  <1>4. frames' = [frames EXCEPT ![c] = @ \o (IF Sendable THEN sent ELSE <<>>)]
    BY DEF Reply, sent
  <1> QED BY <1>2, <1>3, <1>4 DEF FramesOK, TypeInv

\* What a handler awaits next.
LEMMA TodoTyped ==
    ASSUME TypeInv, NEW c \in Calls, NEW s \in Seq(Op), todo' = [todo EXCEPT ![c] = s],
           \A d \in Calls \ {c} : request'[d] = request[d],
           \A o \in ToSet(s) :
              /\ o.op = "write" => o.path \in Files
              /\ o.op \in {"open", "write"} =>
                    request'[c] # NoRequest /\ request'[c].method = "writeFile"
    PROVE  TodoOK'
  <1>1. todo' \in [Calls -> Seq(Op)] /\ todo'[c] = s /\ \A d \in Calls \ {c} : todo'[d] = todo[d]
    BY DEF TypeInv, TodoOK
  <1>2. \A d \in Calls \ {c} : Awaits(d)'
    BY <1>1 DEF TypeInv, TodoOK, Awaits
  <1>3. Awaits(c)'
    BY <1>1 DEF Awaits
  <1> QED BY <1>1, <1>2, <1>3 DEF TodoOK

LEMMA FinishTyped ==
    ASSUME TypeInv, NEW c \in Calls, NEW types \in {<<"chunk", "result">>, <<"error">>},
           Finish(c, types), UNCHANGED request
    PROVE  TodoOK' /\ FramesOK'
  <1>1. <<>> \in Seq(Op) /\ ToSet(<<>>) = {}
    BY DEF ToSet
  <1>2. TodoOK'
    BY <1>1, TodoTyped DEF Finish
  <1> QED BY <1>2, ReplyTyped DEF Finish

LEMMA ChangeTyped ==
    ASSUME TypeInv, NEW f \in Files, NEW v \in Contents, NEW c \in Calls, Change(f, v, c)
    PROVE  DiskOK'
  BY DEF TypeInv, DiskOK, Change

LEMMA ReceiveTyped ==
    ASSUME TypeInv, NEW c \in Calls, NEW r \in Requests, Receive(c, r)
    PROVE  TypeInv'
  <1>1. /\ ConnOK' /\ OutOK'
        /\ request' \in [Calls -> Requests \cup {NoRequest}] /\ asked' \in [Calls -> 0..MaxSessions]
        /\ request'[c] = r /\ \A d \in Calls \ {c} : request'[d] = request[d]
        /\ r # NoRequest /\ request[c] = NoRequest
    <2>1. Arrives(c, r) /\ UNCHANGED <<session, sessions, out>>
      BY DEF Receive, ReceiveFile, ReceiveRefused, ReceiveSearch, ReceiveExec
    <2>2. ConnOK' /\ OutOK'
      BY <2>1 DEF TypeInv, ConnOK, OutOK
    <2>3. session \in 0..MaxSessions
      BY CapabilityCallsAssumption DEF TypeInv, ConnOK
    <2> QED BY <2>1, <2>2, <2>3, CapabilityCallsAssumption DEF TypeInv, CallsOK, Arrives
  <1>2. CASE ReceiveFile(c, r)
    <2> DEFINE o == [op |-> FirstOp[r.method], path |-> r.path]
    <2>1. o \in Op /\ o.op # "write" /\ (o.op = "open" => r.method = "writeFile")
      BY <1>2, CapabilityCallsAssumption DEF ReceiveFile, FirstOp, Op
    <2>2. <<o>> \in Seq(Op) /\ ToSet(<<o>>) = {o}
      BY <2>1 DEF ToSet
    <2>3. TodoOK'
      <3>1. todo' = [todo EXCEPT ![c] = <<o>>]
        BY <1>2 DEF ReceiveFile
      <3>2. \A q \in ToSet(<<o>>) :
               /\ q.op = "write" => q.path \in Files
               /\ q.op \in {"open", "write"} =>
                     request'[c] # NoRequest /\ request'[c].method = "writeFile"
        BY <1>1, <2>1, <2>2
      <3> HIDE DEF o
      <3> QED BY <1>1, <2>2, <3>1, <3>2, TodoTyped
    <2>4. CallsOK' /\ DiskOK' /\ FramesOK'
      BY <1>1, <1>2 DEF ReceiveFile, TypeInv, CallsOK, DiskOK, FramesOK
    <2> QED BY <1>1, <2>3, <2>4 DEF TypeInv
  <1>3. ASSUME UNCHANGED todo PROVE TodoOK'
    <2>1. Awaits(c)'
      BY <1>1, <1>3 DEF TypeInv, TodoOK, Awaits
    <2>2. \A d \in Calls \ {c} : Awaits(d)'
      BY <1>1, <1>3 DEF TypeInv, TodoOK, Awaits
    <2> QED BY <1>3, <2>1, <2>2 DEF TypeInv, TodoOK
  <1>4. CASE ReceiveRefused(c, r)
    <2>1. FramesOK'
      BY <1>4, ReplyTyped DEF ReceiveRefused, HandlerError, UnknownAdapter, Succeeded
    <2>2. TodoOK' /\ DiskOK' /\ CallsOK'
      BY <1>1, <1>3, <1>4 DEF ReceiveRefused, TypeInv, CallsOK, DiskOK
    <2> QED BY <1>1, <2>1, <2>2 DEF TypeInv
  <1>5. CASE ReceiveSearch(c, r)
    <2>1. PICK hits \in [Files -> 0..MaxHits], status \in 0..2 :
             Grep(c, hits, status) \/ Glob(c, hits, status)
      BY <1>5 DEF ReceiveSearch
    <2>2. FramesOK'
      BY <2>1, ReplyTyped DEF Grep, Glob, Succeeded, HandlerError
    <2>3. failed' \subseteq Calls
      BY <2>1 DEF Grep, Glob, TypeInv, CallsOK
    <2>4. search' \in [Calls -> [lacks : BOOLEAN, truncated : BOOLEAN, dropped : BOOLEAN]]
      <3>1. \A m, n : (m > n) \in BOOLEAN /\ (m >= n) \in BOOLEAN
        OBVIOUS
      <3>2. \/ UNCHANGED search
            \/ \E p, q, d \in BOOLEAN :
                  search' = [search EXCEPT ![c] = [lacks |-> p, truncated |-> q, dropped |-> d]]
        <4>1. CASE Grep(c, hits, status)
          BY <3>1, <4>1, Zenon DEF Grep, Truncated
        <4>2. CASE Glob(c, hits, status)
          BY <3>1, <4>2, Zenon DEF Glob
        <4> QED BY <2>1, <4>1, <4>2
      <3> QED BY <3>2 DEF TypeInv, CallsOK
    <2>5. TodoOK' /\ DiskOK'
      BY <1>3, <1>5 DEF ReceiveSearch, TypeInv, DiskOK
    <2> QED BY <1>1, <2>2, <2>3, <2>4, <2>5 DEF TypeInv, CallsOK
  <1>6. CASE ReceiveExec(c, r)
    <2>1. FramesOK'
      BY <1>6, ReplyTyped DEF ReceiveExec, Succeeded
    <2>2. DiskOK'
      <3>1. \A v \in Texts \cup {"absent"} : v \in Contents
        BY DEF Contents
      <3>2. CASE UNCHANGED <<disk, sole>>
        BY <3>2 DEF TypeInv, DiskOK
      <3> QED BY <1>6, <3>1, <3>2, ChangeTyped DEF ReceiveExec
    <2>3. TodoOK' /\ CallsOK'
      BY <1>1, <1>3, <1>6 DEF ReceiveExec, TypeInv, CallsOK
    <2> QED BY <1>1, <2>1, <2>2, <2>3 DEF TypeInv
  <1> QED BY <1>2, <1>4, <1>5, <1>6 DEF Receive

\* What collectFiles() visits next is what it had still to visit, and what is below
\* the directory that it has read.
LEMMA ContinueTyped ==
    ASSUME TypeInv, NEW c \in Calls, NEW s \in Seq(Op), Continue(c, s), UNCHANGED request,
           \A o \in ToSet(s) : o.op \notin {"open", "write"}
    PROVE  TodoOK' /\ FramesOK'
  <1>1. CASE todo' = [todo EXCEPT ![c] = s] /\ UNCHANGED frames
    BY <1>1, TodoTyped DEF TypeInv, FramesOK
  <1>2. CASE Finish(c, Succeeded)
    BY <1>2, FinishTyped DEF Succeeded
  <1> QED BY <1>1, <1>2 DEF Continue

LEMMA HeadOfTodo ==
    ASSUME TypeInv, NEW c \in Calls, todo[c] # <<>>
    PROVE  /\ Head(todo[c]) \in Op /\ Tail(todo[c]) \in Seq(Op)
           /\ ToSet(todo[c]) = {Head(todo[c])} \cup ToSet(Tail(todo[c]))
           /\ Path(c) \in Nodes
  <1>1. todo[c] \in Seq(Op)
    BY DEF TypeInv, TodoOK
  <1>2. Head(todo[c]) \in Op
    BY <1>1, MembersOfList
  <1>3. Path(c) \in Nodes
    BY <1>2 DEF Path, Op
  <1> QED BY <1>1, <1>3, MembersOfList

\* The operations that collectFiles() finds in a directory.
LEMMA StatsOfEntries ==
    ASSUME NEW d \in Nodes, NEW s \in SetToSeqs(Entries(d))
    PROVE  Stats(s) \in Seq(Op) /\ ToSet(Stats(s)) = {[op |-> "stat", path |-> x] : x \in Entries(d)}
  <1>1. IsFiniteSet(Entries(d)) /\ Entries(d) \subseteq Nodes
    <2>1. IsFiniteSet(Nodes)
      BY CapabilityCallsAssumption, FS_Union DEF Nodes
    <2>2. Entries(d) \in SUBSET Nodes
      BY DEF Entries
    <2> QED BY <2>1, <2>2, FS_Subset
  <1> HIDE DEF Nodes, Entries
  <1>2. s \in Seq(Entries(d)) /\ ToSet(s) = Entries(d)
    BY <1>1, ListingIsComplete
  <1>3. \A i \in DOMAIN s : [op |-> "stat", path |-> s[i]] \in Op
    BY <1>1, <1>2 DEF Op
  <1>4. Stats(s) \in Seq(Op)
    BY <1>2, <1>3 DEF Stats
  <1>5. DOMAIN Stats(s) = DOMAIN s /\ \A i \in DOMAIN s : Stats(s)[i] = [op |-> "stat", path |-> s[i]]
    BY DEF Stats
  <1> QED BY <1>2, <1>4, <1>5 DEF ToSet

\* An operation that visits an entry, before what is left.
LEMMA VisitOfEntry ==
    ASSUME TypeInv, NEW c \in Calls, todo[c] # <<>>, NEW kind \in {"readdir", "read"}
    PROVE  LET o == [op |-> kind, path |-> Path(c)]
               s == <<o>> \o Tail(todo[c])
           IN  s \in Seq(Op) /\ ToSet(s) = {o} \cup ToSet(Tail(todo[c]))
  <1> DEFINE o == [op |-> kind, path |-> Path(c)]
  <1>1. o \in Op
    BY HeadOfTodo DEF Op
  <1>2. <<o>> \in Seq(Op) /\ ToSet(<<o>>) = {o}
    BY <1>1 DEF ToSet
  <1> HIDE DEF o
  <1>3. Tail(todo[c]) \in Seq(Op)
    BY HeadOfTodo
  <1>4. <<o>> \o Tail(todo[c]) \in Seq(Op) /\ ToSet(<<o>> \o Tail(todo[c])) = {o} \cup ToSet(Tail(todo[c]))
    BY <1>2, <1>3, OpsConcat, Zenon
  <1> QED BY <1>4 DEF o

LEMMA OperationTyped ==
    ASSUME TypeInv, NEW c \in Calls, Operation(c)
    PROVE  TypeInv'
  <1>1. /\ UNCHANGED <<session, sessions, request, asked, search>> /\ todo[c] # <<>>
        /\ failed' \subseteq Calls
    <2>1. UNCHANGED <<session, sessions, request, asked, search>> /\ todo[c] # <<>>
      BY DEF Operation, OpenFile, WriteFile, ReadDirectory, Stat, ReadFile, Pending
    <2>2. /\ Fails(c) => failed' \in {failed, failed \cup {c}}
          /\ \A ok : Single(c, ok) => failed' \in {failed, failed \cup {c}}
          /\ \A s : Continue(c, s) => failed' \in {failed, failed \cup {c}}
      BY DEF Fails, Single, Continue
    <2>3. failed' \in {failed, failed \cup {c}}
      BY <2>2 DEF Operation, OpenFile, WriteFile, ReadDirectory, Stat, ReadFile
    <2> QED BY <2>1, <2>3 DEF TypeInv, CallsOK
  <1>2. ConnOK' /\ CallsOK'
    BY <1>1 DEF TypeInv, ConnOK, CallsOK
  <1>3. /\ Tail(todo[c]) \in Seq(Op) /\ Head(todo[c]) \in Op /\ Path(c) \in Nodes
        /\ ToSet(todo[c]) = {Head(todo[c])} \cup ToSet(Tail(todo[c]))
    BY <1>1, HeadOfTodo
  <1>4. UNCHANGED <<disk, sole>> => DiskOK'
    BY DEF TypeInv, DiskOK
  <1>5. UNCHANGED out => OutOK'
    BY DEF TypeInv, OutOK
  <1>6. Fails(c) => TodoOK' /\ FramesOK'
    BY <1>1, FinishTyped DEF Fails, HandlerError
  <1>7. ASSUME NEW ok, Single(c, ok) PROVE TodoOK' /\ FramesOK'
    BY <1>1, <1>6, <1>7, FinishTyped DEF Single, Succeeded
  <1>8. request[c].method = "fetchWorkspace" => \A o \in ToSet(Tail(todo[c])) : o.op \notin {"open", "write"}
    BY <1>3 DEF TypeInv, TodoOK, Awaits
  <1>9. Continue(c, Tail(todo[c])) => TodoOK' /\ FramesOK'
    BY <1>1, <1>3, <1>8, ContinueTyped DEF Continue
  <1>10. CASE OpenFile(c)
    <2>1. Path(c) \in Files /\ Change(Path(c), "empty", c) /\ Opened(c) => DiskOK' /\ TodoOK' /\ FramesOK'
      <3> SUFFICES ASSUME Path(c) \in Files, Change(Path(c), "empty", c), Opened(c)
                   PROVE  DiskOK' /\ TodoOK' /\ FramesOK'
        OBVIOUS
      <3>1. DiskOK'
        BY ChangeTyped DEF Contents
      <3> DEFINE o == [op |-> "write", path |-> Path(c)]
      <3>2. o \in Op /\ o.op = "write" /\ o.path \in Files
        BY <1>3 DEF Op
      <3>3. <<o>> \in Seq(Op) /\ ToSet(<<o>>) = {o}
        BY <3>2 DEF ToSet
      <3>4. request[c] # NoRequest /\ request[c].method = "writeFile"
        BY <1>3, <1>10 DEF OpenFile, Pending, TypeInv, TodoOK, Awaits
      <3>5. todo' = [todo EXCEPT ![c] = <<o>>] /\ UNCHANGED frames
        BY DEF Opened
      <3>6. \A q \in ToSet(<<o>>) : (q.op = "write" => q.path \in Files) /\ request'[c] # NoRequest
                                      /\ request'[c].method = "writeFile"
        BY <1>1, <3>2, <3>3, <3>4
      <3> HIDE DEF o
      <3>7. TodoOK'
        BY <1>1, <3>3, <3>5, <3>6, TodoTyped
      <3> QED BY <3>1, <3>5, <3>7 DEF TypeInv, FramesOK
    <2> QED BY <1>2, <1>4, <1>5, <1>6, <1>10, <2>1 DEF OpenFile, TypeInv
  <1>11. CASE WriteFile(c)
    <2>1. Path(c) \in Files /\ request[c].text \in Texts
      <3>1. Head(todo[c]).op = "write" /\ Head(todo[c]) \in ToSet(todo[c])
        BY <1>3, <1>11 DEF WriteFile, Pending
      <3>2. Path(c) \in Files /\ request[c] # NoRequest /\ request[c].method = "writeFile"
        BY <3>1 DEF TypeInv, TodoOK, Awaits, Path
      <3> QED BY <3>2, CapabilityCallsAssumption DEF TypeInv, CallsOK
    <2>2. ASSUME NEW v \in Written(disk[Path(c)], request[c].text), Change(Path(c), v, c) PROVE DiskOK'
      <3>1. v \in Contents
        BY <2>1, <2>2 DEF Written, Contents, TypeInv, DiskOK
      <3> QED BY <2>1, <2>2, <3>1, ChangeTyped
    <2>3. Finish(c, Succeeded) => TodoOK' /\ FramesOK'
      BY <1>1, FinishTyped DEF Succeeded
    <2> QED BY <1>2, <1>4, <1>5, <1>6, <1>11, <2>2, <2>3 DEF WriteFile, TypeInv
  <1>12. CASE ReadDirectory(c)
    <2>1. ASSUME NEW s \in SetToSeqs(Entries(Path(c))), Continue(c, Stats(s) \o Tail(todo[c]))
          PROVE  TodoOK' /\ FramesOK'
      <3>1. Stats(s) \in Seq(Op) /\ \A o \in ToSet(Stats(s)) : o.op = "stat"
        BY <1>3, StatsOfEntries
      <3>2. /\ Stats(s) \o Tail(todo[c]) \in Seq(Op)
            /\ ToSet(Stats(s) \o Tail(todo[c])) = ToSet(Stats(s)) \cup ToSet(Tail(todo[c]))
        BY <1>3, <3>1, OpsConcat, Zenon
      <3>3. request[c].method = "fetchWorkspace"
        BY <2>1 DEF Continue
      <3> QED BY <1>1, <1>8, <2>1, <3>1, <3>2, <3>3, ContinueTyped
    <2>2. TodoOK' /\ FramesOK'
      BY <1>7, <1>9, <1>12, <2>1 DEF ReadDirectory, Skip
    <2> QED BY <1>2, <1>4, <1>5, <1>12, <2>2 DEF ReadDirectory, TypeInv
  <1>13. CASE Stat(c)
    <2>1. ASSUME NEW kind \in {"readdir", "read"},
                 Continue(c, <<[op |-> kind, path |-> Path(c)]>> \o Tail(todo[c]))
          PROVE  TodoOK' /\ FramesOK'
      <3> DEFINE s == <<[op |-> kind, path |-> Path(c)]>> \o Tail(todo[c])
      <3>1. s \in Seq(Op) /\ ToSet(s) = {[op |-> kind, path |-> Path(c)]} \cup ToSet(Tail(todo[c]))
        BY <1>1, VisitOfEntry
      <3>2. \A o \in ToSet(s) : o.op \notin {"open", "write"}
        BY <1>8, <2>1, <3>1 DEF Continue
      <3>3. Continue(c, s)
        BY <2>1
      <3>4. s \in Seq(Op)
        BY <3>1
      <3> HIDE DEF s
      <3> QED BY <1>1, <3>2, <3>3, <3>4, ContinueTyped
    <2>2. TodoOK' /\ FramesOK'
      BY <1>7, <1>9, <1>13, <2>1 DEF Stat, Skip
    <2> QED BY <1>2, <1>4, <1>5, <1>13, <2>2 DEF Stat, TypeInv
  <1>14. CASE ReadFile(c)
    <2>1. Single(c, Readable(Path(c), Files)) \/ Continue(c, Tail(todo[c])) => TodoOK' /\ FramesOK'
      BY <1>7, <1>9
    <2>2. Readable(Path(c), Files) /\ out' = [out EXCEPT ![c][Path(c)] = Decode(disk[Path(c)])] => OutOK'
      <3> SUFFICES ASSUME Readable(Path(c), Files), out' = [out EXCEPT ![c][Path(c)] = Decode(disk[Path(c)])]
                   PROVE  OutOK'
        OBVIOUS
      <3>1. Path(c) \in Files /\ disk[Path(c)] # "absent" /\ disk[Path(c)] \in Contents
        BY DEF Readable, Exists, TypeInv, DiskOK
      <3>2. Decode(disk[Path(c)]) \in Collected
        BY <3>1 DEF Decode, Contents, Collected
      <3> QED BY <3>1, <3>2 DEF TypeInv, OutOK
    <2> QED BY <1>2, <1>4, <1>5, <1>14, <2>1, <2>2 DEF ReadFile, TypeInv, Skip
  <1> QED BY <1>10, <1>11, <1>12, <1>13, <1>14 DEF Operation

LEMMA TypeInvStep == TypeInv /\ [Next]_vars => TypeInv'
  <1> SUFFICES ASSUME TypeInv, [Next]_vars PROVE TypeInv'
    OBVIOUS
  <1>1. CASE UNCHANGED <<request, asked, todo, out, search, frames, failed, disk, sole>> /\ ConnOK'
    BY <1>1 DEF TypeInv, CallsOK, DiskOK, OutOK, TodoOK, Awaits, FramesOK
  <1>2. CASE Connect \/ Disconnect \/ UNCHANGED vars
    <2>1. ConnOK'
      BY <1>2, CapabilityCallsAssumption DEF Connect, Disconnect, TypeInv, ConnOK
    <2> QED BY <1>1, <1>2, <2>1 DEF Connect, Disconnect
  <1>3. ASSUME NEW c \in Calls, Operation(c) PROVE TypeInv'
    BY <1>3, OperationTyped
  <1>4. ASSUME NEW c \in Calls, NEW r \in Requests, Receive(c, r) PROVE TypeInv'
    BY <1>4, ReceiveTyped
  <1> QED BY <1>2, <1>3, <1>4 DEF Next

LEMMA TypeInvariant == Spec => []TypeInv
  BY TypeInvInit, TypeInvStep, PTL DEF Spec

\* Every variable keeps its type, whatever the calls, the tree and its files: the handlers
\* of host-agent-fs await only operations on the paths they were given or listed, and only
\* writeFile() writes.
THEOREM TypeCorrect == Spec => []TypeOK
  BY TypeInvariant, TypeInvImplies, PTL

-----------------------------------------------------------------------------
(* A snapshot of the workspace *)

IsFetch(c) == request[c] # NoRequest /\ request[c].method = "fetchWorkspace"

\* The file f, that no one else has changed, is one that fetchWorkspace() collects.
Quiet(c, f) ==
    f \in sole[c] /\ Visits(request[c].path, f) /\ disk[f] \notin {"absent", "large"}

\* The operation o of a walk that began in d comes to f, or to a directory above it.
Reaches(o, d, f) ==
    \/ o.op \in {"stat", "read"} /\ o.path = f
    \/ /\ o.op \in {"stat", "readdir"} /\ o.path \in Above[f]
       /\ o.path = d \/ d \in Above[o.path]

\* Every quiet file is collected, or the walk has still to come to it.
OwnFetch(c) ==
    IsFetch(c) =>
        \A f \in Files : Quiet(c, f) =>
            \/ out[c][f] = Decode(disk[f])
            \/ \E o \in ToSet(todo[c]) : Reaches(o, request[c].path, f)

FetchInv == \A c \in Calls : OwnFetch(c)

LEMMA FetchInit == Init => FetchInv
  BY DEF Init, FetchInv, OwnFetch, IsFetch

\* What others do to a file takes it from the quiet ones.
LEMMA OthersCollect ==
    ASSUME FetchInv, NEW c \in Calls, SparesOthers(c), \A d \in Calls \ {c} : out'[d] = out[d]
    PROVE  \A d \in Calls \ {c} : OwnFetch(d)'
  BY DEF FetchInv, OwnFetch, IsFetch, Quiet, SparesOthers

\* The directories on the way from a walk's root to a file that it visits are listed,
\* and the next one is among the entries.
LEMMA WayToFile ==
    ASSUME NEW d, NEW f \in Files, Visits(d, f), disk[f] # "absent",
           NEW x \in Above[f], x = d \/ d \in Above[x]
    PROVE  /\ x \in Dirs /\ Readable(x, Dirs)
           /\ \E y \in Entries(x) : Reaches([op |-> "stat", path |-> y], d, f)
  <1>1. /\ f \in Nodes /\ x \in Dirs /\ x \in Nodes /\ x \notin Files /\ Above[f] \subseteq Dirs
        /\ d \in Above[f] /\ d \in Nodes
    BY CapabilityCallsAssumption DEF Nodes, Visits
  <1>2. Readable(x, Dirs)
    BY <1>1 DEF Readable, Exists, Visits
  <1>3. PICK y \in {f} \cup Above[f] : Above[y] = Above[x] \cup {x}
    BY <1>1, CapabilityCallsAssumption DEF IsTree
  <1>4. d \in Above[y] /\ y \in Nodes
    BY <1>1, <1>3 DEF Nodes
  <1>5. y # d /\ y \notin Above[d]
    BY <1>1, <1>4, CapabilityCallsAssumption DEF IsTree
  <1>6. y \notin Excluded
    BY <1>3, <1>5 DEF Visits
  <1>7. Exists(y)
    BY <1>1, <1>3, CapabilityCallsAssumption DEF Exists
  <1>8. y \in Entries(x)
    BY <1>3, <1>4, <1>6, <1>7 DEF Entries
  <1>9. Reaches([op |-> "stat", path |-> y], d, f)
    BY <1>3, <1>4 DEF Reaches
  <1> QED BY <1>1, <1>2, <1>8, <1>9

\* A walk goes on: what the operation at hand was to reach is collected, or reached
\* by the operations that take its place.
LEMMA WalkGoesOn ==
    ASSUME TypeInv, FetchInv, NEW c \in Calls, IsFetch(c), todo[c] # <<>>,
           NEW s, Continue(c, s), ToSet(Tail(todo[c])) \subseteq ToSet(s),
           UNCHANGED <<request, disk, sole>>,
           \A f \in Files : Quiet(c, f) =>
              /\ out[c][f] = Decode(disk[f]) => out'[c][f] = Decode(disk[f])
              /\ Reaches(Head(todo[c]), request[c].path, f) =>
                    \/ out'[c][f] = Decode(disk[f])
                    \/ \E o \in ToSet(s) : Reaches(o, request[c].path, f)
    PROVE  OwnFetch(c)'
  <1>1. todo'[c] = s
    BY DEF Continue, Finish, TypeInv, TodoOK
  <1>2. ToSet(todo[c]) = {Head(todo[c])} \cup ToSet(Tail(todo[c]))
    BY HeadOfTodo
  <1> SUFFICES ASSUME NEW f \in Files, Quiet(c, f)
               PROVE  \/ out'[c][f] = Decode(disk[f])
                      \/ \E o \in ToSet(s) : Reaches(o, request[c].path, f)
    BY <1>1 DEF OwnFetch, Quiet
  <1>3. \/ out[c][f] = Decode(disk[f])
        \/ Reaches(Head(todo[c]), request[c].path, f)
        \/ \E o \in ToSet(Tail(todo[c])) : Reaches(o, request[c].path, f)
    BY <1>2 DEF FetchInv, OwnFetch
  <1> QED BY <1>3

LEMMA FetchOperation ==
    ASSUME TypeInv, FetchInv, NEW c \in Calls, IsFetch(c), Operation(c)
    PROVE  OwnFetch(c)'
  <1> DEFINE d == request[c].path
             x == Path(c)
             o == Head(todo[c])
  <1>1. todo[c] # <<>> /\ request' = request
    BY DEF Operation, OpenFile, WriteFile, ReadDirectory, Stat, ReadFile, Pending
  <1>2. /\ o \in Op /\ Tail(todo[c]) \in Seq(Op) /\ x \in Nodes /\ o.path = x
        /\ ToSet(todo[c]) = {o} \cup ToSet(Tail(todo[c]))
    BY <1>1, HeadOfTodo DEF Path
  <1>3. o.op \notin {"open", "write"}
    BY <1>2 DEF TypeInv, TodoOK, Awaits, IsFetch
  <1>4. \A ok : ~Single(c, ok)
    BY DEF Single, IsFetch
  <1>5. ASSUME NEW f \in Files, Quiet(c, f), Reaches(o, d, f)
        PROVE  /\ (o.op # "readdir" /\ x = f) \/ (x \in Above[f] /\ (x = d \/ d \in Above[x]) /\ x \in Dirs /\ Readable(x, Dirs))
               /\ x = f => Readable(x, Files) /\ disk[x] # "large"
    BY <1>2, <1>5, WayToFile DEF Reaches, Quiet, Visits, Readable, Exists
  <1> HIDE DEF x
  <1>6. CASE ReadDirectory(c)
    <2>1. o.op = "readdir" /\ UNCHANGED <<disk, sole, out>>
      BY <1>6 DEF ReadDirectory, Pending
    <2>2. \A f \in Files : Quiet(c, f) /\ Reaches(o, d, f) =>
             x \in Above[f] /\ (x = d \/ d \in Above[x]) /\ Readable(x, Dirs)
      BY <1>2, <1>5, <2>1 DEF Reaches
    <2>3. ASSUME NEW s \in SetToSeqs(Entries(x)), Continue(c, Stats(s) \o Tail(todo[c]))
          PROVE  OwnFetch(c)'
      <3> DEFINE t == Stats(s) \o Tail(todo[c])
      <3>1. Stats(s) \in Seq(Op) /\ ToSet(Stats(s)) = {[op |-> "stat", path |-> y] : y \in Entries(x)}
        BY <1>2, StatsOfEntries
      <3>2. ToSet(t) = ToSet(Stats(s)) \cup ToSet(Tail(todo[c]))
        BY <1>2, <3>1, OpsConcat, Zenon
      <3>3. ASSUME NEW f \in Files, Quiet(c, f), Reaches(o, d, f)
            PROVE  \E q \in ToSet(t) : Reaches(q, d, f)
        <4>1. \E y \in Entries(x) : Reaches([op |-> "stat", path |-> y], d, f)
          BY <2>2, <3>3, WayToFile DEF Quiet
        <4> QED BY <3>1, <3>2, <4>1
      <3>4. Continue(c, t)
        BY <2>3
      <3> HIDE DEF t
      <3> QED BY <1>1, <2>1, <3>2, <3>3, <3>4, WalkGoesOn
    <2>4. ASSUME ~Readable(x, Dirs), Continue(c, Tail(todo[c])) PROVE OwnFetch(c)'
      BY <1>1, <2>1, <2>2, <2>4, WalkGoesOn
    <2> QED BY <1>4, <1>6, <2>3, <2>4 DEF ReadDirectory, Skip, x
  <1>7. CASE Stat(c)
    <2>1. o.op = "stat" /\ UNCHANGED <<disk, sole, out>>
      BY <1>7 DEF Stat, Pending
    <2>2. ASSUME NEW kind \in {"readdir", "read"},
                 Continue(c, <<[op |-> kind, path |-> x]>> \o Tail(todo[c])),
                 kind = "readdir" <=> x \in Dirs
          PROVE  OwnFetch(c)'
      <3> DEFINE q == [op |-> kind, path |-> x]
                 t == <<q>> \o Tail(todo[c])
      <3>1. ToSet(t) = {q} \cup ToSet(Tail(todo[c]))
        BY <1>1, VisitOfEntry DEF x
      <3>2. \A f \in Files : Quiet(c, f) /\ Reaches(o, d, f) => Reaches(q, d, f)
        BY <1>5, <2>2, CapabilityCallsAssumption DEF Reaches
      <3>3. Continue(c, t)
        BY <2>2
      <3> HIDE DEF q, t
      <3> QED BY <1>1, <2>1, <3>1, <3>2, <3>3, WalkGoesOn
    <2>3. ASSUME Continue(c, Tail(todo[c])), ~Exists(x) \/ (x \in Files /\ disk[x] = "large")
          PROVE  OwnFetch(c)'
      <3>1. \A f \in Files : Quiet(c, f) => ~Reaches(o, d, f)
        BY <1>5, <2>3, CapabilityCallsAssumption DEF Readable, Exists
      <3> QED BY <1>1, <2>1, <2>3, <3>1, WalkGoesOn
    <2> QED BY <1>4, <1>7, <2>2, <2>3, CapabilityCallsAssumption DEF Stat, Skip, x
  <1>8. CASE ReadFile(c)
    <2>1. o.op = "read" /\ UNCHANGED <<disk, sole>>
      BY <1>8 DEF ReadFile, Pending
    <2>2. \A f \in Files : Quiet(c, f) /\ Reaches(o, d, f) => x = f /\ Readable(x, Files)
      BY <1>2, <1>5, <2>1 DEF Reaches
    <2>3. ASSUME Continue(c, Tail(todo[c])), Readable(x, Files),
                 out' = [out EXCEPT ![c][x] = Decode(disk[x])]
          PROVE  OwnFetch(c)'
      <3>1. \A f \in Files : out'[c][f] = IF f = x THEN Decode(disk[x]) ELSE out[c][f]
        BY <2>3 DEF TypeInv, OutOK
      <3> QED BY <1>1, <2>1, <2>2, <2>3, <3>1, WalkGoesOn
    <2>4. ASSUME Continue(c, Tail(todo[c])), ~Readable(x, Files), UNCHANGED out
          PROVE  OwnFetch(c)'
      BY <1>1, <2>1, <2>2, <2>4, WalkGoesOn
    <2> QED BY <1>4, <1>8, <2>3, <2>4 DEF ReadFile, Skip, x
  <1>9. ~OpenFile(c) /\ ~WriteFile(c)
    BY <1>3 DEF OpenFile, WriteFile, Pending
  <1> QED BY <1>6, <1>7, <1>8, <1>9 DEF Operation

LEMMA FetchReceive ==
    ASSUME TypeInv, NEW c \in Calls, NEW r \in Requests, Receive(c, r)
    PROVE  OwnFetch(c)'
  <1>1. request'[c] = r
    BY DEF Receive, ReceiveFile, ReceiveRefused, ReceiveSearch, ReceiveExec, Arrives,
           TypeInv, CallsOK
  <1>2. CASE r.method = "fetchWorkspace"
    <2>1. ReceiveFile(c, r)
      BY <1>2 DEF Receive, ReceiveRefused, ReceiveSearch, ReceiveExec
    <2> DEFINE o == [op |-> "readdir", path |-> r.path]
    <2>2. todo'[c] = <<o>>
      BY <1>2, <2>1 DEF ReceiveFile, FirstOp, TypeInv, TodoOK
    <2>3. o \in ToSet(todo'[c])
      BY <2>2 DEF ToSet
    <2>4. \A f \in Files : Visits(r.path, f) => Reaches(o, r.path, f)
      BY DEF Visits, Reaches
    <2> QED BY <1>1, <2>3, <2>4 DEF OwnFetch, Quiet
  <1>3. CASE r.method # "fetchWorkspace"
    BY <1>1, <1>3 DEF OwnFetch, IsFetch
  <1> QED BY <1>2, <1>3

LEMMA FetchStep ==
    AnswerInv /\ WriteInv /\ TypeInv /\ FetchInv /\ [Next]_vars => FetchInv'
  <1> SUFFICES ASSUME AnswerInv, WriteInv, TypeInv, FetchInv, [Next]_vars PROVE FetchInv'
    OBVIOUS
  <1>1. CASE Connect \/ Disconnect \/ UNCHANGED vars
    BY <1>1 DEF Connect, Disconnect, FetchInv, OwnFetch, IsFetch, Quiet
  <1>2. ASSUME NEW c \in Calls, Operation(c) PROVE FetchInv'
    <2>1. SparesOthers(c)
      BY <1>2, OperationHandles, OperationTouches, HandlesSpares
    <2>2. request' = request /\ \A d \in Calls \ {c} : out'[d] = out[d]
      BY <1>2 DEF Operation, OpenFile, WriteFile, ReadDirectory, Stat, ReadFile, TypeInv, OutOK
    <2>3. OwnFetch(c)'
      <3>1. CASE IsFetch(c)
        BY <1>2, <3>1, FetchOperation
      <3>2. CASE ~IsFetch(c)
        BY <2>2, <3>2 DEF OwnFetch, IsFetch
      <3> QED BY <3>1, <3>2
    <2> QED BY <2>1, <2>2, <2>3, OthersCollect DEF FetchInv
  <1>3. ASSUME NEW c \in Calls, NEW r \in Requests, Receive(c, r) PROVE FetchInv'
    <2>1. SparesOthers(c)
      BY <1>3, ReceiveHandles, ReceiveTouches, HandlesSpares
    <2>2. UNCHANGED out
      BY <1>3 DEF Receive, ReceiveFile, ReceiveRefused, ReceiveSearch, ReceiveExec
    <2> QED BY <1>3, <2>1, <2>2, FetchReceive, OthersCollect DEF FetchInv
  <1> QED BY <1>1, <1>2, <1>3 DEF Next

\* fetchWorkspace() answers with every text file in place and readable from the request
\* to the answer: what is excluded, unreadable, too large or changed by other calls while
\* collectFiles() walks the tree costs no other file its place.
THEOREM SnapshotsAreComplete == Spec => []FetchCoversQuietFiles
  <1>1. Spec => [](AnswerInv /\ WriteInv /\ TypeInv /\ FetchInv)
    BY AnswerInit, AnswerStep, WriteInit, WriteStep, TypeInvInit, TypeInvStep, FetchInit,
       FetchStep, PTL DEF Spec
  <1>2. AnswerInv /\ TypeInv /\ FetchInv => FetchCoversQuietFiles
    <2> SUFFICES ASSUME AnswerInv, TypeInv, FetchInv, NEW c \in Calls, IsFetch(c),
                        Types(c) = Succeeded, NEW f \in sole[c], Quiet(c, f)
                 PROVE  out[c][f] = Decode(disk[f])
      BY DEF FetchCoversQuietFiles, IsFetch, Quiet, Decode
    <2>1. todo[c] = <<>>
      <3>1. CASE frames[c] = <<>>
        BY <3>1 DEF Types, Succeeded
      <3> QED BY <3>1 DEF AnswerInv, RepliedIsOver
    <2>2. ToSet(todo[c]) = {}
      BY <2>1 DEF ToSet
    <2>3. f \in Files
      BY DEF TypeInv, DiskOK
    <2> QED BY <2>2, <2>3 DEF FetchInv, OwnFetch
  <1> QED BY <1>1, <1>2, PTL

-----------------------------------------------------------------------------
(* Searches that lack matches, and calls that fail *)

\* A file with more matches than --max-count lets pass fills the answer by itself.
LEMMA FullFile ==
    ASSUME NEW hits \in [Files -> 0..MaxHits]
    PROVE  /\ Cardinality(Passing(hits)) \in Nat
           /\ Passing(hits) # Matching(hits) => Cardinality(Passing(hits)) >= MaxResults
  <1>1. IsFiniteSet(Passing(hits))
    <2>1. Passing(hits) \subseteq Files \X (1..MaxResults)
      BY CapabilityCallsAssumption DEF Passing, Matching
    <2>2. IsFiniteSet(1..MaxResults)
      BY CapabilityCallsAssumption, FS_Interval
    <2>3. IsFiniteSet(Files \X (1..MaxResults))
      BY <2>2, CapabilityCallsAssumption, FS_Product
    <2> QED BY <2>1, <2>3, FS_Subset
  <1>2. Cardinality(Passing(hits)) \in Nat
    BY <1>1, FS_CardinalityType
  <1>3. ASSUME Passing(hits) # Matching(hits)
        PROVE  Cardinality(Passing(hits)) >= MaxResults
    <2>1. PICK line \in Matching(hits) : ~(line[2] <= MaxResults)
      BY <1>3 DEF Passing
    <2>2. PICK f \in Files : line \in {f} \X (1..hits[f])
      BY DEF Matching
    <2>3. line[2] \in 1..hits[f] /\ line[2] > MaxResults /\ hits[f] \in Int
      BY <2>1, <2>2, CapabilityCallsAssumption
    <2> DEFINE first == [i \in 1..MaxResults |-> <<f, i>>]
    <2>4. ASSUME NEW i \in 1..MaxResults PROVE <<f, i>> \in Passing(hits)
      <3>1. i \in 1..hits[f]
        BY <2>3, CapabilityCallsAssumption
      <3>2. <<f, i>> \in Matching(hits)
        BY <3>1 DEF Matching
      <3> QED BY <3>2, CapabilityCallsAssumption DEF Passing
    <2>5. first \in Injection(1..MaxResults, Passing(hits))
      BY <2>4 DEF Injection, IsInjective
    <2>6. Cardinality(1..MaxResults) <= Cardinality(Passing(hits))
      BY <1>1, <2>5, FS_Injection
    <2> QED BY <2>6, CapabilityCallsAssumption, FS_Interval
  <1> QED BY <1>2, <1>3

Honest(c) ==
    /\ search[c].lacks => search[c].truncated \/ search[c].dropped
    /\ c \in failed =>
          /\ request[c] # NoRequest /\ todo[c] = <<>>
          /\ Types(c) = Succeeded => request[c].method \in {"glob", "exec"}

\* A failed call is over, so that the reply it has got is its last.
HiddenInv == \A c \in Calls : Honest(c)

LEMMA HiddenInit == Init => HiddenInv
  BY DEF Init, HiddenInv, Honest, NoSearch

LEMMA OthersStayHonest ==
    ASSUME HiddenInv, NEW c \in Calls, SparesOthers(c), failed' \subseteq failed \cup {c},
           \A d \in Calls \ {c} : search'[d] = search[d], Honest(c)'
    PROVE  HiddenInv'
  BY DEF HiddenInv, Honest, SparesOthers, Types

\* An error is not a success, sent or not.
LEMMA ErrorsShow ==
    ASSUME StateOK, NEW c \in Calls, frames[c] = <<>>, Reply(c, HandlerError)
    PROVE  Types(c)' # Succeeded
  <1>1. Types(c)' \in {<<>>, <<"error">>}
    BY FirstReply DEF HandlerError
  <1> QED BY <1>1 DEF Succeeded

LEMMA OperationHonest ==
    ASSUME AnswerInv, WriteInv, HiddenInv, NEW c \in Calls, Operation(c)
    PROVE  HiddenInv'
  <1>1. /\ request' = request /\ todo[c] # <<>> /\ frames[c] = <<>> /\ search' = search
        /\ request[c] # NoRequest
    BY DEF Operation, OpenFile, WriteFile, ReadDirectory, Stat, ReadFile, Pending,
           AnswerInv, RepliedIsOver
  <1>2. SparesOthers(c)
    BY OperationTouches, OperationHandles, HandlesSpares
  <1>3. c \notin failed
    BY <1>1 DEF HiddenInv, Honest
  <1>4. UNCHANGED failed \/ Fails(c)
    BY DEF Operation, OpenFile, WriteFile, ReadDirectory, Stat, ReadFile, Single, Continue
  <1>5. CASE UNCHANGED failed
    BY <1>1, <1>2, <1>3, <1>5, OthersStayHonest DEF HiddenInv, Honest
  <1>6. CASE Fails(c)
    <2>1. todo'[c] = <<>> /\ Reply(c, HandlerError) /\ failed' = failed \cup {c}
      BY <1>6 DEF Fails, Finish, AnswerInv, StateOK
    <2>2. Honest(c)'
      BY <1>1, <2>1, ErrorsShow DEF AnswerInv, HiddenInv, Honest
    <2> QED BY <1>1, <1>2, <2>1, <2>2, OthersStayHonest
  <1> QED BY <1>4, <1>5, <1>6

LEMMA SearchHonest ==
    ASSUME TypeInv, AnswerInv, HiddenInv, NEW c \in Calls, NEW r \in Requests, ReceiveSearch(c, r),
           request[c] = NoRequest, request'[c] = r
    PROVE  /\ Honest(c)' /\ failed' \subseteq failed \cup {c}
           /\ \A d \in Calls \ {c} : search'[d] = search[d]
  <1>1. /\ c \notin failed /\ todo'[c] = <<>> /\ frames[c] = <<>> /\ r # NoRequest
        /\ StateOK /\ (search[c].lacks => search[c].truncated \/ search[c].dropped)
    BY CapabilityCallsAssumption
       DEF ReceiveSearch, HiddenInv, Honest, AnswerInv, RepliedIsOver
  <1>2. PICK hits \in [Files -> 0..MaxHits], status \in 0..2 :
           Grep(c, hits, status) \/ (r.method = "glob" /\ Glob(c, hits, status))
    BY DEF ReceiveSearch
  <1>3. CASE Grep(c, hits, status)
    <2>2. ASSUME NEW parsed \in SUBSET Passing(hits), UNCHANGED failed,
                 LET n == Cardinality(parsed) IN
                 search' = [search EXCEPT ![c] =
                     [lacks |-> parsed # Matching(hits) \/ n > MaxResults,
                      truncated |-> n >= MaxResults,
                      dropped |-> parsed # Passing(hits)]]
          PROVE  /\ Honest(c)' /\ failed' \subseteq failed \cup {c}
                 /\ \A d \in Calls \ {c} : search'[d] = search[d]
      <3> DEFINE n == Cardinality(parsed)
                 lacks == parsed # Matching(hits) \/ n > MaxResults
      <3>1. parsed = Passing(hits) => n \in Nat /\ (lacks => n >= MaxResults)
        BY FullFile, CapabilityCallsAssumption
      <3> HIDE DEF n, lacks
      <3>2. search' = [search EXCEPT ![c] = [lacks |-> lacks, truncated |-> n >= MaxResults,
                                              dropped |-> parsed # Passing(hits)]]
        BY <2>2 DEF n, lacks
      <3>3. /\ search'[c].lacks = lacks /\ search'[c].truncated = (n >= MaxResults)
            /\ search'[c].dropped = (parsed # Passing(hits))
            /\ \A d \in Calls \ {c} : search'[d] = search[d]
        BY <3>2 DEF TypeInv, CallsOK
      <3>4. search'[c].lacks => search'[c].truncated \/ search'[c].dropped
        BY <3>1, <3>3
      <3> QED BY <1>1, <2>2, <3>3, <3>4 DEF Honest
    <2>3. CASE /\ UNCHANGED search
               /\ failed' = IF status = 1 THEN failed ELSE failed \cup {c}
               /\ Reply(c, IF IsNoMatch(status) THEN Succeeded ELSE HandlerError)
      <3>1. c \in failed' => Types(c)' # Succeeded
        BY <1>1, <2>3, ErrorsShow DEF IsNoMatch
      <3> QED BY <1>1, <2>3, <3>1 DEF Honest
    <2> QED BY <1>3, <2>2, <2>3 DEF Grep, Truncated
  <1>4. CASE r.method = "glob" /\ Glob(c, hits, status)
    <2> DEFINE matching == {f \in Files : hits[f] > 0}
    <2>1. Cardinality(matching) \in Nat
      BY CapabilityCallsAssumption, FS_Subset, FS_CardinalityType
    <2> HIDE DEF matching
    <2>2. failed' \subseteq failed \cup {c}
      BY <1>4 DEF Glob
    <2>3. ASSUME NEW found \in SUBSET matching,
                 LET n == Least(Cardinality(found), MaxResults + 1) IN
                 search' = [search EXCEPT ![c] =
                     [lacks |-> Cardinality(matching) > Least(n, MaxResults),
                      truncated |-> n > MaxResults,
                      dropped |-> found # matching]]
          PROVE  Honest(c)' /\ \A d \in Calls \ {c} : search'[d] = search[d]
      <3> DEFINE n == Least(Cardinality(found), MaxResults + 1)
                 lacks == Cardinality(matching) > Least(n, MaxResults)
      <3>1. found = matching => (lacks => n > MaxResults)
        BY <2>1, CapabilityCallsAssumption DEF Least
      <3> HIDE DEF n, lacks
      <3>2. search' = [search EXCEPT ![c] = [lacks |-> lacks, truncated |-> n > MaxResults,
                                              dropped |-> found # matching]]
        BY <2>3 DEF n, lacks
      <3>3. /\ search'[c].lacks = lacks /\ search'[c].truncated = (n > MaxResults)
            /\ search'[c].dropped = (found # matching)
            /\ \A d \in Calls \ {c} : search'[d] = search[d]
        BY <3>2 DEF TypeInv, CallsOK
      <3>4. search'[c].lacks => search'[c].truncated \/ search'[c].dropped
        BY <3>1, <3>3
      <3> QED BY <1>1, <1>4, <2>2, <3>3, <3>4 DEF Honest
    <2>4. CASE UNCHANGED search
      BY <1>1, <1>4, <2>2, <2>4 DEF Honest
    <2> QED BY <1>4, <2>2, <2>3, <2>4 DEF Glob, matching
  <1> QED BY <1>2, <1>3, <1>4

LEMMA ReceiveHonest ==
    ASSUME TypeInv, AnswerInv, WriteInv, HiddenInv, NEW c \in Calls, NEW r \in Requests, Receive(c, r)
    PROVE  HiddenInv'
  <1>1. /\ request[c] = NoRequest /\ request'[c] = r /\ r # NoRequest
        /\ c \notin failed
        /\ todo[c] = <<>>
    BY CapabilityCallsAssumption
       DEF Receive, ReceiveFile, ReceiveRefused, ReceiveSearch, ReceiveExec, Arrives,
           AnswerInv, StateOK, RepliedIsOver, HiddenInv, Honest
  <1>2. SparesOthers(c)
    BY ReceiveTouches, ReceiveHandles, HandlesSpares
  <1>3. CASE ReceiveFile(c, r) \/ ReceiveRefused(c, r)
    <2>1. UNCHANGED <<search, failed>>
      BY <1>3 DEF ReceiveFile, ReceiveRefused
    <2> QED BY <1>1, <1>2, <2>1, OthersStayHonest DEF HiddenInv, Honest
  <1>4. CASE ReceiveSearch(c, r)
    BY <1>1, <1>2, <1>4, SearchHonest, OthersStayHonest
  <1>5. CASE ReceiveExec(c, r)
    <2>1. UNCHANGED <<search, todo>> /\ r.method = "exec" /\ failed' \subseteq failed \cup {c}
      BY <1>5 DEF ReceiveExec
    <2>2. Honest(c)'
      BY <1>1, <2>1 DEF HiddenInv, Honest
    <2> QED BY <1>2, <2>1, <2>2, OthersStayHonest
  <1> QED BY <1>3, <1>4, <1>5 DEF Receive

LEMMA HiddenStep ==
    TypeInv /\ AnswerInv /\ WriteInv /\ HiddenInv /\ [Next]_vars => HiddenInv'
  <1> SUFFICES ASSUME TypeInv, AnswerInv, WriteInv, HiddenInv, [Next]_vars PROVE HiddenInv'
    OBVIOUS
  <1>1. CASE Connect \/ Disconnect \/ UNCHANGED vars
    BY <1>1 DEF Connect, Disconnect, HiddenInv, Honest, Types
  <1>2. ASSUME NEW c \in Calls, Operation(c) PROVE HiddenInv'
    BY <1>2, OperationHonest
  <1>3. ASSUME NEW c \in Calls, NEW r \in Requests, Receive(c, r) PROVE HiddenInv'
    BY <1>3, ReceiveHonest
  <1> QED BY <1>1, <1>2, <1>3 DEF Next

\* As long as no output of the command was lost, a search of search-handler.ts that lacks
\* what --max-count, slice() or head cut off says truncated; and a call that failed is
\* answered as a success by glob() and exec() only.
THEOREM SearchCutsAreTold == Spec => []CutsAreTold
  <1>1. Spec => [](TypeInv /\ AnswerInv /\ WriteInv /\ HiddenInv)
    BY TypeInvInit, TypeInvStep, AnswerInit, AnswerStep, WriteInit, WriteStep, HiddenInit,
       HiddenStep, PTL DEF Spec
  <1>2. TypeInv /\ HiddenInv => CutsAreTold
    BY DEF TypeInv, CallsOK, HiddenInv, Honest, CutsAreTold
  <1> QED BY <1>1, <1>2, PTL
=============================================================================
