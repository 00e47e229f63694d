--------------------------- MODULE CapabilityCalls ---------------------------
(***************************************************************************)
(* The calls that the gateway makes to the machine: handleCall() of        *)
(* packages/host-agent-core/src/ws/gateway-client.ts and the handlers of   *)
(* packages/host-agent-fs, over a workspace that the calls change.         *)
(*                                                                         *)
(* A filesystem call awaits one file operation after the other, beside the *)
(* other calls; search and shell block the event loop (execSync), so that  *)
(* they begin and end in one step.  The connection is reduced to the       *)
(* session that this.ws has open: a reply goes to that one, or is dropped. *)
(***************************************************************************)
EXTENDS Naturals, SequencesExt

CONSTANTS
    Calls,         \* requestIds
    Requests,      \* what may be asked: records [method, path, text]
    NoRequest,
    Files, Dirs,
    Above,         \* Above[x]: the directories above the file or directory x
    Excluded,      \* FETCH_EXCLUDE
    Denied,        \* files and directories without permission
    Texts,         \* contents that are text
    InitialDisks,  \* what the files hold at the beginning
    MaxResults,    \* maxResults of a search
    MaxHits,       \* bound: lines of a file that match
    MaxSessions    \* bound: connections

Nodes == Files \cup Dirs

\* What a file holds: "mixed" is what overlapping writes leave, "empty" what an
\* open for writing leaves, "large" has 5 MB or more.
Contents == Texts \cup {"absent", "empty", "mixed", "large", "binary"}

\* What a caller gets: "garbled" is a binary file decoded as utf-8.
Collected == Texts \cup {"none", "empty", "mixed", "large", "garbled"}

\* Directories form a tree: what is below a directory is reached by its entries.
IsTree ==
    \A x \in Nodes :
        /\ x \notin Above[x]
        /\ \A d \in Above[x] :
              /\ Above[d] \subseteq Above[x]
              /\ \E y \in {x} \cup Above[x] : Above[y] = Above[d] \cup {d}

ASSUME CapabilityCallsAssumption ==
    /\ IsFiniteSet(Files) /\ IsFiniteSet(Dirs) /\ Files \cap Dirs = {}
    /\ Above \in [Nodes -> SUBSET Dirs] /\ IsTree
    /\ InitialDisks \subseteq [Files -> Contents]
    /\ NoRequest \notin Requests
    /\ \A r \in Requests : r.path \in Nodes /\ (r.method = "writeFile" => r.text \in Texts)
    /\ MaxResults \in Nat \ {0} /\ MaxSessions \in Nat

VARIABLES
    session,    \* the session on which this.ws is open, 0 if it is not
    sessions,   \* sessions so far
    disk,       \* contents of the files
    request,    \* per call
    asked,      \* per call: the session it came on
    todo,       \* per call: the file operations its handler has still to await
    out,        \* per call: what fetchWorkspace() has collected
    search,     \* per call: does its result lack matches, does it say truncated, and,
                \* as history, did output get lost before the limit applied?
    frames,     \* per call: the frames sent in reply
    failed,     \* history: calls whose operation failed
    sole        \* history, per call: the files that no one else has changed since

connVars == <<session, sessions>>
diskVars == <<disk, sole>>
callVars == <<request, asked, todo, out>>
replyVars == <<search, frames, failed>>
vars == <<connVars, diskVars, callVars, replyVars>>

Op == [op : {"readdir", "stat", "read", "open", "write"}, path : Nodes]
Frame == [type : {"chunk", "result", "error"}, session : 1..MaxSessions]
NoSearch == [lacks |-> FALSE, truncated |-> FALSE, dropped |-> FALSE]

\* Every variable keeps its type; a frame belongs to an open session.
TypeOK ==
    /\ sessions \in 0..MaxSessions /\ session \in 0..sessions
    /\ disk \in [Files -> Contents]
    /\ request \in [Calls -> Requests \cup {NoRequest}]
    /\ asked \in [Calls -> 0..MaxSessions]
    /\ out \in [Calls -> [Files -> Collected]]
    /\ search \in [Calls -> [lacks : BOOLEAN, truncated : BOOLEAN, dropped : BOOLEAN]]
    /\ \A c \in Calls : todo[c] \in Seq(Op) /\ frames[c] \in Seq(Frame)
    /\ failed \subseteq Calls /\ sole \in [Calls -> SUBSET Files]

Init ==
    /\ session = 0 /\ sessions = 0
    /\ disk \in InitialDisks
    /\ request = [c \in Calls |-> NoRequest]
    /\ asked = [c \in Calls |-> 0]
    /\ todo = [c \in Calls |-> <<>>]
    /\ out = [c \in Calls |-> [f \in Files |-> "none"]]
    /\ search = [c \in Calls |-> NoSearch]
    /\ frames = [c \in Calls |-> <<>>]
    /\ failed = {}
    /\ sole = [c \in Calls |-> {}]

-----------------------------------------------------------------------------
(* The session, and changes of files *)

\* A session opens, with a hello; an earlier one was lost or rotated away.
Connect ==
    /\ session = 0 /\ sessions < MaxSessions
    /\ sessions' = sessions + 1 /\ session' = sessions'
    /\ UNCHANGED <<diskVars, callVars, replyVars>>

\* The socket is lost, or stop() of a token rotation closes it.
Disconnect ==
    /\ session # 0 /\ session' = 0
    /\ UNCHANGED <<sessions, diskVars, callVars, replyVars>>

\* The call by changes f: for the others, someone else has.
Change(f, v, by) ==
    /\ disk' = [disk EXCEPT ![f] = v]
    /\ sole' = [c \in Calls |-> IF c = by THEN sole[c] ELSE sole[c] \ {f}]

-----------------------------------------------------------------------------
(* Replies *)

Sendable_Any == TRUE

\* send() drops what has no open socket.
Sendable == session # 0

Reply(c, types) ==
    frames' = [frames EXCEPT ![c] = @ \o
        IF Sendable THEN [i \in DOMAIN types |-> [type |-> types[i], session |-> session]]
                    ELSE <<>>]

Succeeded == <<"chunk", "result">>

HandlerError_Swallowed == <<>>

\* The catch of handleCall().
HandlerError == <<"error">>

UnknownAdapter_FallsThrough == <<"error", "error">>

\* handleCall() without a handler returns after its reply.
UnknownAdapter == <<"error">>

\* The handler of c ends.
Finish(c, types) ==
    /\ todo' = [todo EXCEPT ![c] = <<>>]
    /\ Reply(c, types)

Fails(c) ==
    /\ failed' = failed \cup {c}
    /\ Finish(c, HandlerError)

-----------------------------------------------------------------------------
(* A call arrives *)

\* handle(): the first file operation of each method.
FirstOp == [readFile |-> "read", writeFile |-> "open", listDir |-> "readdir",
            stat |-> "stat", exists |-> "stat", fetchWorkspace |-> "readdir"]

Arrives(c, r) ==
    /\ session # 0 /\ request[c] = NoRequest
    /\ request' = [request EXCEPT ![c] = r]
    /\ asked' = [asked EXCEPT ![c] = session]

ReceiveFile(c, r) ==
    /\ r.method \in DOMAIN FirstOp
    /\ Arrives(c, r)
    /\ todo' = [todo EXCEPT ![c] = <<[op |-> FirstOp[r.method], path |-> r.path]>>]
    /\ sole' = [sole EXCEPT ![c] = Files]
    /\ UNCHANGED <<connVars, disk, out, replyVars>>

\* Arguments, path, method or command are refused, which exists() answers with false,
\* or no handler is registered.
ReceiveRefused(c, r) ==
    /\ Arrives(c, r)
    /\ \/ r.method = "refused" /\ Reply(c, HandlerError)
       \/ r.method = "refusedExists" /\ Reply(c, Succeeded)
       \/ r.method = "unknownAdapter" /\ Reply(c, UnknownAdapter)
    /\ UNCHANGED <<connVars, diskVars, todo, out, search, failed>>

Least(m, n) == IF m <= n THEN m ELSE n

Truncated_PastLimit(n) == n > MaxResults

\* grep() cannot know whether a file had more than --max-count lines.
Truncated(n) == n >= MaxResults

IsNoMatch_AnyFailure(status) == TRUE

\* grep and rg exit with 1 when nothing matches, with more when something failed.
IsNoMatch(status) == status = 1

\* The lines that match, numbered in each file, and those that --max-count lets pass.
Matching(hits) == UNION {{f} \X (1..hits[f]) : f \in Files}
Passing(hits) == {line \in Matching(hits) : line[2] <= MaxResults}

\* grep(): --max-count limits the lines of each file, slice() all of them; in between,
\* lines of output that are not file:line:content are dropped: those of a search of one
\* file, "Binary file matches", and those that end in a carriage return.
Grep(c, hits, status) ==
    \/ /\ status = 0
       /\ \E parsed \in SUBSET Passing(hits) :
             LET n == Cardinality(parsed) IN
             search' = [search EXCEPT ![c] =
                 [lacks |-> parsed # Matching(hits) \/ n > MaxResults,
                  truncated |-> Truncated(n),
                  dropped |-> parsed # Passing(hits)]]
       /\ Reply(c, Succeeded)
       /\ UNCHANGED failed
    \/ /\ status # 0
       /\ failed' = IF status = 1 THEN failed ELSE failed \cup {c}
       /\ Reply(c, IF IsNoMatch(status) THEN Succeeded ELSE HandlerError)
       /\ UNCHANGED search

\* glob(): head lets one file more than the limit pass, and its status is that of the
\* pipeline: a find that fails part of the way ends it early, with status 0.  Any other
\* failure is an empty list.
Glob(c, hits, status) ==
    LET matching == {f \in Files : hits[f] > 0} IN
    /\ \/ /\ status = 0
          /\ \E found \in SUBSET matching :
                LET n == Least(Cardinality(found), MaxResults + 1) IN
                /\ search' = [search EXCEPT ![c] =
                       [lacks |-> Cardinality(matching) > Least(n, MaxResults),
                        truncated |-> n > MaxResults,
                        dropped |-> found # matching]]
                /\ failed' = IF found = matching THEN failed ELSE failed \cup {c}
       \/ /\ status # 0
          /\ failed' = failed \cup {c}
          /\ UNCHANGED search
    /\ Reply(c, Succeeded)

\* A search matches hits[f] lines of the file f, or fails; grep reports with 1 that
\* nothing matched.
ReceiveSearch(c, r) ==
    /\ Arrives(c, r)
    /\ \E hits \in [Files -> 0..MaxHits], status \in 0..2 :
          \/ /\ r.method = "grep"
             /\ status < 2 => (status = 1 <=> \A f \in Files : hits[f] = 0)
             /\ Grep(c, hits, status)
          \/ r.method = "glob" /\ Glob(c, hits, status)
    /\ UNCHANGED <<connVars, diskVars, todo, out>>

\* exec(): a command that fails, or is killed by its timeout, is a result with an exit
\* code; either way it may have changed files.
ReceiveExec(c, r) ==
    /\ r.method = "exec"
    /\ Arrives(c, r)
    /\ \/ \E f \in Files, v \in Texts \cup {"absent"} : Change(f, v, c)
       \/ UNCHANGED <<disk, sole>>
    /\ failed' \in {failed, failed \cup {c}}
    /\ Reply(c, Succeeded)
    /\ UNCHANGED <<connVars, todo, out, search>>

-----------------------------------------------------------------------------
(* The file operations of a call *)

Pending(c, op) == todo[c] # <<>> /\ Head(todo[c]).op = op

Path(c) == Head(todo[c]).path

Exists(x) == x \in Files => disk[x] # "absent"

\* A directory is listed, a file is read or written, each with permission.
Readable(x, kind) == x \in kind \ Denied /\ Exists(x)

\* readFile(x, 'utf-8') replaces what is not utf-8.
Decode(v) == IF v = "binary" THEN "garbled" ELSE v

\* A call of one operation ends with it.
Single(c, ok) ==
    /\ request[c].method # "fetchWorkspace"
    /\ \/ ok /\ Finish(c, Succeeded) /\ UNCHANGED failed
       \/ ~ok /\ Fails(c)

Opened_NotAwaited(c) == Finish(c, Succeeded)

\* writeFileMethod() awaits the write that follows the open.
Opened(c) ==
    /\ todo' = [todo EXCEPT ![c] = <<[op |-> "write", path |-> Path(c)]>>]
    /\ UNCHANGED frames

\* writeFile() opens the file, which empties or creates it, ...
OpenFile(c) ==
    /\ Pending(c, "open")
    /\ \/ Path(c) \in Files \ Denied /\ Change(Path(c), "empty", c)
          /\ Opened(c) /\ UNCHANGED failed
       \/ Fails(c) /\ UNCHANGED <<disk, sole>>
    /\ UNCHANGED <<connVars, request, asked, out, search>>

\* What a write can leave in a file: one removed since it was opened stays so, one
\* that someone else has written is replaced, kept or overwritten in part.
Written(old, text) ==
    CASE old = "empty" -> {text}
      [] old = "absent" -> {"absent"}
      [] OTHER -> {old, text, "mixed"}

\* ... and then writes it, or fails.
WriteFile(c) ==
    /\ Pending(c, "write")
    /\ \/ /\ \E v \in Written(disk[Path(c)], request[c].text) : Change(Path(c), v, c)
          /\ Finish(c, Succeeded) /\ UNCHANGED failed
       \/ Fails(c) /\ UNCHANGED <<disk, sole>>
    /\ UNCHANGED <<connVars, request, asked, out, search>>

Skip_EndsFetch(ops) == <<>>

\* The catches of collectFiles() go on with the next entry.
Skip(ops) == Tail(ops)

\* fetchWorkspace() goes on with ops, and returns when none is left.
Continue(c, ops) ==
    /\ request[c].method = "fetchWorkspace"
    /\ \/ ops # <<>> /\ todo' = [todo EXCEPT ![c] = ops] /\ UNCHANGED frames
       \/ ops = <<>> /\ Finish(c, Succeeded)
    /\ UNCHANGED failed

\* The entries of d that collectFiles() visits.
Entries(d) == {x \in Nodes \ Excluded : Above[x] = Above[d] \cup {d} /\ Exists(x)}

Stats(s) == [i \in DOMAIN s |-> [op |-> "stat", path |-> s[i]]]

ReadDirectory(c) ==
    /\ Pending(c, "readdir")
    /\ \/ Single(c, Readable(Path(c), Dirs))
       \/ Readable(Path(c), Dirs) /\ \E s \in SetToSeqs(Entries(Path(c))) :
             Continue(c, Stats(s) \o Tail(todo[c]))
       \/ ~Readable(Path(c), Dirs) /\ Continue(c, Skip(todo[c]))
    /\ UNCHANGED <<connVars, diskVars, request, asked, out, search>>

\* stat(); exists() answers either way, collectFiles() goes down directories and
\* reads the files below 5 MB.
Stat(c) ==
    LET x == Path(c)
        Visit(op) == <<[op |-> op, path |-> x]>> \o Tail(todo[c])
    IN
    /\ Pending(c, "stat")
    /\ \/ Single(c, Exists(x) \/ request[c].method = "exists")
       \/ ~Exists(x) /\ Continue(c, Skip(todo[c]))
       \/ x \in Dirs /\ Continue(c, Visit("readdir"))
       \/ /\ x \in Files /\ Exists(x)
          /\ Continue(c, IF disk[x] = "large" THEN Tail(todo[c]) ELSE Visit("read"))
    /\ UNCHANGED <<connVars, diskVars, request, asked, out, search>>

\* readFile(); what collectFiles() read is pushed to its list.
ReadFile(c) ==
    /\ Pending(c, "read")
    /\ \/ Single(c, Readable(Path(c), Files)) /\ UNCHANGED out
       \/ /\ Readable(Path(c), Files) /\ Continue(c, Tail(todo[c]))
          /\ out' = [out EXCEPT ![c][Path(c)] = Decode(disk[Path(c)])]
       \/ ~Readable(Path(c), Files) /\ Continue(c, Skip(todo[c])) /\ UNCHANGED out
    /\ UNCHANGED <<connVars, diskVars, request, asked, search>>

-----------------------------------------------------------------------------

Operation(c) == OpenFile(c) \/ WriteFile(c) \/ ReadDirectory(c) \/ Stat(c) \/ ReadFile(c)

Receive(c, r) ==
    ReceiveFile(c, r) \/ ReceiveRefused(c, r) \/ ReceiveSearch(c, r) \/ ReceiveExec(c, r)

Next ==
    \/ Connect \/ Disconnect
    \/ \E c \in Calls : Operation(c) \/ \E r \in Requests : Receive(c, r)

Spec == Init /\ [][Next]_vars

\* The operating system completes every file operation, one way or the other.
FairSpec == Spec /\ \A c \in Calls : WF_vars(Operation(c))

-----------------------------------------------------------------------------
(* Properties *)

Types(c) == [i \in DOMAIN frames[c] |-> frames[c][i].type]

\* A call is answered at most once: by a chunk and the result that ends it, or by an
\* error, in either case over one session.
OneAnswer ==
    \A c \in Calls :
        /\ Types(c) \in {<<>>, <<"chunk", "result">>, <<"error">>}
        /\ \A i, j \in DOMAIN frames[c] : frames[c][i].session = frames[c][j].session

\* What writeFile() acknowledged is in the file, unless someone else changed the
\* file since the call arrived.
AckedWriteIsOnDisk ==
    \A c \in Calls :
        /\ request[c] # NoRequest /\ request[c].method = "writeFile"
        /\ Types(c) = Succeeded /\ request[c].path \in sole[c]
        => disk[request[c].path] = request[c].text

\* fetchWorkspace() of d visits x: neither x nor a directory between them is excluded
\* or denied.
Visits(d, x) ==
    /\ d \in Above[x]
    /\ ({x} \cup Above[x]) \cap Denied = {}
    /\ ({x} \cup (Above[x] \ (Above[d] \cup {d}))) \cap Excluded = {}

\* What is unreadable, excluded or changing costs no other file of text its place in the
\* answer of fetchWorkspace().
FetchCoversQuietFiles ==
    \A c \in Calls :
        request[c] # NoRequest /\ request[c].method = "fetchWorkspace" /\ Types(c) = Succeeded
        => \A f \in sole[c] :
              Visits(request[c].path, f) /\ disk[f] \notin {"absent", "large", "binary"}
              => out[c][f] = disk[f]

\* As long as no output of the command was lost, a search that lacks what --max-count, head
\* or slice() cut off says so; and a call that failed is not answered as if nothing was
\* found: only glob() does, and exec() has an exit code.
CutsAreTold ==
    /\ \A c \in Calls : search[c].lacks => search[c].truncated \/ search[c].dropped
    /\ \A c \in failed : Types(c) = Succeeded => request[c].method \in {"glob", "exec"}

\* Every call is answered, unless the session it came on ends first.
EveryCallAnswered ==
    \A c \in Calls :
        request[c] # NoRequest ~> (frames[c] # <<>> \/ asked[c] # session)
=============================================================================
