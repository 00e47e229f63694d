---------------------------- MODULE PluginResolver ----------------------------
(***************************************************************************)
(* apps/host-agent-app/src/handlers/local-plugin-resolver.ts: the lazy     *)
(* scan of the workspace for plugin manifests and the cache it fills.      *)
(*                                                                         *)
(* A request that finds no finished scan runs one of its own, so several   *)
(* scans walk the tree at once and share the cache.  A scan is the list of *)
(* file operations it has still to await, each at its place in the tree; a *)
(* listing adds to it.  The contents of a manifest are the plugin's id, or *)
(* None, or Malformed.                                                     *)
(***************************************************************************)
EXTENDS Naturals, FiniteSets, SequencesExt

CONSTANTS
    Ids,          \* plugin ids
    Dirs,         \* directories that may hold a manifest
    Bases,        \* allowedPaths, in order
    Subdirs,      \* Subdirs[d]: the directories that a listing of d may hold, in order
    Packages,     \* Packages[d]: those that a listing of d/packages may hold
    Callers,
    None,
    Malformed,    \* a manifest that does not parse, or lacks its id or version
    InitialDisks, \* the manifests at the beginning
    Edits,        \* what may happen to the manifests of a directory
    MaxChanges    \* bound: directories whose manifests change

Contents == Ids \cup {None, Malformed}
Manifests == [built : Contents, source : Contents]
Listing == "listPlugins"
Rescan == "rescan"

ASSUME PluginResolverAssumption ==
    /\ None \notin Dirs \cup Ids /\ Malformed \notin Ids /\ {Listing, Rescan} \cap Ids = {}
    /\ Bases \in Seq(Dirs)
    /\ Subdirs \in [Dirs -> Seq(Dirs)] /\ Packages \in [Dirs -> Seq(Dirs)]
    /\ InitialDisks \subseteq [Dirs -> Manifests]
    /\ Edits \subseteq [dir : Dirs, becomes : Manifests]

VARIABLES
    cache,     \* this.cache: the root of each plugin
    scanned,   \* this.scanned
    phase,     \* per caller: new, scanning, looking, verifying, done
    request,   \* per caller: the plugin to resolve(), listPlugins or rescan
    work,      \* per caller: the file operations its scan has still to do
    found,     \* per caller: the manifest that tryLoadManifest() has just read
    root,      \* per caller: entry.root, kept while the handler is verified
    seen,      \* per caller: the plugins in the cache when it looked
    disk,      \* the two manifests of each directory
    changed,   \* history: the directories whose manifests changed
    crossed,   \* history: a rescan began beside another scan
    current    \* history: no scan that counts is older than the disk

callerVars == <<phase, request, work, found, root, seen>>
historyVars == <<changed, crossed, current>>
vars == <<cache, scanned, callerVars, disk, historyVars>>

-----------------------------------------------------------------------------
(* The tree, as a scan walks it *)

\* A place: the number of the allowed path, of the entry in it, and of the package in
\* that; 0 for the directory itself.
Root(b) == [base |-> b, sub |-> 0, package |-> 0]

DirAt(p) ==
    LET base == Bases[p.base] IN
    IF p.sub = 0 THEN base
    ELSE LET sub == Subdirs[base][p.sub]
         IN  IF p.package = 0 THEN sub ELSE Packages[sub][p.package]

\* What scanDir() may list at a place.
Listed(p) == IF p.sub = 0 THEN Subdirs[DirAt(p)] ELSE Packages[DirAt(p)]

Entry(p, k) == IF p.sub = 0 THEN [p EXCEPT !.sub = k] ELSE [p EXCEPT !.package = k]

Roots == {Root(b) : b \in DOMAIN Bases}
Below(P) == UNION {{Entry(p, k) : k \in DOMAIN Listed(p)} : p \in P}
Places == Roots \cup Below(Roots) \cup Below(Below(Roots))

Op == [op : {"built", "source", "list"}, at : Places]

\* Every variable keeps its type; only a scan has work to do, and what it has
\* read waits for the operation at hand.
TypeOK ==
    /\ cache \in [Ids -> Dirs \cup {None}]
    /\ scanned \in BOOLEAN /\ crossed \in BOOLEAN /\ current \in BOOLEAN
    /\ phase \in [Callers -> {"new", "scanning", "looking", "verifying", "done"}]
    /\ request \in [Callers -> Ids \cup {None, Listing, Rescan}]
    /\ \A c \in Callers : work[c] \in Seq(Op) /\ seen[c] \subseteq Ids
    /\ found \in [Callers -> Ids \cup {None}]
    /\ root \in [Callers -> Dirs \cup {None}]
    /\ disk \in [Dirs -> Manifests] /\ changed \subseteq Dirs
    /\ \A c \in Callers :
        /\ work[c] # <<>> => phase[c] = "scanning"
        /\ found[c] # None => work[c] # <<>>

Init ==
    /\ cache = [i \in Ids |-> None] /\ scanned = FALSE
    /\ phase = [c \in Callers |-> "new"]
    /\ request = [c \in Callers |-> None]
    /\ work = [c \in Callers |-> <<>>]
    /\ found = [c \in Callers |-> None]
    /\ root = [c \in Callers |-> None]
    /\ seen = [c \in Callers |-> {}]
    /\ disk \in InitialDisks
    /\ changed = {} /\ crossed = FALSE /\ current = TRUE

-----------------------------------------------------------------------------
(* The walk *)

\* tryLoadManifest() begins with dist/manifest.json.
Load(p) == [op |-> "built", at |-> p]

\* scan() as far as it is known before the first listing.
Scan == [b \in DOMAIN Bases |-> Load(Root(b))]

Becomes(ops, op) == <<[Head(ops) EXCEPT !.op = op]>> \o Tail(ops)

\* After tryLoadManifest(), scanDir() lists the directory, or the packages in it; the
\* packages are not searched.
Loaded(ops) ==
    IF Head(ops).at.package = 0 THEN Becomes(ops, "list") ELSE Tail(ops)

\* After dist/manifest.json, manifest.json.
NoManifest(ops) ==
    IF Head(ops).op = "built" THEN Becomes(ops, "source") ELSE Loaded(ops)

InUse == {c \in Callers : phase[c] \in {"scanning", "looking"}}

\* A directory that is there for sure: it, or one that a scan visits below it, has
\* a manifest.
Standing(d) ==
    LET In(e) == ToSet(Subdirs[e]) \cup ToSet(Packages[e])
    IN  \E e \in {d} \cup In(d) \cup UNION {In(e) : e \in In(d)} :
            disk[e] # [built |-> None, source |-> None]

\* A directory without manifests may be there or not; names keep their order.
Listings(p) ==
    LET entries == Listed(p) IN
    {names \in SeqOf(DOMAIN entries, Len(entries)) :
        /\ \A i, j \in DOMAIN names : i < j => names[i] < names[j]
        /\ \A k \in DOMAIN entries : Standing(entries[k]) => k \in ToSet(names)}

-----------------------------------------------------------------------------
(* Requests *)

\* The cache is read once; "Plugin not found" ends the request.
LookUp(c, what) ==
    /\ seen' = [seen EXCEPT ![c] = {i \in Ids : cache[i] # None}]
    /\ \/ /\ what \in Ids /\ cache[what] # None
          /\ root' = [root EXCEPT ![c] = cache[what]]
          /\ phase' = [phase EXCEPT ![c] = "verifying"]
       \/ /\ what \in Ids => cache[what] = None
          /\ phase' = [phase EXCEPT ![c] = "done"]
          /\ UNCHANGED root

Ask_MarksFirst(c, what) ==
    /\ phase[c] = "new"
    /\ request' = [request EXCEPT ![c] = what]
    /\ \/ /\ scanned
          /\ LookUp(c, what)
          /\ UNCHANGED <<work, scanned>>
       \/ /\ ~scanned
          /\ scanned' = TRUE
          /\ phase' = [phase EXCEPT ![c] = "scanning"]
          /\ work' = [work EXCEPT ![c] = Scan]
          /\ UNCHANGED <<seen, root>>
    /\ UNCHANGED <<cache, found, disk, historyVars>>

\* resolve() or listPlugins() looks at once if a scan has finished, else it scans.
Ask(c, what) ==
    /\ phase[c] = "new"
    /\ request' = [request EXCEPT ![c] = what]
    /\ \/ /\ scanned
          /\ LookUp(c, what)
          /\ UNCHANGED work
       \/ /\ ~scanned
          /\ phase' = [phase EXCEPT ![c] = "scanning"]
          /\ work' = [work EXCEPT ![c] = Scan]
          /\ UNCHANGED <<seen, root>>
    /\ UNCHANGED <<cache, scanned, found, disk, historyVars>>

BeginRescan_NoClear(c) ==
    /\ phase[c] = "new"
    /\ request' = [request EXCEPT ![c] = Rescan]
    /\ scanned' = FALSE
    /\ phase' = [phase EXCEPT ![c] = "scanning"]
    /\ work' = [work EXCEPT ![c] = Scan]
    /\ crossed' = (crossed \/ InUse # {})
    /\ current' = (current \/ InUse = {})
    /\ UNCHANGED <<cache, found, root, seen, disk, changed>>

\* rescan() forgets everything and scans.
BeginRescan(c) ==
    /\ phase[c] = "new"
    /\ request' = [request EXCEPT ![c] = Rescan]
    /\ cache' = [i \in Ids |-> None]
    /\ scanned' = FALSE
    /\ phase' = [phase EXCEPT ![c] = "scanning"]
    /\ work' = [work EXCEPT ![c] = Scan]
    /\ crossed' = (crossed \/ InUse # {})
    /\ current' = (current \/ InUse = {})
    /\ UNCHANGED <<found, root, seen, disk, changed>>

-----------------------------------------------------------------------------
(* The operations of a scan *)

\* What the file at hand contains.
Manifest(o) == disk[DirAt(o.at)][o.op]

ReadManifest_Unchecked(c) ==
    /\ work[c] # <<>> /\ found[c] = None
    /\ LET o == Head(work[c]) IN
        /\ o.op \in {"built", "source"}
        /\ \/ /\ Manifest(o) # None
              /\ found' = [found EXCEPT ![c] = Manifest(o)]
              /\ UNCHANGED work
           \/ /\ Manifest(o) = None
              /\ work' = [work EXCEPT ![c] = NoManifest(@)]
              /\ UNCHANGED found
    /\ UNCHANGED <<cache, scanned, phase, request, root, seen, disk, historyVars>>

\* readFile(): a missing or unusable manifest sends the scan on to the next.
ReadManifest(c) ==
    /\ work[c] # <<>> /\ found[c] = None
    /\ LET o == Head(work[c]) IN
        /\ o.op \in {"built", "source"}
        /\ \/ /\ Manifest(o) \in Ids
              /\ found' = [found EXCEPT ![c] = Manifest(o)]
              /\ UNCHANGED work
           \/ /\ Manifest(o) \notin Ids
              /\ work' = [work EXCEPT ![c] = NoManifest(@)]
              /\ UNCHANGED found
    /\ UNCHANGED <<cache, scanned, phase, request, root, seen, disk, historyVars>>

\* The continuation of readFile(): the directory becomes the plugin's root, and
\* tryLoadManifest() returns.
CacheManifest(c) ==
    /\ found[c] # None
    /\ cache' = [cache EXCEPT ![found[c]] = DirAt(Head(work[c]).at)]
    /\ work' = [work EXCEPT ![c] = Loaded(@)]
    /\ found' = [found EXCEPT ![c] = None]
    /\ UNCHANGED <<scanned, phase, request, root, seen, disk, historyVars>>

\* readdir(): each directory among the entries is tried for a manifest.
ReadDir(c) ==
    /\ work[c] # <<>>
    /\ LET o == Head(work[c]) IN
        /\ o.op = "list"
        /\ \E names \in Listings(o.at) :
              work' = [work EXCEPT ![c] =
                  [i \in DOMAIN names |-> Load(Entry(o.at, names[i]))] \o Tail(@)]
    /\ UNCHANGED <<cache, scanned, phase, request, found, root, seen, disk, historyVars>>

\* The end of scan().
ScanEnds(c) ==
    /\ phase[c] = "scanning" /\ work[c] = <<>>
    /\ scanned' = TRUE
    /\ phase' = [phase EXCEPT ![c] = IF request[c] = Rescan THEN "done" ELSE "looking"]
    /\ UNCHANGED <<cache, request, work, found, root, seen, disk, historyVars>>

-----------------------------------------------------------------------------
(* The rest of resolve() and listPlugins() *)

\* The continuation of a scan that resolve() or listPlugins() awaited.
Look(c) ==
    /\ phase[c] = "looking"
    /\ LookUp(c, request[c])
    /\ UNCHANGED <<cache, scanned, request, work, found, disk, historyVars>>

\* handlerRef is normalised, the handler is found and lies below the root; else
\* resolve() rejects and returns no root.
Verify(c) ==
    /\ phase[c] = "verifying"
    /\ phase' = [phase EXCEPT ![c] = "done"]
    /\ \/ Standing(root[c]) /\ UNCHANGED root
       \/ root' = [root EXCEPT ![c] = None]
    /\ UNCHANGED <<cache, scanned, request, work, found, seen, disk, historyVars>>

-----------------------------------------------------------------------------
(* The workspace (external) *)

\* A plugin is installed, built, broken or removed in a directory.
Change(e) ==
    /\ e.dir \notin changed /\ Cardinality(changed) < MaxChanges
    /\ disk' = [disk EXCEPT ![e.dir] = e.becomes]
    /\ changed' = changed \cup {e.dir}
    /\ current' = (InUse = {} /\ ~scanned /\ \A i \in Ids : cache[i] = None)
    /\ UNCHANGED <<cache, scanned, callerVars, crossed>>

Next ==
    \/ \E c \in Callers :
        \/ \E what \in Ids \cup {Listing} : Ask(c, what)
        \/ BeginRescan(c)
        \/ ReadManifest(c) \/ CacheManifest(c) \/ ReadDir(c) \/ ScanEnds(c)
        \/ Look(c) \/ Verify(c)
    \/ \E e \in Edits : Change(e)

Spec == Init /\ [][Next]_vars

-----------------------------------------------------------------------------
(* Properties *)

\* The plugin that tryLoadManifest() finds in a directory that is left alone.
Given(d) ==
    CASE disk[d].built \in Ids -> disk[d].built
      [] disk[d].built \notin Ids /\ disk[d].source \in Ids -> disk[d].source
      [] OTHER -> None

\* The order of a scan: a directory before what is in it.
Precedes(p, q) ==
    \/ p.base < q.base
    \/ p.base = q.base /\ p.sub < q.sub
    \/ p.base = q.base /\ p.sub = q.sub /\ p.package < q.package

\* Requests that join, precede or follow other scans find every plugin that was in
\* place all along, unless a rescan began beside another request.
PresentIsFound ==
    ~crossed => \A c \in Callers, p \in Places :
        /\ phase[c] \in {"verifying", "done"} /\ request[c] # Rescan
        /\ DirAt(p) \notin changed /\ Given(DirAt(p)) # None
        => Given(DirAt(p)) \in seen[c]

\* When the scans that walked the tree at once have all ended, the cache is that of
\* one scan: each id has the last directory that gives it, and no id is left over,
\* if none of them is older than the last change.
CacheMatchesDisk ==
    current /\ scanned /\ InUse = {} =>
        \A i \in Ids :
            LET giving == {p \in Places : Given(DirAt(p)) = i}
            IN  /\ giving = {} => cache[i] = None
                /\ \A p \in giving :
                      (\A q \in giving \ {p} : Precedes(q, p)) => cache[i] = DirAt(p)
=============================================================================
