------------------------- MODULE PluginResolver_proofs -------------------------
(***************************************************************************)
(* Proofs about PluginResolver, for any tree of directories, any plugins   *)
(* and any number of callers.                                              *)
(***************************************************************************)
EXTENDS PluginResolver, SequenceTheorems, TLAPS

USE DEF vars, callerVars, historyVars

-----------------------------------------------------------------------------
(* What a scan has still to do *)

\* The place p is above the place q.
Up(p, q) ==
    /\ p.base = q.base /\ p # q /\ p.package = 0
    /\ p.sub = 0 \/ p.sub = q.sub

\* The operation o tries the directory at q for a manifest, or leads to it.
Owes(o, q) == (o.at = q /\ o.op # "list") \/ Up(o.at, q)

Owed(ops, q) == \E o \in ToSet(ops) : Owes(o, q)

\* All that is at p or below it comes before q.
Apart(p, q) ==
    \/ p.base < q.base
    \/ p.base = q.base /\ 0 < p.sub /\ p.sub < q.sub
    \/ p.base = q.base /\ p.sub = q.sub /\ 0 < p.package /\ p.package < q.package

Sorted(ops) == \A i, j \in DOMAIN ops : i < j => Apart(ops[i].at, ops[j].at)

WalkOK(ops) ==
    /\ ops \in Seq(Op) /\ Sorted(ops)
    /\ \A o \in ToSet(ops) : o.op = "list" => o.at.package = 0

\* The place q is behind a scan that has still to do ops.
Passed(ops, q) ==
    \A o \in ToSet(ops) : Precedes(q, o.at) \/ (q = o.at /\ o.op = "list")

-----------------------------------------------------------------------------
(* The inductive invariants *)

\* Types; the operations of a scan are of its tree and in its order.
ScanOK(c) ==
    /\ work[c] # <<>> => phase[c] = "scanning"
    /\ found[c] # None => work[c] # <<>> /\ Head(work[c]).op # "list"
    /\ WalkOK(work[c])

VariablesOK ==
    /\ cache \in [Ids -> Dirs \cup {None}]
    /\ scanned \in BOOLEAN /\ crossed \in BOOLEAN /\ current \in BOOLEAN
    /\ phase \in [Callers -> {"new", "scanning", "looking", "verifying", "done"}]
    /\ request \in [Callers -> Ids \cup {None, Listing, Rescan}]
    /\ work \in [Callers -> Seq(Op)] /\ seen \in [Callers -> SUBSET Ids]
    /\ found \in [Callers -> Ids \cup {None}]
    /\ root \in [Callers -> Dirs \cup {None}]
    /\ disk \in [Dirs -> Manifests] /\ changed \subseteq Dirs

TypeInv == VariablesOK /\ \A c \in Callers : ScanOK(c)

\* A directory that did not change since a scan read it.
Known(d) == current \/ d \notin changed

\* What a scan remembers of a known directory is still so: the manifest that it has
\* read, and that there is none in dist.
ReadOK(c) ==
    /\ LET d == DirAt(Head(work[c]).at)
       IN  found[c] # None /\ Known(d) => found[c] = Given(d)
    /\ \A o \in ToSet(work[c]) :
          o.op = "source" /\ Known(DirAt(o.at)) => disk[DirAt(o.at)].built \notin Ids

ReadInv == \A c \in Callers : ReadOK(c)

\* A plugin that was at p all along.
Lasting(p) == DirAt(p) \notin changed /\ Given(DirAt(p)) # None

Cached(p) == cache[Given(DirAt(p))] # None

\* Every such plugin is in the cache as soon as a scan has ended, and a scan that has not
\* still owes what is not in the cache.
PresentInv ==
    ~crossed => \A p \in Places : Lasting(p) =>
        /\ scanned => Cached(p)
        /\ \A c \in Callers :
            /\ phase[c] = "scanning" => Cached(p) \/ Owed(work[c], p)
            /\ phase[c] = "looking" => Cached(p)
            /\ phase[c] \in {"verifying", "done"} /\ request[c] # Rescan =>
                  Given(DirAt(p)) \in seen[c]

\* The last place that gives the plugin i.
LastOf(p, i) ==
    /\ p \in Places /\ Given(DirAt(p)) = i
    /\ \A q \in Places \ {p} : Given(DirAt(q)) = i => Precedes(q, p)

\* No scan has passed over a directory with a plugin without caching it, and the last
\* directory of a plugin is the one in the cache or is ahead of some scan.
CacheInv ==
    current =>
        /\ \A i \in Ids : cache[i] # None => \E p \in Places : Given(DirAt(p)) = i
        /\ \A c \in Callers, p \in Places :
              Given(DirAt(p)) # None => Owed(work[c], p) \/ Passed(work[c], p)
        /\ \A i \in Ids, p \in Places : LastOf(p, i) =>
              \/ cache[i] = DirAt(p)
              \/ \E c \in Callers : Owed(work[c], p)
              \/ ~scanned /\ InUse = {}

-----------------------------------------------------------------------------
(* Places *)

LEMMA RootFacts ==
    ASSUME NEW b \in DOMAIN Bases
    PROVE  /\ b \in Nat \ {0} /\ Root(b) \in Roots /\ Root(b) \in Places
           /\ DirAt(Root(b)) = Bases[b] /\ Bases[b] \in Dirs
           /\ Listed(Root(b)) = Subdirs[Bases[b]] /\ Subdirs[Bases[b]] \in Seq(Dirs)
  BY PluginResolverAssumption DEF Root, Roots, Places, DirAt, Listed

LEMMA SubFacts ==
    ASSUME NEW b \in DOMAIN Bases, NEW s \in DOMAIN Subdirs[Bases[b]]
    PROVE  LET p == [base |-> b, sub |-> s, package |-> 0]
               d == Subdirs[Bases[b]][s]
           IN  /\ s \in Nat \ {0} /\ p = Entry(Root(b), s) /\ p \in Below(Roots) /\ p \in Places
               /\ DirAt(p) = d /\ d \in Dirs
               /\ Listed(p) = Packages[d] /\ Packages[d] \in Seq(Dirs)
  <1> DEFINE p == [base |-> b, sub |-> s, package |-> 0]
  <1>1. s \in Nat \ {0} /\ Subdirs[Bases[b]][s] \in Dirs
    BY RootFacts
  <1>2. p = Entry(Root(b), s)
    BY DEF Entry, Root
  <1>3. p \in Below(Roots)
    BY <1>2, RootFacts DEF Below
  <1>4. DirAt(p) = Subdirs[Bases[b]][s] /\ Listed(p) = Packages[Subdirs[Bases[b]][s]]
    BY <1>1 DEF DirAt, Listed
  <1> QED BY <1>1, <1>2, <1>3, <1>4, PluginResolverAssumption DEF Places

\* Where a place is, by what it is below.
LEMMA PlaceForms ==
    ASSUME NEW p \in Places
    PROVE  \E b \in DOMAIN Bases :
              \/ p = Root(b)
              \/ \E s \in DOMAIN Subdirs[Bases[b]] :
                    LET q == [base |-> b, sub |-> s, package |-> 0] IN
                    \/ p = q
                    \/ \E k \in DOMAIN Packages[Subdirs[Bases[b]][s]] : p = Entry(q, k)
  <1> DEFINE Sub(b, s) == [base |-> b, sub |-> s, package |-> 0]
  <1>1. \A q \in Roots : \E b \in DOMAIN Bases : q = Root(b)
    BY DEF Roots
  <1>2. \A q \in Below(Roots) : \E b \in DOMAIN Bases : \E s \in DOMAIN Subdirs[Bases[b]] : q = Sub(b, s)
    <2> SUFFICES ASSUME NEW q \in Below(Roots)
                 PROVE  \E b \in DOMAIN Bases : \E s \in DOMAIN Subdirs[Bases[b]] : q = Sub(b, s)
      OBVIOUS
    <2>0. PICK r \in Roots : \E s \in DOMAIN Listed(r) : q = Entry(r, s)
      BY DEF Below
    <2>1. PICK s \in DOMAIN Listed(r) : q = Entry(r, s)
      BY <2>0
    <2>2. PICK b \in DOMAIN Bases : r = Root(b)
      BY <1>1
    <2>3. s \in DOMAIN Subdirs[Bases[b]]
      BY <2>1, <2>2, RootFacts
    <2>4. q = Sub(b, s)
      BY <2>1, <2>2, <2>3, SubFacts
    <2> QED BY <2>3, <2>4
  <1>3. ASSUME p \in Below(Below(Roots))
        PROVE  \E b \in DOMAIN Bases : \E s \in DOMAIN Subdirs[Bases[b]] :
                  \E k \in DOMAIN Packages[Subdirs[Bases[b]][s]] : p = Entry(Sub(b, s), k)
    <2>0. PICK r \in Below(Roots) : \E k \in DOMAIN Listed(r) : p = Entry(r, k)
      BY <1>3 DEF Below
    <2>1. PICK k \in DOMAIN Listed(r) : p = Entry(r, k)
      BY <2>0
    <2>2. PICK b \in DOMAIN Bases : \E s \in DOMAIN Subdirs[Bases[b]] : r = Sub(b, s)
      BY <1>2
    <2>3. PICK s \in DOMAIN Subdirs[Bases[b]] : r = Sub(b, s)
      BY <2>2
    <2>4. k \in DOMAIN Packages[Subdirs[Bases[b]][s]]
      BY <2>1, <2>3, SubFacts
    <2> QED BY <2>1, <2>3, <2>4
  <1> QED BY <1>1, <1>2, <1>3 DEF Places

LEMMA PlaceFacts ==
    ASSUME NEW p \in Places
    PROVE  /\ p = [base |-> p.base, sub |-> p.sub, package |-> p.package]
           /\ p.base \in DOMAIN Bases /\ p.base \in Nat /\ p.sub \in Nat /\ p.package \in Nat
           /\ p.sub = 0 => p.package = 0 /\ p = Root(p.base)
           /\ p.sub # 0 => p.sub \in DOMAIN Subdirs[Bases[p.base]]
           /\ p.package # 0 => p.package \in DOMAIN Packages[Subdirs[Bases[p.base]][p.sub]]
           /\ DirAt(p) \in Dirs
  <1>1. PICK b \in DOMAIN Bases :
              \/ p = Root(b)
              \/ \E s \in DOMAIN Subdirs[Bases[b]] :
                    LET q == [base |-> b, sub |-> s, package |-> 0] IN
                    \/ p = q
                    \/ \E k \in DOMAIN Packages[Subdirs[Bases[b]][s]] : p = Entry(q, k)
    BY PlaceForms
  <1>2. CASE p = Root(b)
    BY <1>2, RootFacts DEF Root
  <1>3. ASSUME NEW s \in DOMAIN Subdirs[Bases[b]], p = [base |-> b, sub |-> s, package |-> 0]
        PROVE  /\ p.base = b /\ p.sub = s /\ p.package = 0 /\ s \in Nat \ {0} /\ b \in Nat
               /\ DirAt(p) \in Dirs
    BY <1>3, RootFacts, SubFacts
  <1>4. ASSUME NEW s \in DOMAIN Subdirs[Bases[b]], NEW k \in DOMAIN Packages[Subdirs[Bases[b]][s]],
               p = Entry([base |-> b, sub |-> s, package |-> 0], k)
        PROVE  /\ p = [base |-> b, sub |-> s, package |-> k]
               /\ s \in Nat \ {0} /\ b \in Nat /\ k \in Nat \ {0} /\ DirAt(p) \in Dirs
    <2>1. s \in Nat \ {0} /\ b \in Nat /\ Packages[Subdirs[Bases[b]][s]] \in Seq(Dirs)
      BY RootFacts, SubFacts
    <2>2. p = [base |-> b, sub |-> s, package |-> k]
      BY <1>4, <2>1 DEF Entry
    <2>3. k \in Nat \ {0} /\ Packages[Subdirs[Bases[b]][s]][k] \in Dirs
      BY <2>1
    <2> QED BY <2>1, <2>2, <2>3 DEF DirAt
  <1>5. CASE \E s \in DOMAIN Subdirs[Bases[b]] : p = [base |-> b, sub |-> s, package |-> 0]
    BY <1>3, <1>5
  <1>6. ASSUME NEW s \in DOMAIN Subdirs[Bases[b]],
               \E k \in DOMAIN Packages[Subdirs[Bases[b]][s]] :
                  p = Entry([base |-> b, sub |-> s, package |-> 0], k)
        PROVE  /\ p.base = b /\ p.sub = s /\ s \in Nat \ {0} /\ b \in Nat
               /\ p.package \in DOMAIN Packages[Subdirs[Bases[b]][s]] /\ p.package \in Nat \ {0}
               /\ p = [base |-> b, sub |-> s, package |-> p.package]
               /\ DirAt(p) \in Dirs
    <2>1. PICK k \in DOMAIN Packages[Subdirs[Bases[b]][s]] :
             p = Entry([base |-> b, sub |-> s, package |-> 0], k)
      BY <1>6
    <2>2. p = [base |-> b, sub |-> s, package |-> k]
      BY <1>4, <2>1
    <2> QED BY <1>4, <2>1, <2>2
  <1>7. CASE \E s \in DOMAIN Subdirs[Bases[b]] : \E k \in DOMAIN Packages[Subdirs[Bases[b]][s]] :
                p = Entry([base |-> b, sub |-> s, package |-> 0], k)
    BY <1>6, <1>7
  <1> QED BY <1>1, <1>2, <1>5, <1>7

\* What a listing of a directory that scanDir() searches may hold.
LEMMA EntryFacts ==
    ASSUME NEW p \in Places, p.package = 0, NEW k \in DOMAIN Listed(p)
    PROVE  /\ Listed(p) \in Seq(Dirs) /\ k \in Nat \ {0}
           /\ Entry(p, k) \in Places /\ DirAt(Entry(p, k)) = Listed(p)[k]
           /\ Entry(p, k).base = p.base
           /\ IF p.sub = 0 THEN Entry(p, k).sub = k /\ Entry(p, k).package = 0
                           ELSE Entry(p, k).sub = p.sub /\ Entry(p, k).package = k
  <1> DEFINE b == p.base
             s == p.sub
  <1>1. /\ b \in DOMAIN Bases /\ p = [base |-> b, sub |-> s, package |-> 0] /\ s \in Nat
        /\ s = 0 => p = Root(b)
        /\ s # 0 => s \in DOMAIN Subdirs[Bases[b]]
    BY PlaceFacts
  <1>2. CASE s = 0
    <2>1. Listed(p) = Subdirs[Bases[b]] /\ Listed(p) \in Seq(Dirs)
      BY <1>1, <1>2, RootFacts
    <2>2. Entry(p, k) = [base |-> b, sub |-> k, package |-> 0]
      BY <1>1, <1>2 DEF Entry
    <2> QED BY <1>1, <1>2, <2>1, <2>2, SubFacts
  <1>3. CASE s # 0
    <2>1. /\ Listed(p) = Packages[Subdirs[Bases[b]][s]] /\ Listed(p) \in Seq(Dirs) /\ p \in Below(Roots)
      BY <1>1, <1>3, SubFacts
    <2>2. Entry(p, k) = [base |-> b, sub |-> s, package |-> k] /\ k \in Nat \ {0}
      BY <1>1, <1>3, <2>1 DEF Entry
    <2>3. Entry(p, k) \in Places
      BY <2>1 DEF Below, Places
    <2>4. DirAt(Entry(p, k)) = Listed(p)[k]
      BY <1>3, <2>1, <2>2 DEF DirAt
    <2> QED BY <1>3, <2>1, <2>2, <2>3, <2>4
  <1> QED BY <1>2, <1>3

-----------------------------------------------------------------------------
(* Lists of operations *)

LEMMA HeadAndTail ==
    ASSUME NEW ops \in Seq(Op), ops # <<>>
    PROVE  /\ Head(ops) \in Op /\ Tail(ops) \in Seq(Op)
           /\ ToSet(ops) = {Head(ops)} \cup ToSet(Tail(ops))
           /\ Sorted(ops) => /\ Sorted(Tail(ops))
                             /\ \A o \in ToSet(Tail(ops)) : Apart(Head(ops).at, o.at)
  <1>1. /\ Head(ops) \in Op /\ Tail(ops) \in Seq(Op) /\ Len(Tail(ops)) = Len(ops) - 1
        /\ \A i \in 1..Len(Tail(ops)) : Tail(ops)[i] = ops[i + 1]
    BY HeadTailProperties
  <1>2. /\ Head(ops) = ops[1] /\ Len(ops) \in Nat \ {0} /\ DOMAIN ops = 1..Len(ops)
        /\ DOMAIN Tail(ops) = 1..Len(Tail(ops))
    BY <1>1
  <1>3. ASSUME NEW i \in DOMAIN ops PROVE ops[i] \in {Head(ops)} \cup ToSet(Tail(ops))
    <2>1. i = 1 \/ (i - 1 \in DOMAIN Tail(ops) /\ Tail(ops)[i - 1] = ops[i])
      BY <1>1, <1>2
    <2> QED BY <1>2, <2>1 DEF ToSet
  <1>4. ASSUME NEW i \in DOMAIN Tail(ops)
        PROVE  i \in Nat /\ i + 1 \in DOMAIN ops /\ 1 < i + 1 /\ Tail(ops)[i] = ops[i + 1]
    BY <1>1, <1>2
  <1>5. 1 \in DOMAIN ops
    BY <1>2
  <1>6. ASSUME Sorted(ops)
        PROVE  Sorted(Tail(ops)) /\ \A o \in ToSet(Tail(ops)) : Apart(Head(ops).at, o.at)
    <2>1. \A i \in DOMAIN Tail(ops) : Apart(ops[1].at, Tail(ops)[i].at)
      BY <1>4, <1>5, <1>6 DEF Sorted
    <2>2. ASSUME NEW i \in DOMAIN Tail(ops), NEW j \in DOMAIN Tail(ops), i < j
          PROVE  Apart(Tail(ops)[i].at, Tail(ops)[j].at)
      <3>1. i + 1 < j + 1
        BY <1>4, <2>2
      <3> QED BY <1>4, <1>6, <3>1 DEF Sorted
    <2> QED BY <1>2, <2>1, <2>2 DEF Sorted, ToSet
  <1>7. ToSet(ops) = {Head(ops)} \cup ToSet(Tail(ops))
    BY <1>2, <1>3, <1>4, <1>5 DEF ToSet
  <1> QED BY <1>1, <1>6, <1>7

LEMMA Concatenation ==
    ASSUME NEW s \in Seq(Op), NEW t \in Seq(Op)
    PROVE  /\ s \o t \in Seq(Op) /\ ToSet(s \o t) = ToSet(s) \cup ToSet(t)
           /\ (/\ Sorted(s) /\ Sorted(t)
               /\ \A o \in ToSet(s), q \in ToSet(t) : Apart(o.at, q.at)) => Sorted(s \o t)
  <1> DEFINE st == s \o t
             m == Len(s)
             n == Len(t)
  <1>1. st \in Seq(Op) /\ \A i \in 1..(m + n) : st[i] = IF i <= m THEN s[i] ELSE t[i - m]
    BY ConcatProperties
  <1>2. /\ m \in Nat /\ n \in Nat
        /\ DOMAIN s = 1..m /\ DOMAIN t = 1..n /\ DOMAIN st = 1..(m + n)
    BY <1>1
  <1> HIDE DEF st, m, n
  <1>3. ASSUME NEW i \in DOMAIN st
        PROVE  \/ i \in DOMAIN s /\ st[i] = s[i]
               \/ i \in Nat /\ i > m /\ i - m \in DOMAIN t /\ st[i] = t[i - m]
    BY <1>1, <1>2
  <1>4. ASSUME NEW i \in DOMAIN s PROVE st[i] = s[i] /\ i \in DOMAIN st
    BY <1>1, <1>2
  <1>5. ASSUME NEW i \in DOMAIN t PROVE st[i + m] = t[i] /\ i + m \in DOMAIN st
    BY <1>1, <1>2
  <1>6. ToSet(st) = ToSet(s) \cup ToSet(t)
    BY <1>3, <1>4, <1>5 DEF ToSet
  <1>7. ASSUME Sorted(s), Sorted(t), \A o \in ToSet(s), q \in ToSet(t) : Apart(o.at, q.at),
               NEW i \in DOMAIN st, NEW j \in DOMAIN st, i < j
        PROVE  Apart(st[i].at, st[j].at)
    <2>1. CASE i \in DOMAIN s /\ st[i] = s[i] /\ j \in DOMAIN s /\ st[j] = s[j]
      BY <1>7, <2>1 DEF Sorted
    <2>2. CASE i \in DOMAIN s /\ st[i] = s[i] /\ j - m \in DOMAIN t /\ st[j] = t[j - m]
      BY <1>7, <2>2 DEF ToSet
    <2>3. CASE /\ i - m \in DOMAIN t /\ st[i] = t[i - m] /\ i \in Nat
               /\ j - m \in DOMAIN t /\ st[j] = t[j - m] /\ j \in Nat
      <3>1. i - m < j - m
        BY <1>2, <1>7, <2>3
      <3> QED BY <1>7, <2>3, <3>1 DEF Sorted
    <2>4. ~(i > m /\ j \in DOMAIN s)
      BY <1>2, <1>7
    <2> QED BY <1>3, <2>1, <2>2, <2>3, <2>4
  <1> QED BY <1>1, <1>6, <1>7 DEF st, Sorted

\* The next operation on the directory at hand takes the place of the last.
LEMMA BecomesFacts ==
    ASSUME NEW ops, WalkOK(ops), ops # <<>>, NEW op \in {"source", "list"},
           op = "list" => Head(ops).at.package = 0
    PROVE  /\ WalkOK(Becomes(ops, op))
           /\ ToSet(Becomes(ops, op)) = {[op |-> op, at |-> Head(ops).at]} \cup ToSet(Tail(ops))
           /\ Becomes(ops, op) # <<>>
  <1> DEFINE o == [op |-> op, at |-> Head(ops).at]
  <1>1. /\ ops \in Seq(Op) /\ Head(ops) \in Op /\ Tail(ops) \in Seq(Op) /\ Sorted(Tail(ops))
        /\ ToSet(ops) = {Head(ops)} \cup ToSet(Tail(ops))
        /\ \A q \in ToSet(Tail(ops)) : Apart(Head(ops).at, q.at)
    BY HeadAndTail DEF WalkOK
  <1>2. o = [Head(ops) EXCEPT !.op = op] /\ o \in Op /\ o.at = Head(ops).at
    BY <1>1 DEF Op
  <1> HIDE DEF o
  <1>3. <<o>> \in Seq(Op) /\ ToSet(<<o>>) = {o} /\ Sorted(<<o>>)
    BY <1>2 DEF ToSet, Sorted
  <1>4. Becomes(ops, op) = <<o>> \o Tail(ops)
    BY <1>2 DEF Becomes
  <1>5. /\ <<o>> \o Tail(ops) \in Seq(Op) /\ ToSet(<<o>> \o Tail(ops)) = {o} \cup ToSet(Tail(ops))
        /\ Sorted(<<o>> \o Tail(ops))
    BY <1>1, <1>2, <1>3, Concatenation
  <1>6. o.op = op /\ o \in ToSet(<<o>> \o Tail(ops))
    BY <1>5 DEF o
  <1>7. <<o>> \o Tail(ops) # <<>>
    BY <1>6 DEF ToSet
  <1> QED BY <1>1, <1>2, <1>4, <1>5, <1>6, <1>7 DEF WalkOK, o

-----------------------------------------------------------------------------
(* One operation of a scan *)

\* What comes apart is passed in order.
LEMMA ApartPrecedes ==
    ASSUME NEW p \in Places, NEW q \in Places, Apart(p, q)
    PROVE  Precedes(p, q)
  BY PlaceFacts DEF Apart, Precedes

LEMMA NotBoth ==
    ASSUME NEW p \in Places, NEW q \in Places, Precedes(p, q)
    PROVE  p # q /\ ~Precedes(q, p)
  BY PlaceFacts DEF Precedes

LEMMA WalkPlaces ==
    ASSUME NEW ops, WalkOK(ops), NEW o \in ToSet(ops)
    PROVE  o \in Op /\ o.at \in Places /\ o.op \in {"built", "source", "list"}
  <1>1. o \in Op
    BY DEF WalkOK, ToSet
  <1> QED BY <1>1 DEF Op

\* tryLoadManifest() returns: only its own place is no longer owed, and that is passed.
LEMMA LoadedFacts ==
    ASSUME NEW ops, WalkOK(ops), ops # <<>>, Head(ops).op # "list"
    PROVE  /\ WalkOK(Loaded(ops))
           /\ \A o \in ToSet(Loaded(ops)) : o.op = "source" => o \in ToSet(ops)
           /\ \A q \in Places : q # Head(ops).at /\ Owed(ops, q) => Owed(Loaded(ops), q)
           /\ \A q \in Places : q = Head(ops).at \/ Passed(ops, q) => Passed(Loaded(ops), q)
  <1> DEFINE p == Head(ops).at
  <1>1. /\ Head(ops) \in Op /\ p \in Places /\ Tail(ops) \in Seq(Op) /\ Sorted(Tail(ops))
        /\ ToSet(ops) = {Head(ops)} \cup ToSet(Tail(ops))
        /\ \A o \in ToSet(Tail(ops)) : Apart(p, o.at)
    BY HeadAndTail DEF WalkOK, Op
  <1>2. \A o \in ToSet(Tail(ops)) : Precedes(p, o.at)
    BY <1>1, WalkPlaces, ApartPrecedes
  <1>3. CASE p.package = 0
    <2> DEFINE l == [op |-> "list", at |-> p]
    <2>1. Loaded(ops) = Becomes(ops, "list")
      BY <1>3 DEF Loaded
    <2>2. WalkOK(Loaded(ops)) /\ ToSet(Loaded(ops)) = {l} \cup ToSet(Tail(ops))
      BY <1>3, <2>1, BecomesFacts
    <2>3. ASSUME NEW q \in Places, q # p, Owed(ops, q) PROVE Owed(Loaded(ops), q)
      BY <1>1, <2>2, <2>3 DEF Owed, Owes
    <2>4. ASSUME NEW q \in Places, q = p \/ Passed(ops, q) PROVE Passed(Loaded(ops), q)
      BY <1>1, <1>2, <2>2, <2>4 DEF Passed
    <2> QED BY <1>1, <2>2, <2>3, <2>4
  <1>4. CASE p.package # 0
    <2>1. Loaded(ops) = Tail(ops)
      BY <1>4 DEF Loaded
    <2>2. WalkOK(Loaded(ops))
      BY <1>1, <2>1 DEF WalkOK
    <2>3. ASSUME NEW q \in Places, q # p, Owed(ops, q) PROVE Owed(Loaded(ops), q)
      BY <1>1, <1>4, <2>1, <2>3 DEF Owed, Owes, Up
    <2>4. ASSUME NEW q \in Places, q = p \/ Passed(ops, q) PROVE Passed(Loaded(ops), q)
      BY <1>1, <1>2, <2>1, <2>4 DEF Passed
    <2> QED BY <1>1, <2>1, <2>2, <2>3, <2>4
  <1> QED BY <1>3, <1>4

\* A directory is no longer owed when neither of its files was a manifest.
LEMMA NoManifestFacts ==
    ASSUME NEW ops, WalkOK(ops), ops # <<>>, Head(ops).op # "list"
    PROVE  /\ WalkOK(NoManifest(ops))
           /\ \A o \in ToSet(NoManifest(ops)) : o.op = "source" =>
                 o \in ToSet(ops) \/ (Head(ops).op = "built" /\ o.at = Head(ops).at)
           /\ \A q \in Places :
                 Owed(ops, q) /\ (Head(ops).op = "source" => q # Head(ops).at)
                 => Owed(NoManifest(ops), q)
           /\ \A q \in Places :
                 Passed(ops, q) \/ (Head(ops).op = "source" /\ q = Head(ops).at)
                 => Passed(NoManifest(ops), q)
  <1> DEFINE p == Head(ops).at
  <1>1. CASE Head(ops).op = "built"
    <2> DEFINE l == [op |-> "source", at |-> p]
    <2>1. NoManifest(ops) = Becomes(ops, "source")
      BY <1>1 DEF NoManifest
    <2>2. WalkOK(NoManifest(ops)) /\ ToSet(NoManifest(ops)) = {l} \cup ToSet(Tail(ops))
      BY <2>1, BecomesFacts
    <2>3. ToSet(ops) = {Head(ops)} \cup ToSet(Tail(ops))
      BY HeadAndTail DEF WalkOK
    <2>4. ASSUME NEW q \in Places, Owed(ops, q) PROVE Owed(NoManifest(ops), q)
      BY <2>2, <2>3, <2>4 DEF Owed, Owes
    <2>5. ASSUME NEW q \in Places, Passed(ops, q) PROVE Passed(NoManifest(ops), q)
      BY <1>1, <2>2, <2>3, <2>5 DEF Passed
    <2> QED BY <1>1, <2>2, <2>3, <2>4, <2>5
  <1>2. CASE Head(ops).op # "built"
    <2>1. NoManifest(ops) = Loaded(ops)
      BY <1>2 DEF NoManifest
    <2>2. Head(ops).op = "source"
      BY <1>2, HeadAndTail DEF WalkOK, Op
    <2> QED BY <2>1, <2>2, LoadedFacts
  <1> QED BY <1>1, <1>2

\* A directory with a plugin, or above one, is listed.
LEMMA GivenIsListed ==
    ASSUME VariablesOK, NEW p \in Places, p.package = 0, NEW q \in Places, Up(p, q),
           Given(DirAt(q)) # None
    PROVE  \E k \in DOMAIN Listed(p) :
              Standing(Listed(p)[k]) /\ (Entry(p, k) = q \/ Up(Entry(p, k), q))
  <1>1. /\ disk[DirAt(q)] # [built |-> None, source |-> None]
        /\ q.base = p.base /\ p.base \in DOMAIN Bases /\ p.sub \in Nat /\ q.sub \in Nat
        /\ p = [base |-> p.base, sub |-> p.sub, package |-> 0]
        /\ q = [base |-> p.base, sub |-> q.sub, package |-> q.package]
        /\ q.package \in Nat
    BY PlaceFacts, PluginResolverAssumption DEF Given, Up
  <1>2. CASE p.sub = 0
    <2>1. q.sub # 0
      BY <1>1, <1>2, PlaceFacts DEF Up
    <2>2. q.sub \in DOMAIN Listed(p) /\ Listed(p) = Subdirs[Bases[p.base]]
      BY <1>1, <1>2, <2>1, PlaceFacts, RootFacts
    <2>3. /\ Entry(p, q.sub) = [base |-> p.base, sub |-> q.sub, package |-> 0]
          /\ Listed(p)[q.sub] \in Dirs /\ Packages[Listed(p)[q.sub]] \in Seq(Dirs)
      BY <1>1, <2>2, SubFacts, <1>2 DEF Entry
    <2>4. Entry(p, q.sub) = q \/ Up(Entry(p, q.sub), q)
      BY <1>1, <2>3 DEF Up
    <2>5. DirAt(q) \in {Listed(p)[q.sub]} \cup ToSet(Packages[Listed(p)[q.sub]])
      <3>1. CASE q.package = 0
        BY <1>1, <2>1, <2>2, <3>1 DEF DirAt
      <3>2. CASE q.package # 0
        <4>1. q.package \in DOMAIN Packages[Listed(p)[q.sub]]
          BY <1>1, <2>2, <3>2, PlaceFacts
        <4>2. DirAt(q) = Packages[Listed(p)[q.sub]][q.package]
          BY <1>1, <2>1, <2>2, <3>2 DEF DirAt
        <4> QED BY <4>1, <4>2 DEF ToSet
      <3> QED BY <3>1, <3>2
    <2>6. Standing(Listed(p)[q.sub])
      BY <1>1, <2>5 DEF Standing
    <2> QED BY <2>2, <2>4, <2>6
  <1>3. CASE p.sub # 0
    <2>1. q.sub = p.sub /\ q.package # 0
      BY <1>1, <1>3 DEF Up
    <2>2. /\ p.sub \in DOMAIN Subdirs[Bases[p.base]]
          /\ q.package \in DOMAIN Packages[Subdirs[Bases[p.base]][p.sub]]
      BY <1>1, <1>3, <2>1, PlaceFacts
    <2>3. Listed(p) = Packages[Subdirs[Bases[p.base]][p.sub]]
      BY <1>1, <2>2, SubFacts
    <2>4. Entry(p, q.package) = q
      BY <1>1, <1>3, <2>1 DEF Entry
    <2>5. DirAt(q) = Listed(p)[q.package]
      BY <1>1, <1>3, <2>1, <2>3 DEF DirAt
    <2>6. Standing(Listed(p)[q.package])
      BY <1>1, <2>5 DEF Standing
    <2> QED BY <2>2, <2>3, <2>4, <2>6
  <1> QED BY <1>2, <1>3

\* readdir() returns: every plugin below is ahead, in the order of the names.
LEMMA ListingFacts ==
    ASSUME VariablesOK, NEW ops, WalkOK(ops), ops # <<>>, Head(ops).op = "list",
           NEW names \in Listings(Head(ops).at)
    PROVE  LET new == [i \in DOMAIN names |-> Load(Entry(Head(ops).at, names[i]))] \o Tail(ops)
           IN  /\ WalkOK(new)
               /\ \A o \in ToSet(new) : o.op = "source" => o \in ToSet(ops)
               /\ \A q \in Places : Given(DirAt(q)) # None /\ Owed(ops, q) => Owed(new, q)
               /\ \A q \in Places : Passed(ops, q) => Passed(new, q)
  <1> DEFINE p == Head(ops).at
             loads == [i \in DOMAIN names |-> Load(Entry(p, names[i]))]
             new == loads \o Tail(ops)
  <1>1. /\ Head(ops) \in Op /\ p \in Places /\ Tail(ops) \in Seq(Op) /\ Sorted(Tail(ops))
        /\ ToSet(ops) = {Head(ops)} \cup ToSet(Tail(ops)) /\ Head(ops) \in ToSet(ops)
        /\ \A o \in ToSet(Tail(ops)) : Apart(p, o.at)
    BY HeadAndTail DEF WalkOK, Op
  <1>2. p.package = 0
    BY <1>1 DEF WalkOK
  <1>3. PICK n \in Nat : names \in [1..n -> DOMAIN Listed(p)]
    <2>1. Listed(p) \in Seq(Dirs)
      <3>1. CASE p.sub = 0
        BY <1>1, <1>2, <3>1, PlaceFacts, RootFacts
      <3>2. CASE p.sub # 0
        BY <1>1, <1>2, <3>2, PlaceFacts, SubFacts
      <3> QED BY <3>1, <3>2
    <2>2. names \in SeqOf(DOMAIN Listed(p), Len(Listed(p)))
      BY DEF Listings
    <2> QED BY <2>1, <2>2 DEF SeqOf
  <1>4. /\ \A i, j \in DOMAIN names : i < j => names[i] < names[j]
        /\ \A k \in DOMAIN Listed(p) : Standing(Listed(p)[k]) => k \in ToSet(names)
    BY DEF Listings
  <1>5. ASSUME NEW i \in DOMAIN names
        PROVE  /\ names[i] \in DOMAIN Listed(p) /\ names[i] \in Nat \ {0}
               /\ Entry(p, names[i]) \in Places
               /\ Entry(p, names[i]).base = p.base
               /\ IF p.sub = 0
                  THEN Entry(p, names[i]).sub = names[i] /\ Entry(p, names[i]).package = 0
                  ELSE Entry(p, names[i]).sub = p.sub /\ Entry(p, names[i]).package = names[i]
    BY <1>1, <1>2, <1>3, EntryFacts
  <1>6. \A i \in DOMAIN names : loads[i] \in Op /\ loads[i].at = Entry(p, names[i]) /\ loads[i].op = "built"
    BY <1>5 DEF Load, Op
  <1>7. loads \in Seq(Op) /\ DOMAIN loads = DOMAIN names
    BY <1>3, <1>6
  <1> HIDE DEF loads
  <1>8. ASSUME NEW i \in DOMAIN names, NEW j \in DOMAIN names, i < j
        PROVE  Apart(Entry(p, names[i]), Entry(p, names[j]))
    <2>1. names[i] < names[j]
      BY <1>4, <1>8
    <2> QED BY <1>5, <2>1 DEF Apart
  <1>9. Sorted(loads)
    BY <1>6, <1>7, <1>8 DEF Sorted
  <1>10. ASSUME NEW i \in DOMAIN names, NEW o \in ToSet(Tail(ops))
         PROVE  Apart(Entry(p, names[i]), o.at)
    <2>1. o \in ToSet(ops)
      BY <1>1
    <2>2. o.at \in Places /\ Apart(p, o.at)
      BY <1>1, <2>1, WalkPlaces
    <2>3. \/ p.base < o.at.base
          \/ p.base = o.at.base /\ 0 < p.sub /\ p.sub < o.at.sub
      BY <1>2, <2>2 DEF Apart
    <2> QED BY <1>1, <1>5, <2>2, <2>3, PlaceFacts DEF Apart
  <1>11. ToSet(loads) = {loads[i] : i \in DOMAIN names}
    BY <1>7 DEF ToSet
  <1>12. new \in Seq(Op) /\ ToSet(new) = ToSet(loads) \cup ToSet(Tail(ops)) /\ Sorted(new)
    <2>1. \A o \in ToSet(loads), q \in ToSet(Tail(ops)) : Apart(o.at, q.at)
      BY <1>6, <1>10, <1>11
    <2> HIDE DEF new
    <2>2. new = loads \o Tail(ops)
      BY DEF new
    <2> QED BY <1>1, <1>7, <1>9, <2>1, <2>2, Concatenation
  <1> HIDE DEF new
  <1>13. WalkOK(new)
    BY <1>1, <1>6, <1>11, <1>12 DEF WalkOK
  <1>14. \A o \in ToSet(new) : o.op = "source" => o \in ToSet(ops)
    BY <1>1, <1>6, <1>11, <1>12
  <1>15. ASSUME NEW q \in Places, Given(DirAt(q)) # None, Owed(ops, q) PROVE Owed(new, q)
    <2>1. CASE Up(p, q)
      <3>1. PICK k \in DOMAIN Listed(p) :
                Standing(Listed(p)[k]) /\ (Entry(p, k) = q \/ Up(Entry(p, k), q))
        BY <1>1, <1>2, <1>15, <2>1, GivenIsListed
      <3>2. PICK i \in DOMAIN names : names[i] = k
        BY <1>4, <3>1 DEF ToSet
      <3>3. loads[i] \in ToSet(new) /\ Owes(loads[i], q)
        BY <1>6, <1>11, <1>12, <3>1, <3>2 DEF Owes
      <3> QED BY <3>3 DEF Owed
    <2>2. CASE \E o \in ToSet(Tail(ops)) : Owes(o, q)
      BY <1>12, <2>2 DEF Owed
    <2> QED BY <1>1, <1>15, <2>1, <2>2 DEF Owed, Owes
  <1>16. ASSUME NEW q \in Places, Passed(ops, q) PROVE Passed(new, q)
    <2>1. Precedes(q, p) \/ q = p
      BY <1>1, <1>16 DEF Passed
    <2>2. ASSUME NEW i \in DOMAIN names PROVE Precedes(q, Entry(p, names[i]))
      BY <1>1, <1>2, <1>5, <2>1, PlaceFacts DEF Precedes
    <2> QED BY <1>1, <1>6, <1>11, <1>12, <1>16, <2>2 DEF Passed
  <1> QED BY <1>13, <1>14, <1>15, <1>16 DEF new, loads

\* A scan begins with all of the tree ahead.
LEMMA ScanFacts ==
    /\ WalkOK(Scan) /\ \A o \in ToSet(Scan) : o.op = "built"
    /\ \A q \in Places : Owed(Scan, q)
  <1>1. \A b \in DOMAIN Bases : Scan[b] = Load(Root(b)) /\ Scan[b] \in Op
    BY RootFacts DEF Scan, Load, Op
  <1>2. DOMAIN Scan = DOMAIN Bases /\ Scan \in Seq(Op)
    <2>1. Len(Bases) \in Nat /\ DOMAIN Bases = 1..Len(Bases)
      BY PluginResolverAssumption
    <2>2. DOMAIN Scan = DOMAIN Bases /\ Scan \in [DOMAIN Bases -> Op]
      BY <1>1 DEF Scan
    <2> HIDE DEF Op
    <2> QED BY <2>1, <2>2
  <1>3. Sorted(Scan)
    BY <1>1, <1>2 DEF Sorted, Load, Root, Apart
  <1>4. \A o \in ToSet(Scan) : o.op = "built"
    BY <1>1, <1>2 DEF ToSet, Load
  <1>5. ASSUME NEW q \in Places PROVE Owed(Scan, q)
    <2>1. q.base \in DOMAIN Bases
      BY PlaceFacts
    <2>2. q = Root(q.base) \/ Up(Root(q.base), q)
      BY PlaceFacts DEF Up, Root
    <2>3. Load(Root(q.base)) \in ToSet(Scan) /\ Owes(Load(Root(q.base)), q)
      BY <1>1, <1>2, <2>1, <2>2 DEF ToSet, Load, Owes
    <2> QED BY <2>3 DEF Owed
  <1> QED BY <1>2, <1>3, <1>4, <1>5 DEF WalkOK

LEMMA EmptyWalk ==
    WalkOK(<<>>) /\ \A q : ~Owed(<<>>, q) /\ Passed(<<>>, q)
  BY DEF WalkOK, Sorted, ToSet, Owed, Passed

-----------------------------------------------------------------------------
(* Types *)

\* A caller whose scan does its next operation has one to do.
LEMMA Working ==
    ASSUME TypeInv, NEW c \in Callers, work[c] # <<>>
    PROVE  /\ phase[c] = "scanning" /\ c \in InUse
           /\ WalkOK(work[c]) /\ Head(work[c]) \in ToSet(work[c])
           /\ Head(work[c]) \in Op /\ Head(work[c]).at \in Places
           /\ DirAt(Head(work[c]).at) \in Dirs
  <1>1. phase[c] = "scanning" /\ WalkOK(work[c])
    BY DEF TypeInv, ScanOK
  <1>2. Head(work[c]) \in ToSet(work[c])
    BY <1>1, HeadAndTail DEF WalkOK
  <1> QED BY <1>1, <1>2, WalkPlaces, PlaceFacts DEF InUse

\* A caller that does not scan has nothing to do.
LEMMA Idle ==
    ASSUME TypeInv, NEW c \in Callers, phase[c] # "scanning"
    PROVE  work[c] = <<>> /\ found[c] = None
  BY DEF TypeInv, ScanOK

LEMMA LookUpTypes ==
    ASSUME TypeInv, NEW c \in Callers, NEW what, LookUp(c, what)
    PROVE  /\ seen' \in [Callers -> SUBSET Ids] /\ root' \in [Callers -> Dirs \cup {None}]
           /\ phase' \in [Callers -> {"new", "scanning", "looking", "verifying", "done"}]
           /\ \A d \in Callers : phase'[d] = IF d = c THEN phase'[c] ELSE phase[d]
           /\ phase'[c] \in {"verifying", "done"}
           /\ seen'[c] = {i \in Ids : cache[i] # None}
           /\ \A d \in Callers \ {c} : seen'[d] = seen[d]
  <1>1. seen' = [seen EXCEPT ![c] = {i \in Ids : cache[i] # None}]
    BY DEF LookUp
  <1>2. CASE /\ what \in Ids /\ cache[what] # None
             /\ root' = [root EXCEPT ![c] = cache[what]]
             /\ phase' = [phase EXCEPT ![c] = "verifying"]
    BY <1>1, <1>2 DEF TypeInv, VariablesOK
  <1>3. CASE phase' = [phase EXCEPT ![c] = "done"] /\ root' = root
    BY <1>1, <1>3 DEF TypeInv, VariablesOK
  <1> QED BY <1>2, <1>3 DEF LookUp

LEMMA TypeStep ==
    TypeInv /\ [Next]_vars => TypeInv'
  <1> SUFFICES ASSUME TypeInv, [Next]_vars PROVE TypeInv'
    OBVIOUS
  <1>1. ASSUME NEW c \in Callers, NEW what \in Ids \cup {Listing}, Ask(c, what) PROVE TypeInv'
    <2>1. phase[c] = "new" /\ work[c] = <<>> /\ found[c] = None
      BY <1>1, Idle DEF Ask
    <2>2. request' \in [Callers -> Ids \cup {None, Listing, Rescan}]
      BY <1>1 DEF Ask, TypeInv, VariablesOK
    <2>3. CASE scanned
      <3>1. LookUp(c, what) /\ work' = work
        BY <1>1, <2>3 DEF Ask
      <3>2. VariablesOK'
        BY <1>1, <2>2, <3>1, LookUpTypes DEF Ask, TypeInv, VariablesOK
      <3>3. ASSUME NEW d \in Callers PROVE ScanOK(d)'
        BY <1>1, <2>1, <3>1, LookUpTypes DEF Ask, TypeInv, ScanOK
      <3> QED BY <3>2, <3>3 DEF TypeInv
    <2>4. CASE ~scanned
      <3>1. phase' = [phase EXCEPT ![c] = "scanning"] /\ work' = [work EXCEPT ![c] = Scan]
        BY <1>1, <2>4 DEF Ask
      <3>2. Scan \in Seq(Op)
        BY ScanFacts DEF WalkOK
      <3>3. VariablesOK'
        BY <1>1, <2>2, <2>4, <3>1, <3>2 DEF Ask, TypeInv, VariablesOK
      <3>4. ASSUME NEW d \in Callers PROVE ScanOK(d)'
        BY <1>1, <2>1, <3>1, ScanFacts DEF Ask, TypeInv, VariablesOK, ScanOK
      <3> QED BY <3>3, <3>4 DEF TypeInv
    <2> QED BY <2>3, <2>4
  <1>2. ASSUME NEW c \in Callers, BeginRescan(c) PROVE TypeInv'
    <2>1. phase[c] = "new" /\ work[c] = <<>> /\ found[c] = None
      BY <1>2, Idle DEF BeginRescan
    <2>2. Scan \in Seq(Op)
      BY ScanFacts DEF WalkOK
    <2>3. VariablesOK'
      BY <1>2, <2>2 DEF BeginRescan, TypeInv, VariablesOK
    <2>4. ASSUME NEW d \in Callers PROVE ScanOK(d)'
      BY <1>2, <2>1, ScanFacts DEF BeginRescan, TypeInv, VariablesOK, ScanOK
    <2> QED BY <2>3, <2>4 DEF TypeInv
  <1>3. ASSUME NEW c \in Callers, ReadManifest(c) PROVE TypeInv'
    <2>1. work[c] # <<>> /\ found[c] = None /\ Head(work[c]).op # "list"
      BY <1>3 DEF ReadManifest
    <2>2. CASE /\ Manifest(Head(work[c])) \in Ids
               /\ found' = [found EXCEPT ![c] = Manifest(Head(work[c]))] /\ work' = work
      <3>1. VariablesOK'
        BY <1>3, <2>2 DEF ReadManifest, TypeInv, VariablesOK
      <3>2. ASSUME NEW d \in Callers PROVE ScanOK(d)'
        BY <1>3, <2>1, <2>2 DEF ReadManifest, TypeInv, VariablesOK, ScanOK
      <3> QED BY <3>1, <3>2 DEF TypeInv
    <2>3. CASE work' = [work EXCEPT ![c] = NoManifest(@)] /\ found' = found
      <3>1. WalkOK(NoManifest(work[c])) /\ phase[c] = "scanning"
        BY <2>1, Working, NoManifestFacts
      <3>2. NoManifest(work[c]) \in Seq(Op)
        BY <3>1 DEF WalkOK
      <3>3. VariablesOK'
        BY <1>3, <2>3, <3>2 DEF ReadManifest, TypeInv, VariablesOK
      <3>4. ASSUME NEW d \in Callers PROVE ScanOK(d)'
        BY <1>3, <2>1, <2>3, <3>1 DEF ReadManifest, TypeInv, VariablesOK, ScanOK
      <3> QED BY <3>3, <3>4 DEF TypeInv
    <2> QED BY <1>3, <2>2, <2>3 DEF ReadManifest
  <1>4. ASSUME NEW c \in Callers, CacheManifest(c) PROVE TypeInv'
    <2>1. work[c] # <<>> /\ found[c] \in Ids /\ Head(work[c]).op # "list"
      BY <1>4 DEF CacheManifest, TypeInv, VariablesOK, ScanOK
    <2>2. WalkOK(Loaded(work[c])) /\ phase[c] = "scanning" /\ DirAt(Head(work[c]).at) \in Dirs
      BY <2>1, Working, LoadedFacts
    <2>3. Loaded(work[c]) \in Seq(Op)
      BY <2>2 DEF WalkOK
    <2>4. VariablesOK'
      BY <1>4, <2>1, <2>2, <2>3 DEF CacheManifest, TypeInv, VariablesOK
    <2>5. ASSUME NEW d \in Callers PROVE ScanOK(d)'
      BY <1>4, <2>2 DEF CacheManifest, TypeInv, VariablesOK, ScanOK
    <2> QED BY <2>4, <2>5 DEF TypeInv
  <1>5. ASSUME NEW c \in Callers, ReadDir(c) PROVE TypeInv'
    <2>1. work[c] # <<>> /\ found[c] = None /\ Head(work[c]).op = "list"
      BY <1>5 DEF ReadDir, TypeInv, ScanOK
    <2>2. PICK new : work' = [work EXCEPT ![c] = new] /\ WalkOK(new)
      BY <1>5, <2>1, Working, ListingFacts DEF ReadDir, TypeInv
    <2>3. new \in Seq(Op) /\ phase[c] = "scanning"
      BY <2>1, <2>2, Working DEF WalkOK
    <2>4. VariablesOK'
      BY <1>5, <2>2, <2>3 DEF ReadDir, TypeInv, VariablesOK
    <2>5. ASSUME NEW d \in Callers PROVE ScanOK(d)'
      BY <1>5, <2>1, <2>2, <2>3 DEF ReadDir, TypeInv, VariablesOK, ScanOK
    <2> QED BY <2>4, <2>5 DEF TypeInv
  <1>6. ASSUME NEW c \in Callers, ScanEnds(c) PROVE TypeInv'
    <2>1. VariablesOK'
      BY <1>6 DEF ScanEnds, TypeInv, VariablesOK
    <2>2. ASSUME NEW d \in Callers PROVE ScanOK(d)'
      BY <1>6 DEF ScanEnds, TypeInv, VariablesOK, ScanOK
    <2> QED BY <2>1, <2>2 DEF TypeInv
  <1>7. ASSUME NEW c \in Callers, Look(c) PROVE TypeInv'
    <2>1. LookUp(c, request[c]) /\ work[c] = <<>>
      BY <1>7, Idle DEF Look
    <2>2. VariablesOK'
      BY <1>7, <2>1, LookUpTypes DEF Look, TypeInv, VariablesOK
    <2>3. ASSUME NEW d \in Callers PROVE ScanOK(d)'
      BY <1>7, <2>1, LookUpTypes DEF Look, TypeInv, ScanOK
    <2> QED BY <2>2, <2>3 DEF TypeInv
  <1>8. ASSUME NEW c \in Callers, Verify(c) PROVE TypeInv'
    <2>1. work[c] = <<>>
      BY <1>8, Idle DEF Verify
    <2>2. VariablesOK'
      BY <1>8 DEF Verify, TypeInv, VariablesOK
    <2>3. ASSUME NEW d \in Callers PROVE ScanOK(d)'
      BY <1>8, <2>1 DEF Verify, TypeInv, VariablesOK, ScanOK
    <2> QED BY <2>2, <2>3 DEF TypeInv
  <1>9. ASSUME NEW e \in Edits, Change(e) PROVE TypeInv'
    <2>1. e.dir \in Dirs /\ e.becomes \in Manifests
      BY PluginResolverAssumption
    <2>2. VariablesOK'
      BY <1>9, <2>1 DEF Change, TypeInv, VariablesOK
    <2>3. ASSUME NEW d \in Callers PROVE ScanOK(d)'
      BY <1>9 DEF Change, TypeInv, ScanOK
    <2> QED BY <2>2, <2>3 DEF TypeInv
  <1>10. CASE UNCHANGED vars
    BY <1>10 DEF TypeInv, VariablesOK, ScanOK
  <1> QED BY <1>1, <1>2, <1>3, <1>4, <1>5, <1>6, <1>7, <1>8, <1>9, <1>10 DEF Next

LEMMA TypeInit ==
    Init => TypeInv
  <1> SUFFICES ASSUME Init PROVE TypeInv
    OBVIOUS
  <1>1. VariablesOK
    <2>1. <<>> \in Seq(Op) /\ disk \in [Dirs -> Manifests]
      BY PluginResolverAssumption DEF Init
    <2> QED BY <2>1 DEF Init, VariablesOK
  <1>2. \A c \in Callers : ScanOK(c)
    BY EmptyWalk DEF Init, ScanOK
  <1> QED BY <1>1, <1>2 DEF TypeInv

LEMMA AlwaysTyped ==
    Spec => []TypeInv
  BY TypeInit, TypeStep, PTL DEF Spec

\* However many requests scan at once, local-plugin-resolver.ts caches a root only under
\* the id of a plugin, and a scan that has ended has nothing left to read.
THEOREM TypeCorrect ==
    Spec => []TypeOK
  <1>1. TypeInv => TypeOK
    BY DEF TypeInv, VariablesOK, ScanOK, TypeOK
  <1> QED BY AlwaysTyped, <1>1, PTL

-----------------------------------------------------------------------------
(* What a scan has read *)

LEMMA GivenFacts ==
    ASSUME TypeInv, NEW d \in Dirs
    PROVE  /\ Given(d) \in Ids \cup {None}
           /\ disk[d].built \in Ids => Given(d) = disk[d].built
           /\ disk[d].built \notin Ids /\ disk[d].source \in Ids => Given(d) = disk[d].source
           /\ disk[d].built \notin Ids /\ disk[d].source \notin Ids => Given(d) = None
  BY DEF Given

\* A caller that has done nothing yet, or is done, remembers nothing.
LEMMA ForgetfulIsRight ==
    ASSUME NEW c \in Callers, work[c] = <<>>, found[c] = None
    PROVE  ReadOK(c)
  BY DEF ReadOK, ToSet

LEMMA ReadInit ==
    Init => ReadInv
  BY ForgetfulIsRight DEF Init, ReadInv

LEMMA ReadStep ==
    TypeInv /\ ReadInv /\ [Next]_vars => ReadInv'
  <1> SUFFICES ASSUME TypeInv, ReadInv, [Next]_vars, NEW d \in Callers PROVE ReadOK(d)'
    BY DEF ReadInv
  <1>0. ReadOK(d)
    BY DEF ReadInv
  \* What another caller does is of no account if it leaves the disk alone.
  <1>a. ASSUME UNCHANGED <<disk, changed, current>>, work'[d] = work[d], found'[d] = found[d]
        PROVE  ReadOK(d)'
    BY <1>0, <1>a DEF ReadOK, Known, Given
  <1>b. ASSUME UNCHANGED <<disk, changed, current>>, found'[d] = None,
               \A o \in ToSet(work'[d]) : o.op = "source" =>
                  o \in ToSet(work[d]) \/ disk[DirAt(o.at)].built \notin Ids
        PROVE  ReadOK(d)'
    BY <1>0, <1>b DEF ReadOK, Known
  <1>c. ASSUME work'[d] = <<>>, found'[d] = None PROVE ReadOK(d)'
    BY <1>c DEF ReadOK, ToSet
  <1>1. ASSUME NEW c \in Callers, NEW what \in Ids \cup {Listing}, Ask(c, what) PROVE ReadOK(d)'
    <2>1. UNCHANGED <<disk, changed, current, found>>
      BY <1>1 DEF Ask
    <2>2. CASE work'[d] = work[d]
      BY <1>a, <2>1, <2>2
    <2>3. CASE d = c /\ work' = [work EXCEPT ![c] = Scan]
      <3>1. work'[d] = Scan
        BY <2>3 DEF TypeInv, VariablesOK
      <3>2. found[d] = None
        BY <1>1, <2>3, Idle DEF Ask
      <3> QED BY <1>b, <2>1, <3>1, <3>2, ScanFacts
    <2> QED BY <1>1, <2>2, <2>3 DEF Ask, TypeInv, VariablesOK
  <1>2. ASSUME NEW c \in Callers, BeginRescan(c) PROVE ReadOK(d)'
    <2>1. /\ UNCHANGED <<disk, changed, found>> /\ current' = (current \/ InUse = {})
          /\ work' = [work EXCEPT ![c] = Scan] /\ phase[c] = "new"
      BY <1>2 DEF BeginRescan
    <2>2. CASE d = c
      <3>1. work'[d] = Scan /\ found'[d] = None
        BY <2>1, <2>2, Idle DEF TypeInv, VariablesOK
      <3> QED BY <3>1, ScanFacts DEF ReadOK
    <2>3. CASE d # c /\ d \in InUse
      <3>1. current' = current
        BY <2>1, <2>3 DEF TypeInv, VariablesOK
      <3> QED BY <1>a, <2>1, <2>3, <3>1 DEF TypeInv, VariablesOK
    <2>4. CASE d # c /\ d \notin InUse
      <3>1. work[d] = <<>> /\ found[d] = None
        BY <2>4, Idle DEF InUse
      <3> QED BY <1>c, <2>1, <2>4, <3>1 DEF TypeInv, VariablesOK
    <2> QED BY <2>2, <2>3, <2>4
  <1>3. ASSUME NEW c \in Callers, ReadManifest(c) PROVE ReadOK(d)'
    <2> DEFINE o == Head(work[c])
               dir == DirAt(o.at)
    <2>1. /\ UNCHANGED <<disk, changed, current>> /\ work[c] # <<>> /\ found[c] = None
          /\ o.op \in {"built", "source"} /\ Manifest(o) = disk[dir][o.op]
      BY <1>3 DEF ReadManifest, Manifest
    <2>2. WalkOK(work[c]) /\ o \in ToSet(work[c]) /\ dir \in Dirs
      BY <2>1, Working
    <2>3. CASE d # c
      BY <1>3, <1>a, <2>1, <2>3 DEF ReadManifest, TypeInv, VariablesOK
    <2>4. CASE d = c /\ Manifest(o) \in Ids /\ found' = [found EXCEPT ![c] = Manifest(o)] /\ work' = work
      <3>1. found'[d] = Manifest(o) /\ work'[d] = work[d]
        BY <2>4 DEF TypeInv, VariablesOK
      <3>2. Known(dir) => Manifest(o) = Given(dir)
        <4>1. CASE o.op = "built"
          BY <2>1, <2>2, <2>4, <4>1, GivenFacts
        <4>2. CASE o.op = "source"
          <5>1. Known(dir) => disk[dir].built \notin Ids
            BY <1>0, <2>2, <2>4, <4>2 DEF ReadOK
          <5> QED BY <2>1, <2>2, <2>4, <4>2, <5>1, GivenFacts
        <4> QED BY <2>1, <4>1, <4>2
      <3>3. \A e : (Known(e)' => Known(e)) /\ Given(e)' = Given(e)
        BY <2>1 DEF Known, Given
      <3> QED BY <1>0, <2>1, <2>4, <3>1, <3>2, <3>3 DEF ReadOK
    <2>5. CASE /\ d = c /\ Manifest(o) \notin Ids /\ found' = found
               /\ work' = [work EXCEPT ![c] = NoManifest(@)]
      <3>1. work'[d] = NoManifest(work[d]) /\ found'[d] = None
        BY <2>1, <2>5 DEF TypeInv, VariablesOK
      <3>2. o.op = "built" => disk[dir].built \notin Ids
        BY <2>1, <2>5
      <3>3. \A q \in ToSet(NoManifest(work[d])) : q.op = "source" =>
                q \in ToSet(work[d]) \/ (o.op = "built" /\ q.at = o.at)
        BY <2>1, <2>2, <2>5, NoManifestFacts
      <3> QED BY <1>b, <2>1, <3>1, <3>2, <3>3
    <2> QED BY <1>3, <2>3, <2>4, <2>5 DEF ReadManifest
  <1>4. ASSUME NEW c \in Callers, CacheManifest(c) PROVE ReadOK(d)'
    <2>1. UNCHANGED <<disk, changed, current>>
      BY <1>4 DEF CacheManifest
    <2>2. CASE d # c
      BY <1>4, <1>a, <2>1, <2>2 DEF CacheManifest, TypeInv, VariablesOK
    <2>3. CASE d = c
      <3>1. work[c] # <<>> /\ Head(work[c]).op # "list" /\ WalkOK(work[c])
        BY <1>4 DEF CacheManifest, TypeInv, ScanOK
      <3>2. work'[d] = Loaded(work[d]) /\ found'[d] = None
        BY <1>4, <2>3 DEF CacheManifest, TypeInv, VariablesOK
      <3> QED BY <1>b, <2>1, <2>3, <3>1, <3>2, LoadedFacts
    <2> QED BY <2>2, <2>3
  <1>5. ASSUME NEW c \in Callers, ReadDir(c) PROVE ReadOK(d)'
    <2>1. UNCHANGED <<disk, changed, current, found>>
      BY <1>5 DEF ReadDir
    <2>2. CASE d # c
      BY <1>5, <1>a, <2>1, <2>2 DEF ReadDir, TypeInv, VariablesOK
    <2>3. CASE d = c
      <3>1. work[c] # <<>> /\ Head(work[c]).op = "list" /\ WalkOK(work[c]) /\ found[c] = None
        BY <1>5 DEF ReadDir, TypeInv, ScanOK
      <3>2. PICK new : /\ work' = [work EXCEPT ![c] = new]
                       /\ \A o \in ToSet(new) : o.op = "source" => o \in ToSet(work[c])
        BY <1>5, <3>1, ListingFacts DEF ReadDir, TypeInv
      <3>3. work'[d] = new /\ found'[d] = None
        BY <2>1, <2>3, <3>1, <3>2 DEF TypeInv, VariablesOK
      <3> QED BY <1>b, <2>1, <2>3, <3>2, <3>3
    <2> QED BY <2>2, <2>3
  <1>6. ASSUME NEW c \in Callers, ScanEnds(c) \/ Look(c) \/ Verify(c) PROVE ReadOK(d)'
    BY <1>6, <1>a DEF ScanEnds, Look, Verify
  <1>7. ASSUME NEW e \in Edits, Change(e) PROVE ReadOK(d)'
    <2>1. /\ disk' = [disk EXCEPT ![e.dir] = e.becomes] /\ changed' = changed \cup {e.dir}
          /\ current' = (InUse = {} /\ ~scanned /\ \A i \in Ids : cache[i] = None)
          /\ UNCHANGED <<work, found, phase>>
      BY <1>7 DEF Change
    <2>2. CASE current'
      <3>1. phase[d] # "scanning"
        BY <2>1, <2>2 DEF InUse
      <3> QED BY <1>c, <2>1, <3>1, Idle
    <2>3. CASE ~current'
      <3>1. ASSUME NEW dir \in Dirs, Known(dir)'
            PROVE  Known(dir) /\ disk'[dir] = disk[dir] /\ Given(dir)' = Given(dir)
        <4>1. dir # e.dir /\ dir \notin changed
          BY <2>1, <2>3, <3>1 DEF Known
        <4>2. disk'[dir] = disk[dir]
          BY <2>1, <4>1 DEF TypeInv, VariablesOK
        <4> QED BY <4>1, <4>2 DEF Known, Given
      <3>2. \A o \in ToSet(work[d]) : DirAt(o.at) \in Dirs
        BY WalkPlaces, PlaceFacts DEF TypeInv, ScanOK
      <3>3. found[d] # None => DirAt(Head(work[d]).at) \in Dirs
        BY Working DEF TypeInv, ScanOK
      <3> QED BY <1>0, <2>1, <3>1, <3>2, <3>3 DEF ReadOK
    <2> QED BY <2>2, <2>3
  <1>8. CASE UNCHANGED vars
    BY <1>8, <1>a
  <1> QED BY <1>1, <1>2, <1>3, <1>4, <1>5, <1>6, <1>7, <1>8 DEF Next

-----------------------------------------------------------------------------
(* What was there all along is found *)

LEMMA PresentInit ==
    Init => PresentInv
  BY DEF Init, PresentInv

LEMMA PresentStep ==
    TypeInv /\ ReadInv /\ PresentInv /\ [Next]_vars => PresentInv'
  <1> SUFFICES ASSUME TypeInv, ReadInv, PresentInv, [Next]_vars, ~crossed',
                      NEW p \in Places, Lasting(p)'
               PROVE  /\ scanned' => Cached(p)'
                      /\ \A d \in Callers :
                          /\ phase'[d] = "scanning" => Cached(p)' \/ Owed(work'[d], p)
                          /\ phase'[d] = "looking" => Cached(p)'
                          /\ phase'[d] \in {"verifying", "done"} /\ request'[d] # Rescan =>
                                Given(DirAt(p))' \in seen'[d]
    BY DEF PresentInv
  <1> DEFINE dir == DirAt(p)
             Sure(d) ==
                /\ phase'[d] = "scanning" => Cached(p)' \/ Owed(work'[d], p)
                /\ phase'[d] = "looking" => Cached(p)'
                /\ phase'[d] \in {"verifying", "done"} /\ request'[d] # Rescan =>
                      Given(dir)' \in seen'[d]
  <1>0. dir \in Dirs
    BY PlaceFacts
  <1>1. /\ Lasting(p) /\ Given(dir)' = Given(dir) /\ Given(dir) \in Ids /\ dir \notin changed
        /\ ~crossed
    <2>1. CASE UNCHANGED <<disk, changed>>
      <3>1. Lasting(p) /\ Given(dir)' = Given(dir)
        BY <2>1 DEF Lasting, Given
      <3>2. ~crossed
        BY DEF Next, Ask, BeginRescan, ReadManifest, CacheManifest, ReadDir, ScanEnds, Look,
               Verify, Change
      <3> QED BY <1>0, <3>1, <3>2, GivenFacts DEF Lasting
    <2>2. ASSUME NEW e \in Edits, Change(e)
          PROVE  /\ Lasting(p) /\ Given(dir)' = Given(dir) /\ Given(dir) \in Ids /\ dir \notin changed
                 /\ ~crossed
      <3>1. dir # e.dir /\ dir \notin changed /\ disk'[dir] = disk[dir] /\ ~crossed
        BY <1>0, <2>2 DEF Change, Lasting, TypeInv, VariablesOK
      <3>2. Given(dir)' = Given(dir)
        BY <3>1 DEF Given
      <3> QED BY <1>0, <3>1, <3>2, GivenFacts DEF Lasting
    <2>3. UNCHANGED <<disk, changed>> \/ \E e \in Edits : Change(e)
      BY DEF Next, Ask, BeginRescan, ReadManifest, CacheManifest, ReadDir, ScanEnds, Look, Verify
    <2> QED BY <2>1, <2>2, <2>3
  <1>2. /\ scanned => Cached(p)
        /\ \A d \in Callers :
            /\ phase[d] = "scanning" => Cached(p) \/ Owed(work[d], p)
            /\ phase[d] = "looking" => Cached(p)
            /\ phase[d] \in {"verifying", "done"} /\ request[d] # Rescan => Given(dir) \in seen[d]
    BY <1>1 DEF PresentInv
  <1>3. Cached(p)' <=> cache'[Given(dir)] # None
    BY <1>1 DEF Cached
  <1>4. ASSUME cache' = cache PROVE Cached(p)' <=> Cached(p)
    BY <1>3, <1>4 DEF Cached
  <1> HIDE DEF dir, Sure
  <1>k. ASSUME cache' = cache \/ Cached(p)', NEW d \in Callers, phase'[d] = phase[d],
               work'[d] = work[d], request'[d] = request[d], seen'[d] = seen[d]
        PROVE  Sure(d)
    BY <1>1, <1>2, <1>4, <1>k DEF Sure, dir
  <1>s. SUFFICES (scanned' => Cached(p)') /\ \A d \in Callers : Sure(d)
    BY DEF Sure, dir
  <1>5. ASSUME NEW c \in Callers, NEW what, LookUp(c, what), Cached(p), cache' = cache
        PROVE  Sure(c)
    <2>1. phase'[c] \in {"verifying", "done"} /\ Given(dir) \in seen'[c]
      BY <1>1, <1>5, LookUpTypes DEF Cached, dir
    <2> QED BY <1>1, <2>1 DEF Sure
  <1>6. ASSUME NEW c \in Callers, NEW what \in Ids \cup {Listing}, Ask(c, what)
        PROVE  (scanned' => Cached(p)') /\ \A d \in Callers : Sure(d)
    <2>1. UNCHANGED <<cache, scanned>> /\ request' = [request EXCEPT ![c] = what]
      BY <1>6 DEF Ask
    <2>2. CASE scanned
      <3>1. LookUp(c, what) /\ work' = work
        BY <1>6, <2>2 DEF Ask
      <3>2. ASSUME NEW d \in Callers \ {c} PROVE Sure(d)
        BY <1>k, <2>1, <3>1, LookUpTypes DEF TypeInv, VariablesOK
      <3> QED BY <1>2, <1>4, <1>5, <2>1, <2>2, <3>1, <3>2
    <2>3. CASE ~scanned
      <3>1. /\ phase' = [phase EXCEPT ![c] = "scanning"] /\ work' = [work EXCEPT ![c] = Scan]
            /\ seen' = seen
        BY <1>6, <2>3 DEF Ask
      <3>2. ASSUME NEW d \in Callers \ {c} PROVE Sure(d)
        BY <1>k, <2>1, <3>1 DEF TypeInv, VariablesOK
      <3>3. Sure(c)
        BY <3>1, ScanFacts DEF Sure, TypeInv, VariablesOK
      <3> QED BY <2>1, <2>3, <3>2, <3>3
    <2> QED BY <2>2, <2>3
  <1>7. ASSUME NEW c \in Callers, BeginRescan(c)
        PROVE  (scanned' => Cached(p)') /\ \A d \in Callers : Sure(d)
    <2>1. InUse = {} /\ ~scanned'
      BY <1>7 DEF BeginRescan
    <2>2. /\ phase' = [phase EXCEPT ![c] = "scanning"] /\ work' = [work EXCEPT ![c] = Scan]
          /\ request' = [request EXCEPT ![c] = Rescan] /\ seen' = seen
      BY <1>7 DEF BeginRescan
    <2>3. ASSUME NEW d \in Callers \ {c} PROVE Sure(d)
      <3>1. phase'[d] = phase[d] /\ phase[d] \notin {"scanning", "looking"}
        BY <2>1, <2>2 DEF InUse, TypeInv, VariablesOK
      <3>2. request'[d] = request[d] /\ seen'[d] = seen[d]
        BY <2>2 DEF TypeInv, VariablesOK
      <3> QED BY <1>1, <1>2, <3>1, <3>2 DEF Sure
    <2>4. Sure(c)
      BY <2>2, ScanFacts DEF Sure, TypeInv, VariablesOK
    <2> QED BY <2>1, <2>3, <2>4
  <1>8. ASSUME NEW c \in Callers, ReadManifest(c)
        PROVE  (scanned' => Cached(p)') /\ \A d \in Callers : Sure(d)
    <2> DEFINE o == Head(work[c])
    <2>1. /\ UNCHANGED <<cache, scanned, phase, request, seen>>
          /\ work[c] # <<>> /\ o.op \in {"built", "source"}
          /\ Manifest(o) = disk[DirAt(o.at)][o.op]
      BY <1>8 DEF ReadManifest, Manifest
    <2>2. CASE work' = work
      BY <1>2, <1>4, <1>k, <2>1, <2>2
    <2>3. CASE Manifest(o) \notin Ids /\ work' = [work EXCEPT ![c] = NoManifest(@)]
      <3>1. ASSUME NEW d \in Callers \ {c} PROVE Sure(d)
        BY <1>k, <2>1, <2>3 DEF TypeInv, VariablesOK
      <3>2. WalkOK(work[c]) /\ phase[c] = "scanning" /\ o \in ToSet(work[c])
        BY <2>1, Working
      <3>3. ~(o.op = "source" /\ p = o.at)
        <4> SUFFICES ASSUME o.op = "source", p = o.at PROVE FALSE
          OBVIOUS
        <4>1. disk[dir].built \notin Ids
          BY <1>1, <3>2 DEF ReadInv, ReadOK, Known, dir
        <4>2. disk[dir].source \notin Ids
          BY <2>1, <2>3 DEF dir
        <4> QED BY <1>0, <1>1, <4>1, <4>2, GivenFacts, PluginResolverAssumption DEF dir
      <3>4. Owed(work[c], p) => Owed(NoManifest(work[c]), p)
        BY <2>1, <3>2, <3>3, NoManifestFacts
      <3>5. work'[c] = NoManifest(work[c])
        BY <2>3 DEF TypeInv, VariablesOK
      <3>6. Sure(c)
        BY <1>2, <1>4, <2>1, <3>2, <3>4, <3>5 DEF Sure
      <3> QED BY <1>2, <1>4, <2>1, <3>1, <3>6
    <2> QED BY <1>8, <2>2, <2>3 DEF ReadManifest
  <1>9. ASSUME NEW c \in Callers, CacheManifest(c)
        PROVE  (scanned' => Cached(p)') /\ \A d \in Callers : Sure(d)
    <2> DEFINE o == Head(work[c])
    <2>1. /\ UNCHANGED <<scanned, phase, request, seen>>
          /\ cache' = [cache EXCEPT ![found[c]] = DirAt(o.at)]
          /\ work' = [work EXCEPT ![c] = Loaded(@)]
          /\ found[c] # None
      BY <1>9 DEF CacheManifest
    <2>2. /\ work[c] # <<>> /\ o.op # "list" /\ found[c] \in Ids /\ WalkOK(work[c])
          /\ phase[c] = "scanning" /\ DirAt(o.at) \in Dirs
      BY <2>1, Working DEF TypeInv, VariablesOK, ScanOK
    <2>3. Cached(p) => Cached(p)'
      BY <1>1, <1>3, <2>1, <2>2, PluginResolverAssumption DEF Cached, TypeInv, VariablesOK, dir
    <2>4. p = o.at => Cached(p)'
      <3>1. p = o.at => found[c] = Given(dir)
        BY <1>1, <2>1 DEF ReadInv, ReadOK, Known, dir
      <3> QED BY <1>1, <1>3, <2>1, <2>2, <3>1, PluginResolverAssumption
              DEF TypeInv, VariablesOK, dir
    <2>5. p # o.at /\ Owed(work[c], p) => Owed(Loaded(work[c]), p)
      BY <2>2, LoadedFacts
    <2>6. ASSUME NEW d \in Callers PROVE Sure(d)
      <3>1. CASE Cached(p)'
        <4>1. phase'[d] \in {"verifying", "done"} /\ request'[d] # Rescan => Given(dir)' \in seen'[d]
          BY <1>1, <1>2, <2>1
        <4> QED BY <3>1, <4>1 DEF Sure
      <3>2. CASE ~Cached(p)' /\ d = c
        <4>1. work'[d] = Loaded(work[c]) /\ Owed(work[c], p)
          BY <1>2, <2>1, <2>2, <2>3, <3>2 DEF TypeInv, VariablesOK
        <4> QED BY <2>1, <2>2, <2>4, <2>5, <3>2, <4>1 DEF Sure
      <3>3. CASE ~Cached(p)' /\ d # c
        <4>1. work'[d] = work[d]
          BY <2>1, <3>3 DEF TypeInv, VariablesOK
        <4> QED BY <1>1, <1>2, <2>1, <2>3, <3>3, <4>1 DEF Sure
      <3> QED BY <3>1, <3>2, <3>3
    <2> QED BY <1>2, <2>1, <2>3, <2>6
  <1>10. ASSUME NEW c \in Callers, ReadDir(c)
         PROVE  (scanned' => Cached(p)') /\ \A d \in Callers : Sure(d)
    <2>1. UNCHANGED <<cache, scanned, phase, request, seen>> /\ work[c] # <<>> /\ Head(work[c]).op = "list"
      BY <1>10 DEF ReadDir
    <2>2. WalkOK(work[c]) /\ phase[c] = "scanning" /\ Given(DirAt(p)) # None
      BY <1>1, <2>1, Working, PluginResolverAssumption DEF dir
    <2>3. PICK new : work' = [work EXCEPT ![c] = new] /\ (Owed(work[c], p) => Owed(new, p))
      BY <1>10, <2>1, <2>2, ListingFacts DEF ReadDir, TypeInv
    <2>4. ASSUME NEW d \in Callers \ {c} PROVE Sure(d)
      BY <1>k, <2>1, <2>3 DEF TypeInv, VariablesOK
    <2>5. work'[c] = new
      BY <2>3 DEF TypeInv, VariablesOK
    <2>6. Sure(c)
      BY <1>2, <1>4, <2>1, <2>2, <2>3, <2>5 DEF Sure
    <2> QED BY <1>2, <1>4, <2>1, <2>4, <2>6
  <1>11. ASSUME NEW c \in Callers, ScanEnds(c)
         PROVE  (scanned' => Cached(p)') /\ \A d \in Callers : Sure(d)
    <2>1. /\ phase[c] = "scanning" /\ work[c] = <<>> /\ UNCHANGED <<cache, work, request, seen>>
          /\ phase' = [phase EXCEPT ![c] = IF request[c] = Rescan THEN "done" ELSE "looking"]
      BY <1>11 DEF ScanEnds
    <2>2. Cached(p)'
      BY <1>2, <1>4, <2>1, EmptyWalk
    <2>3. ASSUME NEW d \in Callers \ {c} PROVE Sure(d)
      BY <1>k, <2>1 DEF TypeInv, VariablesOK
    <2>4. Sure(c)
      BY <2>1, <2>2 DEF Sure, TypeInv, VariablesOK
    <2> QED BY <2>2, <2>3, <2>4
  <1>12. ASSUME NEW c \in Callers, Look(c)
         PROVE  (scanned' => Cached(p)') /\ \A d \in Callers : Sure(d)
    <2>1. phase[c] = "looking" /\ LookUp(c, request[c]) /\ UNCHANGED <<cache, scanned, request, work>>
      BY <1>12 DEF Look
    <2>2. Cached(p)
      BY <1>2, <2>1
    <2>3. ASSUME NEW d \in Callers \ {c} PROVE Sure(d)
      BY <1>k, <2>1, LookUpTypes DEF TypeInv, VariablesOK
    <2> QED BY <1>4, <1>5, <2>1, <2>2, <2>3
  <1>13. ASSUME NEW c \in Callers, Verify(c)
         PROVE  (scanned' => Cached(p)') /\ \A d \in Callers : Sure(d)
    <2>1. /\ phase[c] = "verifying" /\ phase' = [phase EXCEPT ![c] = "done"]
          /\ UNCHANGED <<cache, scanned, request, work, seen>>
      BY <1>13 DEF Verify
    <2>2. ASSUME NEW d \in Callers \ {c} PROVE Sure(d)
      BY <1>k, <2>1 DEF TypeInv, VariablesOK
    <2>3. phase'[c] = "done"
      BY <2>1 DEF TypeInv, VariablesOK
    <2>4. Sure(c)
      BY <1>1, <1>2, <2>1, <2>3 DEF Sure
    <2> QED BY <1>2, <1>4, <2>1, <2>2, <2>4
  <1>14. ASSUME NEW e \in Edits, Change(e)
         PROVE  (scanned' => Cached(p)') /\ \A d \in Callers : Sure(d)
    BY <1>2, <1>4, <1>k, <1>14 DEF Change
  <1>15. CASE UNCHANGED vars
    BY <1>2, <1>4, <1>k, <1>15
  <1> QED BY <1>6, <1>7, <1>8, <1>9, <1>10, <1>11, <1>12, <1>13, <1>14, <1>15 DEF Next

LEMMA AlwaysRead ==
    Spec => [](TypeInv /\ ReadInv)
  <1>1. Init => TypeInv /\ ReadInv
    BY TypeInit, ReadInit
  <1>2. TypeInv /\ ReadInv /\ [Next]_vars => (TypeInv /\ ReadInv)'
    BY TypeStep, ReadStep
  <1> QED BY <1>1, <1>2, PTL DEF Spec

\* resolve() and listPlugins() of local-plugin-resolver.ts miss no plugin that was in the
\* workspace all along, however many of their scans share the cache, unless rescan() has
\* cleared it behind another request.
THEOREM PresentPluginsAreFound ==
    Spec => []PresentIsFound
  <1>1. PresentInv => PresentIsFound
    BY DEF PresentInv, PresentIsFound, Lasting
  <1> QED BY AlwaysRead, PresentInit, PresentStep, <1>1, PTL DEF Spec

-----------------------------------------------------------------------------
(* The cache that concurrent scans leave behind *)

\* Nothing is left over in the cache.
Sound == \A i \in Ids : cache[i] # None => \E p \in Places : Given(DirAt(p)) = i

\* A scan has each plugin ahead of it or behind it.
OnItsWay(c) ==
    \A p \in Places : Given(DirAt(p)) # None => Owed(work[c], p) \/ Passed(work[c], p)

\* The last directory of the plugin i is not forgotten.
Kept(i, p) ==
    \/ cache[i] = DirAt(p)
    \/ \E c \in Callers : Owed(work[c], p)
    \/ ~scanned /\ InUse = {}

LEMMA CacheParts ==
    CacheInv <=> (current => /\ Sound /\ \A c \in Callers : OnItsWay(c)
                             /\ \A i \in Ids, p \in Places : LastOf(p, i) => Kept(i, p))
  BY Zenon DEF CacheInv, Sound, OnItsWay, Kept

LEMMA EmptyIsOnItsWay ==
    ASSUME NEW c \in Callers, work[c] = <<>>
    PROVE  OnItsWay(c)
  BY EmptyWalk DEF OnItsWay

LEMMA CacheInit ==
    Init => CacheInv
  <1> SUFFICES ASSUME Init PROVE CacheInv
    OBVIOUS
  <1>1. Sound
    BY DEF Init, Sound
  <1>2. \A c \in Callers : OnItsWay(c)
    BY EmptyIsOnItsWay DEF Init
  <1>3. \A i, p : Kept(i, p)
    BY DEF Init, Kept, InUse
  <1> QED BY <1>1, <1>2, <1>3, CacheParts

\* A scan that goes on, with nothing of its way lost but what is in the cache now.
LEMMA GoesOn ==
    ASSUME TypeInv, CacheInv, current, NEW c \in Callers, NEW new,
           work[c] # <<>>, work' = [work EXCEPT ![c] = new],
           UNCHANGED <<scanned, phase, disk, current>>,
           Sound',
           \A q \in Places :
              Given(DirAt(q)) # None /\ Owed(work[c], q) => Owed(new, q) \/ Passed(new, q),
           \A q \in Places : Passed(work[c], q) => Passed(new, q),
           \A i \in Ids, q \in Places : LastOf(q, i) =>
              /\ cache[i] = DirAt(q) => cache'[i] = DirAt(q) \/ Owed(new, q)
              /\ Owed(work[c], q) => Owed(new, q) \/ cache'[i] = DirAt(q)
    PROVE  CacheInv'
  <1>1. Sound /\ (\A d \in Callers : OnItsWay(d))
        /\ \A i \in Ids, p \in Places : LastOf(p, i) => Kept(i, p)
    BY CacheParts
  <1>2. \A e : Given(e)' = Given(e)
    BY DEF Given
  <1>3. work'[c] = new /\ \A d \in Callers \ {c} : work'[d] = work[d]
    BY DEF TypeInv, VariablesOK
  <1>4. ASSUME NEW d \in Callers PROVE OnItsWay(d)'
    <2>1. CASE d = c
      BY <1>1, <1>2, <1>3, <2>1 DEF OnItsWay
    <2>2. CASE d # c
      BY <1>1, <1>2, <1>3, <2>2 DEF OnItsWay
    <2> QED BY <2>1, <2>2
  <1>5. ASSUME NEW i \in Ids, NEW p \in Places, LastOf(p, i)' PROVE Kept(i, p)'
    <2>1. LastOf(p, i)
      BY <1>2, <1>5 DEF LastOf
    <2>2. c \in InUse
      BY Working
    <2>3. cache[i] = DirAt(p) \/ \E d \in Callers : Owed(work[d], p)
      BY <1>1, <2>1, <2>2 DEF Kept
    <2>4. CASE cache[i] = DirAt(p) \/ Owed(work[c], p)
      BY <1>3, <2>1, <2>4 DEF Kept
    <2>5. ASSUME NEW d \in Callers \ {c}, Owed(work[d], p) PROVE Kept(i, p)'
      BY <1>3, <2>5 DEF Kept
    <2> QED BY <2>3, <2>4, <2>5
  <1>6. Sound' /\ (\A d \in Callers : OnItsWay(d)')
        /\ \A i \in Ids, p \in Places : LastOf(p, i)' => Kept(i, p)'
    BY <1>4, <1>5
  <1> QED BY <1>6, Zenon DEF CacheInv, Sound, OnItsWay, Kept

LEMMA CacheStep ==
    TypeInv /\ ReadInv /\ CacheInv /\ [Next]_vars => CacheInv'
  <1> SUFFICES ASSUME TypeInv, ReadInv, CacheInv, [Next]_vars, current' PROVE CacheInv'
    BY DEF CacheInv
  <1>1. current => /\ Sound /\ \A c \in Callers : OnItsWay(c)
                   /\ \A i \in Ids, p \in Places : LastOf(p, i) => Kept(i, p)
    BY CacheParts
  <1>2. ASSUME Sound', \A c \in Callers : OnItsWay(c)',
               \A i \in Ids, p \in Places : LastOf(p, i)' => Kept(i, p)'
        PROVE  CacheInv'
    BY <1>2, Zenon DEF CacheInv, Sound, OnItsWay, Kept
  \* What leaves the walks and the cache alone, but for the scans that begin or end.
  <1>3. ASSUME UNCHANGED <<cache, disk>>, current, NEW c \in Callers,
               \A d \in Callers \ {c} : work'[d] = work[d],
               \A q \in Places : Owed(work[c], q) => Owed(work'[c], q),
               OnItsWay(c)',
               \A i \in Ids, p \in Places : LastOf(p, i) =>
                  \/ Owed(work'[c], p)
                  \/ (~scanned /\ InUse = {} => ~scanned' /\ InUse' = {})
        PROVE  CacheInv'
    <2>1. (\A e : Given(e)' = Given(e)) /\ Sound'
      BY <1>1, <1>3 DEF Given, Sound
    <2>2. ASSUME NEW d \in Callers PROVE OnItsWay(d)'
      <3>1. CASE d # c
        BY <1>1, <1>3, <2>1, <3>1 DEF OnItsWay
      <3> QED BY <1>3, <3>1
    <2>3. ASSUME NEW i \in Ids, NEW p \in Places, LastOf(p, i)' PROVE Kept(i, p)'
      <3>1. LastOf(p, i)
        BY <2>1, <2>3 DEF LastOf
      <3>2. Kept(i, p)
        BY <1>1, <1>3, <3>1
      <3>3. CASE cache[i] = DirAt(p)
        BY <1>3, <3>3 DEF Kept
      <3>4. ASSUME NEW d \in Callers, Owed(work[d], p) PROVE Kept(i, p)'
        BY <1>3, <3>4 DEF Kept
      <3>5. CASE ~scanned /\ InUse = {}
        BY <1>3, <3>1, <3>5 DEF Kept
      <3> QED BY <3>2, <3>3, <3>4, <3>5 DEF Kept
    <2> QED BY <1>2, <2>1, <2>2, <2>3
  <1>4. ASSUME NEW c \in Callers, NEW what \in Ids \cup {Listing}, Ask(c, what) PROVE CacheInv'
    <2>1. /\ UNCHANGED <<cache, scanned, disk, current>> /\ current /\ phase[c] = "new"
          /\ work[c] = <<>>
      BY <1>4, Idle DEF Ask
    <2>2. CASE scanned
      <3>1. work' = work
        BY <1>4, <2>2 DEF Ask
      <3>2. OnItsWay(c)'
        BY <2>1, <3>1, EmptyWalk DEF OnItsWay
      <3> QED BY <1>3, <2>1, <2>2, <3>1, <3>2
    <2>3. CASE ~scanned
      <3>1. work' = [work EXCEPT ![c] = Scan]
        BY <1>4, <2>3 DEF Ask
      <3>2. work'[c] = Scan /\ \A d \in Callers \ {c} : work'[d] = work[d]
        BY <3>1 DEF TypeInv, VariablesOK
      <3>3. OnItsWay(c)' /\ \A q \in Places : Owed(work'[c], q)
        BY <3>2, ScanFacts DEF OnItsWay
      <3> QED BY <1>3, <2>1, <3>2, <3>3
    <2> QED BY <2>2, <2>3
  <1>5. ASSUME NEW c \in Callers, BeginRescan(c) PROVE CacheInv'
    <2>1. /\ cache' = [i \in Ids |-> None] /\ work' = [work EXCEPT ![c] = Scan]
          /\ (current \/ InUse = {}) /\ disk' = disk
      BY <1>5 DEF BeginRescan
    <2>2. work'[c] = Scan /\ \A d \in Callers \ {c} : work'[d] = work[d]
      BY <2>1 DEF TypeInv, VariablesOK
    <2>3. \A e : Given(e)' = Given(e)
      BY <2>1 DEF Given
    <2>4. Sound'
      BY <2>1 DEF Sound
    <2>5. ASSUME NEW d \in Callers PROVE OnItsWay(d)'
      <3>1. CASE d = c
        BY <2>2, <3>1, ScanFacts DEF OnItsWay
      <3>2. CASE d # c /\ current
        BY <1>1, <2>2, <2>3, <3>2 DEF OnItsWay
      <3>3. CASE d # c /\ InUse = {}
        <4>1. work'[d] = <<>>
          BY <2>2, <3>3, Idle DEF InUse
        <4> QED BY <4>1, EmptyWalk DEF OnItsWay
      <3> QED BY <2>1, <3>1, <3>2, <3>3
    <2>6. ASSUME NEW i \in Ids, NEW p \in Places PROVE Kept(i, p)'
      BY <2>2, ScanFacts DEF Kept
    <2> QED BY <1>2, <2>4, <2>5, <2>6
  <1>6. ASSUME NEW c \in Callers, ReadManifest(c) PROVE CacheInv'
    <2> DEFINE o == Head(work[c])
    <2>1. /\ UNCHANGED <<cache, scanned, phase, disk, changed, current>> /\ current
          /\ work[c] # <<>> /\ o.op \in {"built", "source"}
          /\ Manifest(o) = disk[DirAt(o.at)][o.op]
      BY <1>6 DEF ReadManifest, Manifest
    <2>2. CASE work' = work
      <3>1. OnItsWay(c)'
        BY <1>1, <2>1, <2>2 DEF OnItsWay, Given
      <3>2. InUse' = InUse
        BY <2>1 DEF InUse
      <3> QED BY <1>3, <2>1, <2>2, <3>1, <3>2
    <2>3. CASE Manifest(o) \notin Ids /\ work' = [work EXCEPT ![c] = NoManifest(@)]
      <3> DEFINE new == NoManifest(work[c])
      <3>1. WalkOK(work[c]) /\ o \in ToSet(work[c]) /\ DirAt(o.at) \in Dirs
        BY <2>1, Working
      <3>2. /\ \A q \in Places : Owed(work[c], q) /\ (o.op = "source" => q # o.at) => Owed(new, q)
            /\ \A q \in Places : Passed(work[c], q) \/ (o.op = "source" /\ q = o.at) => Passed(new, q)
        BY <2>1, <3>1, NoManifestFacts
      <3>3. o.op = "source" => Given(DirAt(o.at)) = None
        <4>1. o.op = "source" => disk[DirAt(o.at)].built \notin Ids
          BY <2>1, <3>1 DEF ReadInv, ReadOK, Known
        <4>2. o.op = "source" => disk[DirAt(o.at)].source \notin Ids
          BY <2>1, <2>3
        <4> QED BY <3>1, <4>1, <4>2, GivenFacts
      <3>4. \A i \in Ids, q \in Places : LastOf(q, i) => (Owed(work[c], q) => Owed(new, q))
        BY <3>2, <3>3, PluginResolverAssumption DEF LastOf
      <3>5. Sound'
        BY <1>1, <2>1 DEF Sound, Given
      <3> HIDE DEF new
      <3>6. work' = [work EXCEPT ![c] = new]
        BY <2>3 DEF new
      <3> QED BY <2>1, <3>2, <3>4, <3>5, <3>6, GoesOn
    <2> QED BY <1>6, <2>2, <2>3 DEF ReadManifest
  <1>7. ASSUME NEW c \in Callers, CacheManifest(c) PROVE CacheInv'
    <2> DEFINE o == Head(work[c])
               at == o.at
               new == Loaded(work[c])
    <2>1. /\ UNCHANGED <<scanned, phase, disk, changed, current>> /\ current
          /\ cache' = [cache EXCEPT ![found[c]] = DirAt(at)]
          /\ work' = [work EXCEPT ![c] = new]
          /\ found[c] # None
      BY <1>7 DEF CacheManifest
    <2>2. /\ work[c] # <<>> /\ o.op # "list" /\ found[c] \in Ids /\ WalkOK(work[c])
          /\ at \in Places /\ o \in ToSet(work[c])
      BY <2>1, Working DEF TypeInv, VariablesOK, ScanOK
    <2>3. found[c] = Given(DirAt(at))
      BY <2>1 DEF ReadInv, ReadOK, Known
    <2>4. /\ \A q \in Places : q # at /\ Owed(work[c], q) => Owed(new, q)
          /\ \A q \in Places : q = at \/ Passed(work[c], q) => Passed(new, q)
      BY <2>2, LoadedFacts
    <2> HIDE DEF new, at
    <2>5. /\ cache'[found[c]] = DirAt(at)
          /\ \A i \in Ids \ {found[c]} : cache'[i] = cache[i]
      BY <2>1, <2>2 DEF TypeInv, VariablesOK
    <2>6. \A e : Given(e)' = Given(e)
      BY <2>1 DEF Given
    <2>7. Sound'
      BY <1>1, <2>1, <2>2, <2>3, <2>5, <2>6 DEF Sound
    <2>8. ASSUME NEW i \in Ids, NEW q \in Places, LastOf(q, i)
          PROVE  /\ cache[i] = DirAt(q) => cache'[i] = DirAt(q) \/ Owed(new, q)
                 /\ Owed(work[c], q) => Owed(new, q) \/ cache'[i] = DirAt(q)
      <3>1. CASE q = at
        BY <2>3, <2>5, <2>8, <3>1 DEF LastOf
      <3>2. CASE q # at /\ i # found[c]
        BY <2>4, <2>5, <3>2
      <3>3. CASE q # at /\ i = found[c]
        <4>1. Precedes(at, q) /\ Given(DirAt(q)) # None
          BY <2>1, <2>2, <2>3, <2>8, <3>3 DEF LastOf
        <4>2. ~Passed(work[c], q)
          BY <2>2, <3>3, <4>1, NotBoth DEF Passed, at
        <4>3. Owed(work[c], q)
          BY <1>1, <2>1, <4>1, <4>2 DEF OnItsWay
        <4> QED BY <2>4, <3>3, <4>3
      <3> QED BY <3>1, <3>2, <3>3
    <2> QED BY <2>1, <2>2, <2>4, <2>7, <2>8, GoesOn
  <1>8. ASSUME NEW c \in Callers, ReadDir(c) PROVE CacheInv'
    <2> DEFINE New(names) ==
                  [i \in DOMAIN names |-> Load(Entry(Head(work[c]).at, names[i]))] \o Tail(work[c])
    <2>1. /\ UNCHANGED <<cache, scanned, phase, disk, current>> /\ current
          /\ work[c] # <<>> /\ Head(work[c]).op = "list" /\ WalkOK(work[c])
      BY <1>8, Working DEF ReadDir
    <2>2. PICK names \in Listings(Head(work[c]).at) : work' = [work EXCEPT ![c] = New(names)]
      BY <1>8 DEF ReadDir
    <2>3. /\ \A q \in Places : Given(DirAt(q)) # None /\ Owed(work[c], q) => Owed(New(names), q)
          /\ \A q \in Places : Passed(work[c], q) => Passed(New(names), q)
      BY <2>1, ListingFacts DEF TypeInv
    <2> HIDE DEF New
    <2>4. Sound'
      BY <1>1, <2>1 DEF Sound, Given
    <2>5. \A i \in Ids, q \in Places : LastOf(q, i) => (Owed(work[c], q) => Owed(New(names), q))
      BY <2>3, PluginResolverAssumption DEF LastOf
    <2> QED BY <2>1, <2>2, <2>3, <2>4, <2>5, GoesOn
  <1>9. ASSUME NEW c \in Callers, ScanEnds(c) \/ Look(c) PROVE CacheInv'
    <2>1. UNCHANGED <<cache, work, disk, current>> /\ current /\ c \in InUse
      BY <1>9 DEF ScanEnds, Look, InUse
    <2>2. OnItsWay(c)'
      BY <1>1, <2>1 DEF OnItsWay, Given
    <2> QED BY <1>3, <2>1, <2>2
  <1>10. ASSUME NEW c \in Callers, Verify(c) PROVE CacheInv'
    <2>1. /\ UNCHANGED <<cache, scanned, work, disk, current>> /\ current
          /\ phase[c] = "verifying" /\ phase' = [phase EXCEPT ![c] = "done"]
      BY <1>10 DEF Verify
    <2>2. OnItsWay(c)'
      BY <1>1, <2>1 DEF OnItsWay, Given
    <2>3. InUse = {} => InUse' = {}
      BY <2>1 DEF InUse, TypeInv, VariablesOK
    <2> QED BY <1>3, <2>1, <2>2, <2>3
  <1>11. ASSUME NEW e \in Edits, Change(e) PROVE CacheInv'
    <2>1. /\ InUse = {} /\ ~scanned /\ \A i \in Ids : cache[i] = None
          /\ UNCHANGED <<cache, scanned, work, phase>>
      BY <1>11 DEF Change
    <2>2. Sound'
      BY <2>1 DEF Sound
    <2>3. ASSUME NEW d \in Callers PROVE OnItsWay(d)'
      <3>1. work'[d] = <<>>
        BY <2>1, Idle DEF InUse
      <3> QED BY <3>1, EmptyWalk DEF OnItsWay
    <2>4. \A i, p : Kept(i, p)'
      BY <2>1 DEF Kept, InUse
    <2> QED BY <1>2, <2>2, <2>3, <2>4
  <1>12. CASE UNCHANGED vars
    BY <1>12 DEF CacheInv, InUse, LastOf, Given
  <1> QED BY <1>4, <1>5, <1>6, <1>7, <1>8, <1>9, <1>10, <1>11, <1>12 DEF Next

\* When the scans of local-plugin-resolver.ts that ran at once have all ended, its cache
\* maps each plugin to the last directory that gives it and nothing else, as one scan by
\* itself would have left it, if none of them is older than the last change.
THEOREM ConcurrentScansAgree ==
    Spec => []CacheMatchesDisk
  <1>1. TypeInv /\ CacheInv => CacheMatchesDisk
    <2> SUFFICES ASSUME TypeInv, CacheInv, current, scanned, InUse = {}, NEW i \in Ids
                 PROVE  LET giving == {p \in Places : Given(DirAt(p)) = i}
                        IN  /\ giving = {} => cache[i] = None
                            /\ \A p \in giving :
                                  (\A q \in giving \ {p} : Precedes(q, p)) => cache[i] = DirAt(p)
      BY DEF CacheMatchesDisk
    <2>1. Sound /\ \A p \in Places : LastOf(p, i) => Kept(i, p)
      BY CacheParts
    <2>2. ASSUME NEW c \in Callers, NEW p PROVE ~Owed(work[c], p)
      <3>1. work[c] = <<>>
        BY Idle DEF InUse
      <3> QED BY <3>1, EmptyWalk
    <2>3. ASSUME NEW p \in Places, LastOf(p, i) PROVE cache[i] = DirAt(p)
      BY <2>1, <2>2, <2>3 DEF Kept
    <2> QED BY <2>1, <2>3 DEF Sound, LastOf
  <1> QED BY AlwaysRead, CacheInit, CacheStep, <1>1, PTL DEF Spec

=============================================================================
