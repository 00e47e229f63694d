-------------------------- MODULE MCCapabilityCalls --------------------------
(* A small workspace for TLC: root/a, root/sub/b and root/sub/secret, which is  *)
(* denied, and root/dist, which is excluded.                                    *)
EXTENDS CapabilityCalls, TLC

CONSTANTS a, b, secret, root, sub, dist

MCFiles == {a, b, secret}
MCDirs == {root, sub, dist}
MCAbove == (root :> {}) @@ (a :> {root}) @@ (sub :> {root}) @@ (dist :> {root})
            @@ (b :> {root, sub}) @@ (secret :> {root, sub})

Disk(va, vb) == (a :> va) @@ (b :> vb) @@ (secret :> "old")

MCDisks == {Disk("old", "old"), Disk("absent", "large"), Disk("binary", "absent")}

Ask(m, p, t) == [method |-> m, path |-> p, text |-> t]

MCRequests ==
    {Ask("writeFile", b, t) : t \in Texts}
    \cup {Ask(m, b, "none") : m \in {"readFile", "exists", "stat"}}
    \cup {Ask("readFile", secret, "none"), Ask("listDir", sub, "none"),
          Ask("fetchWorkspace", root, "none")}
    \cup {Ask(m, root, "none") : m \in {"grep", "glob", "exec", "refused", "refusedExists",
                                     "unknownAdapter"}}

=============================================================================
