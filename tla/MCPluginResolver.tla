--------------------------- MODULE MCPluginResolver ---------------------------
(* A workspace of two allowed paths: one is a monorepo with a package two       *)
(* levels down, the other is a plugin by itself.                                *)
EXTENDS PluginResolver, TLC

MCDirs == {"ws", "repo", "pkg", "solo"}
MCBases == <<"ws", "solo">>
MCSubdirs == [d \in MCDirs |-> IF d = "ws" THEN <<"repo">> ELSE <<>>]
MCPackages == [d \in MCDirs |-> IF d = "repo" THEN <<"pkg">> ELSE <<>>]

\* The same plugin twice, in a package and by itself; a second one in the repository,
\* with a broken build.
MCDisks == {[d \in MCDirs |->
    CASE d = "pkg"  -> [built |-> "x", source |-> "y"]
      [] d = "repo" -> [built |-> Malformed, source |-> "y"]
      [] d = "solo" -> [built |-> None, source |-> "x"]
      [] OTHER      -> [built |-> None, source |-> None]]}

\* The package is removed, rebuilt as another plugin, or the repository is built.
MCEdits ==
    {[dir |-> "pkg", becomes |-> [built |-> None, source |-> None]],
     [dir |-> "pkg", becomes |-> [built |-> "y", source |-> "y"]],
     [dir |-> "repo", becomes |-> [built |-> "x", source |-> "y"]]}

Symmetry == Permutations(Callers)
=============================================================================
