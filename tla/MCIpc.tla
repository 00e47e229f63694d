-------------------------------- MODULE MCIpc --------------------------------
(* Model checking of Ipc. *)
EXTENDS Ipc

Symmetry == Permutations(Clients)

\* The clients are alike, and a call keeps its owner: it is enough to look at the
\* behaviours in which one of them, always the same, executes.
OneClientExecutes == \A r \in Executes : owner[r] = CHOOSE c \in Clients : TRUE
=============================================================================
