--------------------------- MODULE MCGatewayClient ---------------------------
(* Small instances of GatewayClient for TLC. *)
EXTENDS GatewayClient, TLC

\* WebSocket objects are interchangeable.
Symmetry == Permutations(Sockets)
=============================================================================
