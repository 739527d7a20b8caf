---------------------------- MODULE MCProxyCall ----------------------------
(* Model checking of ProxyCall on small instances: calls are pairs of a    *)
(* client and a number, and so are their events and payloads.              *)
EXTENDS ProxyCall, TLC

MCPid   == Client \cup Server
MCCalls == Client \X (1 .. MaxCalls)
MCEvent == MCCalls \cup (Server \X (1 .. MaxStarts))

Symmetry == Permutations(Client) \cup Permutations(Server)
=============================================================================
