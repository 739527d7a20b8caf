---------------------------- MODULE MCPortServer ----------------------------
(* Model checking of the port server: the client threads are of one        *)
(* process.                                                                *)
EXTENDS PortServer

OneProcess == [t \in Client |-> CHOOSE p \in Pid : TRUE]
=============================================================================
