----------------------------- MODULE MCGuiSlave -----------------------------
(* Model checking of GuiSlave on small instances. *)
EXTENDS GuiSlave, TLC

MCPid     == Asker \cup Server \cup {Service}
MCData    == (Initer \cup Killer) \X (1 .. 2)
MCStarter == Initer \cup Asker
MCEvent   == {SlavesEvent} \cup (Server \X (1 .. MaxStarts))

Symmetry == Permutations(Initer) \cup Permutations(Killer) \cup Permutations(Server)
=============================================================================
