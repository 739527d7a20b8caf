--------------------------- MODULE MCQueueServer ---------------------------
(* Model checking of QueueServer on small instances. *)
EXTENDS QueueServer, TLC

(* Processes, boxes and events are interchangeable: no action or property  *)
(* of the safety runs names one of them.                                   *)
Symmetry == Permutations(Pid) \cup Permutations(Box)
=============================================================================
