---------------------------- MODULE RequestLife ----------------------------
(***************************************************************************)
(* What the queues promise about one request, whatever the processes do:   *)
(* it is handed out at most once, in the order of its queue, answered only *)
(* after that, and once it is gone it never comes back.  QueueServer       *)
(* implements this specification (its property LifeSpec).                  *)
(***************************************************************************)
EXTENDS Naturals

CONSTANTS
    Home,       (* the queues *)
    NoHome,
    MaxTurn     (* bound: requests in a behaviour *)

VARIABLE life   (* life[k]: what became of the k-th request *)

Turn == 1 .. MaxTurn

Unborn == [phase |-> "unborn", home |-> NoHome]
Gone   == [phase |-> "gone", home |-> NoHome]
At(phase, h) == [phase |-> phase, home |-> h]

(* Requests are numbered in the order they are accepted. *)
Youngest(k) == life[k] = Unborn /\ \A j \in 1 .. k - 1 : life[j] # Unborn

Submit(k, h) ==
    /\ Youngest(k)
    /\ life' = [life EXCEPT ![k] = At("waiting", h)]

(* An id is used up without a request. *)
Skip(k) ==
    /\ Youngest(k)
    /\ life' = [life EXCEPT ![k] = Gone]

HandOut(k, h) ==
    /\ life[k] = At("waiting", h)
    /\ \A j \in 1 .. k - 1 : life[j] # At("waiting", h)
    /\ life' = [life EXCEPT ![k] = At("taken", h)]

Answer(k, h) ==
    /\ life[k] = At("taken", h)
    /\ life' = [life EXCEPT ![k] = At("answered", h)]

(* Requests end when they are collected, given up, or lose their queue or  *)
(* their client.                                                           *)
End(S) ==
    /\ \A k \in S : life[k] \notin {Unborn, Gone}
    /\ life' = [k \in Turn |-> IF k \in S THEN Gone ELSE life[k]]

Init == life = [k \in Turn |-> Unborn]

Next ==
    \/ \E k \in Turn, h \in Home : Submit(k, h) \/ HandOut(k, h) \/ Answer(k, h)
    \/ \E k \in Turn : Skip(k)
    \/ \E S \in SUBSET Turn : End(S)

Spec == Init /\ [][Next]_life
=============================================================================
