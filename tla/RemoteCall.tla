----------------------------- MODULE RemoteCall -----------------------------
(***************************************************************************)
(* What a caller of SbieDll_CallProxySvr or of SbieDll_CallServer may rely *)
(* on, whatever happens to the proxy or the connection meanwhile: what he  *)
(* asked for is done at most once, the answer he gets is the answer to     *)
(* what he asked, and comes after it was done.                             *)
(* A call that failed may have been done or not, and may still be done     *)
(* later.  ProxyCall and PortServer implement this specification.          *)
(***************************************************************************)
CONSTANTS Calls, NoAnswer, Failed

VARIABLES
    asked,      (* the calls that were made                                *)
    done,       (* how often what was asked for was done                   *)
    answer      (* what the caller got                                     *)

Init ==
    /\ asked = {}
    /\ done = [d \in Calls |-> 0]
    /\ answer = [d \in Calls |-> NoAnswer]

Ask(d) ==
    /\ d \notin asked
    /\ asked' = asked \cup {d}
    /\ UNCHANGED <<done, answer>>

Do(d) ==
    /\ d \in asked
    /\ done[d] = 0
    /\ done' = [done EXCEPT ![d] = 1]
    /\ UNCHANGED <<asked, answer>>

Return(d) ==
    /\ done[d] = 1
    /\ answer[d] = NoAnswer
    /\ answer' = [answer EXCEPT ![d] = d]
    /\ UNCHANGED <<asked, done>>

Fail(d) ==
    /\ d \in asked
    /\ answer[d] = NoAnswer
    /\ answer' = [answer EXCEPT ![d] = Failed]
    /\ UNCHANGED <<asked, done>>

Next == \E d \in Calls : Ask(d) \/ Do(d) \/ Return(d) \/ Fail(d)

Spec == Init /\ [][Next]_<<asked, done, answer>>
=============================================================================
