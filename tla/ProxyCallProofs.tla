-------------------------- MODULE ProxyCallProofs --------------------------
(* What TLAPS proves of the calls to a proxy for any number of programs,   *)
(* proxies, callbacks and starting threads: the composition drives the     *)
(* queue service as QueueServer allows it to be driven, so that everything *)
(* proved of the queue service holds in it, and its own invariants.        *)
EXTENDS ProxyCall, ProxyStartProofs

-----------------------------------------------------------------------------
(* The shape of the callers                                                *)

CallShape ==
    /\ call \in [Client -> CallState]
    /\ \A c \in Client : call[c].pc # "idle" => call[c].n # 0

LEMMA ConstantFacts ==
    /\ Client \subseteq Pid /\ Client \cap Server = {}
    /\ Server \subseteq Pid /\ Proxy \in Asterisk
    /\ ThisCall = Data /\ ThisCall \subseteq Event /\ Starter = ThisCall
    /\ MaxCalls \in Nat /\ MaxStarts \in Nat /\ IdMod \in Nat /\ IdMod > 2
BY ClientAssumption, ServerFacts

LEMMA MyCall ==
    ASSUME CallShape, NEW c \in Client, call[c].pc # "idle"
    PROVE  Me(c) \in ThisCall /\ call[c].id \in Id /\ call[c].n \in 1 .. MaxCalls
<1>1. call[c].n \in 0 .. MaxCalls /\ call[c].n # 0 /\ call[c].id \in 0 .. IdMod - 1
  BY DEF CallShape, CallState
<1>2. call[c].n \in 1 .. MaxCalls
  BY <1>1, ConstantFacts
<1> QED
  BY <1>1, <1>2 DEF Me, ThisCall, Id

-----------------------------------------------------------------------------
(* Each step of a caller is a step of the queue service or none            *)

LEMMA ClientUsesQueue ==
    ASSUME CallShape, NEW c \in Client, ClientNext(c)
    PROVE  [Next]_vars
<1> USE ConstantFacts
<1>1. ASSUME NEW b \in Box, StartClient(c, b) PROVE Next
  BY <1>1 DEF StartClient, Next
<1>2. CASE BeginCall(c) \/ StartEnds(c) \/ TimeOut(c)
  BY <1>2 DEF BeginCall, StartEnds, TimeOut
<1>3. ASSUME NEW st \in Status, NEW id \in Id, PutReq(c, st, id) PROVE Next
  <2>1. Me(c) \in Data /\ Me(c) \in Handle
    BY <1>3, MyCall DEF PutReq, In, Handle
  <2>2. Call(c, Proxy, st)
    BY <1>3, <2>1 DEF PutReq, Call
  <2> QED
    BY <2>2 DEF Next
<1>4. ASSUME NEW st \in Status, NEW started \in BOOLEAN, StartProxy(c, st, started) PROVE Next
  <2>1. Call(c, Proxy, st)
    BY <1>4 DEF StartProxy, Call
  <2> QED
    BY <2>1 DEF Next
<1>5. CASE AwaitReply(c)
  <2>1. Me(c) \in Event /\ WaitEvent(Me(c))
    BY <1>5, MyCall DEF AwaitReply, In
  <2> QED
    BY <2>1 DEF Next
<1>6. ASSUME NEW st \in Status, NEW data \in Payload, GetReply(c, st, data) PROVE Next
  <2>1. call[c].id \in Id
    BY <1>6, MyCall DEF GetReply, In
  <2>2. Call(c, Proxy, st)
    BY <1>6, <2>1 DEF GetReply, Call
  <2> QED
    BY <2>2 DEF Next
<1>7. CASE EndClient(c)
  BY <1>7 DEF EndClient, Next
<1> QED
  BY <1>1, <1>2, <1>3, <1>4, <1>5, <1>6, <1>7 DEF ClientNext, CallStep

(* The steps of CallNext by the part of the system that takes them. *)
LEMMA CallCases ==
    ASSUME CallNext
    PROVE  \/ Machine /\ UNCHANGED callVars
           \/ \E c \in Client : ClientNext(c)
           \/ \E t \in Starter : NotifyStarted(t)
BY ConstantFacts DEF CallNext, Machine

LEMMA UsesQueue ==
    ASSUME TypeOK, ProxyShape, CallShape, [CallNext]_allVars
    PROVE  [Next]_vars
<1>1. ASSUME NEW t \in Starter, NotifyStarted(t) PROVE UNCHANGED vars
  BY <1>1 DEF NotifyStarted
<1>2. CASE UNCHANGED allVars
  BY <1>2 DEF allVars
<1> QED
  BY <1>1, <1>2, CallCases, ClientUsesQueue, MachineUsesQueue

-----------------------------------------------------------------------------
(* The shape is kept                                                       *)

(* A thread of a caller that moves on. *)
LEMMA GotoShape ==
    ASSUME CallShape, NEW c \in Client, call[c].pc # "idle",
           NEW pc \in {"startup", "starting", "retry", "wait", "collect"}, Goto(c, pc)
    PROVE  CallShape'
BY DEF CallShape, CallState, Goto

LEMMA ReturnShape ==
    ASSUME CallShape, NEW c \in Client, NEW what, Return(c, what)
    PROVE  CallShape'
<1>1. 0 \in 0 .. IdMod - 1
  BY ConstantFacts
<1> QED
  BY <1>1 DEF CallShape, CallState, Return

LEMMA CallShapeStep ==
    ASSUME CallShape, CallNext
    PROVE  CallShape'
<1>1. CASE UNCHANGED callVars \/ UNCHANGED call
  BY <1>1 DEF CallShape, callVars
<1>2. ASSUME NEW c \in Client, BeginCall(c) PROVE CallShape'
  <2>1. call[c].n + 1 \in 0 .. MaxCalls /\ call[c].n + 1 # 0 /\ 0 \in 0 .. IdMod - 1
    BY <1>2, ConstantFacts DEF BeginCall, CallShape, CallState
  <2> QED
    BY <1>2, <2>1 DEF BeginCall, CallShape, CallState
<1>3. ASSUME NEW c \in Client, NEW st \in Status, NEW id \in Id, PutReq(c, st, id) PROVE CallShape'
  <2>1. CASE st = "SUCCESS"
    BY <1>3, <2>1 DEF PutReq, In, CallShape, CallState, Id
  <2>2. CASE st = "NAME_NOT_FOUND" /\ In(c, "put")
    BY <1>3, <2>2, GotoShape DEF PutReq, In
  <2>3. CASE st # "SUCCESS" /\ ~ (st = "NAME_NOT_FOUND" /\ In(c, "put"))
    BY <1>3, <2>3, ReturnShape DEF PutReq
  <2> QED
    BY <2>1, <2>2, <2>3
<1>4. ASSUME NEW c \in Client, NEW st \in Status, NEW started \in BOOLEAN, StartProxy(c, st, started)
      PROVE  CallShape'
  BY <1>4, GotoShape, ReturnShape DEF StartProxy, In
<1>5. ASSUME NEW c \in Client, StartEnds(c) \/ AwaitReply(c) PROVE CallShape'
  BY <1>5, GotoShape DEF StartEnds, AwaitReply, In
<1>6. ASSUME NEW c \in Client,
             TimeOut(c) \/ \E st \in Status, data \in Payload : GetReply(c, st, data)
      PROVE  CallShape'
  BY <1>6, ReturnShape DEF TimeOut, GetReply
<1>7. ASSUME NEW c \in Client, EndClient(c) PROVE CallShape'
  BY <1>1, <1>7, ReturnShape DEF EndClient
<1>8. ASSUME NEW c \in Client, NEW b \in Box, StartClient(c, b) PROVE CallShape'
  BY <1>1, <1>8 DEF StartClient
<1>9. ASSUME NEW t \in Starter, NotifyStarted(t) PROVE CallShape'
  BY <1>1, <1>9 DEF NotifyStarted
<1> QED
  BY <1>1, <1>2, <1>3, <1>4, <1>5, <1>6, <1>7, <1>8, <1>9 DEF CallNext, ClientNext, CallStep

LEMMA ClientKeepsShape ==
    ASSUME TypeOK, ProxyShape, CallShape, NEW c \in Client, ClientNext(c)
    PROVE  WorkerShape' /\ StartShape'
<1>1. UNCHANGED workerVars
  BY DEF ClientNext, CallStep, StartClient, BeginCall, PutReq, StartProxy, StartEnds, AwaitReply,
         GetReply, TimeOut, EndClient
<1>2. ASSUME UNCHANGED startVars PROVE StartShape'
  BY <1>2 DEF ProxyShape, StartShape, startVars
<1>3. ASSUME NEW st \in Status, NEW started \in BOOLEAN, StartProxy(c, st, started) PROVE StartShape'
  <2>1. Me(c) \in Starter
    BY <1>3, MyCall, ConstantFacts DEF StartProxy, In
  <2> QED
    BY <1>2, <1>3, <2>1, StartShapeStep DEF StartProxy, ProxyShape
<1>4. StartShape'
  BY <1>2, <1>3 DEF ClientNext, CallStep, StartClient, BeginCall, PutReq, StartEnds, AwaitReply,
                    GetReply, TimeOut, EndClient
<1> QED
  BY <1>1, <1>4 DEF ProxyShape, WorkerShape, workerVars

LEMMA NotifyKeepsShape ==
    ASSUME ProxyShape, NEW t \in Starter, NotifyStarted(t)
    PROVE  WorkerShape' /\ StartShape'
<1>1. IdleStarter \in StarterState /\ IdleStarter.pc = "idle"
  BY DEF IdleStarter, StarterState
<1> QED
  BY <1>1, StarterShape DEF NotifyStarted, ProxyShape, WorkerShape, StartShape, workerVars

-----------------------------------------------------------------------------
(* The first invariant: the queue service is in a state of its own, and    *)
(* whoever calls it will call it as it may be called.                      *)
CallInv == ProxyInv /\ CallShape

LEMMA CallInvInit == CallInit => CallInv
<1> SUFFICES ASSUME CallInit PROVE CallInv
  OBVIOUS
<1>1. CallShape
  BY ConstantFacts DEF CallInit, CallShape, CallState
<1> QED
  BY <1>1, ProxyInvInit DEF CallInit, CallInv

LEMMA CallInvStep ==
    ASSUME CallInv, [CallNext]_allVars
    PROVE  CallInv' /\ [Next]_vars
<1>1. [Next]_vars
  BY UsesQueue DEF CallInv, ProxyInv, IInv
<1>2. IInv' /\ Born'
  BY <1>1, IInvStep, BornStep DEF CallInv, ProxyInv, ProxyShape, IInv
<1>3. CASE CallNext
  <2>1. WorkerShape' /\ StartShape'
    BY <1>3, CallCases, MachineKeeps, ClientKeepsShape, NotifyKeepsShape
       DEF CallInv, ProxyInv, ProxyShape, IInv
  <2> QED
    BY <1>1, <1>2, <1>3, <2>1, CallShapeStep DEF CallInv, ProxyInv, ProxyShape
<1>4. CASE UNCHANGED allVars
  BY <1>1, <1>2, <1>4
     DEF allVars, workerVars, startVars, callVars, CallInv, ProxyInv, ProxyShape, WorkerShape, StartShape,
         CallShape
<1> QED
  BY <1>3, <1>4

LEMMA CallInductive == CallSpec => []CallInv
BY CallInvInit, CallInvStep, PTL DEF CallSpec

(* Callers, proxies and starting threads drive the queue service as Spec   *)
(* says: whatever QueueServerProofs proves of Spec holds while any number  *)
(* of programs call any number of proxies.                                 *)
THEOREM CallsUseTheQueue == CallSpec => Spec
<1>1. CallInit => Init
  BY DEF CallInit
<1>2. ASSUME CallInv, [CallNext]_allVars PROVE [Next]_vars
  BY <1>2, CallInvStep
<1> QED
  BY <1>1, <1>2, CallInductive, PTL DEF CallSpec, Spec

-----------------------------------------------------------------------------
(* One proxy, woken in time, one callback for each request                 *)

(* A caller, as the proxies see him. *)
LEMMA ClientView ==
    ASSUME CallInv, NEW c \in Client, ClientNext(c)
    PROVE  Outside(c)
<1> USE ConstantFacts, TheProxyQueue
<1>1. UNCHANGED workerVars
  BY DEF ClientNext, CallStep, StartClient, BeginCall, PutReq, StartProxy, StartEnds, AwaitReply,
         GetReply, TimeOut, EndClient
<1> SUFFICES Gentle \/ Arrival \/ Woken \/ Aside(c)
  BY <1>1 DEF Outside
<1>2. TypeOK /\ c \in Pid /\ Proxy \in Asterisk \cup Plain
  BY DEF CallInv, ProxyInv, IInv
<1>3. ASSUME NEW b \in Box, StartClient(c, b) PROVE Aside(c)
  BY <1>2, <1>3, ProcessAside DEF StartClient
<1>4. CASE BeginCall(c) \/ StartEnds(c) \/ TimeOut(c)
  BY <1>4 DEF BeginCall, StartEnds, TimeOut, vars, Gentle, QueuesStay, NothingNew
<1>5. ASSUME NEW st \in Status, NEW id \in Id, PutReq(c, st, id) PROVE Gentle \/ Arrival
  BY <1>2, <1>5, PutReqGentle DEF PutReq, Gentle, Arrival
<1>6. ASSUME NEW st \in Status, NEW started \in BOOLEAN, StartProxy(c, st, started) PROVE Gentle
  BY <1>2, <1>6, StartupGentle DEF StartProxy
<1>7. CASE AwaitReply(c)
  <2>1. Me(c) \notin Child
    BY DEF Me, Child
  <2> QED
    BY <1>7, <2>1 DEF AwaitReply, WaitEvent, Woken, env, store
<1>8. ASSUME NEW st \in Status, NEW data \in Payload, GetReply(c, st, data) PROVE Gentle
  BY <1>2, <1>8, GetRplGentle DEF GetReply
<1>9. CASE EndClient(c)
  BY <1>2, <1>9, ProcessAside DEF EndClient
<1> QED
  BY <1>1, <1>3, <1>4, <1>5, <1>6, <1>7, <1>8, <1>9 DEF ClientNext, CallStep

(* Every step is one of the proxies and the threads that start them, or    *)
(* one of a caller, or changes nothing they look at.                       *)
LEMMA CallView ==
    ASSUME CallInv, [CallNext]_allVars
    PROVE  \/ Machine
           \/ \E x \in Pid \ Server : Outside(x)
           \/ UNCHANGED <<vars, workerVars>>
<1>1. CASE UNCHANGED allVars
  BY <1>1 DEF allVars
<1>2. ASSUME NEW t \in Starter, NotifyStarted(t) PROVE UNCHANGED <<vars, workerVars>>
  BY <1>2 DEF NotifyStarted
<1> QED
  BY <1>1, <1>2, CallCases, ClientView, ConstantFacts

LEMMA OneProxyStep ==
    ASSUME CallInv, OneProxy, [CallNext]_allVars
    PROVE  OneProxy'
<1>1. CASE UNCHANGED <<vars, workerVars>>
  BY <1>1, OwnersStay DEF vars, workerVars, QueuesStay
<1> QED
  BY <1>1, CallView, MachineOneProxy, OutsideOneProxy DEF CallInv

(* However many programs find no proxy at a time, and however their starts *)
(* overlap: a proxy that passed CreateQueueWorker owns the queue as long   *)
(* as it runs, so no second one does.                                      *)
THEOREM ProxyOwnsQueue == CallSpec => []OneProxy
<1>1. CallInit => OneProxy
  BY DEF CallInit, WorkerInit, OneProxy
<1> QED
  BY <1>1, OneProxyStep, CallInductive, PTL DEF CallSpec

LEMMA StallsStep ==
    ASSUME CallInv, Stalls, [CallNext]_allVars
    PROVE  Stalls'
<1>1. CASE UNCHANGED <<vars, workerVars>>
  BY <1>1 DEF vars, workerVars, Stalls, OwnEvent, NoSilentStall, Serving, Found, ServerActive, Waiting,
              QueueEvent, Self
<1> QED
  BY <1>1, CallView, MachineStalls, OutsideStalls DEF CallInv

(* The auto-reset event of a queue is set once per request and consumed by *)
(* any callback.  Still no request waits in the queue of a running proxy   *)
(* with nobody to look at it, unless a callback gave up on an error: for   *)
(* any number of programs, requests and callbacks at a time.               *)
THEOREM WakeUpIsKept == CallSpec => []NoSilentStall
<1>1. CallInit => Stalls
  BY TheProxyQueue DEF CallInit, Init, Stalls, OwnEvent, NoSilentStall, Serving, Found
<1>2. CallSpec => []Stalls
  BY <1>1, StallsStep, CallInductive, PTL DEF CallSpec
<1>3. Stalls => NoSilentStall
  BY DEF Stalls
<1> QED
  BY <1>2, <1>3, PTL

LEMMA JobsStep ==
    ASSUME CallInv, InHand, Apart, [CallNext]_allVars
    PROVE  InHand' /\ Apart'
<1>1. IInv /\ IInv' /\ [Next]_vars
  BY CallInvStep DEF CallInv, ProxyInv
<1>2. CASE UNCHANGED job
  BY <1>1, <1>2, OutsideJobs
<1> QED
  BY <1>2, CallView, MachineJobs DEF CallInv, Outside, workerVars

(* No two callbacks of a proxy run one request, however many the thread    *)
(* pool starts, as long as the ids have not come round.                    *)
THEOREM OneCallbackForEach == CallSpec => []OneCallbackEach
<1>1. CallInit => InHand /\ Apart
  BY DEF CallInit, WorkerInit, IdleJob, InHand, Apart, Busy
<1>2. CallSpec => [](InHand /\ Apart)
  BY <1>1, JobsStep, CallInductive, PTL DEF CallSpec
<1> QED
  BY <1>2, ApartCallbacks, PTL

-----------------------------------------------------------------------------
(* The types                                                               *)

Outcomes ==
    /\ woken \subseteq ThisCall
    /\ outcome \in [ThisCall -> Data \cup {NoData, Failed}]

(* What a step of a caller does to the callers. *)
CallMoves(c) ==
    /\ \A x \in Client : x # c => call'[x] = call[x]
    /\ outcome' = outcome
       \/ \E what \in Data \cup {NoData, Failed} :
             /\ call[c].pc # "idle" /\ call'[c].pc = "idle" /\ call'[c].n = call[c].n
             /\ outcome' = [outcome EXCEPT ![Me(c)] = what]

LEMMA ReturnMoves ==
    ASSUME CallShape, NEW c \in Client, call[c].pc # "idle",
           NEW what \in Data \cup {NoData, Failed}, Return(c, what)
    PROVE  CallMoves(c)
BY DEF CallShape, CallState, Return, CallMoves

LEMMA ClientMoves ==
    ASSUME ProxyInv, CallShape, NEW c \in Client, ClientNext(c)
    PROVE  CallMoves(c) /\ UNCHANGED woken
<1>1. ASSUME NEW pc, Goto(c, pc) PROVE CallMoves(c)
  BY <1>1 DEF Goto, CallMoves, CallShape
<1>2. ASSUME UNCHANGED <<call, outcome>> PROVE CallMoves(c)
  BY <1>2 DEF CallMoves
<1>3. CASE BeginCall(c)
  BY <1>3 DEF BeginCall, CallMoves, CallShape
<1>4. ASSUME NEW st \in Status, NEW id \in Id, PutReq(c, st, id) PROVE CallMoves(c)
  <2>1. CASE st = "SUCCESS"
    BY <1>4, <2>1 DEF PutReq, CallMoves, CallShape
  <2>2. CASE st # "SUCCESS"
    BY <1>1, <1>4, <2>2, ReturnMoves DEF PutReq, In
  <2> QED
    BY <2>1, <2>2
<1>5. ASSUME NEW st \in Status, NEW started \in BOOLEAN, StartProxy(c, st, started) PROVE CallMoves(c)
  BY <1>1, <1>5, ReturnMoves DEF StartProxy, In
<1>6. ASSUME NEW st \in Status, NEW data \in Payload, GetReply(c, st, data) PROVE CallMoves(c)
  BY <1>6, ReturnMoves DEF GetReply, In, Payload
<1>7. CASE TimeOut(c) \/ EndClient(c)
  BY <1>2, <1>7, ReturnMoves DEF TimeOut, EndClient, In
<1>8. CallMoves(c)
  BY <1>1, <1>2, <1>3, <1>4, <1>5, <1>6, <1>7
  DEF ClientNext, CallStep, StartClient, StartEnds, AwaitReply, callVars
<1> QED
  BY <1>8 DEF ClientNext, CallStep, StartClient, BeginCall, PutReq, StartProxy, StartEnds, AwaitReply,
              GetReply, TimeOut, EndClient, callVars

LEMMA OutcomesStep ==
    ASSUME ProxyInv, CallShape, Outcomes, [CallNext]_allVars
    PROVE  Outcomes'
<1>1. ASSUME NEW c \in Client, CallMoves(c), UNCHANGED woken PROVE Outcomes'
  BY <1>1 DEF CallMoves, Outcomes
<1>2. ASSUME NEW t \in Starter, NotifyStarted(t) PROVE Outcomes'
  BY <1>2, ConstantFacts DEF NotifyStarted, Outcomes
<1>3. CASE UNCHANGED callVars
  BY <1>3 DEF callVars, Outcomes
<1> QED
  BY <1>1, <1>2, <1>3, CallCases, ClientMoves DEF allVars

(* What a caller does to the starts, to the list and to the rest.          *)
LEMMA CallerParents ==
    ASSUME CallInv, Parents, Rest, CallNext, ~ Machine
    PROVE  Parents' /\ Rest'
<1>1. [Next]_vars /\ TypeOK /\ ProxyShape
  BY CallInvStep DEF CallInv, ProxyInv, IInv
<1>2. UNCHANGED <<listed, corrupt, ready, reported>>
  BY CallCases
  DEF NotifyStarted, ClientNext, CallStep, StartClient, BeginCall, PutReq, StartProxy, StartEnds, AwaitReply,
      GetReply, TimeOut, EndClient, BeginStart, startVars, workerVars
<1>3. UNCHANGED starter \/ \E t \in Starter, u \in {IdleStarter, [IdleStarter EXCEPT !.pc = "first"]} :
          starter' = [starter EXCEPT ![t] = u]
  <2>1. ASSUME NEW c \in Client, NEW st, NEW started, StartProxy(c, st, started)
        PROVE  UNCHANGED starter \/ \E t \in Starter :
                   starter' = [starter EXCEPT ![t] = [IdleStarter EXCEPT !.pc = "first"]]
    BY <2>1, MyCall, ConstantFacts DEF StartProxy, BeginStart, startVars, In, CallInv
  <2> QED
    BY <2>1, CallCases
    DEF NotifyStarted, ClientNext, CallStep, StartClient, BeginCall, PutReq, StartEnds, AwaitReply,
        GetReply, TimeOut, EndClient, startVars
<1>4. \A t \in Starter : starter'[t].pc = "wait" =>
          starter[t].pc = "wait" /\ starter'[t].child = starter[t].child
  <2>1. \A u \in {IdleStarter, [IdleStarter EXCEPT !.pc = "first"]} : u.pc # "wait"
    BY DEF IdleStarter
  <2>2. starter \in [Starter -> StarterState]
    BY <1>1 DEF ProxyShape, StartShape
  <2> QED
    BY <1>3, <2>1, <2>2
<1>5. Parents'
  BY <1>1, <1>2, <1>4, ParentsStay DEF Parents, ListedOnce
<1> QED
  BY <1>2, <1>5 DEF Rest

-----------------------------------------------------------------------------
(* A call and its request                                                  *)

(* The calls a program has yet to make are unknown to the proxy, and so is *)
(* a call that has not put its request; the id of a call that waits leads  *)
(* to its own request only; and a call that goes on has no outcome.        *)
Future(c) ==
    \A d \in ThisCall : d[1] = c /\ d[2] > call[c].n => Untouched(d) /\ outcome[d] = NoData

Present(c) ==
    call[c].pc # "idle" =>
        /\ outcome[Me(c)] = NoData
        /\ call[c].pc \notin {"wait", "collect"} => Untouched(Me(c))
        /\ call[c].pc \in {"wait", "collect"} =>
              /\ call[c].id <= issued + 1
              /\ \A r \in requests : r.id = call[c].id => r.data = Me(c)

OwnCall(c) == Future(c) /\ Present(c)

(* A step that does not concern the caller. *)
LEMMA OthersCall ==
    ASSUME CallShape, NEW c \in Client, OwnCall(c), call'[c] = call[c],
           \A d \in ThisCall : d[1] = c => outcome'[d] = outcome[d] /\ (Untouched(d) => Untouched(d)'),
           issued \in Nat, issued' \in Nat, issued <= issued',
           \A r \in requests' : Descends(r) \/ r.id > issued + 1
    PROVE  OwnCall(c)'
<1>1. call'[c].n = call[c].n /\ call'[c].pc = call[c].pc /\ call'[c].id = call[c].id /\ call[c].id \in Nat
  BY ServerFacts DEF CallShape, CallState
<1>2. Future(c)'
  BY <1>1 DEF OwnCall, Future
<1>3. ASSUME call[c].pc # "idle" PROVE Me(c) \in ThisCall /\ Me(c)[1] = c /\ Me(c)' = Me(c)
  BY <1>1, <1>3, MyCall DEF Me
<1>4. ASSUME call[c].id <= issued + 1, NEW r \in requests', r.id = call[c].id
      PROVE  \E x \in requests : x.id = r.id /\ x.data = r.data
  BY <1>1, <1>4 DEF Descends
<1>5. call[c].id <= issued + 1 => call[c].id <= issued' + 1
  BY <1>1, StaysBelow
<1>6. Present(c)'
  <2> SUFFICES ASSUME call[c].pc # "idle"
      PROVE  /\ outcome'[Me(c)] = NoData
             /\ call[c].pc \notin {"wait", "collect"} => Untouched(Me(c))'
             /\ call[c].pc \in {"wait", "collect"} =>
                   /\ call[c].id <= issued' + 1
                   /\ \A r \in requests' : r.id = call[c].id => r.data = Me(c)
    BY <1>1, <1>3 DEF Present
  <2>1. outcome'[Me(c)] = NoData
    BY <1>3 DEF OwnCall, Present
  <2>2. PICK d \in ThisCall : d = Me(c)
    BY <1>3
  <2>3. d[1] = c /\ (Untouched(d) => Untouched(d)')
    BY <1>3, <2>2
  <2>4. call[c].pc \notin {"wait", "collect"} => Untouched(d)'
    BY <2>2, <2>3 DEF OwnCall, Present
  <2>5. d = Me(c)'
    BY <1>3, <2>2
  <2> QED
    BY <1>1, <1>4, <1>5, <2>1, <2>2, <2>4, <2>5 DEF OwnCall, Present
<1> QED
  BY <1>2, <1>6 DEF OwnCall

(* A step of the caller that puts no request. *)
LEMMA OwnStays ==
    ASSUME CallShape, CallShape', Outcomes, NEW c \in Client, OwnCall(c), CallMoves(c), Kept,
           issued \in Nat, issued' \in Nat, issued <= issued',
           \/ call[c].pc = "idle" /\ call'[c].pc = "put" /\ call'[c].n = call[c].n + 1
           \/ /\ call[c].pc \notin {"idle", "wait", "collect"}
              /\ call'[c].pc \notin {"idle", "wait", "collect"}
              /\ call'[c].n = call[c].n
           \/ /\ call[c].pc = "wait" /\ call'[c].pc = "collect"
              /\ call'[c].n = call[c].n /\ call'[c].id = call[c].id
           \/ call'[c].pc = "idle" /\ call'[c].n = call[c].n
    PROVE  OwnCall(c)'
<1>1. /\ call[c].n \in Nat /\ call'[c].n \in Nat /\ call[c].n <= call'[c].n /\ call[c].id \in Nat
      /\ call[c].n \in 0 .. MaxCalls
  <2>1. call[c].n \in Nat /\ call'[c].n \in Nat /\ call[c].id \in Nat /\ call[c].n \in 0 .. MaxCalls
    BY ConstantFacts DEF CallShape, CallState
  <2> QED
    BY <2>1
<1>2. ASSUME NEW d \in ThisCall, d[1] = c, outcome'[d] # outcome[d]
      PROVE  call[c].pc # "idle" /\ call'[c].pc = "idle" /\ d[2] = call[c].n /\ call'[c].n = call[c].n
  <2>1. PICK what : outcome' = [outcome EXCEPT ![Me(c)] = what]
    BY <1>2 DEF CallMoves
  <2>2. d = Me(c)
    BY <1>2, <2>1 DEF Outcomes
  <2> QED
    BY <1>2, <2>2 DEF CallMoves, Me
<1>3. Future(c)'
  <2> SUFFICES ASSUME NEW d \in ThisCall, d[1] = c, d[2] > call'[c].n
               PROVE  Untouched(d)' /\ outcome'[d] = NoData
    BY DEF Future
  <2>1. d \in Data /\ d[2] \in Nat
    BY ConstantFacts DEF ThisCall
  <2>2. d[2] > call[c].n
    BY <1>1, <2>1
  <2>3. outcome'[d] = outcome[d]
    BY <1>1, <1>2, <2>1, <2>2
  <2> QED
    BY <2>1, <2>2, <2>3 DEF OwnCall, Future, Kept
<1>4. CASE call'[c].pc = "idle"
  BY <1>3, <1>4 DEF OwnCall, Present
<1>5. CASE call'[c].pc # "idle"
  <2>1. outcome' = outcome
    BY <1>5 DEF CallMoves
  <2>2. call'[c].n # 0
    BY <1>5 DEF CallShape
  <2>3. call'[c].n \in 1 .. MaxCalls
    BY <1>1, <2>2, ConstantFacts DEF CallShape, CallState
  <2>4. PICK d \in ThisCall : d = <<c, call'[c].n>> /\ d = Me(c)'
    BY <2>3 DEF Me, ThisCall
  <2>5. d \in Data /\ d[1] = c /\ d[2] = call'[c].n
    BY <2>4, ConstantFacts
  <2>6. CASE call[c].pc = "idle"
    <3>1. Untouched(d) /\ outcome[d] = NoData /\ call'[c].pc = "put"
      <4>1. call'[c].n = call[c].n + 1 /\ call'[c].pc = "put"
        BY <1>5, <2>6
      <4>2. d[2] > call[c].n
        BY <1>1, <2>5, <4>1
      <4> QED
        BY <2>5, <4>1, <4>2 DEF OwnCall, Future
    <3>2. Untouched(d)'
      BY <2>5, <3>1 DEF Kept
    <3> QED
      BY <1>3, <2>1, <2>4, <3>1, <3>2 DEF OwnCall, Present
  <2>7. CASE call[c].pc # "idle"
    <3>1. call'[c].n = call[c].n /\ d = Me(c)
      BY <1>5, <2>4, <2>7 DEF Me
    <3>2. outcome'[d] = NoData
      BY <2>1, <2>7, <3>1 DEF OwnCall, Present
    <3>3. CASE call'[c].pc \notin {"wait", "collect"}
      <4>1. call[c].pc \notin {"wait", "collect"}
        BY <1>5, <2>7, <3>3
      <4>2. Untouched(d)'
        BY <2>5, <2>7, <3>1, <4>1 DEF OwnCall, Present, Kept
      <4> QED
        BY <1>3, <2>4, <3>2, <3>3, <4>2 DEF OwnCall, Present
    <3>4. CASE call'[c].pc \in {"wait", "collect"}
      <4>1. call[c].pc = "wait" /\ call'[c].id = call[c].id
        BY <2>7, <3>4
      <4>2. call[c].id <= issued' + 1
        BY <1>1, <4>1, StaysBelow DEF OwnCall, Present
      <4>3. \A r \in requests' : r.id = call[c].id => r.data = d
        BY <3>1, <4>1 DEF OwnCall, Present, Kept, Descends
      <4> QED
        BY <1>3, <2>4, <3>2, <3>4, <4>1, <4>2, <4>3 DEF OwnCall, Present
    <3> QED
      BY <3>3, <3>4
  <2> QED
    BY <2>6, <2>7
<1> QED
  BY <1>4, <1>5

(* A reply is the payload of the request it was put for.                   *)
LEMMA ReplyToMe ==
    ASSUME ProxyInv, CallShape, Tasks, NEW c \in Client, OwnCall(c), NEW data, GetReply(c, "SUCCESS", data)
    PROVE  data = Me(c) /\ ran[data] = 1
<1>1. PICK r \in requests : r.id = call[c].id /\ r.rpl # NoData /\ data = r.rpl
  BY DEF GetReply, GetRplHandler, NotNamed, NotFound, Refused, First, WithId
<1>2. r.data = Me(c)
  BY <1>1 DEF OwnCall, Present, GetReply, In
<1> QED
  BY <1>1, <1>2 DEF Tasks, Answers

-----------------------------------------------------------------------------
(* The steps of RemoteCall                                                 *)

OwnCalls == \A c \in Client : OwnCall(c)

Asked == {d \in ThisCall : call[d[1]].n >= d[2]}

remote == <<Asked, ran, outcome>>

LEMMA AskedStays ==
    ASSUME \A c \in Client : call'[c].n = call[c].n
    PROVE  UNCHANGED Asked
BY DEF Asked, ThisCall

Begins(c) ==
    /\ call[c].pc = "idle" /\ call'[c].pc = "put" /\ call'[c].n = call[c].n + 1
    /\ outcome' = outcome

GoesOn(c) ==
    /\ call'[c].n = call[c].n
    /\ outcome' = outcome
    /\ \/ call[c].pc \notin {"idle", "wait", "collect"} /\ call'[c].pc \notin {"idle", "wait", "collect"}
       \/ call[c].pc = "wait" /\ call'[c].pc = "collect" /\ call'[c].id = call[c].id

Returns(c) ==
    /\ call[c].pc # "idle" /\ call'[c].pc = "idle" /\ call'[c].n = call[c].n
    /\ \E what : /\ outcome' = [outcome EXCEPT ![Me(c)] = what]
                 /\ what = Failed \/ (what = Me(c) /\ ran[what] = 1)

(* A caller that gets his request into the queue. *)
Puts(c) == \E id \in Id : PutReq(c, "SUCCESS", id)

LEMMA ReturnReturns ==
    ASSUME CallShape, NEW c \in Client, call[c].pc # "idle", NEW what, Return(c, what),
           what = Failed \/ (what = Me(c) /\ ran[what] = 1)
    PROVE  Returns(c)
BY DEF CallShape, CallState, Return, Returns

LEMMA CallerCases ==
    ASSUME ProxyInv, CallShape, Tasks, NEW c \in Client, OwnCall(c), ClientNext(c), ~ Puts(c)
    PROVE  \/ Begins(c) \/ GoesOn(c) \/ Returns(c)
           \/ UNCHANGED <<call, outcome>>
<1>1. ASSUME NEW pc \in {"startup", "starting", "retry", "collect"}, Goto(c, pc),
             IF pc = "collect" THEN call[c].pc = "wait" ELSE call[c].pc \in {"put", "startup", "starting"}
      PROVE  GoesOn(c)
  BY <1>1 DEF Goto, GoesOn, CallShape, CallState
<1>2. CASE BeginCall(c)
  <2>1. call' = [call EXCEPT ![c] = [pc |-> "put", n |-> call[c].n + 1, id |-> 0]]
        /\ outcome' = outcome /\ call[c].pc = "idle"
    BY <1>2 DEF BeginCall, In
  <2>2. call'[c] = [pc |-> "put", n |-> call[c].n + 1, id |-> 0]
    BY <2>1 DEF CallShape
  <2> QED
    BY <2>1, <2>2 DEF Begins
<1>3. ASSUME NEW st \in Status, NEW id \in Id, PutReq(c, st, id) PROVE GoesOn(c) \/ Returns(c)
  <2>1. st # "SUCCESS"
    BY <1>3 DEF Puts
  <2> QED
    BY <1>1, <1>3, <2>1, ReturnReturns DEF PutReq, In
<1>4. ASSUME NEW st \in Status, NEW started \in BOOLEAN, StartProxy(c, st, started)
      PROVE  GoesOn(c) \/ Returns(c)
  BY <1>1, <1>4, ReturnReturns DEF StartProxy, In
<1>5. CASE StartEnds(c) \/ AwaitReply(c)
  BY <1>1, <1>5 DEF StartEnds, AwaitReply, In
<1>6. ASSUME NEW st \in Status, NEW data \in Payload, GetReply(c, st, data) PROVE Returns(c)
  <2>1. CASE st = "SUCCESS"
    BY <1>6, <2>1, ReplyToMe, ReturnReturns DEF GetReply, In
  <2>2. CASE st # "SUCCESS"
    BY <1>6, <2>2, ReturnReturns DEF GetReply, In
  <2> QED
    BY <2>1, <2>2
<1>7. CASE TimeOut(c) \/ EndClient(c)
  BY <1>7, ReturnReturns DEF TimeOut, EndClient, In
<1> QED
  BY <1>2, <1>3, <1>4, <1>5, <1>6, <1>7 DEF ClientNext, CallStep, StartClient, callVars

(* Only a request that is put adds to the requests. *)
LEMMA ClientQuietly ==
    ASSUME NEW c \in Client, ClientNext(c), ~ \E st \in Status, id \in Id : PutReq(c, st, id)
    PROVE  requests' \subseteq requests /\ UNCHANGED issued
<1> DEFINE Fewer == requests' \subseteq requests /\ UNCHANGED issued
<1>1. ASSUME NEW r, DeleteRequestObj(r), UNCHANGED counters PROVE Fewer
  BY <1>1 DEF DeleteRequestObj, counters
<1>2. ASSUME UNCHANGED <<store, counters>> PROVE Fewer
  BY <1>2 DEF store, counters
<1>3. ASSUME NEW p, NEW st, NotFound(p, Proxy, st) PROVE Fewer
  BY <1>3 DEF NotFound, DeleteQueueObj, counters
<1>4. ASSUME NEW b, StartProcess(c, b) PROVE Fewer
  BY <1>2, <1>4 DEF StartProcess
<1>5. ASSUME NEW st \in Status, NEW data \in Payload, GetReply(c, st, data) PROVE Fewer
  BY <1>1, <1>2, <1>3, <1>5 DEF GetReply, GetRplHandler, NotNamed, Refused
<1>6. ASSUME NEW st \in Status, NEW started \in BOOLEAN, StartProxy(c, st, started) PROVE Fewer
  BY <1>6
  DEF StartProxy, StartupHandler, NotNamed, Refused, DeleteQueueObj, store, counters
<1>7. CASE BeginCall(c) \/ StartEnds(c) \/ TimeOut(c) \/ AwaitReply(c) \/ EndClient(c)
  BY <1>2, <1>7 DEF BeginCall, StartEnds, TimeOut, AwaitReply, EndClient, WaitEvent, ExitProcess, vars, store,
                    counters
<1> QED
  BY <1>4, <1>5, <1>6, <1>7 DEF ClientNext, CallStep, StartClient

LEMMA ClientKeeps ==
    ASSUME CallInv, InHand, Tasks, NEW c \in Client, OwnCall(c), ClientNext(c), ~ Puts(c)
    PROVE  Tasks' /\ Kept
<1> USE ConstantFacts
<1>1. UNCHANGED workerVars
  BY DEF ClientNext, CallStep, StartClient, BeginCall, PutReq, StartProxy, StartEnds, AwaitReply,
         GetReply, TimeOut, EndClient
<1>2. ASSUME NEW st \in Status, NEW id \in Id, PutReq(c, st, id) PROVE Tasks' /\ Kept
  <2>1. st # "SUCCESS" /\ call[c].pc \in {"put", "retry"}
    BY <1>2 DEF Puts, PutReq, In
  <2>2. Me(c) \in Data /\ Me(c) \in Handle /\ c \in Pid /\ Proxy \in Asterisk \cup Plain
    BY <2>1, MyCall DEF CallInv, Handle
  <2>3. Untouched(Me(c))
    BY <2>1 DEF OwnCall, Present
  <2>4. PutReqHandler(c, Proxy, Me(c), Me(c), st, id)
    BY <1>2 DEF PutReq
  <2> QED
    BY <1>1, <2>1, <2>2, <2>3, <2>4, PutTasks DEF CallInv
<1>3. CASE requests' \subseteq requests /\ UNCHANGED issued
  BY <1>1, <1>3, QuietTasks DEF CallInv, workerVars
<1> QED
  BY <1>2, <1>3, ClientQuietly

LEMMA BeginAsks ==
    ASSUME CallShape, CallShape', NEW c \in Client, Begins(c), UNCHANGED ran,
           \A x \in Client : x # c => call'[x] = call[x]
    PROVE  Remote!Next
<1>1. /\ call[c].n \in Nat /\ call'[c].n = call[c].n + 1 /\ call'[c].n \in 1 .. MaxCalls
      /\ outcome' = outcome
  <2>1. call[c].n \in Nat /\ call'[c].n \in 0 .. MaxCalls /\ call'[c].n = call[c].n + 1 /\ outcome' = outcome
    BY ConstantFacts DEF CallShape, CallState, Begins
  <2> QED
    BY <2>1, ConstantFacts
<1>2. PICK d \in ThisCall : d = <<c, call'[c].n>>
  BY <1>1 DEF ThisCall
<1>3. d[1] = c /\ d[2] = call[c].n + 1
  BY <1>1, <1>2
<1>4. d \notin Asked
  BY <1>1, <1>3 DEF Asked
<1>5. Asked' = Asked \cup {d}
  <2>1. ASSUME NEW x \in ThisCall PROVE x \in Asked' <=> x \in Asked \/ x = d
    <3>1. x[1] \in Client /\ x[2] \in Nat /\ x = <<x[1], x[2]>>
      BY DEF ThisCall
    <3>2. CASE x[1] # c
      BY <1>3, <3>1, <3>2 DEF Asked
    <3>3. CASE x[1] = c
      <4>1. x = d <=> x[2] = call[c].n + 1
        BY <1>1, <1>2, <3>1, <3>3
      <4>2. call'[c].n >= x[2] <=> call[c].n >= x[2] \/ x[2] = call[c].n + 1
        BY <1>1, <3>1
      <4> QED
        BY <3>3, <4>1, <4>2 DEF Asked
    <3> QED
      BY <3>2, <3>3
  <2> QED
    BY <1>2, <2>1 DEF Asked
<1> QED
  BY <1>1, <1>4, <1>5 DEF Remote!Next, Remote!Ask, Asked

LEMMA ReturnEnds ==
    ASSUME CallShape, NEW c \in Client, OwnCall(c), Returns(c), UNCHANGED <<ran, Asked>>
    PROVE  Remote!Next
<1>1. PICK what : /\ outcome' = [outcome EXCEPT ![Me(c)] = what]
                  /\ what = Failed \/ (what = Me(c) /\ ran[what] = 1)
  BY DEF Returns
<1>2. PICK d \in ThisCall : d = Me(c)
  BY MyCall DEF Returns
<1>3. d \in Asked
  <2>1. d[1] = c /\ d[2] = call[c].n
    BY <1>2 DEF Me
  <2>2. call[c].n \in Nat
    BY ConstantFacts DEF CallShape, CallState
  <2> QED
    BY <2>1, <2>2 DEF Asked
<1>4. outcome[d] = NoData
  BY <1>2 DEF OwnCall, Present, Returns
<1>5. CASE what = Failed
  BY <1>1, <1>2, <1>3, <1>4, <1>5 DEF Remote!Next, Remote!Fail, Asked
<1>6. CASE what = d /\ ran[d] = 1
  BY <1>1, <1>2, <1>3, <1>4, <1>6 DEF Remote!Next, Remote!Return, Asked
<1> QED
  BY <1>1, <1>2, <1>5, <1>6

LEMMA RunDoes ==
    ASSUME CallShape, OwnCalls, NEW d \in Data, ran[d] = 0, ~ Untouched(d), ran' = [ran EXCEPT ![d] = 1],
           UNCHANGED <<Asked, outcome>>
    PROVE  Remote!Next
<1>1. d \in ThisCall /\ d[1] \in Client /\ d[2] \in Nat
  BY ConstantFacts DEF ThisCall
<1>2. call[d[1]].n \in Nat
  BY <1>1, ConstantFacts DEF CallShape, CallState
<1>3. d \in Asked
  BY <1>1, <1>2 DEF Asked, OwnCalls, OwnCall, Future
<1> QED
  BY <1>1, <1>3 DEF Remote!Next, Remote!Do, Asked

-----------------------------------------------------------------------------
(* Each step                                                               *)

Served == InHand /\ Apart /\ Tasks /\ OwnCalls /\ Outcomes

LEMMA MachineServes ==
    ASSUME CallInv, CallInv', Served, Machine, UNCHANGED callVars
    PROVE  Tasks' /\ OwnCalls' /\ (Remote!Next \/ UNCHANGED remote)
<1> USE DEF Served
<1>1. Tasks' /\ Kept /\ UNCHANGED <<call, outcome>>
  BY MachineTasks DEF CallInv, callVars
<1>2. issued \in Nat /\ issued' \in Nat /\ issued <= issued'
  BY IdsStep, MachineUsesQueue, IdAssumption DEF CallInv, ProxyInv, IInv, TypeOK, IdsStay
<1>3. OwnCalls'
  BY <1>1, <1>2, OthersCall, ConstantFacts DEF OwnCalls, CallInv, Kept
<1>4. UNCHANGED Asked
  BY <1>1, AskedStays
<1>5. Remote!Next \/ UNCHANGED remote
  BY <1>1, <1>4, MachineRuns, RunDoes DEF remote, CallInv
<1> QED
  BY <1>1, <1>3, <1>5

LEMMA ClientServes ==
    ASSUME CallInv, CallInv', Served, NEW c \in Client, ClientNext(c), ~ Puts(c)
    PROVE  Tasks' /\ OwnCalls' /\ (Remote!Next \/ UNCHANGED remote)
<1> USE DEF Served
<1>0. CallShape /\ CallShape' /\ ProxyInv /\ OwnCall(c)
  BY DEF CallInv, OwnCalls
<1>1. Tasks' /\ Kept
  BY <1>0, ClientKeeps
<1>2. issued \in Nat /\ issued' \in Nat /\ issued <= issued'
  BY IdsStep, ClientUsesQueue, IdAssumption DEF CallInv, ProxyInv, IInv, TypeOK, IdsStay
<1>3. CallMoves(c)
  BY <1>0, ClientMoves
<1>4. UNCHANGED ran
  BY DEF ClientNext, CallStep, StartClient, BeginCall, PutReq, StartProxy, StartEnds, AwaitReply,
         GetReply, TimeOut, EndClient, workerVars
<1>5. ASSUME NEW x \in Client, x # c PROVE OwnCall(x)'
  <2>1. call'[x] = call[x] /\ \A d \in ThisCall : d[1] = x => outcome'[d] = outcome[d]
    BY <1>3, <1>5 DEF CallMoves, Me, Outcomes
  <2> QED
    BY <1>0, <1>1, <1>2, <2>1, OthersCall, ConstantFacts DEF OwnCalls, Kept
<1>6. CASE UNCHANGED <<call, outcome>>
  <2>1. OwnCall(c)'
    BY <1>0, <1>1, <1>2, <1>6, OthersCall, ConstantFacts DEF OwnCalls, Kept
  <2> QED
    BY <1>1, <1>4, <1>5, <1>6, <2>1, AskedStays DEF OwnCalls, remote
<1>7. CASE Begins(c)
  <2>1. OwnCall(c)'
    BY <1>0, <1>1, <1>2, <1>3, <1>7, OwnStays DEF Begins
  <2> QED
    BY <1>0, <1>1, <1>3, <1>4, <1>5, <1>7, <2>1, BeginAsks DEF OwnCalls, CallMoves
<1>8. CASE GoesOn(c)
  <2>1. OwnCall(c)'
    BY <1>0, <1>1, <1>2, <1>3, <1>8, OwnStays DEF GoesOn
  <2>2. UNCHANGED Asked
    BY <1>3, <1>8, AskedStays DEF GoesOn, CallMoves
  <2> QED
    BY <1>1, <1>4, <1>5, <1>8, <2>1, <2>2 DEF OwnCalls, remote, GoesOn
<1>9. CASE Returns(c)
  <2>1. OwnCall(c)'
    BY <1>0, <1>1, <1>2, <1>3, <1>9, OwnStays DEF Returns
  <2>2. UNCHANGED Asked
    BY <1>3, <1>9, AskedStays DEF Returns, CallMoves
  <2> QED
    BY <1>0, <1>1, <1>4, <1>5, <1>9, <2>1, <2>2, ReturnEnds DEF OwnCalls
<1> QED
  BY <1>0, <1>6, <1>7, <1>8, <1>9, CallerCases

LEMMA PutServes ==
    ASSUME CallInv, CallInv', Served, NEW c \in Client, Puts(c)
    PROVE  Tasks' /\ OwnCalls' /\ UNCHANGED remote
<1> USE ConstantFacts DEF Served
<1>0. CallShape /\ CallShape' /\ ProxyInv /\ OwnCall(c)
  BY DEF CallInv, OwnCalls
<1>1. PICK id \in Id : PutReq(c, "SUCCESS", id)
  BY DEF Puts
<1>2. /\ call[c].pc \in {"put", "retry"} /\ UNCHANGED <<workerVars, outcome>>
      /\ PutReqHandler(c, Proxy, Me(c), Me(c), "SUCCESS", id)
      /\ call' = [call EXCEPT ![c].pc = "wait", ![c].id = id]
  BY <1>1 DEF PutReq, In
<1>3. PICK d \in ThisCall : d = Me(c)
  BY <1>0, <1>2, MyCall
<1>4. /\ call'[c].pc = "wait" /\ call'[c].id = id /\ call'[c].n = call[c].n
      /\ \A x \in Client : x # c => call'[x] = call[x]
  BY <1>0, <1>2 DEF CallShape, CallState
<1>5. Untouched(d) /\ outcome[d] = NoData
  BY <1>2, <1>3 DEF OwnCalls, OwnCall, Present
<1>6. Tasks' /\ Put(c, d, d, id)
  BY <1>0, <1>2, <1>3, <1>5, PutTasks DEF Handle
<1>7. PICK r : r.data = d /\ r.id = id /\ requests' = requests \cup {r}
  BY <1>6 DEF Put
<1>8. id = issued + 2 /\ issued' = issued + 1 /\ issued \in Nat /\ \A x \in requests : x.id <= issued + 1
  <2>1. id = issued + 2 /\ issued' = issued + 1 /\ issued \in Nat
    BY <1>6, IdAssumption DEF Put, CallInv, ProxyInv, IInv, TypeOK
  <2>2. \A x \in requests : x.id = x.turn + 1 /\ x.turn <= issued /\ x.turn \in Nat
    BY IdAssumption DEF CallInv, ProxyInv, IInv, TypeOK, Counting, Turns, Request
  <2> QED
    BY <2>1, <2>2
<1>9. ASSUME NEW x \in Client, x # c PROVE OwnCall(x)'
  <2>1. \A e \in ThisCall : e[1] = x => outcome'[e] = outcome[e] /\ (Untouched(e) => Untouched(e)')
    BY <1>2, <1>3, <1>6, <1>9 DEF Put, Me
  <2>2. \A y \in requests' : Descends(y) \/ y.id > issued + 1
    <3>1. id > issued + 1
      BY <1>8
    <3> QED
      BY <1>7, <3>1 DEF Descends
  <2>3. issued' \in Nat /\ issued <= issued'
    BY <1>8
  <2> QED
    BY <1>0, <1>4, <1>8, <1>9, <2>1, <2>2, <2>3, OthersCall DEF OwnCalls
<1>10. OwnCall(c)'
  <2>1. Future(c)'
    <3> SUFFICES ASSUME NEW e \in ThisCall, e[1] = c, e[2] > call[c].n
                 PROVE  Untouched(e)' /\ outcome[e] = NoData
      BY <1>2, <1>4 DEF Future
    <3>1. e # d
      <4>1. call[c].n \in Nat
        BY <1>0 DEF CallShape, CallState
      <4> QED
        BY <1>3, <4>1 DEF Me
    <3> QED
      BY <1>6, <3>1 DEF OwnCalls, OwnCall, Future, Put
  <2>2. Me(c)' = d
    BY <1>3, <1>4 DEF Me
  <2>3. id <= issued' + 1 /\ \A x \in requests : x.id # id
    BY <1>8
  <2>4. Present(c)'
    BY <1>2, <1>4, <1>5, <1>7, <2>2, <2>3 DEF Present
  <2> QED
    BY <2>1, <2>4 DEF OwnCall
<1>11. UNCHANGED Asked
  BY <1>4, AskedStays
<1> QED
  BY <1>2, <1>6, <1>9, <1>10, <1>11 DEF OwnCalls, remote, workerVars

LEMMA ServedStep ==
    ASSUME CallInv, Served, [CallNext]_allVars
    PROVE  Served' /\ [Remote!Next]_remote
<1> USE DEF Served
<1>1. CallInv'
  BY CallInvStep
<1>2. InHand' /\ Apart' /\ Outcomes'
  BY JobsStep, OutcomesStep DEF CallInv
<1>3. CASE UNCHANGED <<vars, workerVars, call, outcome>>
  <2>1. Tasks' /\ Kept /\ issued' = issued
    BY <1>3, QuietTasks DEF CallInv, vars, workerVars
  <2>2. issued \in Nat /\ issued' \in Nat /\ issued <= issued'
    BY <2>1, IdAssumption DEF CallInv, ProxyInv, IInv, TypeOK
  <2>3. OwnCalls'
    BY <1>3, <2>1, <2>2, OthersCall, ConstantFacts DEF OwnCalls, CallInv, Kept
  <2>4. UNCHANGED remote
    BY <1>3, AskedStays DEF remote, workerVars
  <2> QED
    BY <1>2, <2>1, <2>3, <2>4
<1>4. ASSUME NEW t \in Starter, NotifyStarted(t) PROVE UNCHANGED <<vars, workerVars, call, outcome>>
  BY <1>4 DEF NotifyStarted
<1>5. CASE UNCHANGED allVars
  BY <1>3, <1>5 DEF allVars, callVars
<1>6. ASSUME NEW c \in Client, ClientNext(c) PROVE Served' /\ [Remote!Next]_remote
  BY <1>1, <1>2, <1>6, ClientServes, PutServes
<1>7. CASE Machine /\ UNCHANGED callVars
  BY <1>1, <1>2, <1>7, MachineServes
<1> QED
  BY <1>3, <1>4, <1>5, <1>6, <1>7, CallCases

LEMMA ServedInit == CallInit => Served /\ Remote!Init
<1> SUFFICES ASSUME CallInit PROVE Served /\ Remote!Init
  OBVIOUS
<1>1. InHand /\ Apart /\ Tasks /\ \A d \in Data : Untouched(d)
  BY TasksInit DEF CallInit
<1>2. /\ \A c \in Client : call[c].pc = "idle" /\ call[c].n = 0
      /\ outcome = [d \in ThisCall |-> NoData] /\ woken = {}
  BY DEF CallInit
<1>3. OwnCalls
  BY <1>1, <1>2, ConstantFacts DEF OwnCalls, OwnCall, Future, Present
<1>4. Outcomes
  BY <1>2, ConstantFacts DEF Outcomes
<1>5. Asked = {}
  BY <1>2, ConstantFacts DEF Asked, ThisCall
<1>6. Remote!Init
  BY <1>2, <1>5, ConstantFacts DEF Remote!Init, CallInit, WorkerInit, Asked
<1> QED
  BY <1>1, <1>3, <1>4, <1>6 DEF Served

LEMMA ServedInductive == CallSpec => []Served
BY ServedInit, ServedStep, CallInductive, PTL DEF CallSpec

(* SbieDll_CallProxySvr implements RemoteCall: whatever a call asked for   *)
(* is done at most once although the call may put it twice, and an answer  *)
(* is the answer to this call and comes after it was done, for any number  *)
(* of programs, proxies, callbacks, crashes and starts.                    *)
THEOREM CallsProxyOnce == CallSpec => RemoteSpec
BY ServedInit, ServedStep, CallInductive, ServedInductive, PTL
DEF CallSpec, RemoteSpec, Remote!Spec, remote, Asked

(* The types of the composition, with the list of proxies that holds no    *)
(* process twice: a start puts into it the one child it waits for.         *)
THEOREM CallsTypeCorrect == CallSpec => []CallTypeOK
<1>1. CallInit => Parents /\ Rest
  BY ParentsInit, RestInit DEF CallInit
<1>2. ASSUME CallInv, Parents, Rest, [CallNext]_allVars PROVE Parents' /\ Rest'
  <2>1. CASE Machine
    BY <1>2, <2>1, CallInvStep, MachineParents, MachineRest DEF CallInv, ProxyInv, IInv
  <2>2. CASE UNCHANGED allVars
    BY <1>2, <2>2 DEF allVars, vars, workerVars, startVars, Parents, ListedOnce, OwnChild, Past, At, Rest
  <2> QED
    BY <1>2, <2>1, <2>2, CallerParents
<1>3. CallSpec => [](Parents /\ Rest)
  BY <1>1, <1>2, CallInductive, PTL DEF CallSpec
<1>4. CallInv /\ Served /\ Parents /\ Rest => CallTypeOK
  BY TypesOfProxies DEF CallTypeOK, CallInv, CallShape, Served, Outcomes
<1> QED
  BY <1>3, <1>4, CallInductive, ServedInductive, PTL
=============================================================================
