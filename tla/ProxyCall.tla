----------------------------- MODULE ProxyCall ------------------------------
(***************************************************************************)
(* A sandboxed program calls the proxy of its session                      *)
(* (SbieDll_CallProxySvr in core/dll/callsvc.c): it puts a request into    *)
(* the queue of the proxy, waits for the event of the request, and gets    *)
(* the reply.  When there is no queue, the program asks the service to     *)
(* start the proxy, waits, and tries once more.                            *)
(*                                                                         *)
(* This module composes the callers with the starting threads of the       *)
(* service (ProxyStart), the proxies (QueueWorker) and the queue service   *)
(* (QueueServer).                                                          *)
(***************************************************************************)
EXTENDS ProxyStart

CONSTANTS
    Client,     (* pids of sandboxed programs, one calling thread each     *)
    MaxCalls,   (* bound: calls a program makes                            *)
    Impatient,  (* the clients whose waits may time out                    *)
    Failed      (* the outcome of a call that failed                       *)

(* Every call creates event objects of its own, and is its own payload.    *)
ThisCall == Client \X (1 .. MaxCalls)

ASSUME ClientAssumption ==
    /\ Client \subseteq Pid /\ Client \cap Server = {}
    /\ MaxCalls \in Nat /\ MaxStarts > 0
    /\ ThisCall = Data /\ ThisCall \subseteq Event /\ Starter = ThisCall
    /\ Failed \notin Data /\ Failed # NoData

VARIABLES
    call,       (* where the calling thread of each client is              *)
    woken,      (* the calls whose start-up event is signalled             *)
    outcome     (* what each call returned                                 *)

callVars == <<call, woken, outcome>>
allVars  == <<vars, workerVars, startVars, callVars>>

CallState == [pc : {"idle", "put", "startup", "starting", "retry", "wait", "collect"},
              n : 0 .. MaxCalls, id : 0 .. IdMod - 1]

CallTypeOK ==
    /\ TypeOK /\ WorkerTypeOK /\ StartTypeOK
    /\ call \in [Client -> CallState]
    /\ woken \subseteq ThisCall
    /\ outcome \in [ThisCall -> Data \cup {NoData, Failed}]

Me(c)   == <<c, call[c].n>>
In(c, pc) == call[c].pc = pc

Goto(c, pc) ==
    /\ call' = [call EXCEPT ![c].pc = pc]
    /\ UNCHANGED outcome

(* The call returns to the program. *)
Return(c, what) ==
    /\ call' = [call EXCEPT ![c].pc = "idle", ![c].id = 0]
    /\ outcome' = [outcome EXCEPT ![Me(c)] = what]

-----------------------------------------------------------------------------
(* The calling program                                                     *)

StartClient(c, b) ==
    /\ proc[c].born = 0
    /\ StartProcess(c, b)
    /\ UNCHANGED <<workerVars, startVars, callVars>>

BeginCall(c) ==
    /\ In(c, "idle")
    /\ Caller(c)
    /\ call[c].n < MaxCalls
    /\ call' = [call EXCEPT ![c] = [pc |-> "put", n |-> @.n + 1, id |-> 0]]
    /\ UNCHANGED <<vars, workerVars, startVars, woken, outcome>>

(* SbieDll_QueuePutReqImpl, for the first time or, after the start-up, for *)
(* the second and last.                                                    *)
PutReq(c, st, id) ==
    /\ In(c, "put") \/ In(c, "retry")
    /\ st = "NO_RESOURCES" => MayFail
    /\ PutReqHandler(c, Proxy, Me(c), Me(c), st, id)
    /\ CASE st = "SUCCESS" ->
              /\ call' = [call EXCEPT ![c].pc = "wait", ![c].id = id]
              /\ UNCHANGED outcome
         [] st = "NAME_NOT_FOUND" /\ In(c, "put") -> Goto(c, "startup")
         [] OTHER -> Return(c, Failed)
    /\ UNCHANGED <<workerVars, startVars, woken>>

(* SbieDll_StartProxy: MSGID_QUEUE_STARTUP ...                             *)
StartProxy(c, st, started) ==
    /\ In(c, "startup")
    /\ st = "NO_RESOURCES" => MayFail
    /\ StartupHandler(c, Proxy, st, started)
    /\ IF st = "SUCCESS" THEN Goto(c, "starting") ELSE Return(c, Failed)
    /\ IF started THEN BeginStart(Me(c)) ELSE UNCHANGED startVars
    /\ UNCHANGED <<workerVars, woken>>

(* ... and the wait of ten seconds.  STATUS_TIMEOUT counts as success, so  *)
(* the request is put again in either case.  When the service found the    *)
(* queue there it started nothing, and nobody signals the event.           *)
StartEnds(c) ==
    /\ In(c, "starting")
    /\ \/ Me(c) \in woken
       \/ At(Me(c), "idle")
       \/ c \in Impatient
    /\ Goto(c, "retry")
    /\ UNCHANGED <<vars, workerVars, startVars, woken>>

(* UserServer__StartupWorker, after StartWorker returned with any status.  *)
NotifyStarted(t) ==
    /\ At(t, "done")
    /\ woken' = woken \cup {t}
    /\ starter' = [starter EXCEPT ![t] = IdleStarter]
    /\ UNCHANGED <<vars, workerVars, listed, corrupt, call, outcome>>

AwaitReply(c) ==
    /\ In(c, "wait")
    /\ WaitEvent(Me(c))
    /\ Goto(c, "collect")
    /\ UNCHANGED <<workerVars, startVars, woken>>

BugTimeOut(c) ==
    /\ In(c, "wait")
    /\ c \in Impatient
    /\ Goto(c, "retry")
    /\ UNCHANGED <<vars, workerVars, startVars, woken>>

(* The event is closed, and the request stays in the queue.                *)
TimeOut(c) ==
    /\ In(c, "wait")
    /\ c \in Impatient
    /\ Return(c, Failed)
    /\ UNCHANGED <<vars, workerVars, startVars, woken>>

GetReply(c, st, data) ==
    /\ In(c, "collect")
    /\ st = "NO_RESOURCES" => MayFail
    /\ GetRplHandler(c, Proxy, call[c].id, st, data)
    /\ Return(c, IF st = "SUCCESS" THEN data ELSE Failed)
    /\ UNCHANGED <<workerVars, startVars, woken>>

EndClient(c) ==
    /\ c \in Mortal
    /\ ExitProcess(c)
    /\ IF In(c, "idle") THEN UNCHANGED <<call, outcome>> ELSE Return(c, Failed)
    /\ UNCHANGED <<workerVars, startVars, woken>>

CallStep(c) ==
    \/ \E st \in Status, id \in Id : PutReq(c, st, id)
    \/ \E st \in Status, started \in BOOLEAN : StartProxy(c, st, started)
    \/ StartEnds(c)
    \/ AwaitReply(c)
    \/ \E st \in Status, data \in Payload : GetReply(c, st, data)

-----------------------------------------------------------------------------
CallInit ==
    /\ Init
    /\ WorkerInit
    /\ StartInit
    /\ call = [c \in Client |-> [pc |-> "idle", n |-> 0, id |-> 0]]
    /\ woken = {}
    /\ outcome = [d \in ThisCall |-> NoData]

ClientNext(c) ==
    \/ \E b \in Box : StartClient(c, b)
    \/ BeginCall(c)
    \/ CallStep(c)
    \/ TimeOut(c)
    \/ EndClient(c)

CallNext ==
    /\ ~ corrupt
    /\ \/ \E c \in Client : ClientNext(c)
       \/ \E p \in Client : Reach(p) /\ UNCHANGED <<startVars, callVars>>
       \/ \E p \in Pid : PortClosed(p) /\ UNCHANGED <<startVars, callVars>>
       \/ \E p \in Server : (WorkerStep(p) \/ Crash(p)) /\ UNCHANGED <<startVars, callVars>>
       \/ \E t \in Starter : StartStep(t) /\ UNCHANGED callVars
       \/ \E t \in Starter : NotifyStarted(t)

CallSpec == CallInit /\ [][CallNext]_allVars

-----------------------------------------------------------------------------
(* Properties                                                              *)

Remote == INSTANCE RemoteCall WITH
    Calls <- ThisCall, NoAnswer <- NoData,
    asked <- {d \in ThisCall : call[d[1]].n >= d[2]},
    done <- ran, answer <- outcome

(* A call is done at most once although it may be put twice, and returns   *)
(* its own answer although pids, ids and proxies come and go.              *)
RemoteSpec == Remote!Spec

(* Threads are scheduled: the callbacks of the proxies, the threads that   *)
(* start proxies, and the callers go on with what they began; and Windows  *)
(* tells the service that a process has ended.  Nobody is obliged to give  *)
(* up, to end or to fail.                                                  *)
CallFairness ==
    /\ \A p \in Server :
          /\ WF_allVars(~ corrupt /\ WorkerStep(p) /\ UNCHANGED <<startVars, callVars>>)
          /\ WF_allVars(~ corrupt /\ PortClosed(p) /\ UNCHANGED <<startVars, callVars>>)
    /\ \A t \in Starter :
          /\ WF_allVars(~ corrupt /\ StartStep(t) /\ UNCHANGED callVars)
          /\ WF_allVars(~ corrupt /\ NotifyStarted(t))
    /\ \A c \in Client : WF_allVars(~ corrupt /\ CallStep(c))

FairCallSpec == CallSpec /\ CallFairness

(* A caller who waits long enough gets his answer, unless the proxy that   *)
(* had his request has ended, and the queue with it.                       *)
Answered ==
    \A c \in Client :
        In(c, "wait") ~> (~ In(c, "wait") \/ WithId(ProxyQueue, call[c].id) = {} \/ corrupt)
=============================================================================
