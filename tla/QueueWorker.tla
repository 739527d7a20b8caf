---------------------------- MODULE QueueWorker ----------------------------
(***************************************************************************)
(* The server end of a queue, as the proxies of SbieSvc run it: a process  *)
(* creates its queue with an auto-reset event and registers a wait on the  *)
(* event; a callback takes requests off the queue, runs them and puts the  *)
(* replies, until the queue is empty.  The user proxy (UserServer.cpp) and *)
(* the gui proxy (GuiServer.cpp) have this code line for line.             *)
(*                                                                         *)
(* The wait is registered with WT_EXECUTEDEFAULT: the event is waited for  *)
(* again while a callback runs, so several callbacks may run at a time.    *)
(***************************************************************************)
EXTENDS QueueServer

CONSTANTS
    Server,     (* pids that proxies start under                           *)
    Proxy,      (* the name of the queue of the proxy of the session       *)
    Slot,       (* bound: callbacks of one process that run at a time      *)
    Mortal,     (* pids whose processes may end while they work            *)
    MayFail     (* whether allocations and system calls may fail           *)

ASSUME ServerAssumption ==
    /\ Server \subseteq Pid
    /\ Proxy \in Asterisk
    /\ Server \X (1 .. MaxStarts) \subseteq Event
    /\ MayFail \in BOOLEAN

VARIABLES
    boot,       (* how far the process of a server pid has come            *)
    job,        (* the callbacks of the process                            *)
    ready,      (* the named event by which a new process announces itself *)
    ran,        (* history: how often the request with a payload was run   *)
    reported    (* history: the processes that logged message 2336         *)

workerVars == <<boot, job, ready, ran, reported>>

IdleJob == [pc |-> "idle", id |-> 0, data |-> NoData]

Job == [pc : {"idle", "get", "run", "reply"}, id : 0 .. IdMod - 1, data : Data \cup {NoData}]

WorkerTypeOK ==
    /\ boot \in [Server -> {"none", "new", "leaving", "created", "announced", "serving"}]
    /\ job \in [Server \X Slot -> Job]
    /\ ready \in BOOLEAN
    /\ ran \in [Data -> 0 .. MaxRequests]
    /\ reported \subseteq Server \X (1 .. MaxStarts)

(* m_QueueEvent: every proxy process creates its own. *)
Self(p)       == <<p, proc[p].born>>
QueueEvent(p) == Self(p)

ProxyQueue == <<NoBox, Proxy>>

(* The pid of the running proxy whose queue it is, if any. *)
Serving(p) == proc[p].alive /\ Found(ProxyQueue) /\ queues[ProxyQueue].pid = p

-----------------------------------------------------------------------------
(* The life of the process                                                 *)

(* CreateProcessAsUser.  A pid is not used again before the notification   *)
(* for its previous owner (QueueServer alone explores that).               *)
CreateProcess(p) ==
    /\ p \notin connected
    /\ boot[p] = "none"
    /\ StartProcess(p, NoBox)
    /\ boot' = [boot EXCEPT ![p] = "new"]
    /\ UNCHANGED <<job, ready, ran, reported>>

(* The process is gone, and its callbacks with it. *)
Vanish(S) ==
    /\ boot' = [p \in Server |-> IF p \in S THEN "none" ELSE boot[p]]
    /\ job' = [k \in Server \X Slot |-> IF k[1] \in S THEN IdleJob ELSE job[k]]
    /\ UNCHANGED <<ready, ran, reported>>

Crash(p) ==
    /\ p \in Mortal
    /\ ExitProcess(p)
    /\ Vanish({p})

(* The ports of a dead process are closed, and its queues deleted. *)
PortClosed(p) ==
    /\ ~ proc[p].alive
    /\ Disconnect(p)
    /\ UNCHANGED workerVars

Reach(p) ==
    /\ Connect(p)
    /\ UNCHANGED workerVars

(* CreateQueueWorker, the part up to SbieDll_QueueCreate.  A process that  *)
(* cannot create the queue returns from RunWorker and ends (Leave).        *)
CreateQueue(p, st) ==
    /\ boot[p] = "new"
    /\ st = "NO_RESOURCES" => MayFail
    /\ CreateHandler(p, Proxy, QueueEvent(p), st)
    /\ boot' = [boot EXCEPT ![p] = IF st = "SUCCESS" THEN "created" ELSE "leaving"]
    /\ UNCHANGED <<job, ready, ran, reported>>

Leave(p) ==
    /\ boot[p] = "leaving"
    /\ ExitProcess(p)
    /\ Vanish({p})

(* The queue is there: SetEvent on the named event of the session.         *)
Announce(p) ==
    /\ boot[p] = "created"
    /\ boot' = [boot EXCEPT ![p] = "announced"]
    /\ ready' = TRUE
    /\ UNCHANGED <<vars, job, ran, reported>>

(* RegisterWaitForSingleObject.  The queue event may be signalled already. *)
(* A process that cannot register ends, although it has announced itself.  *)
Register(p) ==
    /\ boot[p] = "announced"
    /\ \/ boot' = [boot EXCEPT ![p] = "serving"]
       \/ MayFail /\ boot' = [boot EXCEPT ![p] = "leaving"]
    /\ UNCHANGED <<vars, job, ready, ran, reported>>

-----------------------------------------------------------------------------
(* The callbacks                                                           *)

(* The wait is satisfied and the thread pool runs QueueCallbackWorker.     *)
QueueCallbackWorker(p, s) ==
    /\ boot[p] = "serving"
    /\ job[<<p, s>>].pc = "idle"
    /\ WaitEvent(QueueEvent(p))
    /\ job' = [job EXCEPT ![<<p, s>>].pc = "get"]
    /\ UNCHANGED <<boot, ready, ran, reported>>

Report(p, st) ==
    reported' = IF st \in {"SUCCESS", "END_OF_FILE"} THEN reported ELSE reported \cup {Self(p)}

(* QueueCallbackWorker2, up to the request.  END_OF_FILE means there are   *)
(* no more requests, and the callback ends.                                *)
TakeRequest(p, s, st, id, data) ==
    /\ job[<<p, s>>].pc = "get"
    /\ st = "NO_RESOURCES" => MayFail
    /\ GetReqHandler(p, Proxy, st, id, data)
    /\ job' = [job EXCEPT ![<<p, s>>] =
           IF st = "SUCCESS" THEN [pc |-> "run", id |-> id, data |-> data] ELSE IdleJob]
    /\ Report(p, st)
    /\ UNCHANGED <<boot, ready, ran>>

(* The call through the dispatch table. *)
RunRequest(p, s) ==
    /\ job[<<p, s>>].pc = "run"
    /\ job' = [job EXCEPT ![<<p, s>>].pc = "reply"]
    /\ ran' = [ran EXCEPT ![job[<<p, s>>].data] = @ + 1]
    /\ UNCHANGED <<vars, boot, ready, reported>>

(* A callback that stops when its client is gone leaves the other requests *)
(* without anybody to look at them.                                        *)
BugPutReply(p, s, st) ==
    LET j == job[<<p, s>>] IN
    /\ j.pc = "reply"
    /\ st = "NO_RESOURCES" => MayFail
    /\ PutRplHandler(p, Proxy, j.id, j.data, st)
    /\ job' = [job EXCEPT ![<<p, s>>] =
           IF st = "SUCCESS" THEN [IdleJob EXCEPT !.pc = "get"] ELSE IdleJob]
    /\ Report(p, st)
    /\ UNCHANGED <<boot, ready, ran>>

BugPutOneReply(p, s, st) ==
    LET j == job[<<p, s>>] IN
    /\ j.pc = "reply"
    /\ PutRplHandler(p, Proxy, j.id, j.data, st)
    /\ job' = [job EXCEPT ![<<p, s>>] = IdleJob]
    /\ UNCHANGED <<boot, ready, ran, reported>>

(* The reply, then back for the next request.  END_OF_FILE means that the  *)
(* client is gone, and is no reason to stop; any other failure is.  The    *)
(* reply to a request carries the payload of that request.                 *)
PutReply(p, s, st) ==
    LET j == job[<<p, s>>] IN
    /\ j.pc = "reply"
    /\ st = "NO_RESOURCES" => MayFail
    /\ PutRplHandler(p, Proxy, j.id, j.data, st)
    /\ job' = [job EXCEPT ![<<p, s>>] =
           IF st \in {"SUCCESS", "END_OF_FILE"} THEN [IdleJob EXCEPT !.pc = "get"] ELSE IdleJob]
    /\ Report(p, st)
    /\ UNCHANGED <<boot, ready, ran>>

-----------------------------------------------------------------------------
WorkerInit ==
    /\ boot = [p \in Server |-> "none"]
    /\ job = [k \in Server \X Slot |-> IdleJob]
    /\ ready = FALSE
    /\ ran = [d \in Data |-> 0]
    /\ reported = {}

(* The steps a proxy takes by itself: the thread pool and the service keep *)
(* running.                                                                *)
WorkerStep(p) ==
    \/ Reach(p)
    \/ \E st \in Status : CreateQueue(p, st)
    \/ Leave(p)
    \/ Announce(p)
    \/ Register(p)
    \/ \E s \in Slot :
          \/ QueueCallbackWorker(p, s)
          \/ \E st \in Status, id \in Id, data \in Payload : TakeRequest(p, s, st, id, data)
          \/ RunRequest(p, s)
          \/ \E st \in Status : PutReply(p, s, st)

-----------------------------------------------------------------------------
(* Properties                                                              *)

(* The wake-up of the proxy cannot get lost.  The event of a queue is      *)
(* auto-reset and set once per request, so many requests may share one     *)
(* wake-up, and a request may arrive while the callback that consumed it   *)
(* is about to leave.  Still, whenever a request waits in the queue of a   *)
(* proxy, the event is set, or a callback runs that will look at the queue *)
(* again, or a callback gave up on an error, which it reported (2336).     *)
NoSilentStall ==
    \A p \in Server :
        Serving(p) /\ Waiting(ProxyQueue) # {} =>
            \/ QueueEvent(p) \in signalled
            \/ \E s \in Slot : job[<<p, s>>].pc # "idle"
            \/ Self(p) \in reported

(* A taken request is in the hands of exactly one callback until it is     *)
(* answered, however many callbacks run.                                   *)
OneCallbackEach ==
    \A p \in Server : \A s, t \in Slot :
        s # t /\ job[<<p, s>>].pc \in {"run", "reply"} /\ job[<<p, t>>].pc \in {"run", "reply"}
            => job[<<p, s>>].id # job[<<p, t>>].id
=============================================================================
