------------------------------ MODULE GuiSlave ------------------------------
(***************************************************************************)
(* SbieSvc sends messages of its own to the gui proxy of a session         *)
(* (GuiServer::SendMessageToSlave): InitProcess has every new sandboxed    *)
(* process put into a job before the process may run, and starts the proxy *)
(* and sends again when it finds no queue, be it when it sends or when it  *)
(* collects the reply; KillAllHelper of ProcessServer.cpp has a job        *)
(* terminated.  All of them wait on one event, m_QueueEvent.  InitProcess  *)
(* holds m_SlavesLock meanwhile; KillAllHelper does not, nor do the starts *)
(* that sandboxed programs ask for (StartAsync).                           *)
(***************************************************************************)
EXTENDS ProxyStart

CONSTANTS
    Service,    (* the pid of SbieSvc                                      *)
    SlavesEvent,    (* m_QueueEvent of the service                         *)
    Initer,     (* threads that execute InitProcess                        *)
    Killer,     (* threads that execute KillAllHelper                      *)
    Asker,      (* sandboxed programs that ask for the proxy               *)
    NoThread,
    Impatient   (* the threads whose wait of ten seconds may end           *)

Sender == Initer \cup Killer

(* A thread sends its message once, or a second time to a new proxy.       *)
Message == Sender \X (1 .. 2)

ASSUME SenderAssumption ==
    /\ Service \in Pid /\ Service \notin Server /\ MaxStarts > 0
    /\ Asker \subseteq Pid /\ Asker \cap (Server \cup {Service}) = {}
    /\ SlavesEvent \in Event /\ SlavesEvent \notin Server \X (1 .. MaxStarts)
    /\ Data = Message /\ Starter = Initer \cup Asker
    /\ NoThread \notin Sender

VARIABLES
    slavesLock, (* the owner of m_SlavesLock                               *)
    msg         (* where each sending thread is                            *)

guiVars == <<slavesLock, msg>>
allVars == <<vars, workerVars, startVars, guiVars>>

(* What SendMessageToSlave returns: a status of the queue service, of the  *)
(* wait, or of the reply.                                                  *)
SendStatus == Status \cup {"TIMEOUT", "REFUSED"}

MsgState == [pc : {"idle", "send", "start", "wait", "collect", "done"}, try : 1 .. 2,
             id : 0 .. IdMod - 1, status : SendStatus \cup {"NONE", "NOT_STARTED"}]

(* The message the thread is sending. *)
Mine(t) == <<t, msg[t].try>>

GuiTypeOK ==
    /\ TypeOK /\ WorkerTypeOK /\ StartTypeOK
    /\ slavesLock \in Initer \cup {NoThread}
    /\ msg \in [Sender -> MsgState]

Goto(t, pc) ==
    /\ msg' = [msg EXCEPT ![t].pc = pc]
    /\ UNCHANGED slavesLock

BugEnd(t, status) ==
    /\ msg' = [msg EXCEPT ![t].pc = "done", ![t].status = status]
    /\ slavesLock' = IF slavesLock = t /\ status # "TIMEOUT" THEN NoThread ELSE slavesLock

(* The function returns status, and InitProcess leaves the lock.           *)
End(t, status) ==
    /\ msg' = [msg EXCEPT ![t].pc = "done", ![t].status = status]
    /\ slavesLock' = IF slavesLock = t THEN NoThread ELSE slavesLock

(* SendMessageToSlave returns status.  Wherever NAME_NOT_FOUND comes from, *)
(* InitProcess takes it to mean that there is no queue, and starts a proxy *)
(* for its second attempt.                                                 *)
Return(t, status) ==
    IF status = "NAME_NOT_FOUND" /\ t \in Initer /\ msg[t].try = 1
    THEN Goto(t, "start") /\ BeginStart(t)
    ELSE End(t, status) /\ UNCHANGED startVars

-----------------------------------------------------------------------------
(* The threads of the service                                              *)

(* PipeServer::Call hands the messages of the service itself straight to   *)
(* the targets; the service is there, and connected, throughout.           *)
StartService ==
    /\ proc[Service].born = 0
    /\ StartProcess(Service, NoBox)
    /\ UNCHANGED <<workerVars, startVars, guiVars>>

BugEnter(t) ==
    /\ msg[t].pc = "idle"
    /\ Caller(Service)
    /\ slavesLock' = IF t \in Initer THEN t ELSE slavesLock
    /\ msg' = [msg EXCEPT ![t].pc = "send"]
    /\ UNCHANGED <<vars, workerVars, startVars>>

(* InitProcess takes the lock, KillAllHelper does not.                     *)
Enter(t) ==
    /\ msg[t].pc = "idle"
    /\ Caller(Service)
    /\ t \in Initer => slavesLock = NoThread
    /\ slavesLock' = IF t \in Initer THEN t ELSE slavesLock
    /\ msg' = [msg EXCEPT ![t].pc = "send"]
    /\ UNCHANGED <<vars, workerVars, startVars>>

(* SendMessageToSlave, up to its wait.                                     *)
Send(t, st, id) ==
    /\ msg[t].pc = "send"
    /\ st = "NO_RESOURCES" => MayFail
    /\ PutReqHandler(Service, Proxy, SlavesEvent, Mine(t), st, id)
    /\ IF st = "SUCCESS"
       THEN /\ msg' = [msg EXCEPT ![t].pc = "wait", ![t].id = id]
            /\ UNCHANGED <<slavesLock, startVars>>
       ELSE Return(t, st)
    /\ UNCHANGED workerVars

Started(t) ==
    /\ msg[t].pc = "start"
    /\ At(t, "done")
    /\ starter' = [starter EXCEPT ![t] = IdleStarter]
    /\ IF starter[t].ok
       THEN /\ msg' = [msg EXCEPT ![t].pc = "send", ![t].try = 2]
            /\ UNCHANGED slavesLock
       ELSE End(t, "NOT_STARTED")
    /\ UNCHANGED <<vars, workerVars, listed, corrupt>>

BugAwait(t) ==
    /\ msg[t].pc = "wait"
    /\ WaitEvent(SlavesEvent)
    /\ End(t, "SUCCESS")
    /\ UNCHANGED <<workerVars, startVars>>

Await(t) ==
    /\ msg[t].pc = "wait"
    /\ WaitEvent(SlavesEvent)
    /\ Goto(t, "collect")
    /\ UNCHANGED <<workerVars, startVars>>

BugTimeOut(t) ==
    /\ msg[t].pc = "wait"
    /\ t \in Impatient
    /\ Return(t, "NAME_NOT_FOUND")
    /\ UNCHANGED <<vars, workerVars>>

(* The request stays in the queue, and so does its claim on the event.     *)
TimeOut(t) ==
    /\ msg[t].pc = "wait"
    /\ t \in Impatient
    /\ Return(t, "TIMEOUT")
    /\ UNCHANGED <<vars, workerVars>>

(* The status is that of the queue service or, when there is a reply, the  *)
(* one in the reply, which is what the function of the proxy returned:     *)
(* InitProcessSlave and KillJob succeed or refuse, and never return        *)
(* NAME_NOT_FOUND.                                                         *)
Collect(t, st, data, answer) ==
    /\ msg[t].pc = "collect"
    /\ st = "NO_RESOURCES" => MayFail
    /\ GetRplHandler(Service, Proxy, msg[t].id, st, data)
    /\ Return(t, IF st = "SUCCESS" THEN answer ELSE st)
    /\ UNCHANGED workerVars

SenderStep(t) ==
    \/ Enter(t)
    \/ \E st \in Status, id \in Id : Send(t, st, id)
    \/ t \in Initer /\ Started(t)
    \/ Await(t)
    \/ TimeOut(t)
    \/ \E st \in Status, data \in Payload, answer \in {"SUCCESS", "REFUSED"} :
          Collect(t, st, data, answer)

(* MSGID_QUEUE_STARTUP of a sandboxed program, and StartAsync.  How the    *)
(* program goes on is the subject of ProxyCall.                            *)
StartAsker(c, b) ==
    /\ proc[c].born = 0
    /\ StartProcess(c, b)
    /\ UNCHANGED <<workerVars, startVars, guiVars>>

AskForProxy(c, st, started) ==
    /\ At(c, "idle")
    /\ StartupHandler(c, Proxy, st, started)
    /\ IF started THEN BeginStart(c) ELSE UNCHANGED startVars
    /\ UNCHANGED <<workerVars, guiVars>>

-----------------------------------------------------------------------------
GuiInit ==
    /\ Init
    /\ WorkerInit
    /\ StartInit
    /\ slavesLock = NoThread
    /\ msg = [t \in Sender |-> [pc |-> "idle", try |-> 1, id |-> 0, status |-> "NONE"]]

GuiNext ==
    /\ ~ corrupt
    /\ \/ StartService
       \/ \E t \in Sender : SenderStep(t)
       \/ \E c \in Asker, b \in Box : StartAsker(c, b)
       \/ \E c \in Asker, st \in Status, started \in BOOLEAN : AskForProxy(c, st, started)
       \/ \E p \in Asker \cup {Service} : Reach(p) /\ UNCHANGED <<startVars, guiVars>>
       \/ \E p \in Server : PortClosed(p) /\ UNCHANGED <<startVars, guiVars>>
       \/ \E p \in Server : (WorkerStep(p) \/ Crash(p)) /\ UNCHANGED <<startVars, guiVars>>
       \/ \E t \in Starter : StartStep(t) /\ UNCHANGED guiVars

GuiSpec == GuiInit /\ [][GuiNext]_allVars

(* The waits of the threads are bounded, and the proxies and starts run.   *)
GuiFairness ==
    /\ \A t \in Sender : WF_allVars(~ corrupt /\ SenderStep(t))
    /\ \A t \in Starter : WF_allVars(~ corrupt /\ StartStep(t) /\ UNCHANGED guiVars)
    /\ \A p \in Server : WF_allVars(~ corrupt /\ WorkerStep(p) /\ UNCHANGED <<startVars, guiVars>>)

FairGuiSpec == GuiSpec /\ GuiFairness

-----------------------------------------------------------------------------
(* Properties                                                              *)

(* "wait for a reply" (GuiServer.cpp:316): a thread that was woken finds   *)
(* the reply to its own message, unless the message went with the proxy.   *)
WokenByReply ==
    \A t \in Sender :
        msg[t].pc = "collect" => \A r \in WithId(ProxyQueue, msg[t].id) : r.rpl # NoData

(* What m_SlavesLock achieves of that: it holds until a thread that does   *)
(* not take the lock sends a message, or a wait has timed out, which       *)
(* leaves a reply to come that nobody waits for.                           *)
WokenInTurn ==
    (\A t \in Sender : msg[t].status # "TIMEOUT" /\ (t \in Killer => msg[t].pc = "idle"))
        => WokenByReply

(* InitProcess reports success only when the proxy handled the message it  *)
(* sent last, and said so: no new process gets to run outside the job it   *)
(* was meant for because an answer was mistaken for another.               *)
SuccessMeansDone ==
    /\ GuiTypeOK
    /\ \A t \in Sender : msg[t].status = "SUCCESS" => ran[Mine(t)] > 0

(* A request of the queue, or a callback, has the message.                 *)
InProxy(d) ==
    \/ \E r \in requests : r.data = d
    \/ \E k \in Server \X Slot : job[k].pc \in {"run", "reply"} /\ job[k].data = d

(* Each message is carried out once at most, and InitProcess sends its     *)
(* message again only when nobody has the first one any more: it was       *)
(* refused, or went with the proxy it was given to.  So what it asks is    *)
(* never done by two at a time or out of order, and done twice only when   *)
(* the first proxy ended before its answer was collected.                  *)
DoneOnce ==
    /\ \A d \in Message : ran[d] <= 1
    /\ \A t \in Initer : msg[t].try = 2 => ~ InProxy(<<t, 1>>)

(* Whatever happens to the proxy, the lock is passed on: every thread that *)
(* wants to initialise a process gets it and returns, although the owner   *)
(* keeps the lock while he waits for the proxy to start and to answer.     *)
InitReturns ==
    \A t \in Initer :
        (Caller(Service) /\ msg[t].pc = "idle") ~> (msg[t].pc = "done" \/ corrupt)
=============================================================================
