------------------------- MODULE ProxyStartProofs --------------------------
(* What TLAPS proves of the proxies and of the threads that start them,    *)
(* whoever the callers are.  ProxyCallProofs and GuiSlaveProofs add the    *)
(* callers.                                                                *)
EXTENDS ProxyStart, QueueServerProofs

-----------------------------------------------------------------------------
(* The shape of the state: the parts of the type invariants that say what  *)
(* a step hands to the queue service.                                      *)

Child == Server \X (1 .. MaxStarts)

WorkerShape ==
    /\ boot \in [Server -> {"none", "new", "leaving", "created", "announced", "serving"}]
    /\ job \in [Server \X Slot -> Job]
    /\ \A k \in Server \X Slot : job[k].pc \in {"run", "reply"} => job[k].data \in Data
    /\ \A k \in Server \X Slot : job[k].pc # "idle" => boot[k[1]] = "serving"

StartShape ==
    /\ listed \in Seq(Child)
    /\ starter \in [Starter -> StarterState]
    /\ \A t \in Starter : starter[t].pc = "wait" => starter[t].child \in Child

(* A process that runs was started. *)
Born == \A p \in Pid : proc[p].alive => proc[p].born # 0

ProxyShape == WorkerShape /\ StartShape /\ Born

(* The queue service is in a state of its own, and whoever calls it will   *)
(* call it as it may be called.                                            *)
ProxyInv == IInv /\ ProxyShape

(* The steps that are not those of a caller. *)
Machine ==
    \/ /\ \/ \E p \in Server : WorkerStep(p) \/ Crash(p)
          \/ \E p \in Pid : Reach(p) \/ PortClosed(p)
       /\ UNCHANGED startVars
    \/ \E t \in Starter : StartStep(t)

LEMMA ServerFacts ==
    /\ Server \subseteq Pid
    /\ Proxy \in Asterisk /\ Child \subseteq Event /\ Child \subseteq Instance
    /\ MaxStarts \in Nat /\ IdMod \in Nat /\ IdMod > 2
BY ServerAssumption, IdAssumption DEF Child, Instance

-----------------------------------------------------------------------------
(* Each step is a step of the queue service or none                        *)

LEMMA WorkerUsesQueue ==
    ASSUME TypeOK, ProxyShape, NEW p \in Server, WorkerStep(p) \/ Crash(p)
    PROVE  [Next]_vars
<1> USE ServerFacts DEF ProxyShape
<1>1. CASE Reach(p) \/ Leave(p) \/ Crash(p)
  BY <1>1 DEF Reach, Leave, Crash, Next
<1>2. CASE Announce(p) \/ Register(p)
  BY <1>2 DEF Announce, Register
<1>3. ASSUME NEW st \in Status, CreateQueue(p, st) PROVE Next
  <2>1. proc[p].alive /\ proc[p].born \in 0 .. MaxStarts
    BY <1>3 DEF CreateQueue, CreateHandler, Caller, TypeOK, Process
  <2>2. QueueEvent(p) \in Handle
    BY <2>1 DEF Born, QueueEvent, Self, Child, Handle
  <2>3. Call(p, Proxy, st)
    BY <1>3, <2>2 DEF CreateQueue, Call
  <2> QED
    BY <2>3 DEF Next
<1>4. ASSUME NEW s \in Slot, QueueCallbackWorker(p, s) PROVE Next
  <2>1. WaitEvent(QueueEvent(p)) /\ QueueEvent(p) \in Event
    BY <1>4 DEF QueueCallbackWorker, WaitEvent, TypeOK
  <2> QED
    BY <2>1 DEF Next
<1>5. ASSUME NEW s \in Slot, NEW st \in Status, NEW id \in Id, NEW data \in Payload,
             TakeRequest(p, s, st, id, data)
      PROVE  Next
  <2>1. Call(p, Proxy, st)
    BY <1>5 DEF TakeRequest, Call
  <2> QED
    BY <2>1 DEF Next
<1>6. ASSUME NEW s \in Slot, RunRequest(p, s) PROVE UNCHANGED vars
  BY <1>6 DEF RunRequest
<1>7. ASSUME NEW s \in Slot, NEW st \in Status, PutReply(p, s, st) PROVE Next
  <2>1. job[<<p, s>>].id \in Id /\ job[<<p, s>>].data \in Data
    BY <1>7 DEF PutReply, WorkerShape, Job, Id
  <2>2. Call(p, Proxy, st)
    BY <1>7, <2>1 DEF PutReply, Call
  <2> QED
    BY <2>2 DEF Next
<1> QED
  BY <1>1, <1>2, <1>3, <1>4, <1>5, <1>6, <1>7 DEF WorkerStep

LEMMA StarterUsesQueue ==
    ASSUME ProxyShape, NEW t \in Starter, StartStep(t)
    PROVE  [Next]_vars
<1> USE ServerFacts DEF ProxyShape
<1>1. ASSUME NEW w \in ToSet(listed), Visit(t, w) PROVE [Next]_vars
  <2>1. w[1] \in Pid
    BY DEF StartShape, ToSet, Child
  <2> QED
    BY <1>1, <2>1 DEF Visit, Next
<1>2. CASE Sweep(t)
  <2>1. listed # << >> => Head(listed) \in ToSet(listed)
    BY DEF StartShape, ToSet
  <2> QED
    BY <1>1, <1>2, <2>1 DEF Sweep, Misuse
<1>3. CASE Unlink(t) \/ EndSweep(t) \/ ResetReady(t) \/ Announced(t) \/ NotAnnounced(t)
           \/ CannotStart(t)
  BY <1>3 DEF Unlink, Misuse, EndSweep, ResetReady, Announced, NotAnnounced, CannotStart, Finish
<1>4. ASSUME NEW p \in Server, Launch(t, p) PROVE Next
  BY <1>4 DEF Launch, CreateProcess, Next
<1> QED
  BY <1>2, <1>3, <1>4 DEF StartStep

LEMMA MachineUsesQueue ==
    ASSUME TypeOK, ProxyShape, Machine
    PROVE  [Next]_vars
<1>1. ASSUME NEW p \in Pid, Reach(p) \/ PortClosed(p) PROVE Next
  BY <1>1 DEF Reach, PortClosed, Next
<1> QED
  BY <1>1, WorkerUsesQueue, StarterUsesQueue DEF Machine

-----------------------------------------------------------------------------
(* The shape is kept                                                       *)

LEMMA BornStep ==
    ASSUME TypeOK, Born, [Next]_vars
    PROVE  Born'
<1>1. CASE UNCHANGED proc
  BY <1>1 DEF Born
<1>2. ASSUME NEW p \in Pid, NEW b \in Box \cup {NoBox}, StartProcess(p, b) PROVE Born'
  <2>1. proc[p].born \in Nat
    BY IdAssumption DEF TypeOK, Process
  <2>2. proc'[p].born # 0 /\ \A x \in Pid : x # p => proc'[x] = proc[x]
    BY <1>2, <2>1 DEF StartProcess, TypeOK
  <2> QED
    BY <2>2 DEF Born
<1>3. ASSUME NEW p \in Pid, ExitProcess(p) PROVE Born'
  BY <1>3 DEF ExitProcess, Born, TypeOK, Process
<1>4. ASSUME NEW p \in Pid, NEW n \in Asterisk \cup Plain, NEW st \in Status, Call(p, n, st)
      PROVE  UNCHANGED proc
  BY <1>4 DEF Call, CreateHandler, GetReqHandler, PutRplHandler, PutReqHandler, GetRplHandler,
              StartupHandler, env
<1> QED
  BY <1>1, <1>2, <1>3, <1>4 DEF Next, Connect, Disconnect, WaitEvent, env, vars

LEMMA VanishShape ==
    ASSUME WorkerShape, NEW S, Vanish(S)
    PROVE  WorkerShape'
<1>1. IdleJob \in Job /\ IdleJob.pc = "idle"
  BY ServerFacts DEF IdleJob, Job
<1> QED
  BY <1>1 DEF WorkerShape, Vanish

(* Only a job that has its request is in the state "run". *)
LEMMA JobShape ==
    ASSUME WorkerShape, NEW p \in Server, NEW s \in Slot, NEW j \in Job,
           j.pc \in {"run", "reply"} => j.data \in Data, boot[p] = "serving",
           job' = [job EXCEPT ![<<p, s>>] = j], UNCHANGED boot
    PROVE  WorkerShape'
BY DEF WorkerShape

LEMMA TakenData ==
    ASSUME TypeOK, NEW p \in Server, NEW id, NEW data, GetReqHandler(p, Proxy, "SUCCESS", id, data)
    PROVE  \E r \in requests :
              /\ r.queue \in QueueName /\ r.taken = NoOne
              /\ id = r.id /\ data = r.data /\ id \in Id /\ data \in Data
              /\ requests' = (requests \ {r}) \cup {[r EXCEPT !.taken = <<p, proc[p].born>>]}
BY DEF GetReqHandler, NotNamed, NotFound, Refused, First, Waiting, TypeOK, Request, Id

LEMMA WorkerShapeStep ==
    ASSUME TypeOK, WorkerShape, Machine
    PROVE  WorkerShape'
<1> USE ServerFacts
<1>1. CASE UNCHANGED workerVars \/ UNCHANGED <<boot, job>>
  BY <1>1 DEF WorkerShape, workerVars
<1>2. CASE \E S : Vanish(S)
  BY <1>2, VanishShape
<1>3. ASSUME NEW p \in Server, CreateProcess(p) PROVE WorkerShape'
  BY <1>3 DEF CreateProcess, WorkerShape
<1>4. ASSUME NEW p \in Server, WorkerStep(p) PROVE WorkerShape'
  <2>1. ASSUME NEW st \in Status, CreateQueue(p, st) PROVE WorkerShape'
    BY <2>1 DEF CreateQueue, WorkerShape
  <2>2. CASE Announce(p) \/ Register(p)
    BY <2>2 DEF Announce, Register, WorkerShape
  <2>3. ASSUME NEW s \in Slot, QueueCallbackWorker(p, s) PROVE WorkerShape'
    BY <2>3 DEF QueueCallbackWorker, WorkerShape, Job
  <2>4. ASSUME NEW s \in Slot, RunRequest(p, s) PROVE WorkerShape'
    BY <2>4 DEF RunRequest, WorkerShape, Job
  <2>5. ASSUME NEW s \in Slot, NEW st \in Status, PutReply(p, s, st) PROVE WorkerShape'
    <3>1. IdleJob \in Job /\ [IdleJob EXCEPT !.pc = "get"] \in Job
      BY DEF IdleJob, Job
    <3>2. job[<<p, s>>].pc = "reply"
      BY <2>5 DEF PutReply
    <3>3. boot[p] = "serving"
      BY <3>2 DEF WorkerShape
    <3> QED
      BY <2>5, <3>1, <3>3, JobShape DEF PutReply, IdleJob
  <2>6. ASSUME NEW s \in Slot, NEW st \in Status, NEW id \in Id, NEW data \in Payload,
               TakeRequest(p, s, st, id, data)
        PROVE  WorkerShape'
    <3>0. boot[p] = "serving"
      <4>1. job[<<p, s>>].pc = "get"
        BY <2>6 DEF TakeRequest
      <4> QED
        BY <4>1 DEF WorkerShape
    <3>1. CASE st = "SUCCESS"
      <4>1. id \in Id /\ data \in Data
        BY <2>6, <3>1, TakenData DEF TakeRequest
      <4>2. [pc |-> "run", id |-> id, data |-> data] \in Job
        BY <4>1 DEF Job, Id
      <4> QED
        BY <2>6, <3>0, <3>1, <4>1, <4>2, JobShape DEF TakeRequest
    <3>2. CASE st # "SUCCESS"
      <4>1. IdleJob \in Job
        BY DEF IdleJob, Job
      <4> QED
        BY <2>6, <3>0, <3>2, <4>1, JobShape DEF TakeRequest, IdleJob
    <3> QED
      BY <3>1, <3>2
  <2> QED
    BY <1>1, <1>2, <1>4, <2>1, <2>2, <2>3, <2>4, <2>5, <2>6 DEF WorkerStep, Reach, Leave
<1>6. ASSUME NEW t \in Starter, StartStep(t) PROVE WorkerShape'
  BY <1>1, <1>2, <1>3, <1>6
     DEF StartStep, Sweep, Visit, Misuse, Unlink, EndSweep, ResetReady, Launch, Announced,
         NotAnnounced, CannotStart, Finish
<1> QED
  BY <1>1, <1>2, <1>4, <1>6 DEF Machine, Reach, PortClosed, Crash

(* A starting thread that moves on and keeps what it holds. *)
LEMMA StarterShape ==
    ASSUME StartShape, NEW t \in Starter, NEW u \in StarterState,
           u.pc = "wait" => u.child \in Child,
           starter' = [starter EXCEPT ![t] = u], listed' \in Seq(Child)
    PROVE  StartShape'
BY DEF StartShape

LEMMA StartShapeStep ==
    ASSUME TypeOK, StartShape, Machine \/ \E t \in Starter : BeginStart(t)
    PROVE  StartShape'
<1> USE ServerFacts
<1>0. starter \in [Starter -> StarterState] /\ listed \in Seq(Child)
      /\ IdleStarter \in StarterState /\ IdleStarter.pc = "idle"
  BY DEF StartShape, IdleStarter, StarterState
<1>1. CASE UNCHANGED startVars \/ UNCHANGED <<listed, starter>>
  BY <1>1 DEF StartShape, startVars
<1>2. ASSUME NEW t \in Starter, BeginStart(t) PROVE StartShape'
  <2>1. [IdleStarter EXCEPT !.pc = "first"] \in StarterState
    BY <1>0 DEF StarterState
  <2> QED
    BY <1>0, <1>2, <2>1, StarterShape DEF BeginStart, IdleStarter
<1>3. ASSUME NEW t \in Starter, NEW w \in ToSet(listed), Visit(t, w) PROVE StartShape'
  <2>1. w \in Instance
    BY <1>0 DEF ToSet
  <2>2. NextOf(w) \in Instance \cup {NoOne}
    <3>1. Place(w) \in 1 .. Len(listed)
      BY <1>0 DEF ToSet, Place
    <3>2. Place(w) < Len(listed) => listed[Place(w) + 1] \in Child
      BY <1>0, <3>1
    <3> QED
      BY <3>2 DEF NextOf
  <2> DEFINE u == [starter[t] EXCEPT !.pc = "unlink", !.victim = w, !.next = NextOf(w)]
  <2>3. u \in StarterState /\ u.pc = "unlink"
    BY <1>0, <2>1, <2>2 DEF StarterState
  <2>4. starter' = [starter EXCEPT ![t] = u] /\ listed' = listed
    BY <1>0, <1>3 DEF Visit
  <2> QED
    BY <1>0, <2>3, <2>4, StarterShape
<1>4. ASSUME NEW t \in Starter, Unlink(t) PROVE StartShape'
  <2>1. CASE Misuse
    BY <1>1, <2>1 DEF Misuse
  <2>2. CASE starter[t].victim \in ToSet(listed)
    <3> DEFINE i == Place(starter[t].victim)
               u == [starter[t] EXCEPT !.pc = "sweep", !.victim = NoOne]
    <3>1. i \in 1 .. Len(listed)
      BY <1>0, <2>2 DEF ToSet, Place
    <3> HIDE DEF i
    <3>2. RemoveAt(listed, i) \in Seq(Child)
      BY <1>0, <3>1 DEF RemoveAt
    <3>3. u \in StarterState /\ u.pc = "sweep"
      BY <1>0 DEF StarterState
    <3>4. starter' = [starter EXCEPT ![t] = u] /\ listed' = RemoveAt(listed, i)
      BY <1>0, <1>4, <2>2 DEF Unlink, i
    <3> QED
      BY <3>2, <3>3, <3>4, StarterShape
  <2> QED
    BY <1>4, <2>1, <2>2 DEF Unlink
<1>5. ASSUME NEW t \in Starter, EndSweep(t) \/ ResetReady(t) PROVE StartShape'
  <2> DEFINE u(pc) == [starter[t] EXCEPT !.pc = pc]
  <2>1. \A pc \in {"event", "create"} : u(pc) \in StarterState /\ u(pc).pc = pc
    BY <1>0 DEF StarterState
  <2>2. \E pc \in {"event", "create"} : starter' = [starter EXCEPT ![t] = u(pc)]
    BY <1>0, <1>5 DEF EndSweep, ResetReady
  <2>3. listed' = listed
    BY <1>5 DEF EndSweep, ResetReady
  <2> HIDE DEF u
  <2> QED
    BY <1>0, <2>1, <2>2, <2>3, StarterShape
<1>6. ASSUME NEW t \in Starter, NEW p \in Server, Launch(t, p) PROVE StartShape'
  <2> DEFINE w == <<p, proc[p].born + 1>>
             u == [starter[t] EXCEPT !.pc = "wait", !.child = w]
  <2>1. w \in Child
    <3>1. proc[p].born \in 0 .. MaxStarts /\ proc[p].born < MaxStarts
      BY <1>6 DEF Launch, CreateProcess, StartProcess, TypeOK, Process
    <3> QED
      BY <3>1 DEF Child
  <2>2. u \in StarterState /\ u.pc = "wait" /\ u.child = w
    BY <1>0, <2>1 DEF StarterState
  <2>3. starter' = [starter EXCEPT ![t] = u] /\ listed' = listed
    BY <1>0, <1>6 DEF Launch
  <2> QED
    BY <1>0, <2>1, <2>2, <2>3, StarterShape
<1>7. ASSUME NEW t \in Starter, NEW ok \in BOOLEAN, Finish(t, ok), listed' \in Seq(Child)
      PROVE  StartShape'
  <2> DEFINE u == [starter[t] EXCEPT !.pc = "done", !.ok = ok]
  <2>1. u \in StarterState /\ u.pc = "done"
    BY <1>0 DEF StarterState
  <2>2. starter' = [starter EXCEPT ![t] = u]
    BY <1>0, <1>7 DEF Finish
  <2> QED
    BY <1>7, <2>1, <2>2, StarterShape
<1>8. ASSUME NEW t \in Starter, Announced(t) PROVE StartShape'
  <2>1. Append(listed, starter[t].child) \in Seq(Child)
    BY <1>0, <1>8 DEF Announced, At, StartShape
  <2> QED
    BY <1>0, <1>7, <1>8, <2>1 DEF Announced
<1>9. ASSUME NEW t \in Starter, NotAnnounced(t) \/ CannotStart(t) PROVE StartShape'
  BY <1>0, <1>7, <1>9 DEF NotAnnounced, CannotStart
<1>11. ASSUME NEW t \in Starter, Sweep(t) PROVE StartShape'
  <2>1. listed # << >> => Head(listed) \in ToSet(listed)
    BY <1>0 DEF ToSet
  <2> QED
    BY <1>1, <1>3, <1>11, <2>1 DEF Sweep, Misuse
<1> QED
  BY <1>1, <1>2, <1>4, <1>5, <1>6, <1>8, <1>9, <1>11 DEF Machine, StartStep

LEMMA MachineKeeps ==
    ASSUME ProxyInv, Machine
    PROVE  ProxyInv' /\ [Next]_vars
<1>1. [Next]_vars
  BY MachineUsesQueue DEF ProxyInv, IInv
<1>2. IInv' /\ Born'
  BY <1>1, IInvStep, BornStep DEF ProxyInv, ProxyShape, IInv
<1> QED
  BY <1>1, <1>2, WorkerShapeStep, StartShapeStep DEF ProxyInv, ProxyShape, IInv

LEMMA ProxyInvInit ==
    ASSUME Init, WorkerInit, StartInit
    PROVE  ProxyInv
<1> USE ServerFacts
<1>1. IInv /\ Born
  BY IInvInit DEF Init, Born
<1>2. IdleJob \in Job /\ IdleJob.pc = "idle" /\ IdleStarter \in StarterState /\ IdleStarter.pc = "idle"
  BY DEF IdleJob, Job, IdleStarter, StarterState
<1>3. WorkerShape /\ StartShape
  BY <1>2 DEF WorkerInit, WorkerShape, StartInit, StartShape
<1> QED
  BY <1>1, <1>3 DEF ProxyInv, ProxyShape

-----------------------------------------------------------------------------
(* What a message leaves alone, unless it creates the queue or puts a      *)
(* request                                                                 *)

(* A queue whose server runs stays. *)
QueuesStay ==
    /\ UNCHANGED proc
    /\ \A q \in QueueName : Found(q) => queues'[q] = queues[q]

(* And nothing is added to the queues. *)
NothingNew ==
    /\ \A q \in QueueName : queues'[q] # NoQueue => queues'[q] = queues[q]
    /\ \A r \in requests' : r.taken = NoOne => r \in requests
    /\ signalled \subseteq signalled'

Gentle == QueuesStay /\ NothingNew

LEMMA SharedGentle ==
    ASSUME TypeOK, NEW p \in Pid, NEW n \in Asterisk \cup Plain, NEW st, UNCHANGED env,
           \/ NotNamed(p, n, st)
           \/ NotFound(p, n, st)
           \/ \E why : Refused(st, why)
    PROVE  Gentle
<1>1. CASE NotNamed(p, n, st) \/ \E why : Refused(st, why)
  BY <1>1 DEF NotNamed, Refused, Gentle, QueuesStay, NothingNew, env, store
<1>2. CASE NotFound(p, n, st)
  <2>1. MakeQueueName(p, n) \in QueueName
    BY <1>2, NameType DEF NotFound
  <2> QED
    BY <1>2, <2>1 DEF NotFound, DeleteQueueObj, Gentle, QueuesStay, NothingNew, env, TypeOK
<1> QED
  BY <1>1, <1>2

LEMMA DeleteGentle ==
    ASSUME NEW r \in requests, DeleteRequestObj(r), UNCHANGED env, UNCHANGED signalled
    PROVE  Gentle
BY DEF DeleteRequestObj, Gentle, QueuesStay, NothingNew, env

LEMMA CreateGentle ==
    ASSUME TypeOK, NEW p \in Pid, NEW n \in Asterisk \cup Plain, NEW st, NEW e,
           CreateHandler(p, n, e, st)
    PROVE  QueuesStay /\ (st # "SUCCESS" => NothingNew)
<1> DEFINE q == MakeQueueName(p, n)
<1>1. CASE \E why : Refused(st, why)
  BY <1>1, SharedGentle DEF CreateHandler, Gentle
<1>2. CASE MayCreate(p, n) /\ ~ Found(q)
  <2>1. q \in QueueName
    BY <1>2, NameType DEF MayCreate
  <2> HIDE DEF q
  <2>2. CASE st = "SUCCESS"
    <3>1. queues' = [queues EXCEPT ![q] = [pid |-> p, born |-> proc[p].born, event |-> e]]
      BY <1>2, <2>2 DEF CreateHandler, Refused, q
    <3> QED
      BY <1>2, <2>1, <2>2, <3>1 DEF CreateHandler, QueuesStay, env, TypeOK
  <2>3. CASE st # "SUCCESS"
    <3>1. DeleteQueueObj(q) /\ UNCHANGED signalled
      BY <1>2, <2>3 DEF CreateHandler, Refused, q
    <3> QED
      BY <1>2, <2>1, <2>3, <3>1 DEF CreateHandler, DeleteQueueObj, QueuesStay, NothingNew, env, TypeOK
  <2> QED
    BY <2>2, <2>3
<1> QED
  BY <1>1, <1>2 DEF CreateHandler

LEMMA GetReqGentle ==
    ASSUME TypeOK, NEW p \in Pid, NEW n \in Asterisk \cup Plain, NEW st, NEW id, NEW data,
           GetReqHandler(p, n, st, id, data)
    PROVE  Gentle
<1>1. CASE NotNamed(p, n, st) \/ NotFound(p, n, st) \/ \E why : Refused(st, why)
  BY <1>1, SharedGentle DEF GetReqHandler
<1>2. ASSUME NEW r \in requests,
             requests' = (requests \ {r}) \cup {[r EXCEPT !.taken = <<p, proc[p].born>>]},
             UNCHANGED <<env, queues, signalled>>
      PROVE  Gentle
  <2>1. <<p, proc[p].born>> # NoOne /\ r \in Request
    BY SentinelAssumption DEF TypeOK, Process
  <2>2. [r EXCEPT !.taken = <<p, proc[p].born>>].taken # NoOne
    BY <2>1, TakenField
  <2> QED
    BY <1>2, <2>2 DEF Gentle, QueuesStay, NothingNew, env
<1> QED
  BY <1>1, <1>2 DEF GetReqHandler, First, Waiting

LEMMA PutRplGentle ==
    ASSUME TypeOK, NEW p \in Pid, NEW n \in Asterisk \cup Plain, NEW st, NEW id, NEW data,
           PutRplHandler(p, n, id, data, st)
    PROVE  Gentle
<1>1. CASE NotNamed(p, n, st) \/ NotFound(p, n, st) \/ \E why : Refused(st, why)
  BY <1>1, SharedGentle DEF PutRplHandler
<1>2. ASSUME NEW r \in requests, DeleteRequestObj(r), UNCHANGED <<env, signalled>>
      PROVE  Gentle
  BY <1>2, DeleteGentle
<1>3. ASSUME NEW r \in requests, r.taken # NoOne,
             requests' = (requests \ {r}) \cup {[r EXCEPT !.rpl = data]},
             SetEvent(r.event), UNCHANGED <<env, queues>>
      PROVE  Gentle
  <2>1. [r EXCEPT !.rpl = data].taken # NoOne
    BY <1>3, ReplyField DEF TypeOK
  <2> QED
    BY <1>3, <2>1 DEF Gentle, QueuesStay, NothingNew, SetEvent, env
<1> QED
  BY <1>1, <1>2, <1>3 DEF PutRplHandler, First, WithId

(* The only message that adds a request. *)
LEMMA PutReqGentle ==
    ASSUME TypeOK, NEW p \in Pid, NEW n \in Asterisk \cup Plain, NEW st, NEW id, NEW e, NEW data,
           PutReqHandler(p, n, e, data, st, id)
    PROVE  /\ QueuesStay
           /\ st # "SUCCESS" => NothingNew
           /\ st = "SUCCESS" => LET q == MakeQueueName(p, n) IN
                 /\ Found(q) /\ q \in QueueName /\ UNCHANGED queues
                 /\ \A r \in requests' : r.queue # q => r \in requests
                 /\ SetEvent(queues[q].event)
<1>1. CASE NotNamed(p, n, st) \/ NotFound(p, n, st) \/ (st # "SUCCESS" /\ \E why : Refused(st, why))
  BY <1>1, SharedGentle DEF PutReqHandler, NotNamed, NotFound, Gentle
<1>2. CASE st # "SUCCESS" /\ UNCHANGED <<env, store, signalled>>
  BY <1>2 DEF QueuesStay, NothingNew, env, store
<1>3. ASSUME NEW q \in QueueName, Named(p, n, q), st = "SUCCESS",
             requests' = requests \cup {NewRequest(p, q, e, data)},
             SetEvent(queues[q].event), UNCHANGED <<env, queues>>
      PROVE  /\ QueuesStay
             /\ LET x == MakeQueueName(p, n) IN
                 /\ Found(x) /\ x \in QueueName /\ UNCHANGED queues
                 /\ \A r \in requests' : r.queue # x => r \in requests
                 /\ SetEvent(queues[x].event)
  <2>1. q = MakeQueueName(p, n) /\ Found(q) /\ NewRequest(p, q, e, data).queue = q
    BY <1>3 DEF Named, NewRequest
  <2> QED
    BY <1>3, <2>1 DEF QueuesStay, env
<1> QED
  BY <1>1, <1>2, <1>3 DEF PutReqHandler, NewRequest, Refused

LEMMA GetRplGentle ==
    ASSUME TypeOK, NEW p \in Pid, NEW n \in Asterisk \cup Plain, NEW st, NEW id, NEW data,
           GetRplHandler(p, n, id, st, data)
    PROVE  Gentle
<1>1. CASE NotNamed(p, n, st) \/ NotFound(p, n, st) \/ \E why : Refused(st, why)
  BY <1>1, SharedGentle DEF GetRplHandler
<1>2. ASSUME NEW r \in requests, DeleteRequestObj(r), UNCHANGED <<env, signalled>>
      PROVE  Gentle
  BY <1>2, DeleteGentle
<1> QED
  BY <1>1, <1>2 DEF GetRplHandler, First, WithId

LEMMA StartupGentle ==
    ASSUME TypeOK, NEW p \in Pid, NEW n \in Asterisk \cup Plain, NEW st, NEW started,
           StartupHandler(p, n, st, started)
    PROVE  Gentle
<1>1. CASE NotNamed(p, n, st) \/ \E why : Refused(st, why)
  BY <1>1, SharedGentle DEF StartupHandler
<1>2. CASE /\ CanName(p, n) /\ ~ Found(MakeQueueName(p, n))
           /\ DeleteQueueObj(MakeQueueName(p, n)) /\ UNCHANGED <<env, signalled>>
  <2>1. MakeQueueName(p, n) \in QueueName
    BY <1>2, NameType
  <2> QED
    BY <1>2, <2>1 DEF DeleteQueueObj, Gentle, QueuesStay, NothingNew, env, TypeOK
<1> QED
  BY <1>1, <1>2 DEF StartupHandler

LEMMA PortGentle ==
    ASSUME TypeOK, NEW p \in Pid, Reach(p) \/ PortClosed(p)
    PROVE  Gentle /\ UNCHANGED workerVars
<1>1. CASE Reach(p)
  BY <1>1 DEF Reach, Connect, Gentle, QueuesStay, NothingNew, store
<1>2. CASE PortClosed(p)
  BY <1>2 DEF PortClosed, Disconnect, NotifyHandler, Found, ServerActive, Gentle, QueuesStay, NothingNew
<1> QED
  BY <1>1, <1>2

-----------------------------------------------------------------------------
(* The steps of the others, as the proxies see them                        *)

LEMMA TheProxyQueue ==
    /\ ProxyQueue \in QueueName
    /\ \A p : MakeQueueName(p, Proxy) = ProxyQueue
BY ServerFacts DEF ProxyQueue, QueueName, MakeQueueName

(* A process other than the proxies begins or ends. *)
Aside(x) ==
    /\ UNCHANGED <<queues, requests, signalled>>
    /\ \A y \in Pid \ {x} : proc'[y] = proc[y]

LEMMA ProcessAside ==
    ASSUME TypeOK, NEW x \in Pid, ExitProcess(x) \/ \E b : StartProcess(x, b)
    PROVE  Aside(x)
BY DEF ExitProcess, StartProcess, Aside, store, TypeOK

(* A request reaches the queue of the proxy, and its event is set. *)
Arrival ==
    /\ QueuesStay
    /\ Found(ProxyQueue) /\ UNCHANGED queues
    /\ SetEvent(queues[ProxyQueue].event)

(* A caller leaves his wait. *)
Woken ==
    /\ UNCHANGED <<proc, queues, requests>>
    /\ \A e \in Child : e \in signalled => e \in signalled'

(* What the step of a caller x is to the proxies. *)
Outside(x) ==
    /\ UNCHANGED workerVars
    /\ Gentle \/ Arrival \/ Woken \/ Aside(x)

(* What a starting thread does to the proxies: nothing, end one, begin one. *)
LEMMA StarterView ==
    ASSUME ProxyInv, NEW t \in Starter, StartStep(t)
    PROVE  \/ UNCHANGED <<vars, boot, job, reported>>
           \/ \E p \in Server : ExitProcess(p) /\ Vanish({p})
           \/ \E p \in Server : CreateProcess(p)
<1>1. ASSUME NEW w \in ToSet(listed), Visit(t, w)
      PROVE  \/ UNCHANGED <<vars, boot, job, reported>>
             \/ \E p \in Server : ExitProcess(p) /\ Vanish({p})
  <2>1. w[1] \in Server
    BY DEF ProxyInv, ProxyShape, StartShape, ToSet, Child
  <2> QED
    BY <1>1, <2>1 DEF Visit, workerVars
<1>2. listed # << >> => Head(listed) \in ToSet(listed)
  BY DEF ProxyInv, ProxyShape, StartShape, ToSet
<1> QED
  BY <1>1, <1>2 DEF StartStep, Sweep, Misuse, Unlink, EndSweep, ResetReady, Launch,
                    Announced, NotAnnounced, CannotStart, Finish, workerVars

-----------------------------------------------------------------------------
(* One proxy                                                               *)

Owner == {"created", "announced", "serving"}

LEMMA OwnersStay ==
    ASSUME OneProxy, QueuesStay, \A p \in Server : boot'[p] \in Owner => boot[p] \in Owner
    PROVE  OneProxy'
BY TheProxyQueue DEF OneProxy, Owner, QueuesStay, Serving, Found, ServerActive

LEMMA OwnersApart ==
    ASSUME OneProxy, NEW x, Aside(x),
           \A p \in Server : boot'[p] \in Owner => boot[p] \in Owner /\ p # x
    PROVE  OneProxy'
BY ServerFacts DEF OneProxy, Owner, Aside, Serving, Found, ServerActive

LEMMA MachineOneProxy ==
    ASSUME ProxyInv, OneProxy, Machine
    PROVE  OneProxy'
<1> USE ServerFacts, TheProxyQueue
<1>0. TypeOK /\ boot \in [Server -> {"none", "new", "leaving", "created", "announced", "serving"}]
  BY DEF ProxyInv, IInv, ProxyShape, WorkerShape
<1>1. CASE UNCHANGED <<vars, boot>>
  BY <1>1, OwnersStay DEF vars, QueuesStay
<1>2. CASE UNCHANGED workerVars /\ (Gentle \/ Arrival)
  BY <1>2, OwnersStay DEF workerVars, Gentle, Arrival
<1>3. ASSUME NEW p \in Server, ExitProcess(p), Vanish({p}) PROVE OneProxy'
  BY <1>0, <1>3, ProcessAside, OwnersApart DEF Vanish, Owner
<1>4. ASSUME NEW p \in Server, CreateProcess(p) PROVE OneProxy'
  BY <1>0, <1>4, ProcessAside, OwnersApart DEF CreateProcess, Owner
<1>6. ASSUME NEW p \in Server, WorkerStep(p) PROVE OneProxy'
  <2>1. ASSUME NEW st \in Status, CreateQueue(p, st) PROVE OneProxy'
    <3>1. QueuesStay
      BY <1>0, <2>1, CreateGentle DEF CreateQueue
    <3>2. CASE st = "SUCCESS"
      <4>1. /\ queues' = [queues EXCEPT ![ProxyQueue] =
                            [pid |-> p, born |-> proc[p].born, event |-> QueueEvent(p)]]
            /\ proc[p].alive /\ proc' = proc
        BY <2>1, <3>2 DEF CreateQueue, CreateHandler, Refused, Caller, env
      <4>2. queues'[ProxyQueue] = [pid |-> p, born |-> proc[p].born, event |-> QueueEvent(p)]
        BY <1>0, <4>1 DEF TypeOK
      <4>3. queues'[ProxyQueue] # NoQueue
        <5>1. proc[p].born \in 0 .. MaxStarts /\ proc[p].born # 0
          BY <1>0, <4>1 DEF TypeOK, Process, ProxyInv, ProxyShape, Born
        <5>2. QueueEvent(p) \in Event
          BY <5>1 DEF QueueEvent, Self, Child
        <5> QED
          BY <4>2, <5>1, <5>2, SentinelAssumption
      <4>4. Serving(p)'
        BY <4>1, <4>2, <4>3 DEF Serving, Found, ServerActive
      <4>5. ASSUME NEW x \in Server, x # p, boot'[x] \in Owner PROVE Serving(x)'
        BY <1>0, <2>1, <3>1, <4>5 DEF CreateQueue, Owner, OneProxy, QueuesStay, Serving, Found, ServerActive
      <4> QED
        BY <4>4, <4>5 DEF OneProxy, Owner
    <3>3. CASE st # "SUCCESS"
      BY <1>0, <2>1, <3>1, <3>3, OwnersStay DEF CreateQueue, Owner
    <3> QED
      BY <3>2, <3>3
  <2>2. CASE Announce(p) \/ Register(p)
    BY <1>0, <2>2, OwnersStay DEF Announce, Register, Owner, vars, QueuesStay
  <2>3. ASSUME NEW s \in Slot, QueueCallbackWorker(p, s) \/ RunRequest(p, s) PROVE OneProxy'
    BY <1>1, <2>3, OwnersStay
       DEF QueueCallbackWorker, RunRequest, WaitEvent, env, store, vars, QueuesStay
  <2>4. ASSUME NEW s \in Slot, NEW st \in Status, NEW id \in Id, NEW data \in Payload,
               TakeRequest(p, s, st, id, data)
        PROVE  OneProxy'
    BY <1>0, <2>4, GetReqGentle, OwnersStay DEF TakeRequest, Gentle
  <2>5. ASSUME NEW s \in Slot, NEW st \in Status, PutReply(p, s, st) PROVE OneProxy'
    BY <1>0, <2>5, PutRplGentle, OwnersStay DEF PutReply, Gentle
  <2> QED
    BY <1>0, <1>2, <1>3, <1>6, <2>1, <2>2, <2>3, <2>4, <2>5, PortGentle DEF WorkerStep, Leave
<1>7. ASSUME NEW t \in Starter, StartStep(t) PROVE OneProxy'
  BY <1>1, <1>3, <1>4, <1>7, StarterView
<1>8. ASSUME NEW p \in Pid, Reach(p) \/ PortClosed(p) PROVE OneProxy'
  BY <1>0, <1>2, <1>8, PortGentle
<1> QED
  BY <1>3, <1>6, <1>7, <1>8 DEF Machine, Crash

LEMMA OutsideOneProxy ==
    ASSUME ProxyInv, OneProxy, NEW x \in Pid \ Server, Outside(x)
    PROVE  OneProxy'
<1>1. CASE Gentle \/ Arrival \/ Woken
  BY <1>1, OwnersStay DEF Outside, workerVars, Gentle, Arrival, Woken, QueuesStay
<1>2. CASE Aside(x)
  BY <1>2, OwnersApart DEF Outside, workerVars
<1> QED
  BY <1>1, <1>2 DEF Outside

-----------------------------------------------------------------------------
(* The wake-up                                                             *)

(* Putting a request signals the event the callbacks of the server of the  *)
(* queue wait for.                                                         *)
OwnEvent ==
    queues[ProxyQueue] # NoQueue =>
        /\ queues[ProxyQueue].event = <<queues[ProxyQueue].pid, queues[ProxyQueue].born>>
        /\ queues[ProxyQueue].event \in Child

(* NoSilentStall for one proxy. *)
NoStall(p) ==
    Serving(p) /\ Waiting(ProxyQueue) # {} =>
        \/ QueueEvent(p) \in signalled
        \/ \E s \in Slot : job[<<p, s>>].pc # "idle"
        \/ Self(p) \in reported

LEMMA StallOfEach == NoSilentStall <=> \A p \in Server : NoStall(p)
BY DEF NoSilentStall, NoStall

LEMMA StallOfEachThen == NoSilentStall' <=> \A p \in Server : NoStall(p)'
BY DEF NoSilentStall, NoStall

(* A step that is none of the proxy's business. *)
LEMMA Undisturbed ==
    ASSUME NEW p \in Server, NoStall(p),
           Serving(p)' => Serving(p) /\ proc'[p] = proc[p]
                            /\ \A s \in Slot : job'[<<p, s>>] = job[<<p, s>>],
           \A r \in requests' : r.queue = ProxyQueue /\ r.taken = NoOne => r \in requests,
           QueueEvent(p) \in signalled => QueueEvent(p) \in signalled',
           reported \subseteq reported'
    PROVE  NoStall(p)'
<1> SUFFICES ASSUME Serving(p)', Waiting(ProxyQueue)' # {} PROVE NoStall(p)'
  BY DEF NoStall
<1>1. Serving(p) /\ Self(p)' = Self(p) /\ QueueEvent(p)' = QueueEvent(p)
  BY DEF Self, QueueEvent
<1>2. Waiting(ProxyQueue) # {}
  BY DEF Waiting
<1> QED
  BY <1>1, <1>2 DEF NoStall

LEMMA GentleStall ==
    ASSUME NEW p \in Server, NoStall(p), Gentle, reported \subseteq reported',
           \A s \in Slot : job'[<<p, s>>] = job[<<p, s>>]
    PROVE  NoStall(p)'
BY Undisturbed, TheProxyQueue DEF Gentle, QueuesStay, NothingNew, Serving, Found, ServerActive

LEMMA AsideStall ==
    ASSUME NEW p \in Server, NoStall(p), NEW x, x # p, Aside(x), reported \subseteq reported',
           \A s \in Slot : job'[<<p, s>>] = job[<<p, s>>]
    PROVE  NoStall(p)'
<1>1. proc'[p] = proc[p]
  BY ServerFacts DEF Aside
<1> QED
  BY <1>1, Undisturbed DEF Aside, Serving, Found, ServerActive

(* A callback at work, or one that reported, is enough. *)
LEMMA BusyStall ==
    ASSUME NEW p \in Server,
           \/ \E s \in Slot : job'[<<p, s>>].pc # "idle"
           \/ Self(p)' \in reported'
    PROVE  NoStall(p)'
BY DEF NoStall

LEMMA ArrivalStall ==
    ASSUME ProxyInv, OwnEvent, NEW p \in Server, Arrival
    PROVE  NoStall(p)'
<1>0. queues[ProxyQueue] \in Queue /\ queues[ProxyQueue].event = <<queues[ProxyQueue].pid, queues[ProxyQueue].born>>
  BY TheProxyQueue DEF Arrival, Found, OwnEvent, ProxyInv, IInv, TypeOK
<1> SUFFICES ASSUME Serving(p)' PROVE QueueEvent(p)' \in signalled'
  BY DEF NoStall
<1>1. queues[ProxyQueue].pid = p /\ ServerActive(ProxyQueue) /\ proc' = proc
  BY DEF Arrival, QueuesStay, Serving, Found
<1>2. QueueEvent(p)' = queues[ProxyQueue].event
  BY <1>0, <1>1 DEF QueueEvent, Self, ServerActive
<1>3. QueueEvent(p)' # NoEvent
  <2>1. proc[p].alive /\ proc[p].born \in 0 .. MaxStarts /\ proc[p].born # 0
    BY <1>1, ServerFacts DEF ServerActive, ProxyInv, IInv, TypeOK, Process, ProxyShape, Born
  <2>2. QueueEvent(p)' \in Child
    BY <1>1, <2>1, ServerFacts DEF QueueEvent, Self, Child
  <2> QED
    BY <2>2, ServerFacts, SentinelAssumption
<1> QED
  BY <1>2, <1>3 DEF Arrival, SetEvent

(* A queue that stays keeps its event. *)
LEMMA OwnEventStays ==
    ASSUME OwnEvent, queues'[ProxyQueue] # NoQueue => queues'[ProxyQueue] = queues[ProxyQueue]
    PROVE  OwnEvent'
BY DEF OwnEvent

-----------------------------------------------------------------------------
Stalls == OwnEvent /\ NoSilentStall

LEMMA OutsideStalls ==
    ASSUME ProxyInv, Stalls, NEW c \in Pid \ Server, Outside(c)
    PROVE  Stalls'
<1> USE ServerFacts, TheProxyQueue
<1>1. UNCHANGED workerVars /\ (Gentle \/ Arrival \/ Woken \/ Aside(c))
  BY DEF Outside
<1>2. OwnEvent'
  BY <1>1, OwnEventStays DEF Gentle, NothingNew, Arrival, Woken, Aside, Stalls
<1>3. ASSUME NEW p \in Server PROVE NoStall(p)'
  <2>1. NoStall(p) /\ reported' = reported /\ job' = job
    BY <1>1, StallOfEach DEF Stalls, workerVars
  <2>2. CASE Gentle
    BY <2>1, <2>2, GentleStall
  <2>3. CASE Arrival
    BY <2>3, ArrivalStall DEF Stalls
  <2>4. CASE Woken
    <3>1. Serving(p)' => QueueEvent(p) \in Child /\ Serving(p)
      BY <2>4 DEF Woken, QueueEvent, Self, Child, Serving, Found, ServerActive, ProxyInv, ProxyShape, Born,
                  IInv, TypeOK, Process
    <3>2. CASE Serving(p)'
      BY <2>1, <2>4, <3>1, <3>2, Undisturbed DEF Woken
    <3>3. CASE ~ Serving(p)'
      BY <3>3 DEF NoStall
    <3> QED
      BY <3>2, <3>3
  <2>5. CASE Aside(c)
    BY <2>1, <2>5, AsideStall
  <2> QED
    BY <1>1, <2>2, <2>3, <2>4, <2>5
<1> QED
  BY <1>2, <1>3, StallOfEachThen DEF Stalls

LEMMA EndStalls ==
    ASSUME ProxyInv, Stalls, NEW x \in Server, ExitProcess(x), Vanish({x})
    PROVE  Stalls'
<1>1. Aside(x) /\ reported' = reported
  BY ProcessAside, ServerFacts DEF ProxyInv, IInv, Vanish
<1>2. OwnEvent'
  BY <1>1, OwnEventStays DEF Aside, Stalls
<1>3. ~ Serving(x)'
  BY ServerFacts DEF ExitProcess, Serving, ProxyInv, IInv, TypeOK, Process
<1>4. ASSUME NEW p \in Server, p # x PROVE NoStall(p)'
  <2>1. \A s \in Slot : job'[<<p, s>>] = job[<<p, s>>]
    BY <1>4 DEF Vanish
  <2> QED
    BY <1>1, <1>4, <2>1, AsideStall, StallOfEach DEF Stalls
<1> QED
  BY <1>2, <1>3, <1>4, StallOfEachThen DEF Stalls, NoStall

(* A queue is not inherited: it knows when its server was created. *)
LEMMA BeginStalls ==
    ASSUME ProxyInv, Stalls, NEW x \in Server, CreateProcess(x)
    PROVE  Stalls'
<1>1. Aside(x) /\ reported' = reported /\ job' = job /\ x \in Pid
  BY ProcessAside, ServerFacts DEF ProxyInv, IInv, CreateProcess
<1>2. OwnEvent'
  BY <1>1, OwnEventStays DEF Aside, Stalls
<1>3. ~ Serving(x)'
  <2> SUFFICES ASSUME Serving(x)' PROVE FALSE
    OBVIOUS
  <2>1. queues[ProxyQueue] # NoQueue /\ queues[ProxyQueue].pid = x
        /\ proc'[x].born = queues[ProxyQueue].born
    BY <1>1 DEF Serving, Found, ServerActive, Aside
  <2>2. proc'[x].born = proc[x].born + 1
    BY <1>1 DEF CreateProcess, StartProcess, ProxyInv, IInv, TypeOK
  <2>3. queues[ProxyQueue].born <= proc[x].born
    BY <2>1, TheProxyQueue DEF ProxyInv, IInv, Ages
  <2>4. proc[x].born \in Nat
    BY <1>1, ServerFacts DEF ProxyInv, IInv, TypeOK, Process
  <2> QED
    BY <2>1, <2>2, <2>3, <2>4
<1>4. ASSUME NEW p \in Server, p # x PROVE NoStall(p)'
  BY <1>1, <1>4, AsideStall, StallOfEach DEF Stalls
<1> QED
  BY <1>2, <1>3, <1>4, StallOfEachThen DEF Stalls, NoStall

LEMMA LiveChild ==
    ASSUME TypeOK, Born, NEW p \in Server, proc[p].alive
    PROVE  Self(p) \in Child
<1>1. proc[p].born \in 0 .. MaxStarts /\ proc[p].born # 0
  BY ServerFacts DEF TypeOK, Process, Born
<1> QED
  BY <1>1, ServerFacts DEF Self, Child

LEMMA CreateStalls ==
    ASSUME ProxyInv, Stalls, NEW x \in Server, NEW st \in Status, CreateQueue(x, st)
    PROVE  Stalls'
<1> USE ServerFacts, TheProxyQueue
<1>0. TypeOK /\ reported' = reported /\ job' = job /\ x \in Pid
  BY DEF ProxyInv, IInv, CreateQueue
<1>1. QueuesStay /\ (st # "SUCCESS" => NothingNew)
  BY <1>0, CreateGentle DEF CreateQueue
<1>2. CASE st # "SUCCESS"
  <2>1. OwnEvent'
    BY <1>1, <1>2, OwnEventStays DEF NothingNew, Stalls
  <2>2. ASSUME NEW p \in Server PROVE NoStall(p)'
    BY <1>0, <1>1, <1>2, GentleStall, StallOfEach DEF Gentle, Stalls
  <2> QED
    BY <2>1, <2>2, StallOfEachThen DEF Stalls
<1>3. CASE st = "SUCCESS"
  <2>1. /\ queues' = [queues EXCEPT ![ProxyQueue] =
                        [pid |-> x, born |-> proc[x].born, event |-> QueueEvent(x)]]
        /\ requests' = {r \in requests : r.queue # ProxyQueue}
    BY <1>3 DEF CreateQueue, CreateHandler, Refused
  <2>2. queues'[ProxyQueue] = [pid |-> x, born |-> proc[x].born, event |-> QueueEvent(x)]
    BY <1>0, <2>1 DEF TypeOK
  <2>3. OwnEvent'
    <3>1. Self(x) \in Child
      BY <1>0, <1>3, LiveChild DEF CreateQueue, CreateHandler, Caller, ProxyInv, ProxyShape
    <3> QED
      BY <2>2, <3>1 DEF OwnEvent, QueueEvent, Self
  <2>4. Waiting(ProxyQueue)' = {}
    BY <2>1 DEF Waiting
  <2> QED
    BY <2>3, <2>4, StallOfEachThen DEF Stalls, NoStall
<1> QED
  BY <1>2, <1>3

LEMMA JobStalls ==
    ASSUME ProxyInv, Stalls, NEW x \in Server, NEW y \in Slot,
           \/ QueueCallbackWorker(x, y)
           \/ RunRequest(x, y)
           \/ \E st \in Status, id \in Id, data \in Payload : TakeRequest(x, y, st, id, data)
           \/ \E st \in Status : PutReply(x, y, st)
    PROVE  Stalls'
<1> USE ServerFacts, TheProxyQueue
<1>0. TypeOK /\ job \in [Server \X Slot -> Job] /\ x \in Pid /\ <<x, y>> \in Server \X Slot
  BY DEF ProxyInv, IInv, ProxyShape, WorkerShape
<1>1. CASE QueueCallbackWorker(x, y)
  <2>1. /\ UNCHANGED <<proc, queues, requests, reported>>
        /\ signalled' = signalled \ {QueueEvent(x)}
        /\ job' = [job EXCEPT ![<<x, y>>].pc = "get"]
    BY <1>1 DEF QueueCallbackWorker, WaitEvent, env, store
  <2>2. job'[<<x, y>>].pc = "get"
    BY <1>0, <2>1 DEF Job
  <2>3. ASSUME NEW p \in Server, p # x PROVE NoStall(p)'
    <3>1. QueueEvent(p) # QueueEvent(x) /\ \A s \in Slot : job'[<<p, s>>] = job[<<p, s>>]
      BY <1>0, <2>1, <2>3 DEF QueueEvent, Self
    <3>2. Serving(p)' <=> Serving(p)
      BY <2>1 DEF Serving, Found, ServerActive
    <3> QED
      BY <2>1, <3>1, <3>2, Undisturbed, StallOfEach DEF Stalls
  <2>4. OwnEvent'
    BY <2>1, OwnEventStays DEF Stalls
  <2>5. NoStall(x)'
    BY <2>2, BusyStall
  <2> QED
    BY <2>3, <2>4, <2>5, StallOfEachThen DEF Stalls
<1>2. ASSUME Gentle, \A p \in Server, s \in Slot : p # x => job'[<<p, s>>] = job[<<p, s>>],
             reported \subseteq reported', NoStall(x)'
      PROVE  Stalls'
  <2>1. ASSUME NEW p \in Server, p # x PROVE NoStall(p)'
    BY <1>2, <2>1, GentleStall, StallOfEach DEF Stalls
  <2>2. OwnEvent'
    BY <1>2, OwnEventStays DEF Stalls, Gentle, NothingNew
  <2> QED
    BY <1>2, <2>1, <2>2, StallOfEachThen DEF Stalls
<1>3. CASE RunRequest(x, y)
  <2>1. job'[<<x, y>>].pc = "reply" /\ \A p \in Server, s \in Slot : p # x => job'[<<p, s>>] = job[<<p, s>>]
    BY <1>0, <1>3 DEF RunRequest, Job
  <2>2. Gentle /\ reported' = reported
    BY <1>3 DEF RunRequest, vars, Gentle, QueuesStay, NothingNew
  <2>3. NoStall(x)'
    BY <2>1, BusyStall
  <2> QED
    BY <1>2, <2>1, <2>2, <2>3
<1>4. ASSUME NEW st \in Status, NEW id \in Id, NEW data \in Payload, TakeRequest(x, y, st, id, data)
      PROVE  Stalls'
  <2>1. Gentle
    BY <1>0, <1>4, GetReqGentle DEF TakeRequest
  <2>2. \A p \in Server, s \in Slot : p # x => job'[<<p, s>>] = job[<<p, s>>]
    BY <1>0, <1>4 DEF TakeRequest
  <2>3. reported \subseteq reported'
    BY <1>4 DEF TakeRequest, Report
  <2>4. NoStall(x)'
    <3>1. CASE st = "SUCCESS"
      <4>1. job'[<<x, y>>].pc = "run"
        BY <1>0, <1>4, <3>1 DEF TakeRequest
      <4> QED
        BY <4>1, BusyStall
    <3>2. CASE st = "END_OF_FILE"
      <4>1. Waiting(ProxyQueue) = {} /\ requests' = requests
        BY <1>4, <3>2 DEF TakeRequest, GetReqHandler, NotNamed, NotFound, Named, Refused, store
      <4> QED
        BY <4>1 DEF NoStall, Waiting
    <3>3. CASE st \notin {"SUCCESS", "END_OF_FILE"}
      <4>1. Self(x)' \in reported'
        BY <1>4, <2>1, <3>3 DEF TakeRequest, Report, Self, Gentle, QueuesStay
      <4> QED
        BY <4>1, BusyStall
    <3> QED
      BY <3>1, <3>2, <3>3
  <2> QED
    BY <1>2, <2>1, <2>2, <2>3, <2>4
<1>5. ASSUME NEW st \in Status, PutReply(x, y, st) PROVE Stalls'
  <2>1. Gentle
    BY <1>0, <1>5, PutRplGentle DEF PutReply
  <2>2. \A p \in Server, s \in Slot : p # x => job'[<<p, s>>] = job[<<p, s>>]
    BY <1>0, <1>5 DEF PutReply
  <2>3. reported \subseteq reported'
    BY <1>5 DEF PutReply, Report
  <2>4. NoStall(x)'
    <3>1. CASE st \in {"SUCCESS", "END_OF_FILE"}
      <4>1. job'[<<x, y>>].pc = "get"
        BY <1>0, <1>5, <3>1 DEF PutReply, IdleJob
      <4> QED
        BY <4>1, BusyStall
    <3>2. CASE st \notin {"SUCCESS", "END_OF_FILE"}
      <4>1. Self(x)' \in reported'
        BY <1>5, <2>1, <3>2 DEF PutReply, Report, Self, Gentle, QueuesStay
      <4> QED
        BY <4>1, BusyStall
    <3> QED
      BY <3>1, <3>2
  <2> QED
    BY <1>2, <2>1, <2>2, <2>3, <2>4
<1> QED
  BY <1>1, <1>3, <1>4, <1>5

LEMMA MachineStalls ==
    ASSUME ProxyInv, Stalls, Machine
    PROVE  Stalls'
<1> USE ServerFacts, TheProxyQueue
<1>1. ASSUME Gentle, UNCHANGED <<job, reported>> PROVE Stalls'
  <2>1. ASSUME NEW p \in Server PROVE NoStall(p)'
    BY <1>1, GentleStall, StallOfEach DEF Stalls
  <2>2. OwnEvent'
    BY <1>1, OwnEventStays DEF Stalls, Gentle, NothingNew
  <2> QED
    BY <2>1, <2>2, StallOfEachThen DEF Stalls
<1>2. CASE UNCHANGED <<vars, job, reported>>
  BY <1>1, <1>2 DEF vars, Gentle, QueuesStay, NothingNew
<1>3. ASSUME NEW p \in Pid, Reach(p) \/ PortClosed(p) PROVE Stalls'
  BY <1>1, <1>3, PortGentle DEF workerVars, ProxyInv, IInv
<1>4. ASSUME NEW p \in Server, WorkerStep(p) PROVE Stalls'
  <2>1. CASE Announce(p) \/ Register(p)
    BY <1>2, <2>1 DEF Announce, Register
  <2> QED
    BY <1>3, <1>4, <2>1, EndStalls, CreateStalls, JobStalls DEF WorkerStep, Leave
<1>5. ASSUME NEW t \in Starter, StartStep(t) PROVE Stalls'
  BY <1>2, <1>5, StarterView, EndStalls, BeginStalls
<1> QED
  BY <1>3, <1>4, <1>5, EndStalls DEF Machine, Crash

-----------------------------------------------------------------------------
(* One callback for each request                                           *)

(* What becomes of the ids: an old request keeps its own and is not given  *)
(* back, a new one has an id of its own.                                   *)
IdsStay ==
    /\ issued' \in Nat /\ issued <= issued'
    /\ \A r \in requests' :
          \/ r.id > issued + 1
          \/ \E x \in requests : x.id = r.id /\ (x.taken # NoOne => r.taken # NoOne)

LEMMA FewerRequests ==
    ASSUME IInv, requests' \subseteq requests, issued' = issued
    PROVE  IdsStay
BY IdAssumption DEF IInv, TypeOK, IdsStay

LEMMA EffectKeepsIds ==
    ASSUME IInv, IInv', Effect
    PROVE  IdsStay
<1>0. /\ issued \in Nat /\ issued' \in Nat /\ requests \subseteq Request
      /\ issued' = issued + 1 => issued <= issued'
  BY IdAssumption DEF IInv, TypeOK
<1>1. CASE Quiet \/ (\E q \in QueueName : SweepQueue(q)) \/ (\E r \in requests : Drop(r))
           \/ \E p \in Pid, q \in QueueName, e \in Handle : OpenQueue(p, q, e)
  BY <1>1, FewerRequests
     DEF Quiet, SweepQueue, Drop, OpenQueue, DeleteQueueObj, DeleteRequestObj, store, counters
<1>2. CASE Lose
  BY <1>0, <1>2 DEF Lose, Advance, store, IdsStay
<1>3. ASSUME NEW p \in Pid, NEW q \in QueueName, NEW r \in requests, Take(p, q, r) PROVE IdsStay
  <2> DEFINE t == [r EXCEPT !.taken = <<p, proc[p].born>>]
  <2>1. t.id = r.id /\ t.taken # NoOne
    BY <1>0, TakenField, SentinelAssumption DEF IInv, TypeOK, Process
  <2>2. requests' = (requests \ {r}) \cup {t} /\ issued' = issued
    BY <1>3 DEF Take, counters
  <2> HIDE DEF t
  <2> QED
    BY <1>0, <2>1, <2>2 DEF IdsStay
<1>4. ASSUME NEW r \in requests, NEW data \in Data, Reply(r, data) PROVE IdsStay
  <2> DEFINE t == [r EXCEPT !.rpl = data]
  <2>1. t.id = r.id /\ t.taken = r.taken
    BY <1>0, ReplyField
  <2>2. requests' = (requests \ {r}) \cup {t} /\ issued' = issued
    BY <1>4 DEF Reply, counters
  <2> HIDE DEF t
  <2> QED
    BY <1>0, <2>1, <2>2 DEF IdsStay
<1>5. ASSUME NEW p \in Pid, NEW q \in QueueName, NEW e \in Handle, NEW data \in Data,
             Accept(p, q, e, data)
      PROVE  IdsStay
  <2> DEFINE t == NewRequest(p, q, e, data)
  <2>1. requests' = requests \cup {t} /\ issued' = issued + 1 /\ t.turn = issued + 1
    BY <1>5 DEF Accept, Advance, NewRequest
  <2> HIDE DEF t
  <2>2. t.id = t.turn + 1
    BY <2>1 DEF IInv, Counting
  <2>3. t.id > issued + 1
    BY <1>0, <2>1, <2>2
  <2> QED
    BY <1>0, <2>1, <2>3 DEF IdsStay
<1> QED
  BY <1>1, <1>2, <1>3, <1>4, <1>5 DEF Effect

LEMMA IdsStep ==
    ASSUME IInv, IInv', [Next]_vars
    PROVE  IdsStay
<1>1. ASSUME NEW p \in Pid, NEW n \in Asterisk \cup Plain, NEW st \in Status, Call(p, n, st)
      PROVE  IdsStay
  BY <1>1, CallEffect, EffectKeepsIds DEF IInv
<1>2. ASSUME \/ UNCHANGED vars
             \/ \E p \in Pid, b \in Box \cup {NoBox} : StartProcess(p, b)
             \/ \E p \in Pid : ExitProcess(p) \/ Connect(p) \/ Disconnect(p)
             \/ \E e \in Event : WaitEvent(e)
      PROVE  IdsStay
  BY <1>2, FewerRequests
     DEF vars, StartProcess, ExitProcess, Connect, Disconnect, NotifyHandler, WaitEvent, store, counters
<1> QED
  BY <1>1, <1>2 DEF Next

Busy == {"run", "reply"}

(* The request a callback works on is not waiting any more, and no other   *)
(* callback, of any proxy, works on it.                                    *)
InHand ==
    \A k \in Server \X Slot : job[k].pc \in Busy =>
        /\ job[k].id \in Nat /\ job[k].id <= issued + 1
        /\ \A r \in requests : r.id = job[k].id => r.taken # NoOne

Apart ==
    \A k, l \in Server \X Slot :
        k # l /\ job[k].pc \in Busy /\ job[l].pc \in Busy => job[k].id # job[l].id

(* A job that goes on with the request it has. *)
Continues(k) == job'[k].pc \in Busy => job[k].pc \in Busy /\ job'[k].id = job[k].id

LEMMA JobsContinue ==
    ASSUME IInv, InHand, Apart, IdsStay, \A k \in Server \X Slot : Continues(k)
    PROVE  InHand' /\ Apart'
<1>0. issued \in Nat /\ issued' \in Nat /\ issued <= issued'
  BY IdAssumption DEF IInv, TypeOK, IdsStay
<1>1. ASSUME NEW k \in Server \X Slot, job'[k].pc \in Busy
      PROVE  /\ job'[k].id \in Nat /\ job'[k].id <= issued' + 1
             /\ \A r \in requests' : r.id = job'[k].id => r.taken # NoOne
  <2>1. /\ job'[k].id \in Nat /\ job'[k].id <= issued + 1
        /\ \A r \in requests : r.id = job'[k].id => r.taken # NoOne
    BY <1>1 DEF Continues, InHand
  <2>2. ASSUME NEW r \in requests', r.id = job'[k].id PROVE r.taken # NoOne
    BY <1>0, <2>1, <2>2 DEF IdsStay
  <2>3. job'[k].id <= issued' + 1
    BY <1>0, <2>1
  <2> QED
    BY <2>1, <2>2, <2>3
<1>2. InHand'
  BY <1>1 DEF InHand
<1>3. Apart'
  BY DEF Apart, Continues
<1> QED
  BY <1>2, <1>3

LEMMA StaysBelow ==
    ASSUME NEW i \in Nat, NEW a \in Nat, NEW b \in Nat, i <= a + 1, a <= b
    PROVE  i <= b + 1
OBVIOUS

LEMMA TakeApart ==
    ASSUME ProxyInv, InHand, Apart, IdsStay, NEW p \in Server, NEW s \in Slot, NEW id, NEW data,
           TakeRequest(p, s, "SUCCESS", id, data), IInv'
    PROVE  InHand' /\ Apart'
<1> USE ServerFacts
<1> DEFINE k == <<p, s>>
<1>0. /\ TypeOK /\ job \in [Server \X Slot -> Job] /\ k \in Server \X Slot
      /\ issued \in Nat /\ requests \subseteq Request
  BY IdAssumption DEF ProxyInv, IInv, TypeOK, ProxyShape, WorkerShape
<1>1. PICK r \in requests :
              /\ r.taken = NoOne /\ id = r.id
              /\ requests' = (requests \ {r}) \cup {[r EXCEPT !.taken = <<p, proc[p].born>>]}
  BY <1>0, TakenData DEF TakeRequest
<1>2. job' = [job EXCEPT ![k] = [pc |-> "run", id |-> id, data |-> data]]
  BY DEF TakeRequest
<1> HIDE DEF k
<1>3. job'[k].id = id /\ \A l \in Server \X Slot : l # k => job'[l] = job[l]
  BY <1>0, <1>2
<1>4. \A l \in Server \X Slot : job[l].pc \in Busy => job[l].id # id
  BY <1>1 DEF InHand
<1>5. Apart'
  BY <1>3, <1>4 DEF Apart
<1>6. issued' \in Nat /\ issued <= issued'
  BY DEF IdsStay
<1>7. id \in Nat /\ id <= issued + 1
  <2>1. r.turn \in Nat /\ r.turn <= issued /\ r.id = r.turn + 1
    BY <1>0, IdAssumption DEF Request, ProxyInv, IInv, Turns, Counting
  <2> QED
    BY <1>0, <1>1, <2>1
<1>8. ASSUME NEW x \in requests', x.id = id PROVE x.taken # NoOne
  <2>1. [r EXCEPT !.taken = <<p, proc[p].born>>].taken # NoOne
    BY <1>0, TakenField, SentinelAssumption DEF TypeOK, Process
  <2>2. ASSUME NEW y \in requests, y.id = id PROVE y = r
    BY <1>1, <2>2, DistinctIds DEF ProxyInv
  <2> QED
    BY <1>1, <1>8, <2>1, <2>2
<1>9. ASSUME NEW l \in Server \X Slot, l # k, job'[l].pc \in Busy
      PROVE  /\ job'[l].id \in Nat /\ job'[l].id <= issued' + 1
             /\ \A x \in requests' : x.id = job'[l].id => x.taken # NoOne
  <2>1. /\ job'[l].id \in Nat /\ job'[l].id <= issued + 1
        /\ \A x \in requests : x.id = job'[l].id => x.taken # NoOne
    BY <1>3, <1>9 DEF InHand
  <2>2. ASSUME NEW x \in requests', x.id = job'[l].id PROVE x.taken # NoOne
    BY <1>0, <2>1, <2>2 DEF IdsStay
  <2>3. job'[l].id <= issued' + 1
    BY <1>0, <1>6, <2>1
  <2> QED
    BY <2>1, <2>2, <2>3
<1>10. id <= issued' + 1
  <2>1. issued \in Nat
    BY <1>0
  <2> QED
    BY <2>1, <1>6, <1>7, StaysBelow
<1>11. InHand'
  <2> SUFFICES ASSUME NEW l \in Server \X Slot, job'[l].pc \in Busy
               PROVE  /\ job'[l].id \in Nat /\ job'[l].id <= issued' + 1
                      /\ \A x \in requests' : x.id = job'[l].id => x.taken # NoOne
    BY DEF InHand
  <2>1. CASE l = k
    BY <1>3, <1>7, <1>8, <1>10, <2>1
  <2> QED
    BY <1>9, <2>1
<1> QED
  BY <1>5, <1>11

LEMMA MachineJobs ==
    ASSUME ProxyInv, InHand, Apart, Machine
    PROVE  InHand' /\ Apart'
<1>0. IInv /\ IInv' /\ IdsStay /\ job \in [Server \X Slot -> Job]
  BY MachineKeeps, IdsStep DEF ProxyInv, ProxyShape, WorkerShape
<1>1. CASE UNCHANGED job
  BY <1>0, <1>1, JobsContinue DEF Continues
<1>2. ASSUME NEW S, Vanish(S) PROVE InHand' /\ Apart'
  BY <1>0, <1>2, JobsContinue DEF Continues, Vanish, IdleJob, Busy
<1>3. ASSUME NEW p \in Server, WorkerStep(p) PROVE InHand' /\ Apart'
  <2>1. ASSUME NEW s \in Slot, QueueCallbackWorker(p, s) \/ RunRequest(p, s)
        PROVE  \A k \in Server \X Slot : Continues(k)
    BY <1>0, <2>1 DEF QueueCallbackWorker, RunRequest, Continues, Busy, Job
  <2>2. ASSUME NEW s \in Slot, NEW st \in Status, PutReply(p, s, st)
        PROVE  \A k \in Server \X Slot : Continues(k)
    BY <1>0, <2>2 DEF PutReply, Continues, Busy, IdleJob
  <2>3. ASSUME NEW s \in Slot, NEW st \in Status, NEW id \in Id, NEW data \in Payload,
               TakeRequest(p, s, st, id, data), st # "SUCCESS"
        PROVE  \A k \in Server \X Slot : Continues(k)
    BY <1>0, <2>3 DEF TakeRequest, Continues, Busy, IdleJob
  <2>4. CASE Reach(p) \/ (\E st \in Status : CreateQueue(p, st)) \/ Announce(p) \/ Register(p)
    BY <1>1, <2>4 DEF Reach, CreateQueue, Announce, Register, workerVars
  <2> QED
    BY <1>0, <1>2, <1>3, <2>1, <2>2, <2>3, <2>4, JobsContinue, TakeApart DEF WorkerStep, Leave
<1>4. ASSUME NEW t \in Starter, StartStep(t) PROVE InHand' /\ Apart'
  BY <1>1, <1>2, <1>4, StarterView DEF CreateProcess
<1>6. CASE UNCHANGED workerVars
  BY <1>1, <1>6 DEF workerVars
<1> QED
  BY <1>2, <1>3, <1>4, <1>6 DEF Machine, Crash, Reach, PortClosed

LEMMA OutsideJobs ==
    ASSUME IInv, IInv', InHand, Apart, [Next]_vars, UNCHANGED job
    PROVE  InHand' /\ Apart'
BY IdsStep, JobsContinue DEF Continues

LEMMA ApartCallbacks == Apart => OneCallbackEach
<1> SUFFICES ASSUME Apart, NEW p \in Server, NEW s \in Slot, NEW t \in Slot, s # t,
                    job[<<p, s>>].pc \in {"run", "reply"}, job[<<p, t>>].pc \in {"run", "reply"}
             PROVE  job[<<p, s>>].id # job[<<p, t>>].id
  BY DEF OneCallbackEach
<1>1. <<p, s>> # <<p, t>> /\ <<p, s>> \in Server \X Slot /\ <<p, t>> \in Server \X Slot
  OBVIOUS
<1> QED
  BY <1>1 DEF Apart, Busy

-----------------------------------------------------------------------------
(* One run for each request                                                *)

Callback == Server \X Slot

(* Neither a request nor a callback has d. *)
Absent(d) ==
    /\ \A r \in requests : r.data # d
    /\ \A k \in Callback : job[k].pc \in Busy => job[k].data # d

(* Nobody has asked the proxy for d yet. *)
Untouched(d) == ran[d] = 0 /\ Absent(d)

OnePlace == \A r, s \in requests : r.data = s.data => r = s

Undone == \A r \in requests : r.taken = NoOne => ran[r.data] = 0

Answers == \A r \in requests : r.rpl # NoData => r.rpl = r.data /\ ran[r.data] = 1

(* A callback has the payload of the request it has the id of, and knows   *)
(* whether it ran it; no other callback has the payload.                   *)
AtWork ==
    \A k \in Callback : job[k].pc \in Busy =>
        /\ issued # 0
        /\ ran[job[k].data] = IF job[k].pc = "run" THEN 0 ELSE 1
        /\ \A r \in requests : (r.id = job[k].id <=> r.data = job[k].data)
        /\ \A r \in requests : r.id = job[k].id => r.rpl = NoData
        /\ \A l \in Callback : l # k /\ job[l].pc \in Busy => job[l].data # job[k].data

RunOnce ==
    /\ ran \in [Data -> {0, 1}]
    /\ \A d \in Data : ran[d] = 1 => issued # 0

Tasks == OnePlace /\ Undone /\ Answers /\ AtWork /\ RunOnce

(* What a step that puts no request keeps for the callers.                 *)
Descends(r) ==
    \E x \in requests :
        /\ x.id = r.id /\ x.data = r.data /\ x.event = r.event /\ x.pid = r.pid /\ x.queue = r.queue
        /\ x.rpl # NoData => r.rpl # NoData

Kept ==
    /\ \A d \in Data : Untouched(d) => Untouched(d)'
    /\ \A d \in Data : Absent(d) => Absent(d)'
    /\ \A r \in requests' : Descends(r)
    /\ \A d \in Data : ran[d] = 1 => ran'[d] = 1

LEMMA FewerTasks ==
    ASSUME Tasks, requests' \subseteq requests, UNCHANGED ran,
           issued \in Nat, issued' \in Nat, issued <= issued',
           \A k \in Callback : job'[k].pc \in Busy => job'[k] = job[k]
    PROVE  Tasks' /\ Kept
<1>1. OnePlace' /\ Undone' /\ Answers'
  BY DEF Tasks, OnePlace, Undone, Answers
<1>2. issued # 0 => issued' # 0
  OBVIOUS
<1>3. AtWork'
  BY <1>2 DEF Tasks, AtWork
<1>4. RunOnce'
  BY <1>2 DEF Tasks, RunOnce
<1>5. Kept
  BY DEF Kept, Untouched, Absent, Descends
<1> QED
  BY <1>1, <1>3, <1>4, <1>5 DEF Tasks

LEMMA TakeTasks ==
    ASSUME ProxyInv, InHand, Tasks, NEW p \in Server, NEW s \in Slot, NEW id, NEW data,
           TakeRequest(p, s, "SUCCESS", id, data)
    PROVE  Tasks' /\ Kept
<1> USE ServerFacts
<1> DEFINE k == <<p, s>>
<1>0. /\ TypeOK /\ job \in [Callback -> Job] /\ k \in Callback /\ requests \subseteq Request
  BY DEF ProxyInv, IInv, TypeOK, ProxyShape, WorkerShape, Callback
<1>1. PICK r \in requests :
              /\ r.taken = NoOne /\ id = r.id /\ data = r.data /\ data \in Data
              /\ requests' = (requests \ {r}) \cup {[r EXCEPT !.taken = <<p, proc[p].born>>]}
  BY <1>0, TakenData DEF TakeRequest
<1>2. job' = [job EXCEPT ![k] = [pc |-> "run", id |-> id, data |-> data]] /\ ran' = ran
  BY DEF TakeRequest
<1>3. issued' = issued
  BY DEF TakeRequest, GetReqHandler, NotNamed, NotFound, Refused, counters
<1> HIDE DEF k
<1>4. /\ job'[k] = [pc |-> "run", id |-> id, data |-> data]
      /\ \A l \in Callback : l # k => job'[l] = job[l]
  BY <1>0, <1>2
<1> DEFINE t == [r EXCEPT !.taken = <<p, proc[p].born>>]
<1>5. /\ t.id = r.id /\ t.data = r.data /\ t.event = r.event /\ t.pid = r.pid /\ t.rpl = r.rpl
      /\ t.queue = r.queue /\ t.taken # NoOne
  BY <1>0, TakenField, SentinelAssumption DEF TypeOK, Process
<1>6. requests' = (requests \ {r}) \cup {t}
  BY <1>1
<1> HIDE DEF t
<1>7. \A x \in requests : x.id = r.id => x = r
  BY DistinctIds DEF ProxyInv
<1>8. issued # 0
  <2>1. r.turn \in 1 .. MaxRequests /\ r.turn <= issued /\ issued \in Nat
    BY <1>0, IdAssumption DEF Request, ProxyInv, IInv, Turns, TypeOK
  <2> QED
    BY <2>1, IdAssumption
<1>9. r.rpl = NoData
  BY <1>1 DEF ProxyInv, IInv, RepliedAfterTaken
<1>10. \A l \in Callback : job[l].pc \in Busy => job[l].data # data
  BY <1>1 DEF Tasks, AtWork, InHand, Callback
<1>11. OnePlace' /\ Undone' /\ Answers'
  BY <1>2, <1>5, <1>6, <1>9 DEF Tasks, OnePlace, Undone, Answers
<1>12. RunOnce'
  BY <1>2, <1>3 DEF Tasks, RunOnce
<1>13. AtWork'
  <2>1. ASSUME NEW l \in Callback, l # k, job'[l].pc \in Busy
        PROVE  /\ issued' # 0
               /\ ran'[job'[l].data] = IF job'[l].pc = "run" THEN 0 ELSE 1
               /\ \A x \in requests' : (x.id = job'[l].id <=> x.data = job'[l].data)
               /\ \A x \in requests' : x.id = job'[l].id => x.rpl = NoData
               /\ \A m \in Callback : m # l /\ job'[m].pc \in Busy => job'[m].data # job'[l].data
    <3>1. job'[l] = job[l]
      BY <1>4, <2>1
    <3>2. \A m \in Callback : m # l /\ job'[m].pc \in Busy => job'[m].data # job'[l].data
      BY <1>4, <1>10, <2>1, <3>1 DEF Tasks, AtWork
    <3> QED
      BY <1>2, <1>3, <1>5, <1>6, <1>8, <2>1, <3>1, <3>2 DEF Tasks, AtWork
  <2>2. /\ issued' # 0
        /\ ran'[data] = 0
        /\ \A x \in requests' : (x.id = id <=> x.data = data)
        /\ \A x \in requests' : x.id = id => x.rpl = NoData
        /\ \A m \in Callback : m # k /\ job'[m].pc \in Busy => job'[m].data # data
    BY <1>1, <1>2, <1>3, <1>4, <1>5, <1>6, <1>7, <1>8, <1>9, <1>10 DEF Tasks, Undone, OnePlace
  <2>3. job'[k].pc = "run" /\ job'[k].id = id /\ job'[k].data = data
    BY <1>4
  <2> QED
    BY <2>1, <2>2, <2>3 DEF AtWork
<1>14. Kept
  <2>1. \A e \in Data : Absent(e) => Absent(e)'
    BY <1>1, <1>4, <1>5, <1>6 DEF Absent
  <2> QED
    BY <1>2, <1>5, <1>6, <2>1 DEF Kept, Untouched, Descends
<1> QED
  BY <1>11, <1>12, <1>13, <1>14 DEF Tasks

LEMMA RunTasks ==
    ASSUME ProxyInv, InHand, Tasks, NEW p \in Server, NEW s \in Slot, RunRequest(p, s)
    PROVE  Tasks' /\ Kept
<1> DEFINE k == <<p, s>>
           d == job[k].data
<1>0. /\ job \in [Callback -> Job] /\ k \in Callback /\ requests \subseteq Request
      /\ ran \in [Data -> {0, 1}] /\ job[k].pc = "run" /\ d \in Data
  BY DEF ProxyInv, IInv, TypeOK, ProxyShape, WorkerShape, Callback, Tasks, RunOnce, RunRequest
<1>1. job' = [job EXCEPT ![k].pc = "reply"] /\ UNCHANGED <<requests, issued>>
  BY DEF RunRequest, vars
<1>2. ran' = [ran EXCEPT ![d] = @ + 1]
  BY DEF RunRequest
<1> HIDE DEF k
<1>3. /\ job'[k].pc = "reply" /\ job'[k].id = job[k].id /\ job'[k].data = d
      /\ \A l \in Callback : l # k => job'[l] = job[l]
  BY <1>0, <1>1 DEF Job
<1>4. /\ ran[d] = 0 /\ issued # 0
      /\ \A r \in requests : (r.id = job[k].id <=> r.data = d)
      /\ \A r \in requests : r.id = job[k].id => r.rpl = NoData
      /\ \A l \in Callback : l # k /\ job[l].pc \in Busy => job[l].data # d
  BY <1>0 DEF Tasks, AtWork, Busy
<1>5. \A r \in requests : r.data = d => r.taken # NoOne /\ r.rpl = NoData
  BY <1>0, <1>4 DEF InHand, Busy, Callback
<1> HIDE DEF d
<1>6. ran'[d] = 1 /\ \A e \in Data : e # d => ran'[e] = ran[e]
  BY <1>0, <1>2, <1>4
<1>7. \A r \in requests : r.data \in Data
  BY <1>0 DEF Request
<1>8. OnePlace' /\ Undone' /\ Answers'
  BY <1>1, <1>5, <1>6, <1>7 DEF Tasks, OnePlace, Undone, Answers
<1>9. RunOnce'
  <2>1. ran' \in [Data -> {0, 1}]
    BY <1>0, <1>2, <1>4
  <2> QED
    BY <1>1, <1>4, <1>6, <2>1 DEF Tasks, RunOnce
<1>10. AtWork'
  <2>1. ASSUME NEW l \in Callback, l # k, job'[l].pc \in Busy
        PROVE  /\ issued' # 0
               /\ ran'[job'[l].data] = IF job'[l].pc = "run" THEN 0 ELSE 1
               /\ \A x \in requests' : (x.id = job'[l].id <=> x.data = job'[l].data)
               /\ \A x \in requests' : x.id = job'[l].id => x.rpl = NoData
               /\ \A m \in Callback : m # l /\ job'[m].pc \in Busy => job'[m].data # job'[l].data
    <3>1. job'[l] = job[l] /\ job[l].data # d
      BY <1>3, <1>4, <2>1
    <3>2. job[l].data \in Data
      BY <2>1, <3>1 DEF Busy, Callback, ProxyInv, ProxyShape, WorkerShape
    <3>3. ran'[job[l].data] = ran[job[l].data]
      BY <1>6, <3>1, <3>2
    <3>4. \A m \in Callback : m # l /\ job'[m].pc \in Busy => job'[m].data # job'[l].data
      BY <1>3, <2>1, <3>1 DEF Tasks, AtWork
    <3> QED
      BY <1>1, <2>1, <3>1, <3>3, <3>4 DEF Tasks, AtWork
  <2>2. /\ issued' # 0
        /\ ran'[d] = 1
        /\ \A x \in requests' : (x.id = job[k].id <=> x.data = d)
        /\ \A x \in requests' : x.id = job[k].id => x.rpl = NoData
        /\ \A m \in Callback : m # k /\ job'[m].pc \in Busy => job'[m].data # d
    BY <1>1, <1>3, <1>4, <1>6
  <2> QED
    BY <1>3, <2>1, <2>2 DEF AtWork
<1>11. Kept
  <2>1. \A e \in Data : Absent(e) => Absent(e)' /\ e # d
    BY <1>0, <1>1, <1>3 DEF Absent, Busy, d
  <2>2. \A e \in Data : Untouched(e) => Untouched(e)'
    BY <1>6, <2>1 DEF Untouched
  <2> QED
    BY <1>1, <1>6, <2>1, <2>2 DEF Kept, Descends
<1> QED
  BY <1>8, <1>9, <1>10, <1>11 DEF Tasks

(* The reply to a request is put once, and it is the payload of that       *)
(* request.                                                                *)
ReplyArrives(r) ==
    /\ r \in requests /\ r.rpl = NoData
    /\ requests' = (requests \ {r}) \cup {[r EXCEPT !.rpl = r.data]}
    /\ SetEvent(r.event)

LEMMA ReplyCases ==
    ASSUME NEW p \in Server, NEW id, NEW data, NEW st, PutRplHandler(p, Proxy, id, data, st)
    PROVE  /\ UNCHANGED issued
           /\ \/ st # "SUCCESS" /\ requests' \subseteq requests /\ UNCHANGED signalled
              \/ \E r \in requests :
                    /\ r.id = id
                    /\ requests' = (requests \ {r}) \cup {[r EXCEPT !.rpl = data]}
                    /\ SetEvent(r.event)
BY DEF PutRplHandler, NotNamed, NotFound, DeleteQueueObj, DeleteRequestObj, Refused, First, WithId,
       store, counters

LEMMA ReplyTasks ==
    ASSUME ProxyInv, Apart, InHand, Tasks, NEW p \in Server, NEW s \in Slot, NEW st, PutReply(p, s, st)
    PROVE  /\ Tasks' /\ Kept
           /\ UNCHANGED signalled \/ \E r \in requests : ReplyArrives(r)
<1> DEFINE k == <<p, s>>
           d == job[k].data
<1>0. /\ job \in [Callback -> Job] /\ k \in Callback /\ requests \subseteq Request
      /\ job[k].pc = "reply" /\ job[k].pc \in Busy /\ d \in Data /\ issued \in Nat
  BY IdAssumption DEF ProxyInv, IInv, TypeOK, ProxyShape, WorkerShape, Callback, PutReply, Busy
<1>1. /\ ran[d] = 1
      /\ \A r \in requests : (r.id = job[k].id <=> r.data = d)
      /\ \A r \in requests : r.id = job[k].id => r.rpl = NoData
  BY <1>0 DEF Tasks, AtWork
<1>2. PutRplHandler(p, Proxy, job[k].id, d, st) /\ ran' = ran
  BY DEF PutReply
<1>3. job'[k].pc \notin Busy /\ \A l \in Callback : l # k => job'[l] = job[l]
  BY <1>0 DEF PutReply, IdleJob, Busy
<1> HIDE DEF k
<1>4. issued' = issued
  BY <1>2, ReplyCases
<1>5. CASE requests' \subseteq requests /\ UNCHANGED signalled
  <2>1. issued <= issued' /\ \A l \in Callback : job'[l].pc \in Busy => job'[l] = job[l]
    BY <1>0, <1>3, <1>4
  <2> QED
    BY <1>0, <1>2, <1>4, <1>5, <2>1, FewerTasks
<1> HIDE DEF d
<1>6. ASSUME NEW r \in requests, r.id = job[k].id,
             requests' = (requests \ {r}) \cup {[r EXCEPT !.rpl = d]},
             SetEvent(r.event)
      PROVE  Tasks' /\ Kept /\ ReplyArrives(r)
  <2>1. r.data = d /\ r.rpl = NoData
    BY <1>1, <1>6
  <2>2. ReplyArrives(r)
    BY <1>6, <2>1 DEF ReplyArrives
  <2> DEFINE t == [r EXCEPT !.rpl = d]
  <2>3. /\ t.id = r.id /\ t.data = r.data /\ t.event = r.event /\ t.pid = r.pid
        /\ t.queue = r.queue /\ t.taken = r.taken /\ t.rpl = d
    BY <1>0, ReplyField
  <2>4. requests' = (requests \ {r}) \cup {t}
    BY <1>6
  <2> HIDE DEF t
  <2>5. OnePlace' /\ Undone' /\ Answers'
    BY <1>1, <1>2, <2>1, <2>3, <2>4 DEF Tasks, OnePlace, Undone, Answers
  <2>6. RunOnce'
    BY <1>2, <1>4 DEF Tasks, RunOnce
  <2>7. \A l \in Callback : l # k /\ job[l].pc \in Busy => job[l].id # t.id
    BY <1>0, <1>6, <2>3 DEF Apart, Callback
  <2>8. AtWork'
    <3> SUFFICES ASSUME NEW l \in Callback, job'[l].pc \in Busy
        PROVE  /\ issued' # 0
               /\ ran'[job'[l].data] = IF job'[l].pc = "run" THEN 0 ELSE 1
               /\ \A x \in requests' : (x.id = job'[l].id <=> x.data = job'[l].data)
               /\ \A x \in requests' : x.id = job'[l].id => x.rpl = NoData
               /\ \A m \in Callback : m # l /\ job'[m].pc \in Busy => job'[m].data # job'[l].data
      BY DEF AtWork
    <3>1. l # k /\ job'[l] = job[l]
      BY <1>3
    <3>2. \A m \in Callback : m # l /\ job'[m].pc \in Busy => job'[m].data # job'[l].data
      BY <1>3, <3>1 DEF Tasks, AtWork
    <3>3. \A x \in requests' : (x.id = job[l].id <=> x.data = job[l].data)
      BY <2>3, <2>4, <3>1 DEF Tasks, AtWork
    <3>4. \A x \in requests' : x.id = job[l].id => x.rpl = NoData
      BY <2>4, <2>7, <3>1 DEF Tasks, AtWork
    <3> QED
      BY <1>2, <1>4, <3>1, <3>2, <3>3, <3>4 DEF Tasks, AtWork
  <2>9. Kept
    <3>1. \A e \in Data : Absent(e) => Absent(e)'
      BY <1>3, <2>3, <2>4 DEF Absent
    <3>2. \A x \in requests' : Descends(x)
      BY <2>1, <2>3, <2>4 DEF Descends
    <3> QED
      BY <1>2, <3>1, <3>2 DEF Kept, Untouched
  <2> QED
    BY <2>2, <2>5, <2>6, <2>8, <2>9 DEF Tasks
<1> QED
  BY <1>2, <1>5, <1>6, ReplyCases

LEMMA QuietTasks ==
    ASSUME ProxyInv, Tasks, requests' \subseteq requests, UNCHANGED <<ran, issued>>,
           \A k \in Callback : job'[k].pc \in Busy => job'[k] = job[k]
    PROVE  Tasks' /\ Kept
<1>1. issued \in Nat /\ issued' \in Nat /\ issued <= issued'
  BY IdAssumption DEF ProxyInv, IInv, TypeOK
<1> QED
  BY <1>1, FewerTasks

LEMMA EndTasks ==
    ASSUME ProxyInv, Tasks, NEW S, Vanish(S), UNCHANGED <<requests, issued>>
    PROVE  Tasks' /\ Kept
BY QuietTasks DEF Vanish, IdleJob, Busy, Callback

LEMMA WorkerTasks ==
    ASSUME ProxyInv, InHand, Apart, Tasks, NEW p \in Server, WorkerStep(p)
    PROVE  /\ Tasks' /\ Kept
           /\ signalled' \subseteq signalled \/ \E r \in requests : ReplyArrives(r)
<1>0. job \in [Callback -> Job]
  BY DEF ProxyInv, ProxyShape, WorkerShape, Callback
<1>1. CASE Reach(p) \/ Announce(p) \/ Register(p) \/ \E st \in Status : CreateQueue(p, st)
  <2>1. requests' \subseteq requests /\ UNCHANGED <<ran, issued, job, signalled>>
    BY <1>1 DEF Reach, Connect, Announce, Register, CreateQueue, CreateHandler, Refused, DeleteQueueObj,
                vars, workerVars, store, counters
  <2> QED
    BY <2>1, QuietTasks
<1>2. CASE Leave(p)
  <2>1. Vanish({p}) /\ UNCHANGED <<requests, issued, signalled>>
    BY <1>2 DEF Leave, ExitProcess, store, counters
  <2> QED
    BY <2>1, EndTasks
<1>3. ASSUME NEW s \in Slot, QueueCallbackWorker(p, s)
      PROVE  Tasks' /\ Kept /\ signalled' \subseteq signalled
  <2>1. UNCHANGED <<requests, ran, issued>> /\ signalled' \subseteq signalled
    BY <1>3 DEF QueueCallbackWorker, WaitEvent, store, counters
  <2>2. \A k \in Callback : job'[k].pc \in Busy => job'[k] = job[k]
    BY <1>0, <1>3 DEF QueueCallbackWorker, Busy, Callback, Job
  <2> QED
    BY <2>1, <2>2, QuietTasks
<1>4. ASSUME NEW s \in Slot, NEW st \in Status, NEW id \in Id, NEW data \in Payload,
             TakeRequest(p, s, st, id, data)
      PROVE  Tasks' /\ Kept /\ signalled' \subseteq signalled
  <2>1. UNCHANGED signalled
    BY <1>4 DEF TakeRequest, GetReqHandler, NotNamed, NotFound, Refused
  <2>2. CASE st = "SUCCESS"
    BY <1>4, <2>1, <2>2, TakeTasks
  <2>3. CASE st # "SUCCESS"
    <3>1. requests' \subseteq requests /\ UNCHANGED <<ran, issued>>
      BY <1>4, <2>3 DEF TakeRequest, GetReqHandler, NotNamed, NotFound, Refused, DeleteQueueObj, store,
                        counters
    <3>2. \A k \in Callback : job'[k].pc \in Busy => job'[k] = job[k]
      BY <1>0, <1>4, <2>3 DEF TakeRequest, Busy, Callback, IdleJob
    <3> QED
      BY <2>1, <3>1, <3>2, QuietTasks
  <2> QED
    BY <2>2, <2>3
<1>5. ASSUME NEW s \in Slot, RunRequest(p, s) PROVE Tasks' /\ Kept /\ signalled' = signalled
  BY <1>5, RunTasks DEF RunRequest, vars
<1>6. ASSUME NEW s \in Slot, NEW st \in Status, PutReply(p, s, st)
      PROVE  /\ Tasks' /\ Kept
             /\ signalled' = signalled \/ \E r \in requests : ReplyArrives(r)
  BY <1>6, ReplyTasks
<1> QED
  BY <1>1, <1>2, <1>3, <1>4, <1>5, <1>6 DEF WorkerStep

LEMMA MachineTasks ==
    ASSUME ProxyInv, InHand, Apart, Tasks, Machine
    PROVE  /\ Tasks' /\ Kept
           /\ signalled' \subseteq signalled \/ \E r \in requests : ReplyArrives(r)
<1>1. ASSUME NEW p \in Server, Crash(p) PROVE Tasks' /\ Kept /\ signalled' = signalled
  <2>1. Vanish({p}) /\ UNCHANGED <<requests, issued, signalled>>
    BY <1>1 DEF Crash, ExitProcess, store, counters
  <2> QED
    BY <2>1, EndTasks
<1>2. ASSUME NEW p \in Pid, Reach(p) \/ PortClosed(p) PROVE Tasks' /\ Kept /\ signalled' = signalled
  <2>1. requests' \subseteq requests /\ UNCHANGED <<ran, issued, job, signalled>>
    BY <1>2 DEF Reach, Connect, PortClosed, Disconnect, NotifyHandler, workerVars, store, counters
  <2> QED
    BY <2>1, QuietTasks
<1>3. ASSUME NEW t \in Starter, StartStep(t) PROVE Tasks' /\ Kept /\ signalled' = signalled
  <2>1. ran' = ran
    BY <1>3 DEF StartStep, Sweep, Visit, Vanish, Misuse, Unlink, EndSweep, ResetReady, Launch,
                CreateProcess, Announced, NotAnnounced, CannotStart, Finish, workerVars
  <2>2. CASE UNCHANGED <<vars, job>>
    BY <2>1, <2>2, QuietTasks DEF vars
  <2>3. ASSUME NEW p \in Server, ExitProcess(p), Vanish({p}) PROVE Tasks' /\ Kept /\ signalled' = signalled
    BY <2>3, EndTasks DEF ExitProcess, store, counters
  <2>4. ASSUME NEW p \in Server, CreateProcess(p) PROVE Tasks' /\ Kept /\ signalled' = signalled
    <3>1. UNCHANGED <<requests, issued, signalled, job>>
      BY <2>4 DEF CreateProcess, StartProcess, store, counters
    <3> QED
      BY <2>1, <3>1, QuietTasks
  <2> QED
    BY <1>3, <2>2, <2>3, <2>4, StarterView
<1> QED
  BY <1>1, <1>2, <1>3, WorkerTasks DEF Machine

(* The only machine step that counts as doing what was asked.              *)
LEMMA MachineRuns ==
    ASSUME ProxyInv, Tasks, Machine
    PROVE  \/ UNCHANGED ran
           \/ \E d \in Data : ran[d] = 0 /\ ~ Untouched(d) /\ ran' = [ran EXCEPT ![d] = 1]
<1>1. ASSUME NEW p \in Server, NEW s \in Slot, RunRequest(p, s)
      PROVE  \E d \in Data : ran[d] = 0 /\ ~ Untouched(d) /\ ran' = [ran EXCEPT ![d] = 1]
  <2>1. PICK k \in Callback : k = <<p, s>>
    BY DEF Callback
  <2>2. job[k].pc = "run" /\ ran' = [ran EXCEPT ![job[k].data] = ran[job[k].data] + 1]
    BY <1>1, <2>1 DEF RunRequest
  <2>3. job[k].data \in Data /\ job[k].pc \in Busy
    BY <2>2 DEF ProxyInv, ProxyShape, WorkerShape, Callback, Busy
  <2>4. ran[job[k].data] = 0
    BY <2>2, <2>3 DEF Tasks, AtWork
  <2>5. ~ Untouched(job[k].data)
    BY <2>3 DEF Untouched, Absent
  <2>6. ran' = [ran EXCEPT ![job[k].data] = 1]
    BY <2>2, <2>4
  <2> QED
    BY <2>3, <2>4, <2>5, <2>6
<1>2. ASSUME NEW p \in Server, WorkerStep(p) \/ Crash(p)
      PROVE  UNCHANGED ran \/ \E s \in Slot : RunRequest(p, s)
  BY <1>2
  DEF WorkerStep, Crash, Reach, CreateQueue, Leave, Vanish, Announce, Register, QueueCallbackWorker, TakeRequest,
      PutReply, workerVars
<1>3. ASSUME NEW t \in Starter, StartStep(t) PROVE UNCHANGED ran
  BY <1>3
  DEF StartStep, Sweep, Visit, Misuse, Unlink, EndSweep, ResetReady, Launch, Announced, NotAnnounced,
      CannotStart, Finish, CreateProcess, Vanish, workerVars
<1> QED
  BY <1>1, <1>2, <1>3 DEF Machine, Reach, PortClosed, workerVars

(* A caller has put d, and has been given id.                              *)
Put(p, e, d, id) ==
    /\ UNCHANGED <<workerVars, proc>>
    /\ \A x \in Data : x # d /\ Untouched(x) => Untouched(x)'
    /\ \A x \in Data : x # d /\ Absent(x) => Absent(x)'
    /\ id = issued + 2 /\ issued' = issued + 1
    /\ \E r : /\ r.data = d /\ r.id = id /\ r.event = e /\ r.pid = p /\ r.rpl = NoData
              /\ requests' = requests \cup {r}

LEMMA PutTasks ==
    ASSUME ProxyInv, InHand, Tasks, NEW p \in Pid, NEW n \in Asterisk \cup Plain, NEW e \in Handle,
           NEW d \in Data, NEW st, NEW id, PutReqHandler(p, n, e, d, st, id), UNCHANGED workerVars,
           Untouched(d)
    PROVE  /\ Tasks'
           /\ st # "SUCCESS" => Kept /\ UNCHANGED <<proc, signalled>>
           /\ st = "SUCCESS" =>
                 /\ Put(p, e, d, id)
                 /\ \E q \in QueueName :
                       q = MakeQueueName(p, n) /\ Found(q) /\ SetEvent(queues[q].event)
<1>0. issued \in Nat /\ requests \subseteq Request /\ TypeOK /\ Counting /\ UNCHANGED <<job, ran>>
  BY IdAssumption DEF ProxyInv, IInv, TypeOK, workerVars
<1>1. CASE st # "SUCCESS"
  <2>1. requests' \subseteq requests /\ ran' = ran /\ job' = job /\ UNCHANGED <<proc, signalled>>
    BY <1>1, <1>0 DEF PutReqHandler, NotNamed, NotFound, Refused, DeleteQueueObj, store, env
  <2>2. issued' = issued \/ issued' = issued + 1
    BY <1>1 DEF PutReqHandler, NotNamed, NotFound, Refused, Advance, counters
  <2>3. issued' \in Nat /\ issued <= issued'
    BY <1>0, <2>2
  <2> QED
    BY <1>0, <1>1, <2>1, <2>3, FewerTasks
<1>2. CASE st = "SUCCESS"
  <2>1. PICK q \in QueueName :
          /\ Named(p, n, q) /\ Advance /\ id = GivenId
          /\ requests' = requests \cup {NewRequest(p, q, e, d)}
          /\ SetEvent(queues[q].event)
    BY <1>2 DEF PutReqHandler, NotNamed, NotFound, Refused, NewRequest
  <2>2. id = issued + 2 /\ issued' = issued + 1
    BY <1>0, <2>1, CounterStep
  <2> DEFINE t == NewRequest(p, q, e, d)
  <2>3. /\ t.data = d /\ t.id = id /\ t.event = e /\ t.pid = p /\ t.rpl = NoData /\ t.taken = NoOne
    BY <2>1 DEF NewRequest
  <2>4. requests' = requests \cup {t} /\ ran' = ran /\ job' = job
    BY <1>0, <2>1
  <2> HIDE DEF t
  <2>5. \A k \in Callback : job[k].pc \in Busy => job[k].id # id
    <3> SUFFICES ASSUME NEW k \in Callback, job[k].pc \in Busy, job[k].id = id PROVE FALSE
      OBVIOUS
    <3>1. job[k].id \in Nat /\ job[k].id <= issued + 1
      BY DEF InHand, Callback
    <3> QED
      BY <1>0, <2>2, <3>1
  <2>6. OnePlace'
    BY <2>3, <2>4 DEF OnePlace, Tasks, Untouched, Absent
  <2>7. Undone' /\ Answers'
    BY <2>3, <2>4 DEF Undone, Answers, Tasks, Untouched
  <2>8. issued' # 0
    BY <1>0, <2>2
  <2>9. RunOnce'
    BY <2>4, <2>8 DEF RunOnce, Tasks
  <2>10. AtWork'
    <3> SUFFICES ASSUME NEW k \in Callback, job[k].pc \in Busy
        PROVE  /\ ran[job[k].data] = IF job[k].pc = "run" THEN 0 ELSE 1
               /\ \A x \in requests' : (x.id = job[k].id <=> x.data = job[k].data)
               /\ \A x \in requests' : x.id = job[k].id => x.rpl = NoData
               /\ \A l \in Callback : l # k /\ job[l].pc \in Busy => job[l].data # job[k].data
      BY <2>4, <2>8 DEF AtWork
    <3>1. job[k].data # d
      BY DEF Untouched, Absent
    <3> QED
      BY <2>3, <2>4, <2>5, <3>1 DEF AtWork, Tasks
  <2>11. Put(p, e, d, id)
    <3>1. \A x \in Data : x # d /\ Absent(x) => Absent(x)'
      BY <2>3, <2>4 DEF Absent
    <3>2. proc' = proc
      BY DEF PutReqHandler, env
    <3> QED
      BY <2>2, <2>3, <2>4, <3>1, <3>2 DEF Put, Untouched
  <2> QED
    BY <1>2, <2>1, <2>6, <2>7, <2>9, <2>10, <2>11 DEF Tasks, Named
<1> QED
  BY <1>1, <1>2

LEMMA TasksInit ==
    ASSUME Init, WorkerInit
    PROVE  /\ InHand /\ Apart /\ Tasks
           /\ \A d \in Data : Untouched(d)
<1>1. InHand /\ Apart /\ AtWork
  BY DEF Init, WorkerInit, IdleJob, InHand, Apart, AtWork, Busy, Callback
<1>2. OnePlace /\ Undone /\ Answers /\ RunOnce
  BY DEF Init, WorkerInit, OnePlace, Undone, Answers, RunOnce
<1>3. \A d \in Data : Untouched(d)
  BY DEF Init, WorkerInit, IdleJob, Busy, Untouched, Absent, Callback
<1> QED
  BY <1>1, <1>2, <1>3 DEF Tasks

-----------------------------------------------------------------------------
(* The list of proxies                                                     *)

(* A process is in the list once, whoever waits for a process is the only  *)
(* one to do so and will be the first to put it there, and none of them is *)
(* younger than the process that has its pid.                              *)
Past(w) == w[2] <= proc[w[1]].born

ListedOnce == IsInjective(listed) /\ \A w \in ToSet(listed) : Past(w)

OwnChild ==
    \A t \in Starter : At(t, "wait") =>
        /\ Past(starter[t].child)
        /\ starter[t].child \notin ToSet(listed)
        /\ \A u \in Starter : u # t /\ At(u, "wait") => starter[u].child # starter[t].child

Parents == ListedOnce /\ OwnChild

LEMMA BornGrows ==
    ASSUME TypeOK, [Next]_vars
    PROVE  \A p \in Pid : proc'[p].born \in Nat /\ proc[p].born \in Nat /\ proc[p].born <= proc'[p].born
<1>0. \A p \in Pid : proc[p].born \in Nat
  BY IdAssumption DEF TypeOK, Process
<1>1. CASE UNCHANGED proc
  BY <1>0, <1>1
<1>2. ASSUME NEW p \in Pid, NEW b \in Box \cup {NoBox}, StartProcess(p, b)
      PROVE  \A x \in Pid : proc'[x].born = proc[x].born \/ proc'[x].born = proc[x].born + 1
  BY <1>2 DEF StartProcess, TypeOK
<1>3. ASSUME NEW p \in Pid, ExitProcess(p) PROVE \A x \in Pid : proc'[x].born = proc[x].born
  BY <1>3 DEF ExitProcess, TypeOK, Process
<1>4. ASSUME NEW p \in Pid, NEW n \in Asterisk \cup Plain, NEW st \in Status, Call(p, n, st)
      PROVE  UNCHANGED proc
  BY <1>4 DEF Call, CreateHandler, GetReqHandler, PutRplHandler, PutReqHandler, GetRplHandler,
              StartupHandler, env
<1>5. CASE \E p \in Pid, b \in Box \cup {NoBox} : StartProcess(p, b)
  BY <1>0, <1>2, <1>5
<1> QED
  BY <1>0, <1>1, <1>3, <1>4, <1>5 DEF Next, Connect, Disconnect, WaitEvent, env, vars

LEMMA ShorterList ==
    ASSUME NEW S, NEW s \in Seq(S), IsInjective(s), NEW i \in 1 .. Len(s)
    PROVE  /\ IsInjective(RemoveAt(s, i))
           /\ ToSet(RemoveAt(s, i)) \subseteq ToSet(s)
<1> DEFINE a == SubSeq(s, 1, i - 1)
           b == SubSeq(s, i + 1, Len(s))
           g == a \o b
<1>a. a \in Seq(S) /\ Len(a) = i - 1 /\ \A j \in 1 .. i - 1 : a[j] = s[j]
  OBVIOUS
<1>b. b \in Seq(S) /\ Len(b) = Len(s) - i
  OBVIOUS
<1>c. \A j \in 1 .. Len(s) - i : b[j] = s[i + j]
  <2> SUFFICES ASSUME NEW j \in 1 .. Len(s) - i PROVE b[j] = s[i + j]
    OBVIOUS
  <2>1. b[j] = s[(i + 1) + j - 1]
    BY <1>b
  <2>2. (i + 1) + j - 1 = i + j
    OBVIOUS
  <2> QED
    BY <2>1, <2>2
<1> HIDE DEF a, b
<1>1. g \in Seq(S) /\ Len(g) = Len(s) - 1
  BY <1>a, <1>b
<1>2. \A j \in 1 .. Len(g) : g[j] = IF j < i THEN s[j] ELSE s[j + 1]
  <2> SUFFICES ASSUME NEW j \in 1 .. Len(g) PROVE g[j] = IF j < i THEN s[j] ELSE s[j + 1]
    OBVIOUS
  <2>1. CASE j < i
    BY <1>a, <1>b, <1>1, <2>1
  <2>2. CASE ~ (j < i)
    <3>1. j - (i - 1) \in 1 .. Len(s) - i /\ i + (j - (i - 1)) = j + 1
      BY <1>1, <2>2
    <3>2. g[j] = b[j - (i - 1)]
      BY <1>a, <1>b, <1>1, <2>2
    <3> QED
      BY <1>c, <2>2, <3>1, <3>2
  <2> QED
    BY <2>1, <2>2
<1> HIDE DEF g
<1>3. IsInjective(g)
  <2>1. SUFFICES ASSUME NEW x \in 1 .. Len(g), NEW y \in 1 .. Len(g), g[x] = g[y]
                 PROVE  x = y
    BY <1>1 DEF IsInjective
  <2>2. PICK k, m : k = (IF x < i THEN x ELSE x + 1) /\ m = (IF y < i THEN y ELSE y + 1)
    OBVIOUS
  <2>3. k \in 1 .. Len(s) /\ m \in 1 .. Len(s) /\ (k = m => x = y)
    BY <1>1, <2>2
  <2>4. s[k] = s[m]
    BY <1>2, <2>1, <2>2
  <2>5. k = m
    BY <2>3, <2>4 DEF IsInjective
  <2> QED
    BY <2>3, <2>5
<1>4. ToSet(g) \subseteq ToSet(s)
  BY <1>1, <1>2 DEF ToSet
<1> QED
  BY <1>3, <1>4 DEF g, a, b, RemoveAt

LEMMA LongerList ==
    ASSUME NEW S, NEW s \in Seq(S), IsInjective(s), NEW w \in S, w \notin ToSet(s)
    PROVE  /\ IsInjective(Append(s, w))
           /\ ToSet(Append(s, w)) = ToSet(s) \cup {w}
<1> DEFINE g == Append(s, w)
<1>1. g \in Seq(S) /\ Len(g) = Len(s) + 1 /\ g[Len(s) + 1] = w
      /\ \A j \in 1 .. Len(s) : g[j] = s[j]
  OBVIOUS
<1> HIDE DEF g
<1>2. \A j \in 1 .. Len(s) : s[j] # w
  BY DEF ToSet
<1>3. IsInjective(g)
  <2>1. SUFFICES ASSUME NEW x \in 1 .. Len(g), NEW y \in 1 .. Len(g), g[x] = g[y]
                 PROVE  x = y
    BY <1>1 DEF IsInjective
  <2>2. \A k \in 1 .. Len(g) : k \in 1 .. Len(s) \/ k = Len(s) + 1
    BY <1>1
  <2>3. CASE x \in 1 .. Len(s) /\ y \in 1 .. Len(s)
    BY <1>1, <2>1, <2>3 DEF IsInjective
  <2> QED
    BY <1>1, <1>2, <2>1, <2>2, <2>3
<1>4. ToSet(g) = ToSet(s) \cup {w}
  BY <1>1 DEF ToSet
<1> QED
  BY <1>3, <1>4 DEF g

(* A step that puts nothing into the list and lets no one wait.            *)
LEMMA ParentsStay ==
    ASSUME TypeOK, ProxyShape, Parents, [Next]_vars,
           IsInjective(listed'), ToSet(listed') \subseteq ToSet(listed),
           \A t \in Starter : starter'[t].pc = "wait" =>
               starter[t].pc = "wait" /\ starter'[t].child = starter[t].child
    PROVE  Parents'
<1>1. \A w \in Child : Past(w) => Past(w)'
  <2> SUFFICES ASSUME NEW w \in Child, Past(w) PROVE Past(w)'
    OBVIOUS
  <2>1. w[1] \in Pid /\ w[2] \in Nat
    BY ServerFacts DEF Child
  <2> QED
    BY <2>1, BornGrows DEF Past
<1>2. ToSet(listed) \subseteq Child
  BY DEF ProxyShape, StartShape, ToSet
<1>3. ListedOnce'
  BY <1>1, <1>2 DEF Parents, ListedOnce
<1>4. \A t \in Starter : At(t, "wait") => starter[t].child \in Child
  BY DEF ProxyShape, StartShape, At
<1>5. OwnChild'
  BY <1>1, <1>4 DEF Parents, OwnChild, At
<1> QED
  BY <1>3, <1>5 DEF Parents

LEMMA StarterParents ==
    ASSUME TypeOK, TypeOK', ProxyShape, Parents, NEW t \in Starter, StartStep(t), [Next]_vars
    PROVE  Parents'
<1> USE ServerFacts
<1>0. listed \in Seq(Child) /\ starter \in [Starter -> StarterState]
      /\ IsInjective(listed) /\ \A u \in Starter : starter[u].pc = "wait" => starter[u].child \in Child
  BY DEF ProxyShape, StartShape, Parents, ListedOnce
(* Threads that neither begin nor end to wait. *)
<1>1. ASSUME listed' = listed,
             \A u \in Starter : u # t => starter'[u] = starter[u],
             starter'[t].pc # "wait"
      PROVE  Parents'
  BY <1>0, <1>1, ParentsStay
<1>2. CASE Sweep(t)
  <2>1. ASSUME NEW w, Visit(t, w) PROVE Parents'
    BY <1>0, <1>1, <2>1 DEF Visit, StarterState
  <2>2. CASE Misuse
    BY <1>0, <2>2, ParentsStay DEF Misuse
  <2> QED
    BY <1>2, <2>1, <2>2 DEF Sweep
<1>3. CASE Unlink(t)
  <2>1. CASE Misuse
    BY <1>0, <2>1, ParentsStay DEF Misuse
  <2>2. CASE starter[t].victim \in ToSet(listed)
    <3> DEFINE i == Place(starter[t].victim)
    <3>1. i \in 1 .. Len(listed)
      BY <1>0, <2>2 DEF ToSet, Place
    <3> HIDE DEF i
    <3>2. listed' = RemoveAt(listed, i)
          /\ starter' = [starter EXCEPT ![t].pc = "sweep", ![t].victim = NoOne]
      BY <1>3, <2>2 DEF Unlink, i
    <3>3. IsInjective(listed') /\ ToSet(listed') \subseteq ToSet(listed)
      BY <1>0, <3>1, <3>2, ShorterList
    <3> QED
      BY <1>0, <3>2, <3>3, ParentsStay DEF StarterState
  <2> QED
    BY <1>3, <2>1, <2>2 DEF Unlink
<1>4. CASE EndSweep(t) \/ ResetReady(t) \/ NotAnnounced(t) \/ CannotStart(t)
  BY <1>0, <1>1, <1>4 DEF EndSweep, ResetReady, NotAnnounced, CannotStart, Finish, StarterState
<1>5. ASSUME NEW p \in Server, Launch(t, p) PROVE Parents'
  <2>0. PICK w : w = <<p, proc[p].born + 1>>
    OBVIOUS
  <2>1. /\ starter' = [starter EXCEPT ![t].pc = "wait", ![t].child = w]
        /\ listed' = listed
        /\ proc' = [proc EXCEPT ![p] = [alive |-> TRUE, born |-> proc[p].born + 1, box |-> NoBox]]
    BY <1>5, <2>0 DEF Launch, CreateProcess, StartProcess
  <2>2. p \in Pid /\ proc[p].born \in Nat /\ proc'[p].born = proc[p].born + 1
    BY <2>1 DEF TypeOK, Process
  <2>3. w[1] = p /\ w[2] = proc[p].born + 1
    BY <2>0
  <2>4. starter'[t].child = w /\ \A u \in Starter : u # t => starter'[u] = starter[u]
    BY <1>0, <2>1 DEF StarterState
  <2>5. Past(w)'
    BY <2>2, <2>3, <2>1 DEF Past
  <2>6. \A v \in Child : Past(v) => Past(v)' /\ v # w
    <3> SUFFICES ASSUME NEW v \in Child, Past(v) PROVE Past(v)' /\ v # w
      OBVIOUS
    <3>1. v[1] \in Pid /\ v[2] \in Nat
      BY DEF Child
    <3> QED
      BY <2>2, <2>3, <3>1, BornGrows DEF Past
  <2>7. ToSet(listed) \subseteq Child
    BY <1>0 DEF ToSet
  <2>8. ListedOnce'
    BY <2>1, <2>6, <2>7 DEF Parents, ListedOnce
  <2>9. OwnChild'
    <3> SUFFICES ASSUME NEW u \in Starter, starter'[u].pc = "wait"
        PROVE  /\ \A c : c = starter'[u].child => Past(c)'
               /\ starter'[u].child \notin ToSet(listed)
               /\ \A v \in Starter : v # u /\ starter'[v].pc = "wait" => starter'[v].child # starter'[u].child
      BY <2>1 DEF OwnChild, At, Past
    <3>1. CASE u = t
      BY <1>0, <2>4, <2>5, <2>6, <2>7, <3>1 DEF Parents, ListedOnce, OwnChild, At
    <3>2. CASE u # t
      BY <1>0, <2>4, <2>5, <2>6, <2>7, <3>2 DEF Parents, ListedOnce, OwnChild, At
    <3> QED
      BY <3>1, <3>2
  <2> QED
    BY <2>8, <2>9 DEF Parents
<1>6. ASSUME NEW ok \in BOOLEAN, At(t, "wait"), Finish(t, ok), listed' = Append(listed, starter[t].child)
      PROVE  Parents'
  <2> DEFINE w == starter[t].child
  <2>1. w \in Child /\ w \notin ToSet(listed) /\ Past(w)
    BY <1>0, <1>6 DEF Parents, OwnChild, At
  <2> HIDE DEF w
  <2>2. UNCHANGED proc /\ listed' = Append(listed, w)
    BY <1>6 DEF Finish, w, vars, env
  <2>3. starter'[t].pc # "wait" /\ \A u \in Starter : u # t => starter'[u] = starter[u]
    BY <1>0, <1>6 DEF Finish, StarterState
  <2>4. IsInjective(listed') /\ ToSet(listed') = ToSet(listed) \cup {w}
    BY <1>0, <2>1, <2>2, LongerList
  <2>5. \A v : Past(v)' <=> Past(v)
    BY <2>2 DEF Past
  <2>6. ListedOnce'
    BY <2>1, <2>4, <2>5 DEF Parents, ListedOnce
  <2>7. OwnChild'
    <3> SUFFICES ASSUME NEW u \in Starter, starter'[u].pc = "wait"
        PROVE  /\ Past(starter'[u].child)
               /\ starter'[u].child \notin ToSet(listed')
               /\ \A v \in Starter : v # u /\ starter'[v].pc = "wait" => starter'[v].child # starter'[u].child
      BY <2>5 DEF OwnChild, At
    <3>1. u # t /\ starter[u].pc = "wait" /\ starter'[u].child = starter[u].child
      BY <2>3
    <3>2. starter[u].child # w
      BY <1>6, <3>1 DEF w, Parents, OwnChild, At
    <3> QED
      BY <2>3, <2>4, <3>1, <3>2 DEF Parents, OwnChild, At
  <2> QED
    BY <2>6, <2>7 DEF Parents
<1>7. CASE Announced(t)
  <2>1. ASSUME UNCHANGED listed, Finish(t, FALSE) PROVE Parents'
    BY <1>0, <1>1, <2>1 DEF Finish, StarterState
  <2> QED
    BY <1>6, <1>7, <2>1 DEF Announced
<1> QED
  BY <1>2, <1>3, <1>4, <1>5, <1>7 DEF StartStep

LEMMA MachineParents ==
    ASSUME TypeOK, TypeOK', ProxyShape, Parents, Machine
    PROVE  Parents'
<1>1. [Next]_vars
  BY MachineUsesQueue
<1>2. CASE UNCHANGED startVars
  BY <1>1, <1>2, ParentsStay DEF startVars, Parents, ListedOnce
<1> QED
  BY <1>1, <1>2, StarterParents DEF Machine

LEMMA ParentsInit ==
    ASSUME StartInit PROVE Parents
<1>1. listed = << >> /\ \A t \in Starter : starter[t].pc = "idle"
  BY DEF StartInit, IdleStarter
<1>2. ListedOnce
  BY <1>1 DEF ListedOnce, IsInjective, ToSet
<1> QED
  BY <1>1, <1>2 DEF Parents, OwnChild, At

-----------------------------------------------------------------------------
(* What else the type invariants say.                                      *)

Rest ==
    /\ reported \subseteq Child
    /\ ready \in BOOLEAN
    /\ corrupt \in BOOLEAN

LEMMA MachineRest ==
    ASSUME TypeOK, ProxyShape, Rest, Machine
    PROVE  Rest'
<1>1. ASSUME NEW p \in Server, NEW st, Report(p, st), proc[p].alive PROVE reported' \subseteq Child
  BY <1>1, LiveChild DEF Rest, Report, ProxyShape
<1>2. ASSUME NEW p \in Server, WorkerStep(p) \/ Crash(p) PROVE (reported \subseteq Child /\ ready \in BOOLEAN)'
  <2>1. CASE UNCHANGED <<ready, reported>>
    BY <2>1 DEF Rest
  <2>2. CASE Announce(p)
    BY <2>2 DEF Announce, Rest
  <2>3. ASSUME NEW s \in Slot, NEW st, NEW id, NEW data, TakeRequest(p, s, st, id, data)
        PROVE  (reported \subseteq Child /\ ready \in BOOLEAN)'
    <3>1. proc[p].alive
      BY <2>3 DEF TakeRequest, GetReqHandler, Caller
    <3> QED
      BY <1>1, <2>3, <3>1 DEF TakeRequest, Rest
  <2>4. ASSUME NEW s \in Slot, NEW st, PutReply(p, s, st)
        PROVE  (reported \subseteq Child /\ ready \in BOOLEAN)'
    <3>1. proc[p].alive
      BY <2>4 DEF PutReply, PutRplHandler, Caller
    <3> QED
      BY <1>1, <2>4, <3>1 DEF PutReply, Rest
  <2> QED
    BY <1>2, <2>1, <2>2, <2>3, <2>4
    DEF WorkerStep, Crash, Reach, CreateQueue, Leave, Vanish, Register, QueueCallbackWorker, RunRequest,
        workerVars
<1>3. ASSUME NEW t \in Starter, StartStep(t)
      PROVE  Rest'
  <2>1. CASE UNCHANGED <<ready, reported>>
    BY <1>3, <2>1
    DEF StartStep, Sweep, Visit, Misuse, Unlink, EndSweep, ResetReady, Launch, Announced, NotAnnounced,
        CannotStart, Finish, Rest
  <2> QED
    BY <1>3, <2>1
    DEF StartStep, Sweep, Visit, Misuse, Unlink, EndSweep, ResetReady, Launch, Announced, NotAnnounced,
        CannotStart, Finish, Rest, CreateProcess, Vanish, workerVars
<1> QED
  BY <1>2, <1>3 DEF Machine, Reach, PortClosed, startVars, Rest, workerVars

LEMMA RestInit ==
    ASSUME WorkerInit, StartInit PROVE Rest
BY DEF WorkerInit, StartInit, Rest

LEMMA TypesOfProxies ==
    ASSUME ProxyInv, Tasks, Parents, Rest
    PROVE  TypeOK /\ WorkerTypeOK /\ StartTypeOK
<1>1. TypeOK
  BY DEF ProxyInv, IInv
<1>2. ran \in [Data -> 0 .. MaxRequests]
  <2>1. issued \in 0 .. MaxRequests /\ MaxRequests \in Nat
    BY <1>1, IdAssumption DEF TypeOK
  <2>2. \A d \in Data : ran[d] \in 0 .. MaxRequests
    BY <2>1 DEF Tasks, RunOnce
  <2> QED
    BY <2>2 DEF Tasks, RunOnce
<1>3. WorkerTypeOK
  BY <1>2 DEF WorkerTypeOK, ProxyInv, ProxyShape, WorkerShape, Rest, Child
<1>4. StartTypeOK
  BY DEF StartTypeOK, ProxyInv, ProxyShape, StartShape, Parents, ListedOnce, Rest, Child
<1> QED
  BY <1>1, <1>3, <1>4
=============================================================================
