------------------------- MODULE QueueServerProofs -------------------------
(* What TLAPS proves of the queue service for every set of processes,      *)
(* boxes and names, and for every bound.                                   *)
EXTENDS QueueServer, TLAPS

-----------------------------------------------------------------------------
(* The parts the handlers share                                            *)

LEMMA NameType ==
    ASSUME TypeOK, NEW p \in Pid, NEW n \in Asterisk \cup Plain, CanName(p, n)
    PROVE  MakeQueueName(p, n) \in QueueName
BY SMT DEF TypeOK, Process, CanName, MakeQueueName, QueueName

LEMMA StoreType ==
    ASSUME TypeOK, NEW q \in QueueName, DeleteQueueObj(q)
    PROVE  /\ queues' \in [QueueName -> Queue \cup {NoQueue}]
           /\ requests' \subseteq Request
BY DEF TypeOK, DeleteQueueObj

LEMMA CounterType ==
    ASSUME TypeOK, Advance
    PROVE  /\ GivenId \in 0 .. IdMod - 1
           /\ requestId' \in 0 .. IdMod - 1
           /\ issued' \in 0 .. MaxRequests
           /\ issued + 1 \in 1 .. MaxRequests
<1>1. requestId \in 0 .. IdMod - 1 /\ IdMod \in Nat /\ IdMod > 2
  BY IdAssumption DEF TypeOK
<1>2. GivenId \in 0 .. IdMod - 1
  BY <1>1, SMT DEF GivenId
<1>3. requestId' \in 0 .. IdMod - 1
  BY <1>1, <1>2, SMT DEF Advance
<1>4. issued' \in 0 .. MaxRequests /\ issued + 1 \in 1 .. MaxRequests
  BY IdAssumption, SMT DEF Advance, TypeOK
<1> QED
  BY <1>2, <1>3, <1>4

LEMMA SignalType ==
    ASSUME TypeOK, NEW e \in Event \cup {NoEvent}, SetEvent(e)
    PROVE  signalled' \subseteq Event
BY DEF TypeOK, SetEvent

(* Each part leaves a state of the right type. *)
LEMMA PartType ==
    ASSUME TypeOK, NEW p \in Pid, NEW n \in Asterisk \cup Plain, NEW st, UNCHANGED env,
           NotNamed(p, n, st) \/ NotFound(p, n, st)
    PROVE  TypeOK'
<1>1. CASE NotNamed(p, n, st)
  BY <1>1 DEF NotNamed, TypeOK, env, store, counters
<1>2. CASE NotFound(p, n, st)
  BY <1>2, NameType, StoreType DEF NotFound, TypeOK, env, counters
<1> QED
  BY <1>1, <1>2

LEMMA RefusedType ==
    ASSUME TypeOK, NEW st, NEW why, UNCHANGED env, Refused(st, why)
    PROVE  TypeOK'
BY DEF Refused, TypeOK, env, store, counters

-----------------------------------------------------------------------------
(* Type correctness of each handler                                        *)

LEMMA CreateType ==
    ASSUME TypeOK, NEW p \in Pid, NEW n \in Asterisk \cup Plain, NEW st,
           NEW e \in Handle, CreateHandler(p, n, e, st)
    PROVE  TypeOK'
<1> DEFINE q == MakeQueueName(p, n)
<1>1. CASE Refused(st, "ACCESS_DENIED") \/ Refused(st, "NAME_COLLISION")
  BY <1>1, RefusedType DEF CreateHandler
<1>2. CASE /\ MayCreate(p, n)
           /\ queues' = [queues EXCEPT ![q] = [pid |-> p, born |-> proc[p].born, event |-> e]]
           /\ requests' = {r \in requests : r.queue # q}
           /\ UNCHANGED <<counters, signalled>>
  <2>1. [pid |-> p, born |-> proc[p].born, event |-> e] \in Queue
    BY DEF TypeOK, Process, Queue, Handle
  <2>2. q \in QueueName
    BY <1>2, NameType DEF MayCreate
  <2> QED
    BY <1>2, <2>1, <2>2 DEF CreateHandler, TypeOK, env, counters
<1>3. CASE MayCreate(p, n) /\ DeleteQueueObj(q) /\ UNCHANGED <<counters, signalled>>
  BY <1>3, NameType, StoreType DEF CreateHandler, MayCreate, TypeOK, env, counters
<1> QED
  BY <1>1, <1>2, <1>3 DEF CreateHandler

LEMMA GetReqType ==
    ASSUME TypeOK, NEW p \in Pid, NEW n \in Asterisk \cup Plain, NEW st, NEW id, NEW data,
           GetReqHandler(p, n, st, id, data)
    PROVE  TypeOK'
<1>1. CASE NotNamed(p, n, st) \/ NotFound(p, n, st)
  BY <1>1, PartType DEF GetReqHandler
<1>2. CASE \E why : Refused(st, why)
  BY <1>2, RefusedType DEF GetReqHandler
<1>3. ASSUME NEW r \in requests,
             requests' = (requests \ {r}) \cup {[r EXCEPT !.taken = <<p, proc[p].born>>]},
             UNCHANGED <<env, queues, counters, signalled>>
      PROVE  TypeOK'
  <2>1. <<p, proc[p].born>> \in Instance
    BY DEF TypeOK, Process, Instance
  <2>2. r \in Request
    BY DEF TypeOK
  <2>3. [r EXCEPT !.taken = <<p, proc[p].born>>] \in Request
    BY <2>1, <2>2 DEF Request
  <2> QED
    BY <1>3, <2>3 DEF TypeOK, env, counters
<1> QED
  BY <1>1, <1>2, <1>3 DEF GetReqHandler, First, Waiting

LEMMA PutRplType ==
    ASSUME TypeOK, NEW p \in Pid, NEW n \in Asterisk \cup Plain, NEW st, NEW id,
           NEW data \in Data, PutRplHandler(p, n, id, data, st)
    PROVE  TypeOK'
<1>1. CASE NotNamed(p, n, st) \/ NotFound(p, n, st)
  BY <1>1, PartType DEF PutRplHandler
<1>2. CASE \E why : Refused(st, why)
  BY <1>2, RefusedType DEF PutRplHandler
<1>3. ASSUME NEW r \in requests, DeleteRequestObj(r), UNCHANGED <<env, counters, signalled>>
      PROVE  TypeOK'
  BY <1>3 DEF DeleteRequestObj, TypeOK, env, counters
<1>4. ASSUME NEW r \in requests,
             requests' = (requests \ {r}) \cup {[r EXCEPT !.rpl = data]},
             SetEvent(r.event), UNCHANGED <<env, queues, counters>>
      PROVE  TypeOK'
  <2>1. r \in Request
    BY DEF TypeOK
  <2>2. [r EXCEPT !.rpl = data] \in Request
    BY <2>1 DEF Request
  <2>3. signalled' \subseteq Event
    BY <1>4, <2>1, SignalType DEF Request
  <2> QED
    BY <1>4, <2>2, <2>3 DEF TypeOK, env, counters
<1> QED
  BY <1>1, <1>2, <1>3, <1>4 DEF PutRplHandler, First, WithId

LEMMA PutReqType ==
    ASSUME TypeOK, NEW p \in Pid, NEW n \in Asterisk \cup Plain, NEW st, NEW id,
           NEW e \in Handle, NEW data \in Data, PutReqHandler(p, n, e, data, st, id)
    PROVE  TypeOK'
<1>1. CASE NotNamed(p, n, st) \/ NotFound(p, n, st)
  BY <1>1, PartType DEF PutReqHandler
<1>2. CASE \E why : Refused(st, why)
  BY <1>2, RefusedType DEF PutReqHandler
<1>3. CASE Advance /\ UNCHANGED <<env, store, signalled>>
  BY <1>3, CounterType DEF TypeOK, env, store
<1>4. ASSUME NEW q \in QueueName, Found(q), Advance,
             requests' = requests \cup
               {[queue |-> q, turn |-> issued + 1, id |-> GivenId,
                 pid |-> p, born |-> proc[p].born, event |-> e,
                 data |-> data, taken |-> NoOne, rpl |-> NoData]},
             SetEvent(queues[q].event), UNCHANGED <<env, queues>>
      PROVE  TypeOK'
  <2>1. [queue |-> q, turn |-> issued + 1, id |-> GivenId,
         pid |-> p, born |-> proc[p].born, event |-> e,
         data |-> data, taken |-> NoOne, rpl |-> NoData] \in Request
    BY <1>4, CounterType DEF TypeOK, Process, Handle, Request
  <2>2. queues[q].event \in Event \cup {NoEvent}
    BY <1>4 DEF Found, TypeOK, Queue
  <2>3. signalled' \subseteq Event
    BY <1>4, <2>2, SignalType
  <2> QED
    BY <1>4, <2>1, <2>3, CounterType DEF TypeOK, env
<1> QED
  BY <1>1, <1>2, <1>3, <1>4 DEF PutReqHandler, Named

LEMMA GetRplType ==
    ASSUME TypeOK, NEW p \in Pid, NEW n \in Asterisk \cup Plain, NEW st, NEW id, NEW data,
           GetRplHandler(p, n, id, st, data)
    PROVE  TypeOK'
<1>1. CASE NotNamed(p, n, st) \/ NotFound(p, n, st)
  BY <1>1, PartType DEF GetRplHandler
<1>2. CASE \E why : Refused(st, why)
  BY <1>2, RefusedType DEF GetRplHandler
<1>3. ASSUME NEW r \in requests, DeleteRequestObj(r), UNCHANGED <<env, counters, signalled>>
      PROVE  TypeOK'
  BY <1>3 DEF DeleteRequestObj, TypeOK, env, counters
<1> QED
  BY <1>1, <1>2, <1>3 DEF GetRplHandler, First, WithId

LEMMA StartupType ==
    ASSUME TypeOK, NEW p \in Pid, NEW n \in Asterisk \cup Plain, NEW st, NEW started,
           StartupHandler(p, n, st, started)
    PROVE  TypeOK'
<1>1. CASE NotNamed(p, n, st)
  BY <1>1, PartType DEF StartupHandler
<1>2. CASE \E why : Refused(st, why)
  BY <1>2, RefusedType DEF StartupHandler
<1>3. CASE /\ CanName(p, n)
           /\ DeleteQueueObj(MakeQueueName(p, n))
           /\ UNCHANGED <<env, counters, signalled>>
  BY <1>3, NameType, StoreType DEF TypeOK, env, counters
<1> QED
  BY <1>1, <1>2, <1>3 DEF StartupHandler

LEMMA EnvType ==
    ASSUME TypeOK, NEW p \in Pid,
           \/ \E b \in Box \cup {NoBox} : StartProcess(p, b)
           \/ ExitProcess(p) \/ Connect(p) \/ Disconnect(p)
           \/ \E e \in Event : WaitEvent(e)
    PROVE  TypeOK'
<1>1. ASSUME NEW b \in Box \cup {NoBox}, StartProcess(p, b) PROVE TypeOK'
  <2>1. [alive |-> TRUE, born |-> proc[p].born + 1, box |-> b] \in Process
    BY <1>1, IdAssumption, SMT DEF StartProcess, TypeOK, Process
  <2>2. proc' \in [Pid -> Process]
    BY <1>1, <2>1 DEF StartProcess, TypeOK
  <2> QED
    BY <1>1, <2>2 DEF StartProcess, TypeOK, store, counters
<1>2. CASE ExitProcess(p)
  BY <1>2 DEF ExitProcess, TypeOK, Process, store, counters
<1>3. CASE Connect(p)
  BY <1>3 DEF Connect, TypeOK, store, counters
<1>4. CASE Disconnect(p)
  BY <1>4 DEF Disconnect, NotifyHandler, TypeOK, counters
<1>5. ASSUME NEW e \in Event, WaitEvent(e) PROVE TypeOK'
  BY <1>5 DEF WaitEvent, TypeOK, env, store, counters
<1> QED
  BY <1>1, <1>2, <1>3, <1>4, <1>5

LEMMA TypeStep ==
    ASSUME TypeOK, [Next]_vars
    PROVE  TypeOK'
<1>1. ASSUME NEW p \in Pid, NEW n \in Asterisk \cup Plain, NEW st \in Status, Call(p, n, st)
      PROVE  TypeOK'
  BY <1>1, CreateType, GetReqType, PutRplType, PutReqType, GetRplType, StartupType DEF Call
<1>2. CASE UNCHANGED vars
  BY <1>2 DEF TypeOK, vars
<1>3. ASSUME NEW e \in Event, WaitEvent(e) PROVE TypeOK'
  BY <1>3 DEF WaitEvent, TypeOK, env, store, counters
<1> QED
  BY <1>1, <1>2, <1>3, EnvType DEF Next

LEMMA TypeInit == Init => TypeOK
BY IdAssumption, SMT DEF Init, TypeOK, Process

(* Every state the queue service reaches has the shape the declarations of *)
(* queueserver.cpp give it.                                                *)
THEOREM TypeCorrect == Spec => []TypeOK
BY TypeInit, TypeStep, PTL DEF Spec

-----------------------------------------------------------------------------
(* The eight things a message can do to the store.  Whatever the handler   *)
(* and whatever it answers, it is one of these.                            *)

Quiet == UNCHANGED <<env, store, counters>>

SweepQueue(q) ==
    /\ ~ Found(q)
    /\ DeleteQueueObj(q)
    /\ UNCHANGED <<env, counters>>

OpenQueue(p, q, e) ==
    /\ Caller(p)
    /\ proc[p].box = q[1]
    /\ queues' = [queues EXCEPT ![q] = [pid |-> p, born |-> proc[p].born, event |-> e]]
    /\ requests' = {r \in requests : r.queue # q}
    /\ UNCHANGED <<env, counters>>

Take(p, q, r) ==
    /\ Found(q) /\ queues[q].pid = p
    /\ r \in First(Waiting(q))
    /\ requests' = (requests \ {r}) \cup {[r EXCEPT !.taken = <<p, proc[p].born>>]}
    /\ UNCHANGED <<env, queues, counters>>

Reply(r, data) ==
    /\ r \in requests /\ r.taken # NoOne
    /\ requests' = (requests \ {r}) \cup {[r EXCEPT !.rpl = data]}
    /\ UNCHANGED <<env, queues, counters>>

Drop(r) ==
    /\ DeleteRequestObj(r)
    /\ UNCHANGED <<env, counters>>

Lose == Advance /\ UNCHANGED <<env, store>>

NewRequest(p, q, e, data) ==
    [queue |-> q, turn |-> issued + 1, id |-> GivenId,
     pid |-> p, born |-> proc[p].born, event |-> e,
     data |-> data, taken |-> NoOne, rpl |-> NoData]

Accept(p, q, e, data) ==
    /\ Caller(p)
    /\ Found(q)
    /\ q[1] # NoBox => proc[p].box = q[1]
    /\ Advance
    /\ requests' = requests \cup {NewRequest(p, q, e, data)}
    /\ UNCHANGED <<env, queues>>

Effect ==
    \/ Quiet
    \/ Lose
    \/ \E q \in QueueName : SweepQueue(q)
    \/ \E p \in Pid, q \in QueueName, e \in Handle : OpenQueue(p, q, e)
    \/ \E p \in Pid, q \in QueueName, r \in requests : Take(p, q, r)
    \/ \E r \in requests, data \in Data : Reply(r, data)
    \/ \E r \in requests : Drop(r)
    \/ \E p \in Pid, q \in QueueName, e \in Handle, data \in Data : Accept(p, q, e, data)

LEMMA SharedEffect ==
    ASSUME TypeOK, NEW p \in Pid, NEW n \in Asterisk \cup Plain, NEW st, UNCHANGED env,
           \/ NotNamed(p, n, st)
           \/ NotFound(p, n, st)
           \/ \E why : Refused(st, why)
    PROVE  Effect
<1>1. CASE NotNamed(p, n, st) \/ \E why : Refused(st, why)
  BY <1>1 DEF NotNamed, Refused, Effect, Quiet
<1>2. CASE NotFound(p, n, st)
  BY <1>2, NameType DEF NotFound, Effect, SweepQueue
<1> QED
  BY <1>1, <1>2

LEMMA CreateEffect ==
    ASSUME TypeOK, NEW p \in Pid, NEW n \in Asterisk \cup Plain, NEW st,
           NEW e \in Handle, CreateHandler(p, n, e, st)
    PROVE  Effect
<1> DEFINE q == MakeQueueName(p, n)
<1>1. CASE \E why : Refused(st, why)
  BY <1>1, SharedEffect DEF CreateHandler
<1>2. CASE /\ MayCreate(p, n)
           /\ queues' = [queues EXCEPT ![q] = [pid |-> p, born |-> proc[p].born, event |-> e]]
           /\ requests' = {r \in requests : r.queue # q}
           /\ UNCHANGED <<counters, signalled>>
  <2>1. q \in QueueName
    BY <1>2, NameType DEF MayCreate
  <2>2. proc[p].box = q[1]
    BY <1>2 DEF MayCreate, MakeQueueName
  <2>3. OpenQueue(p, q, e)
    BY <1>2, <2>2 DEF CreateHandler, OpenQueue
  <2> QED
    BY <2>1, <2>3 DEF Effect
<1>3. CASE MayCreate(p, n) /\ ~ Found(q) /\ DeleteQueueObj(q) /\ UNCHANGED <<counters, signalled>>
  BY <1>3, NameType DEF CreateHandler, MayCreate, Effect, SweepQueue
<1> QED
  BY <1>1, <1>2, <1>3 DEF CreateHandler

LEMMA GetReqEffect ==
    ASSUME TypeOK, NEW p \in Pid, NEW n \in Asterisk \cup Plain, NEW st, NEW id, NEW data,
           GetReqHandler(p, n, st, id, data)
    PROVE  Effect
<1>1. CASE NotNamed(p, n, st) \/ NotFound(p, n, st) \/ \E why : Refused(st, why)
  BY <1>1, SharedEffect DEF GetReqHandler
<1>2. ASSUME NEW q \in QueueName, Named(p, n, q), queues[q].pid = p,
             NEW r \in First(Waiting(q)),
             requests' = (requests \ {r}) \cup {[r EXCEPT !.taken = <<p, proc[p].born>>]},
             UNCHANGED <<queues, counters, signalled>>
      PROVE  Effect
  <2>1. Take(p, q, r)
    BY <1>2 DEF GetReqHandler, Take, Named
  <2> QED
    BY <1>2, <2>1 DEF Effect, First, Waiting
<1> QED
  BY <1>1, <1>2 DEF GetReqHandler

LEMMA PutRplEffect ==
    ASSUME TypeOK, NEW p \in Pid, NEW n \in Asterisk \cup Plain, NEW st, NEW id,
           NEW data \in Data, PutRplHandler(p, n, id, data, st)
    PROVE  Effect
<1>1. CASE NotNamed(p, n, st) \/ NotFound(p, n, st) \/ \E why : Refused(st, why)
  BY <1>1, SharedEffect DEF PutRplHandler
<1>2. ASSUME NEW r \in requests, DeleteRequestObj(r), UNCHANGED <<env, counters, signalled>>
      PROVE  Effect
  BY <1>2 DEF Effect, Drop
<1>3. ASSUME NEW r \in requests, r.taken # NoOne,
             requests' = (requests \ {r}) \cup {[r EXCEPT !.rpl = data]},
             UNCHANGED <<env, queues, counters>>
      PROVE  Effect
  <2>1. Reply(r, data)
    BY <1>3 DEF Reply
  <2> QED
    BY <2>1 DEF Effect
<1> QED
  BY <1>1, <1>2, <1>3 DEF PutRplHandler, First, WithId

LEMMA PutReqEffect ==
    ASSUME TypeOK, NEW p \in Pid, NEW n \in Asterisk \cup Plain, NEW st, NEW id,
           NEW e \in Handle, NEW data \in Data, PutReqHandler(p, n, e, data, st, id)
    PROVE  Effect
<1>1. CASE NotNamed(p, n, st) \/ NotFound(p, n, st) \/ \E why : Refused(st, why)
  BY <1>1, SharedEffect DEF PutReqHandler
<1>2. CASE Advance /\ UNCHANGED <<store, signalled>>
  BY <1>2 DEF PutReqHandler, Effect, Lose
<1>3. ASSUME NEW q \in QueueName, Named(p, n, q), Advance,
             requests' = requests \cup {NewRequest(p, q, e, data)}, UNCHANGED queues
      PROVE  Effect
  <2>1. q[1] # NoBox => proc[p].box = q[1]
    BY <1>3 DEF Named, MakeQueueName
  <2>2. Accept(p, q, e, data)
    BY <1>3, <2>1 DEF PutReqHandler, Accept, Named
  <2> QED
    BY <2>2 DEF Effect
<1> QED
  BY <1>1, <1>2, <1>3 DEF PutReqHandler, NewRequest

LEMMA GetRplEffect ==
    ASSUME TypeOK, NEW p \in Pid, NEW n \in Asterisk \cup Plain, NEW st, NEW id, NEW data,
           GetRplHandler(p, n, id, st, data)
    PROVE  Effect
<1>1. CASE NotNamed(p, n, st) \/ NotFound(p, n, st) \/ \E why : Refused(st, why)
  BY <1>1, SharedEffect DEF GetRplHandler
<1>2. ASSUME NEW r \in requests, DeleteRequestObj(r), UNCHANGED <<env, counters, signalled>>
      PROVE  Effect
  BY <1>2 DEF Effect, Drop
<1> QED
  BY <1>1, <1>2 DEF GetRplHandler, First, WithId

LEMMA StartupEffect ==
    ASSUME TypeOK, NEW p \in Pid, NEW n \in Asterisk \cup Plain, NEW st, NEW started,
           StartupHandler(p, n, st, started)
    PROVE  Effect
<1>1. CASE NotNamed(p, n, st) \/ \E why : Refused(st, why)
  BY <1>1, SharedEffect DEF StartupHandler
<1>2. CASE /\ CanName(p, n)
           /\ ~ Found(MakeQueueName(p, n))
           /\ DeleteQueueObj(MakeQueueName(p, n))
           /\ UNCHANGED <<env, counters, signalled>>
  BY <1>2, NameType DEF Effect, SweepQueue
<1> QED
  BY <1>1, <1>2 DEF StartupHandler

LEMMA CallEffect ==
    ASSUME TypeOK, NEW p \in Pid, NEW n \in Asterisk \cup Plain, NEW st \in Status, Call(p, n, st)
    PROVE  Effect
BY CreateEffect, GetReqEffect, PutRplEffect, PutReqEffect, GetRplEffect, StartupEffect DEF Call

-----------------------------------------------------------------------------
(* The inductive invariant, one effect at a time                           *)

(* A step that only loses requests or queues, with all their requests,     *)
(* keeps every part of the invariant but the type.                         *)
LEMMA LossKeepsIInv ==
    ASSUME IInv, TypeOK', requests' \subseteq requests,
           \A q \in QueueName : queues'[q] \in {queues[q], NoQueue},
           \A r \in requests' : queues'[r.queue] = queues[r.queue],
           UNCHANGED <<proc, counters>>,
           \A q \in QueueName : queues'[q] # NoQueue => queues[q].pid \in connected',
           \A r \in requests' : r.pid \in connected'
    PROVE  IInv'
<1> USE DEF IInv, counters
<1>1. Turns'
  BY DEF Turns
<1>2. Counting'
  BY DEF Counting
<1>3. Ages'
  BY DEF Ages
<1>4. NoOrphans'
  BY DEF NoOrphans
<1>5. HandedToCreator'
  BY DEF HandedToCreator
<1>6. FirstComeFirstServed'
  BY DEF FirstComeFirstServed
<1>7. RepliedAfterTaken'
  BY DEF RepliedAfterTaken
<1>8. BoxIsolation'
  BY DEF BoxIsolation, Found, ServerActive
<1> QED
  BY <1>1, <1>2, <1>3, <1>4, <1>5, <1>6, <1>7, <1>8

LEMMA QuietKeepsIInv ==
    ASSUME IInv, TypeOK', Quiet
    PROVE  IInv'
BY DEF Quiet, env, store, counters, IInv, Turns, Counting, Ages, NoOrphans, HandedToCreator,
       FirstComeFirstServed, RepliedAfterTaken, BoxIsolation, Found, ServerActive

LEMMA SweepKeepsIInv ==
    ASSUME IInv, TypeOK', NEW q \in QueueName, SweepQueue(q)
    PROVE  IInv'
<1>1. queues \in [QueueName -> Queue \cup {NoQueue}]
  BY DEF IInv, TypeOK
<1> QED
  BY <1>1, LossKeepsIInv DEF SweepQueue, DeleteQueueObj, env, IInv, NoOrphans, TypeOK, Request

LEMMA RemoveKeepsIInv ==
    ASSUME IInv, TypeOK', NEW r \in requests, Drop(r)
    PROVE  IInv'
BY LossKeepsIInv DEF Drop, DeleteRequestObj, env, IInv, NoOrphans

LEMMA DisconnectKeepsIInv ==
    ASSUME IInv, TypeOK', NEW p \in Pid, Disconnect(p)
    PROVE  IInv'
<1>1. queues \in [QueueName -> Queue \cup {NoQueue}] /\ requests \subseteq Request
  BY DEF IInv, TypeOK
<1>2. \A r \in requests : r.queue \in QueueName /\ queues[r.queue] # NoQueue
  BY <1>1 DEF IInv, NoOrphans, Request
<1> QED
  BY <1>1, <1>2, LossKeepsIInv DEF Disconnect, NotifyHandler, IInv, NoOrphans

(* The id counter follows the number of ids given out. *)
LEMMA CounterStep ==
    ASSUME TypeOK, Counting, Advance
    PROVE  /\ GivenId = issued + 2
           /\ issued' = issued + 1
           /\ requestId' = IF issued' < IdMod - 2 THEN issued' + 1 ELSE 1
<1> DEFINE i == issued
           m == IdMod
<1>1. i \in Nat /\ m \in Nat /\ m > 2 /\ i < m - 2
  BY IdAssumption, SMT DEF TypeOK, Advance
<1>2. requestId = i + 1
  BY <1>1 DEF Counting
<1>3. (i + 2) % m = i + 2
  BY <1>1, SMT
<1>4. GivenId = i + 2
  BY <1>2, <1>3, <1>1, SMT DEF GivenId
<1> QED
  BY <1>1, <1>4, SMT DEF Advance

LEMMA LoseKeepsIInv ==
    ASSUME IInv, TypeOK', Lose
    PROVE  IInv'
<1> USE DEF IInv, Lose, env, store
<1>0. issued \in Nat
  BY IdAssumption DEF TypeOK
<1>1. issued' = issued + 1 /\ issued \in Nat
  BY <1>0, CounterStep
<1>2. Turns'
  BY <1>1, SMT DEF Turns, TypeOK, Request
<1>3. Counting'
  BY CounterStep DEF Counting
<1>4. /\ Ages' /\ NoOrphans' /\ HandedToCreator' /\ FirstComeFirstServed'
      /\ RepliedAfterTaken' /\ BoxIsolation'
  BY DEF Ages, NoOrphans, HandedToCreator, FirstComeFirstServed, RepliedAfterTaken,
         BoxIsolation, Found, ServerActive
<1> QED
  BY <1>2, <1>3, <1>4

LEMMA OpenKeepsIInv ==
    ASSUME IInv, TypeOK', NEW p \in Pid, NEW q \in QueueName, NEW e \in Handle, OpenQueue(p, q, e)
    PROVE  IInv'
<1> USE DEF IInv, OpenQueue, env, counters
<1>1. /\ queues \in [QueueName -> Queue \cup {NoQueue}] /\ requests \subseteq Request
      /\ proc \in [Pid -> Process]
  BY DEF TypeOK
<1>2. queues'[q] = [pid |-> p, born |-> proc[p].born, event |-> e]
  BY <1>1
<1>3. \A x \in QueueName : x # q => queues'[x] = queues[x]
  BY <1>1
<1>4. \A r \in requests' : r \in requests /\ r.queue # q /\ r.queue \in QueueName
  BY <1>1 DEF Request
<1>5. Turns' /\ Counting' /\ FirstComeFirstServed' /\ RepliedAfterTaken'
  BY <1>4 DEF Turns, Counting, FirstComeFirstServed, RepliedAfterTaken
<1>6. Ages'
  <2>1. proc[p].born \in 0 .. MaxStarts
    BY <1>1 DEF Process
  <2>2. \A x \in QueueName : queues'[x] # NoQueue => queues'[x].born <= proc[queues'[x].pid].born
    BY <1>2, <1>3, <2>1, IdAssumption DEF Ages
  <2> QED
    BY <1>4, <2>2 DEF Ages
<1>7. NoOrphans'
  BY <1>2, <1>3, <1>4 DEF NoOrphans, Caller, TypeOK, Queue
<1>8. HandedToCreator'
  BY <1>3, <1>4 DEF HandedToCreator
<1>9. BoxIsolation'
  BY <1>2, <1>3, <1>4 DEF BoxIsolation, Found, ServerActive
<1> QED
  BY <1>5, <1>6, <1>7, <1>8, <1>9

(* What changing one field of a request leaves alone. *)
LEMMA TakenField ==
    ASSUME NEW r \in Request, NEW v
    PROVE  /\ [r EXCEPT !.taken = v].taken = v
           /\ [r EXCEPT !.taken = v].queue = r.queue
           /\ [r EXCEPT !.taken = v].turn = r.turn
           /\ [r EXCEPT !.taken = v].id = r.id
           /\ [r EXCEPT !.taken = v].pid = r.pid
           /\ [r EXCEPT !.taken = v].born = r.born
           /\ [r EXCEPT !.taken = v].rpl = r.rpl
           /\ [r EXCEPT !.taken = v].data = r.data
           /\ [r EXCEPT !.taken = v].event = r.event
BY DEF Request

LEMMA ReplyField ==
    ASSUME NEW r \in Request, NEW v
    PROVE  /\ [r EXCEPT !.rpl = v].taken = r.taken
           /\ [r EXCEPT !.rpl = v].queue = r.queue
           /\ [r EXCEPT !.rpl = v].turn = r.turn
           /\ [r EXCEPT !.rpl = v].id = r.id
           /\ [r EXCEPT !.rpl = v].pid = r.pid
           /\ [r EXCEPT !.rpl = v].born = r.born
           /\ [r EXCEPT !.rpl = v].rpl = v
           /\ [r EXCEPT !.rpl = v].data = r.data
           /\ [r EXCEPT !.rpl = v].event = r.event
BY DEF Request

LEMMA TakeKeepsIInv ==
    ASSUME IInv, TypeOK', NEW p \in Pid, NEW q \in QueueName, NEW r \in requests, Take(p, q, r)
    PROVE  IInv'
<1> DEFINE me == <<p, proc[p].born>>
           t  == [r EXCEPT !.taken = me]
<1> USE DEF IInv, Take, env, counters
<1>1. requests \subseteq Request /\ r \in Request /\ NoOne # me
  BY SentinelAssumption DEF TypeOK, Process
<1>2. /\ t.taken = me /\ t.queue = r.queue /\ t.turn = r.turn /\ t.id = r.id
      /\ t.pid = r.pid /\ t.born = r.born /\ t.rpl = r.rpl
  BY <1>1, TakenField
<1>3. r.queue = q /\ r.taken = NoOne /\ \A s \in requests : s.queue = q /\ s.taken = NoOne => r.turn <= s.turn
  BY DEF First, Waiting
<1>4. requests' = (requests \ {r}) \cup {t}
  OBVIOUS
<1> HIDE DEF me, t
<1>5. Turns' /\ Counting' /\ Ages' /\ NoOrphans'
  BY <1>2, <1>4 DEF Turns, Counting, Ages, NoOrphans
<1>6. HandedToCreator'
  <2>1. queues[q] # NoQueue /\ me = <<queues[q].pid, queues[q].born>>
    BY DEF Found, ServerActive, me
  <2> QED
    BY <1>2, <1>3, <1>4, <2>1 DEF HandedToCreator
<1>7. FirstComeFirstServed'
  <2>1. \A s \in requests : s # r => s.turn # r.turn
    BY DEF Turns
  <2>2. \A s \in requests : s.turn \in Nat
    BY <1>1, IdAssumption DEF Request
  <2>3. ASSUME NEW s \in requests, s # r, s.queue = q, s.taken = NoOne
        PROVE  t.turn < s.turn
    <3>1. r.turn <= s.turn /\ s.turn # r.turn
      BY <1>3, <2>1, <2>3
    <3> QED
      BY <3>1, <2>2, <1>2, SMT
  <2> QED
    BY <1>1, <1>2, <1>3, <1>4, <2>3 DEF FirstComeFirstServed
<1>8. RepliedAfterTaken'
  BY <1>1, <1>2, <1>4 DEF RepliedAfterTaken
<1>9. BoxIsolation'
  BY <1>2, <1>4 DEF BoxIsolation, Found, ServerActive
<1> QED
  BY <1>5, <1>6, <1>7, <1>8, <1>9

LEMMA ReplyKeepsIInv ==
    ASSUME IInv, TypeOK', NEW r \in requests, NEW data \in Data, Reply(r, data)
    PROVE  IInv'
<1> DEFINE t == [r EXCEPT !.rpl = data]
<1> USE DEF IInv, Reply, env, counters
<1>1. r \in Request
  BY DEF TypeOK
<1>2. /\ t.taken = r.taken /\ t.queue = r.queue /\ t.turn = r.turn /\ t.id = r.id
      /\ t.pid = r.pid /\ t.born = r.born
  BY <1>1, ReplyField
<1>3. requests' = (requests \ {r}) \cup {t}
  OBVIOUS
<1> HIDE DEF t
<1>4. Turns' /\ Counting' /\ Ages' /\ NoOrphans'
  BY <1>2, <1>3 DEF Turns, Counting, Ages, NoOrphans
<1>5. HandedToCreator' /\ RepliedAfterTaken'
  BY <1>2, <1>3 DEF HandedToCreator, RepliedAfterTaken
<1>6. FirstComeFirstServed'
  BY <1>2, <1>3 DEF FirstComeFirstServed
<1>7. BoxIsolation'
  BY <1>2, <1>3 DEF BoxIsolation, Found, ServerActive
<1> QED
  BY <1>4, <1>5, <1>6, <1>7

LEMMA AcceptKeepsIInv ==
    ASSUME IInv, TypeOK', NEW p \in Pid, NEW q \in QueueName, NEW e \in Handle, NEW data \in Data,
           Accept(p, q, e, data)
    PROVE  IInv'
<1> DEFINE t == NewRequest(p, q, e, data)
<1> USE DEF IInv, Accept, env
<1>1. /\ t.queue = q /\ t.turn = issued + 1 /\ t.id = GivenId /\ t.pid = p
      /\ t.born = proc[p].born /\ t.taken = NoOne /\ t.rpl = NoData
  BY DEF NewRequest
<1>2. requests' = requests \cup {t}
  OBVIOUS
<1> HIDE DEF t
<1>0. issued \in Nat
  BY IdAssumption DEF TypeOK
<1>3. issued' = issued + 1 /\ issued \in Nat /\ GivenId = issued + 2
  BY <1>0, CounterStep
<1>4. \A r \in requests : r.turn \in Nat /\ r.turn <= issued
  BY IdAssumption DEF Turns, TypeOK, Request
<1>5. Turns'
  <2>1. \A r \in requests : r.turn <= issued' /\ r.turn # t.turn
    BY <1>1, <1>3, <1>4, SMT
  <2>2. t.turn <= issued'
    BY <1>1, <1>3, SMT
  <2> QED
    BY <1>2, <2>1, <2>2 DEF Turns
<1>6. Counting'
  <2>1. t.id = t.turn + 1
    BY <1>1, <1>3, SMT
  <2> QED
    BY <1>2, <2>1, CounterStep DEF Counting
<1>7. Ages'
  <2>1. proc[p].born <= proc[p].born
    BY IdAssumption, SMT DEF TypeOK, Process
  <2> QED
    BY <1>1, <1>2, <2>1 DEF Ages
<1>8. NoOrphans'
  BY <1>1, <1>2 DEF NoOrphans, Caller, Found
<1>9. HandedToCreator' /\ RepliedAfterTaken'
  BY <1>1, <1>2 DEF HandedToCreator, RepliedAfterTaken
<1>10. FirstComeFirstServed'
  <2>1. \A r \in requests : r.turn < t.turn
    BY <1>1, <1>3, <1>4, SMT
  <2> QED
    BY <1>1, <1>2, <2>1 DEF FirstComeFirstServed
<1>11. BoxIsolation'
  BY <1>1, <1>2 DEF BoxIsolation, Found, ServerActive
<1> QED
  BY <1>5, <1>6, <1>7, <1>8, <1>9, <1>10, <1>11

LEMMA EffectKeepsIInv ==
    ASSUME IInv, TypeOK', Effect
    PROVE  IInv'
BY QuietKeepsIInv, LoseKeepsIInv, SweepKeepsIInv, OpenKeepsIInv, TakeKeepsIInv, ReplyKeepsIInv,
   RemoveKeepsIInv, AcceptKeepsIInv DEF Effect

LEMMA StartKeepsIInv ==
    ASSUME IInv, TypeOK', NEW p \in Pid, NEW b \in Box \cup {NoBox}, StartProcess(p, b)
    PROVE  IInv'
<1> USE DEF IInv, StartProcess, store, counters
<1>1. proc \in [Pid -> Process]
  BY DEF TypeOK
<1>2. /\ proc'[p].born = proc[p].born + 1
      /\ \A x \in Pid : x # p => proc'[x] = proc[x]
  BY <1>1
<1>3. \A x \in Pid : proc[x].born \in Nat /\ proc[x].born <= proc'[x].born
  BY <1>1, <1>2, IdAssumption, SMT DEF Process
<1>4. /\ \A q \in QueueName : queues[q] # NoQueue => queues[q].pid \in Pid /\ queues[q].born \in Nat
      /\ \A r \in requests : r.pid \in Pid /\ r.born \in Nat
  BY IdAssumption DEF TypeOK, Queue, Request
<1>5. Turns' /\ Counting' /\ NoOrphans' /\ HandedToCreator' /\ FirstComeFirstServed' /\ RepliedAfterTaken'
  BY DEF Turns, Counting, NoOrphans, HandedToCreator, FirstComeFirstServed, RepliedAfterTaken
<1>6. Ages'
  BY <1>3, <1>4, SMT DEF Ages
<1>7. BoxIsolation'
  <2>1. ASSUME NEW q \in QueueName, Found(q)'
        PROVE  Found(q) /\ queues[q].pid # p
    BY <1>2, <1>3, <1>4, <2>1, SMT DEF Found, ServerActive, Ages
  <2>2. ASSUME NEW r \in requests, proc'[r.pid].born = r.born
        PROVE  r.pid # p
    BY <1>2, <1>3, <1>4, <2>2, SMT DEF Ages
  <2> QED
    BY <1>2, <1>4, <2>1, <2>2 DEF BoxIsolation
<1> QED
  BY <1>5, <1>6, <1>7

LEMMA ExitKeepsIInv ==
    ASSUME IInv, TypeOK', NEW p \in Pid, ExitProcess(p)
    PROVE  IInv'
<1> USE DEF IInv, ExitProcess, store, counters
<1>1. /\ \A x \in Pid : proc'[x].born = proc[x].born /\ proc'[x].box = proc[x].box
      /\ \A x \in Pid : proc'[x].alive => proc[x].alive
  BY DEF TypeOK, Process
<1>2. /\ \A q \in QueueName : queues[q] # NoQueue => queues[q].pid \in Pid
      /\ \A r \in requests : r.pid \in Pid
  BY DEF TypeOK, Queue, Request
<1>3. Turns' /\ Counting' /\ NoOrphans' /\ HandedToCreator' /\ FirstComeFirstServed' /\ RepliedAfterTaken'
  BY DEF Turns, Counting, NoOrphans, HandedToCreator, FirstComeFirstServed, RepliedAfterTaken
<1>4. Ages' /\ BoxIsolation'
  BY <1>1, <1>2 DEF Ages, BoxIsolation, Found, ServerActive
<1> QED
  BY <1>3, <1>4

LEMMA ConnectKeepsIInv ==
    ASSUME IInv, TypeOK', NEW p \in Pid, Connect(p)
    PROVE  IInv'
BY DEF Connect, store, counters, IInv, Turns, Counting, Ages, NoOrphans, HandedToCreator,
       FirstComeFirstServed, RepliedAfterTaken, BoxIsolation, Found, ServerActive

LEMMA IInvInit == Init => IInv
<1> SUFFICES ASSUME Init PROVE IInv
  OBVIOUS
<1>1. TypeOK
  BY TypeInit
<1>2. Counting
  BY IdAssumption, SMT DEF Init, Counting
<1> QED
  BY <1>1, <1>2 DEF Init, IInv, Turns, Ages, NoOrphans, HandedToCreator, FirstComeFirstServed,
                    RepliedAfterTaken, BoxIsolation, Found

LEMMA IInvStep ==
    ASSUME IInv, [Next]_vars
    PROVE  IInv'
<1>1. TypeOK'
  BY TypeStep DEF IInv
<1>2. ASSUME NEW p \in Pid, NEW n \in Asterisk \cup Plain, NEW st \in Status, Call(p, n, st)
      PROVE  IInv'
  BY <1>1, <1>2, CallEffect, EffectKeepsIInv DEF IInv
<1>3. CASE UNCHANGED vars
  BY <1>1, <1>3, QuietKeepsIInv DEF vars, Quiet, env, store, counters
<1>4. ASSUME NEW e \in Event, WaitEvent(e) PROVE IInv'
  BY <1>1, <1>4, QuietKeepsIInv DEF WaitEvent, Quiet
<1> QED
  BY <1>1, <1>2, <1>3, <1>4, StartKeepsIInv, ExitKeepsIInv, ConnectKeepsIInv, DisconnectKeepsIInv
     DEF Next

(* IInv holds in every reachable state; the theorems below are parts of it. *)
THEOREM Inductive == Spec => []IInv
BY IInvInit, IInvStep, PTL DEF Spec

-----------------------------------------------------------------------------
(* The properties of the queue service                                     *)

(* GetReqHandler gives a request to no process but the one that created    *)
(* the queue, however often pids are reused.                               *)
THEOREM OnlyTheCreatorIsServed == Spec => []HandedToCreator
<1>1. IInv => HandedToCreator
  BY DEF IInv
<1> QED
  BY <1>1, Inductive, PTL

(* Requests of a queue are handed out in the order PutReqHandler took them. *)
THEOREM InOrder == Spec => []FirstComeFirstServed
<1>1. IInv => FirstComeFirstServed
  BY DEF IInv
<1> QED
  BY <1>1, Inductive, PTL

(* Every queue and every request will still be cleaned up by NotifyHandler. *)
THEOREM NothingLeaks == Spec => []NoOrphans
<1>1. IInv => NoOrphans
  BY DEF IInv
<1> QED
  BY <1>1, Inductive, PTL

(* MakeQueueName keeps the queues of different boxes apart.                *)
THEOREM Isolation == Spec => []BoxIsolation
<1>1. IInv => BoxIsolation
  BY DEF IInv
<1> QED
  BY <1>1, Inductive, PTL

(* As long as the id counter has not come round, an id names one request.  *)
LEMMA DistinctIds ==
    ASSUME IInv
    PROVE  \A r, s \in requests : r.id = s.id => r = s
<1>1. \A r \in requests : r.turn \in Nat
  BY IdAssumption DEF IInv, TypeOK, Request
<1>2. ASSUME NEW r \in requests, NEW s \in requests, r.id = s.id
      PROVE  r.turn = s.turn
  <2>1. r.id = r.turn + 1 /\ s.id = s.turn + 1
    BY DEF IInv, Counting
  <2>2. r.turn \in Nat /\ s.turn \in Nat
    BY <1>1
  <2>3. r.turn + 1 = s.turn + 1
    BY <1>2, <2>1
  <2> QED
    BY <2>2, <2>3
<1> QED
  BY <1>2 DEF IInv, Turns

-----------------------------------------------------------------------------
(* The queue service implements RequestLife, for every instance: what TLC  *)
(* shows of LifeSpec on small sets.  Every effect of a message on the      *)
(* lists is a step of the lives of requests, or none at all.               *)

(* The life of the k-th request, read from a set of requests and the       *)
(* number of ids given out.                                                *)
LifeIn(rs, n, k) ==
    LET mine == {r \in rs : r.turn = k} IN
    IF k > n THEN [phase |-> "unborn", home |-> NoQueue]
    ELSE IF mine = {} THEN [phase |-> "gone", home |-> NoQueue]
    ELSE LET r == CHOOSE r \in mine : TRUE IN [phase |-> Phase(r), home |-> r.queue]

(* Turns name requests, and none is still to be given out. *)
Sound(rs, n) ==
    /\ n \in Nat
    /\ \A r \in rs : r.turn \in Nat /\ r.turn <= n
    /\ \A r, s \in rs : r.turn = s.turn => r = s

Lives == [k \in 1 .. MaxRequests |-> LifeOf(k)]

LEMMA LivesNow == Lives = [k \in 1 .. MaxRequests |-> LifeIn(requests, issued, k)]
BY DEF Lives, LifeOf, LifeIn

LEMMA LivesThen == Lives' = [k \in 1 .. MaxRequests |-> LifeIn(requests', issued', k)]
BY DEF Lives, LifeOf, LifeIn, Phase

LEMMA UnbornLife ==
    ASSUME NEW rs, NEW n \in Nat, NEW k \in Nat, k > n
    PROVE  LifeIn(rs, n, k) = [phase |-> "unborn", home |-> NoQueue]
BY DEF LifeIn

LEMMA GoneLife ==
    ASSUME NEW rs, NEW n \in Nat, NEW k \in Nat, k <= n, \A r \in rs : r.turn # k
    PROVE  LifeIn(rs, n, k) = [phase |-> "gone", home |-> NoQueue]
<1>1. {r \in rs : r.turn = k} = {}
  OBVIOUS
<1>2. ~ (k > n)
  OBVIOUS
<1> QED
  BY <1>1, <1>2 DEF LifeIn

LEMMA PresentLife ==
    ASSUME NEW rs, NEW n \in Nat, Sound(rs, n), NEW r \in rs
    PROVE  LifeIn(rs, n, r.turn) = [phase |-> Phase(r), home |-> r.queue]
<1> DEFINE mine == {x \in rs : x.turn = r.turn}
<1>1. mine = {r}
  BY DEF Sound
<1>2. (CHOOSE x \in mine : TRUE) = r
  BY <1>1
<1>3. ~ (r.turn > n)
  BY DEF Sound
<1> HIDE DEF mine
<1>4. mine # {}
  BY <1>1
<1> QED
  BY <1>2, <1>3, <1>4 DEF LifeIn, mine

(* A request that is in two stores, and no request for a turn in either,   *)
(* are the same life.                                                      *)
LEMMA SameLife ==
    ASSUME NEW rs, NEW ss, NEW n \in Nat, Sound(rs, n), Sound(ss, n), NEW k \in Nat,
           \A r \in rs : r.turn = k => \E s \in ss : s.turn = k /\ s.queue = r.queue /\ Phase(s) = Phase(r),
           \A s \in ss : s.turn = k => \E r \in rs : r.turn = k
    PROVE  LifeIn(ss, n, k) = LifeIn(rs, n, k)
<1>1. CASE k > n
  BY <1>1, UnbornLife
<1>2. CASE k <= n /\ \A r \in rs : r.turn # k
  BY <1>2, GoneLife
<1>3. ASSUME NEW r \in rs, r.turn = k
      PROVE  LifeIn(ss, n, k) = LifeIn(rs, n, k)
  <2>1. PICK s \in ss : s.turn = k /\ s.queue = r.queue /\ Phase(s) = Phase(r)
    BY <1>3
  <2> QED
    BY <1>3, <2>1, PresentLife
<1> QED
  BY <1>1, <1>2, <1>3

LEMMA SoundNow == ASSUME IInv PROVE Sound(requests, issued) /\ issued \in Nat
BY IdAssumption DEF IInv, TypeOK, Turns, Request, Sound

LEMMA SoundThen == ASSUME IInv' PROVE Sound(requests', issued') /\ issued' \in Nat
BY IdAssumption DEF IInv, TypeOK, Turns, Request, Sound

-----------------------------------------------------------------------------
(* What a change of the lists does to the lives                            *)

LEMMA BornLife ==
    ASSUME NEW rs, NEW n \in Nat, Sound(rs, n), NEW k \in Nat, k <= n
    PROVE  LifeIn(rs, n, k) # [phase |-> "unborn", home |-> NoQueue]
<1>1. CASE \A r \in rs : r.turn # k
  BY <1>1, GoneLife
<1>2. ASSUME NEW r \in rs, r.turn = k
      PROVE  LifeIn(rs, n, k).phase # "unborn"
  <2>1. LifeIn(rs, n, k) = [phase |-> Phase(r), home |-> r.queue]
    BY <1>2, PresentLife
  <2>2. Phase(r) # "unborn"
    BY DEF Phase
  <2> QED
    BY <2>1, <2>2
<1> QED
  BY <1>1, <1>2

LEMMA WaitingLife ==
    ASSUME NEW rs, NEW n \in Nat, Sound(rs, n), NEW k \in Nat, NEW q,
           LifeIn(rs, n, k) = [phase |-> "waiting", home |-> q]
    PROVE  \E r \in rs : r.turn = k /\ r.queue = q /\ r.taken = NoOne
<1>1. LifeIn(rs, n, k).phase = "waiting" /\ LifeIn(rs, n, k).home = q
  OBVIOUS
<1>2. CASE k > n
  BY <1>1, <1>2, UnbornLife
<1>3. CASE k <= n /\ \A r \in rs : r.turn # k
  BY <1>1, <1>3, GoneLife
<1>4. ASSUME NEW r \in rs, r.turn = k
      PROVE  r.queue = q /\ r.taken = NoOne
  <2>1. LifeIn(rs, n, k) = [phase |-> Phase(r), home |-> r.queue]
    BY <1>4, PresentLife
  <2>2. Phase(r) = "waiting" /\ r.queue = q
    BY <1>1, <2>1
  <2> QED
    BY <2>2 DEF Phase
<1> QED
  BY <1>2, <1>3, <1>4

LEMMA NoChange ==
    ASSUME requests' = requests, issued' = issued
    PROVE  Lives' = Lives
BY LivesNow, LivesThen

LEMMA RequestsLeave ==
    ASSUME IInv, IInv', requests' \subseteq requests, issued' = issued
    PROVE  Life!Next
<1> DEFINE S == {k \in 1 .. MaxRequests : \E r \in requests \ requests' : r.turn = k}
<1>1. Sound(requests, issued) /\ Sound(requests', issued) /\ issued \in Nat
  BY SoundNow, SoundThen
<1>2. ASSUME NEW k \in S
      PROVE  /\ Lives[k].phase \notin {"unborn", "gone"}
             /\ Lives'[k] = [phase |-> "gone", home |-> NoQueue]
  <2>1. PICK r \in requests \ requests' : r.turn = k
    OBVIOUS
  <2>2. LifeIn(requests, issued, k) = [phase |-> Phase(r), home |-> r.queue]
    BY <1>1, <2>1, PresentLife
  <2>3. \A x \in requests' : x.turn # k
    BY <1>1, <2>1 DEF Sound
  <2>4. k \in Nat /\ k <= issued /\ k \in 1 .. MaxRequests
    BY <1>1, <2>1 DEF Sound
  <2>5. LifeIn(requests', issued', k) = [phase |-> "gone", home |-> NoQueue]
    BY <1>1, <2>3, <2>4, GoneLife
  <2> QED
    BY <2>2, <2>4, <2>5, LivesNow, LivesThen DEF Phase
<1>3. ASSUME NEW k \in 1 .. MaxRequests, k \notin S
      PROVE  Lives'[k] = Lives[k]
  <2>1. \A r \in requests : r.turn = k => r \in requests'
    BY <1>3
  <2>2. k \in Nat
    OBVIOUS
  <2>3. LifeIn(requests', issued, k) = LifeIn(requests, issued, k)
    BY <1>1, <2>1, <2>2, SameLife
  <2> QED
    BY <2>3, LivesNow, LivesThen
<1> HIDE DEF S
<1>4. Lives' = [k \in 1 .. MaxRequests |->
                  IF k \in S THEN [phase |-> "gone", home |-> NoQueue] ELSE Lives[k]]
  BY <1>2, <1>3, LivesThen
<1>5. S \in SUBSET (1 .. MaxRequests)
  BY DEF S
<1>6. Life!End(S)
  <2>1. \A k \in S : Lives[k] \notin {Life!Unborn, Life!Gone}
    BY <1>2 DEF Life!Gone, Life!Unborn
  <2>2. Lives' = [k \in Life!Turn |-> IF k \in S THEN Life!Gone ELSE Lives[k]]
    BY <1>4 DEF Life!Turn, Life!Gone
  <2> QED
    BY <2>1, <2>2 DEF Life!End, Lives
<1> QED
  BY <1>5, <1>6 DEF Life!Next, Life!Turn

(* The next id goes to nobody. *)
LEMMA IdLost ==
    ASSUME IInv, IInv', Lose
    PROVE  Life!Next
<1> DEFINE k == issued + 1
<1>1. /\ Sound(requests, issued) /\ Sound(requests', issued')
      /\ issued \in Nat /\ issued' \in Nat
  BY SoundNow, SoundThen
<1>2. issued' = k /\ k \in 1 .. MaxRequests /\ requests' = requests
  BY <1>1, IdAssumption DEF Lose, Advance, store
<1>3. Lives[k] = [phase |-> "unborn", home |-> NoQueue]
  BY <1>1, <1>2, UnbornLife, LivesNow
<1>4. ASSUME NEW j \in 1 .. k - 1
      PROVE  Lives[j] # [phase |-> "unborn", home |-> NoQueue]
  <2>1. j \in Nat /\ j <= issued /\ j \in 1 .. MaxRequests
    BY <1>1, <1>2, IdAssumption
  <2> QED
    BY <1>1, <2>1, BornLife, LivesNow
<1>5. Lives'[k] = [phase |-> "gone", home |-> NoQueue]
  <2>1. \A r \in requests' : r.turn # k
    BY <1>1, <1>2 DEF Sound
  <2>2. LifeIn(requests', issued', k) = [phase |-> "gone", home |-> NoQueue]
    BY <1>1, <1>2, <2>1, GoneLife
  <2> QED
    BY <1>2, <2>2, LivesThen
<1>6. ASSUME NEW j \in 1 .. MaxRequests, j # k
      PROVE  Lives'[j] = Lives[j]
  <2>1. j > issued <=> j > issued'
    BY <1>1, <1>2, <1>6
  <2>2. LifeIn(requests', issued', j) = LifeIn(requests, issued, j)
    BY <1>2, <2>1 DEF LifeIn
  <2> QED
    BY <2>2, LivesNow, LivesThen
<1> HIDE DEF k
<1>7. Lives' = [Lives EXCEPT ![k] = [phase |-> "gone", home |-> NoQueue]]
  BY <1>5, <1>6, LivesNow, LivesThen
<1>8. Life!Skip(k)
  BY <1>3, <1>4, <1>7 DEF Life!Skip, Life!Youngest, Life!Gone, Life!Unborn, Lives
<1> QED
  BY <1>2, <1>8 DEF Life!Next, Life!Turn

(* A request is born, waiting. *)
LEMMA RequestArrives ==
    ASSUME IInv, IInv', NEW p \in Pid, NEW q \in QueueName, NEW e \in Handle, NEW data \in Data,
           Accept(p, q, e, data)
    PROVE  Life!Next
<1> DEFINE k == issued + 1
           t == NewRequest(p, q, e, data)
<1>1. /\ Sound(requests, issued) /\ Sound(requests', issued')
      /\ issued \in Nat /\ issued' \in Nat
  BY SoundNow, SoundThen
<1>2. issued' = k /\ k \in 1 .. MaxRequests /\ requests' = requests \cup {t}
  BY <1>1, IdAssumption DEF Accept, Advance
<1>3. t.turn = k /\ t.queue = q /\ Phase(t) = "waiting"
  BY DEF NewRequest, Phase
<1> HIDE DEF t
<1>4. Lives[k] = [phase |-> "unborn", home |-> NoQueue]
  BY <1>1, <1>2, UnbornLife, LivesNow
<1>5. ASSUME NEW j \in 1 .. k - 1
      PROVE  Lives[j] # [phase |-> "unborn", home |-> NoQueue]
  <2>1. j \in Nat /\ j <= issued /\ j \in 1 .. MaxRequests
    BY <1>1, <1>2, IdAssumption
  <2> QED
    BY <1>1, <2>1, BornLife, LivesNow
<1>6. Lives'[k] = [phase |-> "waiting", home |-> q]
  <2>1. t \in requests'
    BY <1>2
  <2>2. LifeIn(requests', issued', t.turn) = [phase |-> Phase(t), home |-> t.queue]
    BY <1>1, <2>1, PresentLife
  <2> QED
    BY <1>2, <1>3, <2>2, LivesThen
<1>7. ASSUME NEW j \in 1 .. MaxRequests, j # k
      PROVE  Lives'[j] = Lives[j]
  <2>1. j > issued <=> j > issued'
    BY <1>1, <1>2, <1>7
  <2>2. {r \in requests' : r.turn = j} = {r \in requests : r.turn = j}
    BY <1>2, <1>3, <1>7
  <2>3. LifeIn(requests', issued', j) = LifeIn(requests, issued, j)
    BY <2>1, <2>2 DEF LifeIn
  <2> QED
    BY <2>3, LivesNow, LivesThen
<1> HIDE DEF k
<1>8. Lives' = [Lives EXCEPT ![k] = [phase |-> "waiting", home |-> q]]
  BY <1>6, <1>7, LivesNow, LivesThen
<1>9. Life!Submit(k, q)
  BY <1>4, <1>5, <1>8 DEF Life!Submit, Life!Youngest, Life!At, Life!Unborn, Lives
<1> QED
  BY <1>2, <1>9 DEF Life!Next, Life!Turn

(* A request is replaced by itself in another phase. *)
LEMMA RequestMoves ==
    ASSUME IInv, IInv', issued' = issued, NEW r \in requests, NEW t,
           t.turn = r.turn, t.queue = r.queue,
           requests' = (requests \ {r}) \cup {t}
    PROVE  /\ r.turn \in 1 .. MaxRequests
           /\ Lives[r.turn] = [phase |-> Phase(r), home |-> r.queue]
           /\ Lives' = [Lives EXCEPT ![r.turn] = [phase |-> Phase(t), home |-> r.queue]]
<1>1. Sound(requests, issued) /\ Sound(requests', issued) /\ issued \in Nat
  BY SoundNow, SoundThen
<1>2. r.turn \in 1 .. MaxRequests
  BY DEF IInv, TypeOK, Request
<1>3. Lives[r.turn] = [phase |-> Phase(r), home |-> r.queue]
  BY <1>1, <1>2, PresentLife, LivesNow
<1>4. Lives'[r.turn] = [phase |-> Phase(t), home |-> r.queue]
  <2>1. LifeIn(requests', issued, t.turn) = [phase |-> Phase(t), home |-> t.queue]
    BY <1>1, PresentLife
  <2> QED
    BY <1>2, <2>1, LivesThen
<1>5. ASSUME NEW j \in 1 .. MaxRequests, j # r.turn
      PROVE  Lives'[j] = Lives[j]
  <2>1. {x \in requests' : x.turn = j} = {x \in requests : x.turn = j}
    BY <1>5
  <2>2. LifeIn(requests', issued', j) = LifeIn(requests, issued, j)
    BY <2>1 DEF LifeIn
  <2> QED
    BY <2>2, LivesNow, LivesThen
<1>6. Lives' = [Lives EXCEPT ![r.turn] = [phase |-> Phase(t), home |-> r.queue]]
  BY <1>4, <1>5, LivesNow, LivesThen
<1> QED
  BY <1>2, <1>3, <1>6

LEMMA RequestTaken ==
    ASSUME IInv, IInv', NEW p \in Pid, NEW q \in QueueName, NEW r \in requests, Take(p, q, r)
    PROVE  Life!Next
<1> DEFINE me == <<p, proc[p].born>>
           t  == [r EXCEPT !.taken = me]
           k  == r.turn
<1>1. r \in Request /\ requests \subseteq Request /\ NoOne # me
  BY SentinelAssumption DEF IInv, TypeOK, Process
<1>2. t.taken = me /\ t.queue = r.queue /\ t.turn = r.turn /\ t.rpl = r.rpl
  BY <1>1, TakenField
<1>3. requests' = (requests \ {r}) \cup {t} /\ issued' = issued
  BY DEF Take, counters
<1>4. r.queue = q /\ r.taken = NoOne /\ r.rpl = NoData
      /\ \A s \in requests : s.queue = q /\ s.taken = NoOne => r.turn <= s.turn
  BY DEF Take, First, Waiting, IInv, RepliedAfterTaken
<1> HIDE DEF t, me
<1>5. Phase(r) = "waiting" /\ Phase(t) = "taken"
  BY <1>1, <1>2, <1>4 DEF Phase
<1>6. /\ k \in 1 .. MaxRequests
      /\ Lives[k] = [phase |-> "waiting", home |-> q]
      /\ Lives' = [Lives EXCEPT ![k] = [phase |-> "taken", home |-> q]]
  BY <1>2, <1>3, <1>4, <1>5, RequestMoves
<1>7. ASSUME NEW j \in 1 .. k - 1
      PROVE  Lives[j] # [phase |-> "waiting", home |-> q]
  <2>1. Sound(requests, issued) /\ issued \in Nat
    BY SoundNow
  <2>2. j \in Nat /\ j \in 1 .. MaxRequests /\ j < k /\ k \in Nat
    BY <1>6, IdAssumption
  <2>3. SUFFICES ASSUME LifeIn(requests, issued, j) = [phase |-> "waiting", home |-> q]
                 PROVE  FALSE
    BY <2>2, LivesNow
  <2>4. PICK s \in requests : s.turn = j /\ s.queue = q /\ s.taken = NoOne
    BY <2>1, <2>2, <2>3, WaitingLife
  <2> QED
    BY <1>4, <2>2, <2>4
<1> HIDE DEF k
<1>8. Life!HandOut(k, q)
  BY <1>6, <1>7 DEF Life!HandOut, Life!At, Lives
<1> QED
  BY <1>6, <1>8 DEF Life!Next, Life!Turn

(* A second reply changes nothing. *)
LEMMA RequestAnswered ==
    ASSUME IInv, IInv', NEW r \in requests, NEW data \in Data, Reply(r, data)
    PROVE  Life!Next \/ Lives' = Lives
<1> DEFINE t == [r EXCEPT !.rpl = data]
           k == r.turn
           q == r.queue
<1>1. r \in Request /\ q \in QueueName
  BY DEF IInv, TypeOK, Request
<1>2. t.taken = r.taken /\ t.queue = r.queue /\ t.turn = r.turn /\ t.rpl = data
  BY <1>1, ReplyField DEF Request
<1>3. requests' = (requests \ {r}) \cup {t} /\ issued' = issued /\ r.taken # NoOne
  BY DEF Reply, counters
<1> HIDE DEF t
<1>4. Phase(t) = "answered" /\ Phase(r) \in {"taken", "answered"}
  BY <1>2, <1>3, SentinelAssumption DEF Phase
<1>5. /\ k \in 1 .. MaxRequests
      /\ Lives[k] = [phase |-> Phase(r), home |-> q]
      /\ Lives' = [Lives EXCEPT ![k] = [phase |-> "answered", home |-> q]]
  BY <1>2, <1>3, <1>4, RequestMoves
<1> HIDE DEF k, q
<1>6. CASE Phase(r) = "taken"
  <2>1. Life!Answer(k, q)
    BY <1>5, <1>6 DEF Life!Answer, Life!At, Lives
  <2> QED
    BY <1>1, <1>5, <2>1 DEF Life!Next, Life!Turn
<1>7. CASE Phase(r) = "answered"
  BY <1>5, <1>7, LivesNow
<1> QED
  BY <1>4, <1>6, <1>7

-----------------------------------------------------------------------------
LEMMA EffectOnLives ==
    ASSUME IInv, IInv', Effect
    PROVE  Life!Next \/ Lives' = Lives
<1>1. CASE Quiet
  BY <1>1, NoChange DEF Quiet, store, counters
<1>2. ASSUME NEW q \in QueueName, SweepQueue(q) PROVE Life!Next
  BY <1>2, RequestsLeave DEF SweepQueue, DeleteQueueObj, counters
<1>3. ASSUME NEW p \in Pid, NEW q \in QueueName, NEW e \in Handle, OpenQueue(p, q, e) PROVE Life!Next
  BY <1>3, RequestsLeave DEF OpenQueue, counters
<1>4. ASSUME NEW r \in requests, Drop(r) PROVE Life!Next
  BY <1>4, RequestsLeave DEF Drop, DeleteRequestObj, counters
<1> QED
  BY <1>1, <1>2, <1>3, <1>4, IdLost, RequestTaken, RequestAnswered, RequestArrives DEF Effect

LEMMA LifeStep ==
    ASSUME IInv, IInv', [Next]_vars
    PROVE  Life!Next \/ Lives' = Lives
<1>1. ASSUME NEW p \in Pid, NEW n \in Asterisk \cup Plain, NEW st \in Status, Call(p, n, st)
      PROVE  Life!Next \/ Lives' = Lives
  BY <1>1, CallEffect, EffectOnLives DEF IInv
<1>2. ASSUME NEW p \in Pid, Disconnect(p) PROVE Life!Next
  BY <1>2, RequestsLeave DEF Disconnect, NotifyHandler, counters
<1>3. ASSUME \/ UNCHANGED vars
             \/ \E p \in Pid, b \in Box \cup {NoBox} : StartProcess(p, b)
             \/ \E p \in Pid : ExitProcess(p) \/ Connect(p)
             \/ \E e \in Event : WaitEvent(e)
      PROVE  Lives' = Lives
  BY <1>3, NoChange DEF vars, StartProcess, ExitProcess, Connect, WaitEvent, store, counters
<1> QED
  BY <1>1, <1>2, <1>3 DEF Next

LEMMA LifeInit == Init => Life!Init
<1> SUFFICES ASSUME Init PROVE Life!Init
  OBVIOUS
<1>1. \A k \in 1 .. MaxRequests : LifeIn(requests, issued, k) = [phase |-> "unborn", home |-> NoQueue]
  BY UnbornLife DEF Init
<1>2. Lives = [k \in 1 .. MaxRequests |-> [phase |-> "unborn", home |-> NoQueue]]
  BY <1>1, LivesNow
<1> QED
  BY <1>2 DEF Life!Init, Life!Turn, Life!Unborn, Lives

(* The queue service keeps the promises of RequestLife for every set of    *)
(* processes, boxes and names: whatever the handlers of queueserver.cpp    *)
(* do to their lists, and whenever processes come and go, a request is     *)
(* handed out at most once and in its turn, answered only after that, and  *)
(* never comes back.                                                       *)
THEOREM Implements == Spec => LifeSpec
<1>1. ASSUME IInv, IInv', [Next]_vars PROVE [Life!Next]_Lives
  BY <1>1, LifeStep
<1>2. Init => Life!Init
  BY LifeInit
<1> QED
  BY <1>1, <1>2, Inductive, PTL DEF Spec, LifeSpec, Life!Spec, Lives
=============================================================================
