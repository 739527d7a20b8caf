---------------------------- MODULE QueueServer ----------------------------
(***************************************************************************)
(* The message queues that SbieSvc keeps for its clients                   *)
(* (Sandboxie/core/svc/queueserver.cpp).  A server process creates a named *)
(* queue, clients put requests into it, the server takes them, puts        *)
(* replies, and the clients collect the replies.                           *)
(*                                                                         *)
(* Every handler runs from start to end inside m_lock, so each handler is  *)
(* one action.  A handler is an action with parameters: the caller, what   *)
(* the caller sends, and what the service answers (st is the status, the   *)
(* remaining parameters are the fields of the reply).  A composition binds *)
(* the answer to the state of the caller.  A failing answer carries no     *)
(* field but st: the others are 0 or NoData.                               *)
(*                                                                         *)
(* Processes are identified by pids that Windows reuses; the create time   *)
(* (born) tells two processes with one pid apart.                          *)
(***************************************************************************)
EXTENDS Naturals, FiniteSets

CONSTANTS
    Pid,          (* process ids                                           *)
    Box,          (* sandboxes                                             *)
    NoBox,        (* the "box" of a process outside every sandbox          *)
    Asterisk,     (* queue names that start with an asterisk               *)
    Plain,        (* the other queue names                                 *)
    Event, NoEvent,   (* event objects of the callers, and the null handle *)
    Data, NoData,     (* payloads of requests and replies, and none        *)
    NoQueue, NoOne,
    IdMod,        (* request ids are modulo IdMod (2^32 in the code)       *)
    MaxRequests,  (* bound: request ids given out in a behaviour           *)
    MaxStarts     (* bound: processes started under one pid                *)

(* Between two requests with one id lie IdMod - 2 others (0 is skipped and *)
(* so is one more value).  The bound says that the modelled stretch of     *)
(* time is shorter than that.                                              *)
ASSUME IdAssumption ==
    /\ IdMod \in Nat /\ MaxRequests \in Nat /\ MaxStarts \in Nat
    /\ IdMod > 2
    /\ MaxRequests <= IdMod - 2

ASSUME SentinelAssumption ==
    /\ NoBox \notin Box
    /\ NoEvent \notin Event
    /\ NoData \notin Data
    /\ Asterisk \cap Plain = {}
    /\ NoOne \notin Pid \X (0 .. MaxStarts)
    /\ NoQueue \notin [pid : Pid, born : 0 .. MaxStarts, event : Event \cup {NoEvent}]

VARIABLES
    proc,       (* the processes of the system, as Windows knows them      *)
    connected,  (* pids PipeServer has a client structure for              *)
    queues,     (* m_queues                                                *)
    requests,   (* the requests lists of all queues                        *)
    requestId,  (* m_RequestId                                             *)
    issued,     (* history: how many ids were given out                    *)
    signalled   (* the event objects that are signalled                    *)

store    == <<queues, requests>>
counters == <<requestId, issued>>
env      == <<proc, connected>>
vars     == <<proc, connected, queues, requests, requestId, issued, signalled>>

-----------------------------------------------------------------------------
(* Types                                                                   *)

Process  == [alive : BOOLEAN, born : 0 .. MaxStarts, box : Box \cup {NoBox}]
Instance == Pid \X (0 .. MaxStarts)

(* A full queue name: the box whose ipc path prefixes it, and the name.    *)
QueueName == ({NoBox} \X Asterisk) \cup (Box \X Plain)

Queue == [pid : Pid, born : 0 .. MaxStarts, event : Event \cup {NoEvent}]

(* A request of the list of a queue.  The lists are kept as one set: turn  *)
(* orders the members of a list, which only ever grows at its tail.  taken *)
(* stands for the request data having been freed (req_data_ptr = NULL) and *)
(* records who received it; born is the create time of the client, which   *)
(* the code does not keep and no action reads.                             *)
Request == [queue : QueueName, turn : 1 .. MaxRequests, id : 0 .. IdMod - 1,
            pid : Pid, born : 0 .. MaxStarts, event : Event \cup {NoEvent},
            data : Data, taken : Instance \cup {NoOne}, rpl : Data \cup {NoData}]

Status == {"SUCCESS", "ACCESS_DENIED", "NAME_NOT_FOUND", "NAME_COLLISION",
           "END_OF_FILE", "SHARING_VIOLATION", "NO_RESOURCES", "INVALID_PARAMETER"}

TypeOK ==
    /\ proc \in [Pid -> Process]
    /\ connected \subseteq Pid
    /\ queues \in [QueueName -> Queue \cup {NoQueue}]
    /\ requests \subseteq Request
    /\ requestId \in 0 .. IdMod - 1
    /\ issued \in 0 .. MaxRequests
    /\ signalled \subseteq Event

-----------------------------------------------------------------------------
(* Helpers                                                                 *)

(* An operator named Bug... is a plausible mistake in the definition that  *)
(* follows it.  Nothing uses it: a property is shown to have teeth by      *)
(* putting it in the place of that definition.                             *)

(* MakeQueueName: callers outside the sandbox can only use asterisk        *)
(* queues; other names are prefixed by the ipc path of the caller's box.   *)
CanName(p, n) == n \in Asterisk \/ proc[p].box # NoBox

MakeQueueName(p, n) == <<IF n \in Asterisk THEN NoBox ELSE proc[p].box, n>>

(* Only CreateHandler looks at the status MakeQueueName returns beside a   *)
(* name: a boxed process may use asterisk queues but not create them.      *)
BugMayCreate(p, n) == CanName(p, n)

MayCreate(p, n) == CanName(p, n) /\ (n \in Asterisk => proc[p].box = NoBox)

(* FindQueueObj takes a queue for dead unless its server still runs and    *)
(* was created when the queue was.                                         *)
BugServerActive(q) == proc[queues[q].pid].alive

ServerActive(q) ==
    /\ proc[queues[q].pid].alive
    /\ proc[queues[q].pid].born = queues[q].born

Found(q) == queues[q] # NoQueue /\ ServerActive(q)

(* The part of FindQueueObj that changes state: it deletes a dead queue    *)
(* with all its requests (DeleteQueueObj) and reports it missing.          *)
DeleteQueueObj(q) ==
    /\ queues' = [queues EXCEPT ![q] = NoQueue]
    /\ requests' = {r \in requests : r.queue # q}

DeleteRequestObj(r) ==
    /\ requests' = requests \ {r}
    /\ UNCHANGED queues

Waiting(q) == {r \in requests : r.queue = q /\ r.taken = NoOne}

(* The first request of the list that still has its data.                  *)
BugFirst(S) == {r \in S : \A s \in S : r.turn >= s.turn}

First(S) == {r \in S : \A s \in S : r.turn <= s.turn}

WithId(q, id) == {r \in requests : r.queue = q /\ r.id = id}

SetEvent(e) == signalled' = IF e = NoEvent THEN signalled ELSE signalled \cup {e}

(* InterlockedIncrement, then the loop that skips 0 and -1.  The id given  *)
(* out is the first value, so -1 itself is given out once per round.       *)
GivenId == (requestId + 1) % IdMod

BugAdvance ==
    /\ issued < MaxRequests
    /\ issued' = issued + 1
    /\ UNCHANGED requestId

Advance ==
    /\ issued < MaxRequests
    /\ issued' = issued + 1
    /\ requestId' = IF GivenId \in {0, IdMod - 1} THEN 1 ELSE GivenId

(* A call reaches a handler only over a connected port.                    *)
Caller(p) == p \in connected /\ proc[p].alive

-----------------------------------------------------------------------------
(* Handlers                                                                *)

(* The parts every handler on an existing queue begins with.               *)
NotNamed(p, n, st) ==
    /\ ~ CanName(p, n)
    /\ st = "ACCESS_DENIED"
    /\ UNCHANGED <<store, counters, signalled>>

NotFound(p, n, st) ==
    /\ CanName(p, n)
    /\ ~ Found(MakeQueueName(p, n))
    /\ st = "NAME_NOT_FOUND"
    /\ DeleteQueueObj(MakeQueueName(p, n))
    /\ UNCHANGED <<counters, signalled>>

Named(p, n, q) ==
    /\ CanName(p, n)
    /\ q = MakeQueueName(p, n)
    /\ Found(q)

(* A failed allocation or handle duplication, or a refusal, leaves no trace. *)
Refused(st, why) ==
    /\ st = why
    /\ UNCHANGED <<store, counters, signalled>>

BugCreateHandler(p, n, e, st) ==
    /\ Caller(p)
    /\ UNCHANGED env
    /\ MayCreate(p, n)
    /\ st = "SUCCESS"
    /\ queues' = [queues EXCEPT ![MakeQueueName(p, n)] =
           [pid |-> p, born |-> proc[p].born, event |-> e]]
    /\ UNCHANGED <<requests, counters, signalled>>

CreateHandler(p, n, e, st) ==
    /\ Caller(p)
    /\ UNCHANGED env
    /\ \/ ~ MayCreate(p, n) /\ Refused(st, "ACCESS_DENIED")
       \/ /\ MayCreate(p, n)
          /\ LET q == MakeQueueName(p, n) IN
             \/ Found(q) /\ Refused(st, "NAME_COLLISION")
             \/ /\ ~ Found(q)
                /\ st = "SUCCESS"
                /\ queues' = [queues EXCEPT ![q] =
                       [pid |-> p, born |-> proc[p].born, event |-> e]]
                /\ requests' = {r \in requests : r.queue # q}
                /\ UNCHANGED <<counters, signalled>>
             \/ /\ ~ Found(q)
                /\ st = "NO_RESOURCES"
                /\ DeleteQueueObj(q)
                /\ UNCHANGED <<counters, signalled>>

BugGetReqHandler(p, n, st, id, data) ==
    /\ Caller(p)
    /\ \E q \in QueueName :
          /\ Named(p, n, q)
          /\ \E r \in First(Waiting(q)) : id = r.id /\ data = r.data /\ st = "SUCCESS"
    /\ UNCHANGED vars

(* On SUCCESS the server has been given request id with payload data.      *)
GetReqHandler(p, n, st, id, data) ==
    /\ Caller(p)
    /\ st # "SUCCESS" => id = 0 /\ data = NoData
    /\ UNCHANGED env
    /\ \/ NotNamed(p, n, st)
       \/ NotFound(p, n, st)
       \/ \E q \in QueueName :
          /\ Named(p, n, q)
          /\ \/ queues[q].pid # p /\ Refused(st, "ACCESS_DENIED")
             \/ queues[q].pid = p /\ Waiting(q) = {} /\ Refused(st, "END_OF_FILE")
             \/ queues[q].pid = p /\ Waiting(q) # {} /\ Refused(st, "NO_RESOURCES")
             \/ /\ queues[q].pid = p
                /\ st = "SUCCESS"
                /\ \E r \in First(Waiting(q)) :
                     /\ id = r.id
                     /\ data = r.data
                     /\ requests' = (requests \ {r}) \cup
                            {[r EXCEPT !.taken = <<p, proc[p].born>>]}
                /\ UNCHANGED <<queues, counters, signalled>>

BugPutRplHandler(p, n, id, data, st) ==
    /\ Caller(p)
    /\ UNCHANGED env
    /\ \E q \in QueueName :
          /\ Named(p, n, q)
          /\ queues[q].pid = p
          /\ \E r \in First(WithId(q, id)) :
                /\ st = "SUCCESS"
                /\ requests' = (requests \ {r}) \cup {[r EXCEPT !.rpl = data]}
                /\ SetEvent(r.event)
                /\ UNCHANGED <<queues, counters>>

(* A reply to a request that was not taken yet, and a reply there is no    *)
(* memory for, delete the request.                                         *)
PutRplHandler(p, n, id, data, st) ==
    /\ Caller(p)
    /\ UNCHANGED env
    /\ \/ NotNamed(p, n, st)
       \/ NotFound(p, n, st)
       \/ \E q \in QueueName :
          /\ Named(p, n, q)
          /\ \/ queues[q].pid # p /\ Refused(st, "ACCESS_DENIED")
             \/ queues[q].pid = p /\ WithId(q, id) = {} /\ Refused(st, "END_OF_FILE")
             \/ /\ queues[q].pid = p
                /\ \E r \in First(WithId(q, id)) :
                   \/ /\ r.taken = NoOne
                      /\ st = "SHARING_VIOLATION"
                      /\ DeleteRequestObj(r)
                      /\ UNCHANGED <<counters, signalled>>
                   \/ /\ r.taken # NoOne
                      /\ st = "NO_RESOURCES"
                      /\ DeleteRequestObj(r)
                      /\ UNCHANGED <<counters, signalled>>
                   \/ /\ r.taken # NoOne
                      /\ st = "SUCCESS"
                      /\ requests' = (requests \ {r}) \cup {[r EXCEPT !.rpl = data]}
                      /\ SetEvent(r.event)
                      /\ UNCHANGED <<queues, counters>>

(* On SUCCESS the caller has been given request id.                        *)
PutReqHandler(p, n, e, data, st, id) ==
    /\ Caller(p)
    /\ st # "SUCCESS" => id = 0
    /\ UNCHANGED env
    /\ \/ NotNamed(p, n, st)
       \/ NotFound(p, n, st)
       \/ \E q \in QueueName :
          /\ Named(p, n, q)
          /\ \/ Refused(st, "NO_RESOURCES")
             \/ (* no memory for the reply: the id is lost                 *)
                /\ st = "NO_RESOURCES"
                /\ Advance
                /\ UNCHANGED <<store, signalled>>
             \/ /\ st = "SUCCESS"
                /\ Advance
                /\ id = GivenId
                /\ requests' = requests \cup
                     {[queue |-> q, turn |-> issued + 1, id |-> GivenId,
                       pid |-> p, born |-> proc[p].born, event |-> e,
                       data |-> data, taken |-> NoOne, rpl |-> NoData]}
                /\ SetEvent(queues[q].event)
                /\ UNCHANGED queues

(* Asking for a reply that is not there yet deletes the request.           *)
GetRplHandler(p, n, id, st, data) ==
    /\ Caller(p)
    /\ st # "SUCCESS" => data = NoData
    /\ UNCHANGED env
    /\ \/ NotNamed(p, n, st)
       \/ NotFound(p, n, st)
       \/ \E q \in QueueName :
          /\ Named(p, n, q)
          /\ \/ WithId(q, id) = {} /\ Refused(st, "END_OF_FILE")
             \/ \E r \in First(WithId(q, id)) :
                \/ r.pid # p /\ Refused(st, "ACCESS_DENIED")
                \/ r.pid = p /\ r.rpl # NoData /\ Refused(st, "NO_RESOURCES")
                \/ /\ r.pid = p
                   /\ \/ st = "END_OF_FILE" /\ r.rpl = NoData
                      \/ st = "SUCCESS" /\ r.rpl # NoData /\ data = r.rpl
                   /\ DeleteRequestObj(r)
                   /\ UNCHANGED <<counters, signalled>>

(* started says whether StartAsync was called with the caller's event.  It *)
(* is for boxed callers and for the names of the proxies only.  The event  *)
(* of a caller who finds the queue there is not signalled.                 *)
StartupHandler(p, n, st, started) ==
    /\ Caller(p)
    /\ UNCHANGED env
    /\ \/ NotNamed(p, n, st) /\ ~ started
       \/ \E q \in QueueName :
            /\ Named(p, n, q)
            /\ ~ started
            /\ Refused(st, "SUCCESS")
       \/ /\ CanName(p, n)
          /\ ~ Found(MakeQueueName(p, n))
          /\ DeleteQueueObj(MakeQueueName(p, n))
          /\ UNCHANGED <<counters, signalled>>
          /\ \/ ~ started /\ st = "NO_RESOURCES"
             \/ ~ started /\ proc[p].box = NoBox /\ st = "ACCESS_DENIED"
             \/ ~ started /\ proc[p].box # NoBox /\ n \in Plain /\ st = "INVALID_PARAMETER"
             \/ started /\ proc[p].box # NoBox /\ n \in Asterisk /\ st = "SUCCESS"

BugNotifyHandler(p) ==
    /\ queues' = [q \in QueueName |->
                    IF queues[q] # NoQueue /\ queues[q].pid = p THEN NoQueue ELSE queues[q]]
    /\ requests' = {r \in requests : queues[r.queue].pid # p}
    /\ UNCHANGED <<counters, signalled>>

(* The notification that PipeServer sends when the last port of pid closes. *)
NotifyHandler(p) ==
    /\ queues' = [q \in QueueName |->
                    IF queues[q] # NoQueue /\ queues[q].pid = p THEN NoQueue ELSE queues[q]]
    /\ requests' = {r \in requests : r.pid # p /\ queues[r.queue].pid # p}
    /\ UNCHANGED <<counters, signalled>>

-----------------------------------------------------------------------------
(* The surroundings: processes, the port, the event objects                *)

(* A process starts under a free pid.  The notification for the previous   *)
(* owner of the pid may still be outstanding.                              *)
StartProcess(p, b) ==
    /\ ~ proc[p].alive
    /\ proc[p].born < MaxStarts
    /\ proc' = [proc EXCEPT ![p] = [alive |-> TRUE, born |-> @.born + 1, box |-> b]]
    /\ UNCHANGED <<connected, store, counters, signalled>>

(* A process ends or is terminated at any time. *)
ExitProcess(p) ==
    /\ proc[p].alive
    /\ proc' = [proc EXCEPT ![p].alive = FALSE]
    /\ UNCHANGED <<connected, store, counters, signalled>>

(* PortConnect: the first message of a pid makes it a client.              *)
Connect(p) ==
    /\ proc[p].alive
    /\ p \notin connected
    /\ connected' = connected \cup {p}
    /\ UNCHANGED <<proc, store, counters, signalled>>

(* PortDisconnectHelper: when the last thread of a pid is gone, the client *)
(* structure goes and the targets are notified.  That happens when the     *)
(* process ends, and also when every thread of a running process that ever *)
(* called the service has ended.                                           *)
Disconnect(p) ==
    /\ p \in connected
    /\ NotifyHandler(p)
    /\ connected' = connected \ {p}
    /\ UNCHANGED proc

(* A wait on an auto-reset event object is satisfied.                      *)
WaitEvent(e) ==
    /\ e \in signalled
    /\ signalled' = signalled \ {e}
    /\ UNCHANGED <<env, store, counters>>

-----------------------------------------------------------------------------
Init ==
    /\ proc = [p \in Pid |-> [alive |-> FALSE, born |-> 0, box |-> NoBox]]
    /\ connected = {}
    /\ queues = [q \in QueueName |-> NoQueue]
    /\ requests = {}
    /\ requestId = 1
    /\ issued = 0
    /\ signalled = {}

(* The callers are arbitrary: any connected process may send any message.  *)
Id      == 0 .. IdMod - 1
Handle  == Event \cup {NoEvent}
Payload == Data \cup {NoData}

Call(p, n, st) ==
    \/ \E e \in Handle : CreateHandler(p, n, e, st)
    \/ \E id \in Id, data \in Payload : GetReqHandler(p, n, st, id, data)
    \/ \E id \in Id, data \in Data : PutRplHandler(p, n, id, data, st)
    \/ \E e \in Handle, data \in Data, id \in Id : PutReqHandler(p, n, e, data, st, id)
    \/ \E id \in Id, data \in Payload : GetRplHandler(p, n, id, st, data)
    \/ \E started \in BOOLEAN : StartupHandler(p, n, st, started)

Next ==
    \/ \E p \in Pid, n \in Asterisk \cup Plain, st \in Status : Call(p, n, st)
    \/ \E p \in Pid, b \in Box \cup {NoBox} : StartProcess(p, b)
    \/ \E p \in Pid : ExitProcess(p) \/ Connect(p) \/ Disconnect(p)
    \/ \E e \in Event : WaitEvent(e)

Spec == Init /\ [][Next]_vars

-----------------------------------------------------------------------------
(* Properties                                                              *)

(* A request that left the state "waiting" was handed to the very process  *)
(* that created the queue it is in: neither a process that reuses the pid  *)
(* of the server (FindQueueObj compares create times) nor any other        *)
(* process gets it.                                                        *)
HandedToCreator ==
    \A r \in requests :
        r.taken # NoOne =>
            /\ queues[r.queue] # NoQueue
            /\ r.taken = <<queues[r.queue].pid, queues[r.queue].born>>

(* First come, first served: GetReqHandler takes from the head of a list   *)
(* PutReqHandler appends to, so every request that was handed out came     *)
(* before every request of the queue that still waits.                     *)
FirstComeFirstServed ==
    \A r, s \in requests :
        r.queue = s.queue /\ r.taken # NoOne /\ s.taken = NoOne => r.turn < s.turn

(* Nothing outlives the notification: a queue and a request exist only     *)
(* while PipeServer still owes the notification for the pid they belong to *)
(* and a request only while its queue exists.                              *)
NoOrphans ==
    /\ \A q \in QueueName : queues[q] # NoQueue => queues[q].pid \in connected
    /\ \A r \in requests : r.pid \in connected /\ queues[r.queue] # NoQueue

(* MakeQueueName keeps the boxes apart: the live server of a queue runs in *)
(* the box whose ipc path prefixes the name, outside every box for an      *)
(* asterisk queue, and a request in the queue of a box was put there by a  *)
(* process of that box.                                                    *)
BoxIsolation ==
    /\ \A q \in QueueName : Found(q) => proc[queues[q].pid].box = q[1]
    /\ \A r \in requests :
          r.queue[1] # NoBox /\ proc[r.pid].born = r.born => proc[r.pid].box = r.queue[1]

(* The inductive invariant behind the properties above.  Turns are handed  *)
(* out once and in order; the id counter follows them, so an id is a turn  *)
(* moved by one as long as the ids have not wrapped; a reply comes after   *)
(* the request was read; and nobody is younger than the process that now   *)
(* has his pid.                                                            *)
Turns ==
    /\ \A r \in requests : r.turn <= issued
    /\ \A r, s \in requests : r.turn = s.turn => r = s

Counting ==
    /\ requestId = IF issued < IdMod - 2 THEN issued + 1 ELSE 1
    /\ \A r \in requests : r.id = r.turn + 1

RepliedAfterTaken ==
    \A r \in requests : r.rpl # NoData => r.taken # NoOne

Ages ==
    /\ \A q \in QueueName :
          queues[q] # NoQueue => queues[q].born <= proc[queues[q].pid].born
    /\ \A r \in requests : r.born <= proc[r.pid].born

IInv ==
    /\ TypeOK
    /\ Turns
    /\ Counting
    /\ Ages
    /\ NoOrphans
    /\ HandedToCreator
    /\ FirstComeFirstServed
    /\ RepliedAfterTaken
    /\ BoxIsolation

-----------------------------------------------------------------------------
(* The abstract specification this module implements                       *)

Phase(r) ==
    IF r.taken = NoOne THEN "waiting" ELSE IF r.rpl = NoData THEN "taken" ELSE "answered"

LifeOf(k) ==
    LET mine == {r \in requests : r.turn = k} IN
    IF k > issued THEN [phase |-> "unborn", home |-> NoQueue]
    ELSE IF mine = {} THEN [phase |-> "gone", home |-> NoQueue]
    ELSE LET r == CHOOSE r \in mine : TRUE IN [phase |-> Phase(r), home |-> r.queue]

Life == INSTANCE RequestLife WITH
    Home <- QueueName, NoHome <- NoQueue, MaxTurn <- MaxRequests,
    life <- [k \in 1 .. MaxRequests |-> LifeOf(k)]

(* Every step of the queues is a step of a request's life or none at all.  *)
LifeSpec == Life!Spec
=============================================================================
