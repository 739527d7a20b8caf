--------------------------- MODULE GuiSlaveProofs --------------------------
(* What TLAPS proves of the messages of SbieSvc to the gui proxy, for any  *)
(* number of threads that initialise or kill, of programs that ask for the *)
(* proxy, of proxies and of callbacks.  ProxyStartProofs proves the part   *)
(* of the proxies; here are the threads of the service.                    *)
EXTENDS GuiSlave, ProxyStartProofs

-----------------------------------------------------------------------------
(* The shape of the threads                                                *)

GuiShape ==
    /\ slavesLock \in Initer \cup {NoThread}
    /\ msg \in [Sender -> MsgState]
    /\ \A t \in Sender : msg[t].pc # "done" => msg[t].status = "NONE"
    /\ \A t \in Sender : msg[t].pc = "start" => msg[t].try = 1

LEMMA GuiFacts ==
    /\ Service \in Pid \ Server /\ Asker \subseteq Pid \ Server
    /\ SlavesEvent \in Event /\ SlavesEvent \in Handle /\ SlavesEvent \notin Child
    /\ Data = Sender \X (1 .. 2) /\ Initer \subseteq Starter /\ Asker \subseteq Starter
    /\ Initer \subseteq Sender /\ NoThread \notin Sender
BY SenderAssumption, ServerFacts DEF Handle, Child, Sender, Message

LEMMA MineFacts ==
    ASSUME GuiShape, NEW t \in Sender
    PROVE  /\ Mine(t) \in Data /\ Mine(t)[1] = t /\ msg[t].try \in {1, 2}
           /\ <<t, 1>> \in Data /\ <<t, 2>> \in Data
BY GuiFacts DEF GuiShape, MsgState, Mine

(* The steps of the threads and of the programs that ask for the proxy. *)
Asks ==
    \/ StartService
    \/ \E t \in Sender : SenderStep(t)
    \/ \E c \in Asker, b \in Box : StartAsker(c, b)
    \/ \E c \in Asker, st \in Status, started \in BOOLEAN : AskForProxy(c, st, started)

LEMMA GuiCases ==
    ASSUME GuiNext
    PROVE  Asks \/ (Machine /\ UNCHANGED guiVars)
BY GuiFacts, ServerFacts DEF GuiNext, Asks, Machine

(* A step of a thread moves this thread, never back to where it began, and *)
(* it sets the status only when it returns.                                *)
Moves(t) ==
    /\ msg' \in [Sender -> MsgState]
    /\ slavesLock' \in Initer \cup {NoThread}
    /\ \A u \in Sender : u # t => msg'[u] = msg[u]
    /\ msg[t].pc # "done"
    /\ msg'[t].pc # "idle"
    /\ msg'[t].pc # "done" => msg'[t].status = msg[t].status
    /\ msg'[t].pc = "start" => msg'[t].try = 1

LEMMA EndMoves ==
    ASSUME GuiShape, NEW t \in Sender, msg[t].pc # "done",
           NEW st \in SendStatus \cup {"NOT_STARTED"}, End(t, st)
    PROVE  Moves(t) /\ msg'[t].pc = "done" /\ msg'[t].status = st /\ msg'[t].try = msg[t].try
<1>1. /\ msg' \in [Sender -> MsgState]
      /\ msg'[t].pc = "done" /\ msg'[t].status = st /\ msg'[t].try = msg[t].try
  BY DEF GuiShape, MsgState, End
<1>2. slavesLock' \in Initer \cup {NoThread}
  BY DEF GuiShape, End
<1> QED
  BY <1>1, <1>2 DEF Moves, End, GuiShape

(* The two ways in which SendMessageToSlave can be left.                   *)
Begins(t, st) ==
    /\ st = "NAME_NOT_FOUND" /\ msg[t].try = 1 /\ UNCHANGED slavesLock
    /\ msg'[t].pc = "start" /\ msg'[t].try = 1 /\ msg'[t].status = msg[t].status

Ends(t, st) ==
    /\ End(t, st)
    /\ msg'[t].pc = "done" /\ msg'[t].status = st /\ msg'[t].try = msg[t].try

LEMMA ReturnMoves ==
    ASSUME GuiShape, NEW t \in Sender, msg[t].pc # "done", NEW st \in SendStatus, Return(t, st)
    PROVE  Moves(t) /\ (Begins(t, st) \/ Ends(t, st))
<1>1. CASE st = "NAME_NOT_FOUND" /\ t \in Initer /\ msg[t].try = 1
  <2>1. msg' = [msg EXCEPT ![t].pc = "start"] /\ UNCHANGED slavesLock
    BY <1>1 DEF Return, Goto
  <2>2. /\ msg' \in [Sender -> MsgState] /\ msg'[t].pc = "start" /\ msg'[t].try = 1
        /\ msg'[t].status = msg[t].status
    BY <1>1, <2>1 DEF GuiShape, MsgState
  <2> QED
    BY <1>1, <2>1, <2>2 DEF GuiShape, Moves, Begins
<1>2. CASE ~ (st = "NAME_NOT_FOUND" /\ t \in Initer /\ msg[t].try = 1)
  <2>1. End(t, st)
    BY <1>2 DEF Return
  <2> QED
    BY <2>1, EndMoves DEF Ends
<1> QED
  BY <1>1, <1>2

(* The status a thread that collects returns with. *)
LEMMA CollectReturns ==
    ASSUME NEW t \in Sender, NEW st \in Status, NEW data, NEW answer \in {"SUCCESS", "REFUSED"},
           Collect(t, st, data, answer)
    PROVE  \E why \in SendStatus :
              /\ Return(t, why) /\ msg[t].pc = "collect"
              /\ why = "SUCCESS" => st = "SUCCESS"
              /\ why = "NAME_NOT_FOUND" => st = "NAME_NOT_FOUND"
<1>1. PICK why : why = IF st = "SUCCESS" THEN answer ELSE st
  OBVIOUS
<1>2. why \in SendStatus
  BY <1>1 DEF SendStatus, Status
<1>3. Return(t, why) /\ msg[t].pc = "collect"
  BY <1>1 DEF Collect
<1> QED
  BY <1>1, <1>2, <1>3

LEMMA SenderMoves ==
    ASSUME GuiShape, NEW t \in Sender, SenderStep(t)
    PROVE  Moves(t)
<1>1. CASE Enter(t)
  <2>1. msg' \in [Sender -> MsgState] /\ msg'[t].pc = "send"
    BY <1>1 DEF GuiShape, MsgState, Enter
  <2>2. slavesLock' \in Initer \cup {NoThread}
    BY <1>1 DEF GuiShape, Enter
  <2> QED
    BY <1>1, <2>1, <2>2 DEF Moves, Enter, GuiShape, MsgState
<1>2. ASSUME NEW st \in Status, NEW id \in Id, Send(t, st, id) PROVE Moves(t)
  <2>1. CASE st = "SUCCESS"
    <3>1. /\ msg' = [msg EXCEPT ![t].pc = "wait", ![t].id = id]
          /\ slavesLock' = slavesLock /\ msg[t].pc # "done"
      BY <1>2, <2>1 DEF Send
    <3>2. msg' \in [Sender -> MsgState] /\ msg'[t].pc = "wait" /\ msg'[t].status = msg[t].status
      BY <3>1 DEF GuiShape, MsgState, Id
    <3> QED
      BY <3>1, <3>2 DEF Moves, GuiShape
  <2>2. CASE st # "SUCCESS"
    BY <1>2, <2>2, ReturnMoves DEF Send, SendStatus
  <2> QED
    BY <2>1, <2>2
<1>3. CASE Started(t)
  <2>1. CASE starter[t].ok
    <3>1. /\ msg' = [msg EXCEPT ![t].pc = "send", ![t].try = 2]
          /\ slavesLock' = slavesLock /\ msg[t].pc = "start"
      BY <1>3, <2>1 DEF Started
    <3>2. msg' \in [Sender -> MsgState] /\ msg'[t].pc = "send" /\ msg'[t].status = msg[t].status
      BY <3>1 DEF GuiShape, MsgState
    <3> QED
      BY <3>1, <3>2 DEF Moves, GuiShape
  <2>2. CASE ~ starter[t].ok
    BY <1>3, <2>2, EndMoves DEF Started
  <2> QED
    BY <2>1, <2>2
<1>4. CASE Await(t)
  <2>1. /\ msg' = [msg EXCEPT ![t].pc = "collect"]
        /\ slavesLock' = slavesLock /\ msg[t].pc = "wait"
    BY <1>4 DEF Await, Goto
  <2>2. msg' \in [Sender -> MsgState] /\ msg'[t].pc = "collect" /\ msg'[t].status = msg[t].status
    BY <2>1 DEF GuiShape, MsgState
  <2> QED
    BY <2>1, <2>2 DEF Moves, GuiShape
<1>5. CASE TimeOut(t)
  BY <1>5, ReturnMoves DEF TimeOut, SendStatus
<1>6. ASSUME NEW st \in Status, NEW data \in Payload, NEW answer \in {"SUCCESS", "REFUSED"},
             Collect(t, st, data, answer)
      PROVE  Moves(t)
  <2>1. PICK why \in SendStatus : Return(t, why) /\ msg[t].pc = "collect"
    BY <1>6, CollectReturns
  <2> QED
    BY <2>1, ReturnMoves
<1> QED
  BY <1>1, <1>2, <1>3, <1>4, <1>5, <1>6 DEF SenderStep

LEMMA MovesShape ==
    ASSUME GuiShape, NEW t \in Sender, Moves(t)
    PROVE  GuiShape'
BY DEF GuiShape, Moves

LEMMA AsksShape ==
    ASSUME GuiShape, Asks
    PROVE  GuiShape'
<1>1. CASE UNCHANGED guiVars
  BY <1>1 DEF GuiShape, guiVars
<1> QED
  BY <1>1, SenderMoves, MovesShape DEF Asks, StartService, StartAsker, AskForProxy

-----------------------------------------------------------------------------
(* Each step is a step of the queue service or none                        *)

LEMMA AsksUseQueue ==
    ASSUME GuiShape, Asks
    PROVE  [Next]_vars
<1> USE GuiFacts, ServerFacts
<1>1. ASSUME NEW p \in Pid, NEW b \in Box \cup {NoBox}, StartProcess(p, b) PROVE Next
  BY <1>1 DEF Next
<1>2. ASSUME NEW t \in Sender, NEW st \in Status, NEW id \in Id, Send(t, st, id) PROVE Next
  <2>1. Call(Service, Proxy, st)
    BY <1>2, MineFacts DEF Send, Call
  <2> QED
    BY <2>1 DEF Next
<1>3. ASSUME NEW t \in Sender, Await(t) PROVE Next
  BY <1>3 DEF Await, Next
<1>4. ASSUME NEW t \in Sender, NEW st \in Status, NEW data \in Payload, NEW answer,
             Collect(t, st, data, answer)
      PROVE  Next
  <2>1. msg[t].id \in Id
    BY DEF GuiShape, MsgState, Id
  <2>2. Call(Service, Proxy, st)
    BY <1>4, <2>1 DEF Collect, Call
  <2> QED
    BY <2>2 DEF Next
<1>5. ASSUME NEW c \in Asker, NEW st \in Status, NEW started \in BOOLEAN, AskForProxy(c, st, started)
      PROVE  Next
  <2>1. Call(c, Proxy, st)
    BY <1>5 DEF AskForProxy, Call
  <2> QED
    BY <2>1 DEF Next
<1>6. CASE StartService \/ \E c \in Asker, b \in Box : StartAsker(c, b)
  BY <1>1, <1>6 DEF StartService, StartAsker
<1> QED
  BY <1>2, <1>3, <1>4, <1>5, <1>6 DEF Asks, SenderStep, Enter, Started, TimeOut

-----------------------------------------------------------------------------
(* What the threads do to the proxies and to the starts                    *)

LEMMA AsksWorkers ==
    ASSUME Asks
    PROVE  UNCHANGED workerVars
BY DEF Asks, SenderStep, StartService, Enter, Send, Started, Await, TimeOut, Collect, StartAsker, AskForProxy

(* A thread begins a start, or takes the outcome of its start. *)
Hands(t) ==
    /\ UNCHANGED <<listed, corrupt>>
    /\ \E u \in {IdleStarter, [IdleStarter EXCEPT !.pc = "first"]} : starter' = [starter EXCEPT ![t] = u]

LEMMA AsksStarts ==
    ASSUME Asks
    PROVE  UNCHANGED startVars \/ \E t \in Starter : Hands(t)
<1>1. ASSUME NEW t \in Starter, BeginStart(t) PROVE Hands(t)
  BY <1>1 DEF BeginStart, Hands
<1>2. ASSUME NEW t \in Initer, Started(t) PROVE Hands(t)
  BY <1>2 DEF Started, Hands
<1>3. ASSUME NEW t \in Sender, NEW st, Return(t, st)
      PROVE  UNCHANGED startVars \/ \E x \in Starter : Hands(x)
  BY <1>1, <1>3, GuiFacts DEF Return
<1> QED
  BY <1>1, <1>2, <1>3, GuiFacts
  DEF Asks, SenderStep, StartService, Enter, Send, Await, TimeOut, Collect, StartAsker, AskForProxy

LEMMA AsksProxyShape ==
    ASSUME TypeOK, ProxyShape, GuiShape, Asks
    PROVE  ProxyShape'
<1>1. WorkerShape'
  BY AsksWorkers DEF ProxyShape, WorkerShape, workerVars
<1>2. Born'
  BY AsksUseQueue, BornStep DEF ProxyShape
<1>3. ASSUME NEW t \in Starter, Hands(t) PROVE StartShape'
  <2>0. IdleStarter \in StarterState /\ IdleStarter.pc = "idle"
    BY DEF IdleStarter, StarterState
  <2>1. \A u \in {IdleStarter, [IdleStarter EXCEPT !.pc = "first"]} : u \in StarterState /\ u.pc # "wait"
    BY <2>0 DEF StarterState
  <2>2. listed' \in Seq(Child)
    BY <1>3 DEF Hands, ProxyShape, StartShape
  <2> QED
    BY <1>3, <2>1, <2>2, StarterShape DEF Hands, ProxyShape
<1>4. StartShape'
  BY <1>3, AsksStarts DEF ProxyShape, StartShape, startVars
<1> QED
  BY <1>1, <1>2, <1>4 DEF ProxyShape

LEMMA AsksParents ==
    ASSUME TypeOK, ProxyShape, GuiShape, Parents, Rest, Asks
    PROVE  Parents' /\ Rest'
<1>1. [Next]_vars
  BY AsksUseQueue
<1>2. UNCHANGED <<listed, corrupt>>
  BY AsksStarts DEF Hands, startVars
<1>3. \A t \in Starter : starter'[t].pc = "wait" =>
          starter[t].pc = "wait" /\ starter'[t].child = starter[t].child
  <2>1. ASSUME NEW x \in Starter, Hands(x), NEW t \in Starter, starter'[t].pc = "wait"
        PROVE  starter[t].pc = "wait" /\ starter'[t].child = starter[t].child
    <3>1. \A u \in {IdleStarter, [IdleStarter EXCEPT !.pc = "first"]} : u.pc # "wait"
      BY DEF IdleStarter
    <3>2. starter \in [Starter -> StarterState]
      BY DEF ProxyShape, StartShape
    <3> QED
      BY <2>1, <3>1, <3>2 DEF Hands
  <2> QED
    BY <2>1, AsksStarts DEF startVars
<1>4. IsInjective(listed') /\ ToSet(listed') \subseteq ToSet(listed)
  BY <1>2 DEF Parents, ListedOnce
<1>5. Parents'
  BY <1>1, <1>3, <1>4, ParentsStay
<1> QED
  BY <1>2, <1>5, AsksWorkers DEF Rest, workerVars

(* A sender, or a program that asks, as the proxies see it. *)
LEMMA AsksView ==
    ASSUME ProxyInv, GuiShape, Asks
    PROVE  \E x \in Pid \ Server : Outside(x)
<1> USE GuiFacts, ServerFacts, TheProxyQueue
<1>0. TypeOK /\ Proxy \in Asterisk \cup Plain
  BY DEF ProxyInv, IInv
<1> SUFFICES \E x \in Pid \ Server : Gentle \/ Arrival \/ Woken \/ Aside(x)
  BY AsksWorkers DEF Outside
<1>1. CASE UNCHANGED vars
  BY <1>1 DEF vars, Gentle, QueuesStay, NothingNew
<1>2. CASE StartService \/ \E c \in Asker, b \in Box : StartAsker(c, b)
  BY <1>0, <1>2, ProcessAside DEF StartService, StartAsker
<1>3. ASSUME NEW t \in Sender, NEW st \in Status, NEW id \in Id, Send(t, st, id) PROVE Gentle \/ Arrival
  BY <1>0, <1>3, MineFacts, PutReqGentle DEF Send, Gentle, Arrival
<1>4. ASSUME NEW t \in Sender, Await(t) PROVE Woken
  BY <1>4 DEF Await, WaitEvent, Woken, env, store
<1>5. ASSUME NEW t \in Sender, NEW st \in Status, NEW data \in Payload, NEW answer,
             Collect(t, st, data, answer)
      PROVE  Gentle
  BY <1>0, <1>5, GetRplGentle DEF Collect
<1>6. ASSUME NEW c \in Asker, NEW st \in Status, NEW started \in BOOLEAN, AskForProxy(c, st, started)
      PROVE  Gentle
  BY <1>0, <1>6, StartupGentle DEF AskForProxy
<1> QED
  BY <1>1, <1>2, <1>3, <1>4, <1>5, <1>6 DEF Asks, SenderStep, Enter, Started, TimeOut

(* Only a message that is put adds a request or signals an event. *)
Quietly ==
    /\ requests' \subseteq requests
    /\ UNCHANGED issued
    /\ signalled' \subseteq signalled

LEMMA AsksQuietly ==
    ASSUME Asks
    PROVE  Quietly \/ \E t \in Sender, st \in Status, id \in Id : Send(t, st, id)
<1>1. CASE UNCHANGED vars
  BY <1>1 DEF vars, store, counters, Quietly
<1>2. ASSUME NEW p, NEW b, StartProcess(p, b) PROVE Quietly
  BY <1>2 DEF StartProcess, store, counters, Quietly
<1>3. ASSUME NEW t \in Sender, Await(t) PROVE Quietly
  BY <1>3 DEF Await, WaitEvent, store, counters, Quietly
<1>4. ASSUME NEW t \in Sender, NEW st \in Status, NEW data \in Payload, NEW answer,
             Collect(t, st, data, answer)
      PROVE  Quietly
  <2>1. ASSUME NEW r, DeleteRequestObj(r), UNCHANGED <<counters, signalled>> PROVE Quietly
    BY <2>1 DEF DeleteRequestObj, counters, Quietly
  <2>2. ASSUME UNCHANGED <<store, counters, signalled>> PROVE Quietly
    BY <2>2 DEF store, counters, Quietly
  <2>3. CASE NotFound(Service, Proxy, st)
    BY <2>3 DEF NotFound, DeleteQueueObj, counters, Quietly
  <2> QED
    BY <1>4, <2>1, <2>2, <2>3 DEF Collect, GetRplHandler, NotNamed, Refused
<1>5. ASSUME NEW c \in Asker, NEW st \in Status, NEW started \in BOOLEAN, AskForProxy(c, st, started)
      PROVE  Quietly
  BY <1>5
  DEF AskForProxy, StartupHandler, NotNamed, NotFound, Refused, DeleteQueueObj, store, counters, Quietly
<1> QED
  BY <1>1, <1>2, <1>3, <1>4, <1>5
  DEF Asks, SenderStep, Enter, Started, TimeOut, StartService, StartAsker

-----------------------------------------------------------------------------
(* Requests and their senders                                              *)

(* Until a thread has put its request the proxy knows nothing of it; then  *)
(* the id it was given leads to its own request only, and it has success   *)
(* when its request was run.  The second attempt begins when the first has *)
(* left no trace but what it may have done.                                *)
OwnRequest(t) ==
    /\ msg[t].try = 1 => Untouched(<<t, 2>>)
    /\ msg[t].pc \in {"idle", "send"} => Untouched(Mine(t))
    /\ msg[t].pc = "start" \/ msg[t].try = 2 => Absent(<<t, 1>>)
    /\ msg[t].pc \in {"wait", "collect"} =>
          /\ msg[t].id <= issued + 1
          /\ \A r \in requests : r.id = msg[t].id => r.data = Mine(t)
    /\ msg[t].status = "SUCCESS" => ran[Mine(t)] = 1

OwnEvents == \A r \in requests : r.event = SlavesEvent /\ r.pid = Service /\ r.queue = ProxyQueue

Sent == OwnEvents /\ \A t \in Sender : OwnRequest(t)

(* InitProcess holds the lock from Enter to End. *)
Locked == \A t \in Initer : msg[t].pc \notin {"idle", "done"} => slavesLock = t

(* Nobody has been late, and nobody sends without the lock. *)
Calm == \A t \in Sender : msg[t].status # "TIMEOUT" /\ (t \in Killer => msg[t].pc = "idle")

(* Then a request without a reply has a thread that waits for it, and the  *)
(* event is set only when every request is answered, and for a thread that *)
(* has yet to see it.                                                      *)
InTurn ==
    Calm =>
        /\ \A r \in requests :
              r.rpl = NoData => msg[r.data[1]].pc = "wait" /\ r.data = Mine(r.data[1])
        /\ SlavesEvent \in signalled =>
              /\ \E t \in Sender : msg[t].pc = "wait"
              /\ \A r \in requests : r.rpl # NoData

Threads == Sent /\ Locked /\ InTurn

(* What a step that puts no request may do to the thread it moves.         *)
Advances(t) ==
    \/ msg'[t] = msg[t]
    \/ /\ msg[t].pc \in {"idle", "send"} /\ msg'[t].pc = "send"
       /\ msg'[t].status = msg[t].status /\ msg'[t].try = msg[t].try
    \/ /\ msg[t].pc = "wait" /\ msg'[t].pc = "collect"
       /\ msg'[t].status = msg[t].status /\ msg'[t].try = msg[t].try /\ msg'[t].id = msg[t].id
    \/ /\ msg'[t].pc = "start" /\ Absent(<<t, 1>>)'
       /\ msg'[t].status = msg[t].status /\ msg'[t].try = msg[t].try
    \/ /\ msg[t].pc = "start" /\ msg'[t].pc = "send"
       /\ msg'[t].status = msg[t].status /\ msg'[t].try = 2
    \/ /\ msg'[t].pc = "done" /\ msg'[t].try = msg[t].try
       /\ msg'[t].status = "SUCCESS" => ran[Mine(t)] = 1

LEMMA OwnRequestStays ==
    ASSUME GuiShape, NEW t \in Sender, OwnRequest(t), Kept,
           issued \in Nat, issued' \in Nat, issued <= issued', Advances(t)
    PROVE  OwnRequest(t)'
<1>0. Mine(t) \in Data /\ <<t, 1>> \in Data /\ <<t, 2>> \in Data
      /\ msg[t].id \in Nat /\ msg[t].try \in {1, 2}
  BY MineFacts, ServerFacts DEF GuiShape, MsgState
<1>1. \A d \in Data : /\ Untouched(d) => Untouched(d)'
                      /\ Absent(d) => Absent(d)'
                      /\ ran[d] = 1 => ran'[d] = 1
  BY DEF Kept
<1>2. msg'[t].try = msg[t].try => Mine(t)' = Mine(t)
  BY DEF Mine
<1>3. ASSUME msg'[t].try = 1 PROVE Untouched(<<t, 2>>)'
  BY <1>0, <1>1, <1>3 DEF OwnRequest, Advances
<1>4. ASSUME msg'[t].pc \in {"idle", "send"} PROVE Untouched(Mine(t))'
  <2>1. CASE msg'[t].try = msg[t].try /\ msg[t].pc \in {"idle", "send"}
    <3>1. Untouched(Mine(t)) /\ Mine(t)' = Mine(t)
      BY <1>2, <2>1 DEF OwnRequest
    <3>2. PICK d \in Data : d = Mine(t)
      BY <1>0
    <3>3. Untouched(d)'
      BY <1>1, <3>1, <3>2
    <3> QED
      BY <3>1, <3>2, <3>3 DEF Untouched, Absent
  <2>2. CASE msg[t].pc = "start" /\ msg'[t].try = 2
    <3>1. msg[t].try = 1 /\ Mine(t)' = <<t, 2>>
      BY <2>2 DEF GuiShape, Mine
    <3>2. Untouched(<<t, 2>>)'
      BY <1>0, <1>1, <3>1 DEF OwnRequest
    <3> QED
      BY <3>1, <3>2 DEF Untouched, Absent
  <2> QED
    BY <1>4, <2>1, <2>2 DEF Advances
<1>5. ASSUME msg'[t].pc = "start" \/ msg'[t].try = 2 PROVE Absent(<<t, 1>>)'
  BY <1>0, <1>1, <1>5 DEF OwnRequest, Advances
<1>6. ASSUME msg'[t].pc \in {"wait", "collect"}
      PROVE  /\ msg'[t].id <= issued' + 1
             /\ \A r \in requests' : r.id = msg'[t].id => r.data = Mine(t)'
  <2>1. /\ msg[t].pc \in {"wait", "collect"} /\ msg'[t].id = msg[t].id
        /\ Mine(t)' = Mine(t)
    BY <1>2, <1>6 DEF Advances
  <2>2. msg[t].id <= issued' + 1
    BY <1>0, <2>1, StaysBelow DEF OwnRequest
  <2> QED
    BY <2>1, <2>2 DEF OwnRequest, Kept, Descends
<1>7. ASSUME msg'[t].status = "SUCCESS" PROVE ran'[Mine(t)'] = 1
  <2>1. ran[Mine(t)] = 1 /\ Mine(t)' = Mine(t)
    <3>1. msg[t].pc # "done" => msg[t].status # "SUCCESS"
      BY DEF GuiShape
    <3> QED
      BY <1>2, <1>7, <3>1 DEF OwnRequest, Advances
  <2> QED
    BY <1>0, <1>1, <2>1
<1> QED
  BY <1>3, <1>4, <1>5, <1>6, <1>7 DEF OwnRequest

(* When the queue of the proxy is found missing no request is left, and no *)
(* callback works.                                                         *)
LEMMA NothingLeft ==
    ASSUME ProxyInv, OneProxy, OwnEvents, ~ Found(ProxyQueue), UNCHANGED workerVars,
           requests' = {r \in requests : r.queue # ProxyQueue}, NEW d
    PROVE  Absent(d)'
<1>1. requests' = {}
  BY DEF OwnEvents
<1>2. ASSUME NEW k \in Callback, job[k].pc \in Busy PROVE FALSE
  <2>1. k[1] \in Server /\ boot[k[1]] = "serving"
    BY <1>2 DEF Callback, Busy, ProxyInv, ProxyShape, WorkerShape
  <2> QED
    BY <2>1 DEF OneProxy, Serving
<1> QED
  BY <1>1, <1>2 DEF Absent, workerVars

(* This is how InitProcess comes to its second attempt.                    *)
LEMMA MissingQueue ==
    ASSUME ProxyInv, OneProxy, OwnEvents, NEW t \in Sender, NEW d,
           \/ \E id : Send(t, "NAME_NOT_FOUND", id)
           \/ \E data, answer : Collect(t, "NAME_NOT_FOUND", data, answer)
    PROVE  Absent(d)'
<1>1. NotFound(Service, Proxy, "NAME_NOT_FOUND") /\ UNCHANGED workerVars
  BY DEF Send, Collect, PutReqHandler, GetRplHandler, NotNamed, Refused
<1> QED
  BY <1>1, TheProxyQueue, NothingLeft DEF NotFound, DeleteQueueObj

LEMMA OwnEventsStay ==
    ASSUME OwnEvents, Kept
    PROVE  OwnEvents'
BY DEF OwnEvents, Kept, Descends

(* As long as the event is not set anew. *)
LEMMA InTurnStays ==
    ASSUME InTurn, Kept, Calm' => Calm, SlavesEvent \in signalled' => SlavesEvent \in signalled,
           \A t \in Sender : msg[t].pc = "wait" => msg'[t] = msg[t], requests \subseteq Request
    PROVE  InTurn'
<1>1. \A r \in requests : r.data[1] \in Sender
  BY GuiFacts DEF Request
<1>2. CASE ~ Calm'
  BY <1>2 DEF InTurn
<1>3. CASE Calm
  <2>1. \A r \in requests' :
            r.rpl = NoData => msg'[r.data[1]].pc = "wait" /\ r.data = Mine(r.data[1])'
    BY <1>1, <1>3 DEF InTurn, Kept, Descends, Mine
  <2>2. SlavesEvent \in signalled' => \E t \in Sender : msg'[t].pc = "wait"
    BY <1>3 DEF InTurn
  <2>3. SlavesEvent \in signalled' => \A r \in requests' : r.rpl # NoData
    BY <1>3 DEF InTurn, Kept, Descends
  <2> QED
    BY <2>1, <2>2, <2>3 DEF InTurn
<1> QED
  BY <1>2, <1>3

LEMMA MachineThreads ==
    ASSUME ProxyInv, ProxyInv', GuiShape, InHand, Apart, Tasks, Threads, Machine, UNCHANGED guiVars
    PROVE  Threads'
<1> USE DEF Threads
<1>1. IdsStay /\ issued \in Nat
  BY IdsStep, MachineUsesQueue DEF ProxyInv, IInv, TypeOK
<1>2. Kept /\ (signalled' \subseteq signalled \/ \E r \in requests : ReplyArrives(r))
  BY MachineTasks
<1>3. UNCHANGED <<msg, slavesLock>>
  BY DEF guiVars
<1>4. Sent'
  <2>1. \A t \in Sender : OwnRequest(t)'
    BY <1>1, <1>2, <1>3, OwnRequestStays DEF Sent, IdsStay, Advances
  <2> QED
    BY <1>2, <2>1, OwnEventsStay DEF Sent
<1>5. Locked'
  BY <1>3 DEF Locked
<1>6. requests \subseteq Request /\ \A r \in requests : r.data[1] \in Sender
  BY GuiFacts DEF ProxyInv, IInv, TypeOK, Request
<1>7. Calm' <=> Calm
  BY <1>3 DEF Calm
<1>8. CASE signalled' \subseteq signalled
  BY <1>2, <1>3, <1>4, <1>5, <1>6, <1>7, <1>8, InTurnStays
<1>9. ASSUME NEW r \in requests, ReplyArrives(r), Calm PROVE InTurn'
  <2>1. r.data[1] \in Initer /\ slavesLock = r.data[1] /\ r.data = Mine(r.data[1])
        /\ msg[r.data[1]].pc = "wait"
    <3>1. msg[r.data[1]].pc = "wait" /\ r.data[1] \in Sender /\ r.data = Mine(r.data[1])
      BY <1>6, <1>9 DEF ReplyArrives, InTurn
    <3>2. r.data[1] \in Initer
      BY <1>9, <3>1 DEF Calm, Sender
    <3> QED
      BY <3>1, <3>2 DEF Locked
  <2>2. \A x \in requests : x.rpl = NoData => x = r
    <3> SUFFICES ASSUME NEW x \in requests, x.rpl = NoData PROVE x = r
      OBVIOUS
    <3>1. msg[x.data[1]].pc = "wait" /\ x.data[1] \in Sender /\ x.data = Mine(x.data[1])
      BY <1>6, <1>9 DEF InTurn
    <3>2. x.data[1] \in Initer
      BY <1>9, <3>1 DEF Calm, Sender
    <3>3. slavesLock = x.data[1]
      BY <3>1, <3>2 DEF Locked
    <3>4. x.data = r.data
      BY <2>1, <3>1, <3>3
    <3> QED
      BY <3>4 DEF Tasks, OnePlace
  <2>3. \A x \in requests' : x.rpl # NoData
    <3>1. r.data # NoData /\ [r EXCEPT !.rpl = r.data].rpl = r.data
      BY <1>6, <1>9, ReplyField, SentinelAssumption DEF Request
    <3> QED
      BY <1>9, <2>2, <3>1 DEF ReplyArrives
  <2> QED
    BY <1>3, <1>6, <2>1, <2>3 DEF InTurn
<1> QED
  BY <1>2, <1>4, <1>5, <1>7, <1>8, <1>9 DEF InTurn

LEMMA LockedMoves ==
    ASSUME Locked, GuiShape, NEW t \in Sender, Moves(t),
           \/ UNCHANGED slavesLock /\ (t \in Initer => msg[t].pc # "idle")
           \/ t \in Initer /\ slavesLock = NoThread /\ slavesLock' = t
           \/ msg'[t].pc = "done" /\ \E st : End(t, st)
    PROVE  Locked'
<1> SUFFICES ASSUME NEW u \in Initer, msg'[u].pc \notin {"idle", "done"}
             PROVE  slavesLock' = u
  BY DEF Locked
<1>1. u \in Sender /\ u # NoThread
  BY GuiFacts
<1>2. CASE u = t
  BY <1>1, <1>2 DEF Locked, Moves
<1>3. CASE u # t
  <2>1. msg'[u] = msg[u]
    BY <1>1, <1>3 DEF Moves
  <2> QED
    BY <1>1, <1>3, <2>1 DEF Locked, End
<1> QED
  BY <1>2, <1>3

LEMMA CalmMoves ==
    ASSUME GuiShape, NEW t \in Sender, Moves(t), Calm'
    PROVE  Calm /\ t \in Initer
<1>1. \A u \in Sender : u # t => msg'[u] = msg[u]
  BY DEF Moves
<1>2. t \notin Killer
  BY DEF Calm, Moves
<1>3. msg[t].status # "TIMEOUT"
  BY DEF Moves, GuiShape
<1> QED
  BY <1>1, <1>2, <1>3 DEF Calm, Sender

(* A reply is the payload of the request it was put for, and so it says    *)
(* that this request was run.                                              *)
LEMMA ReplyIsOwn ==
    ASSUME ProxyInv, Tasks, Sent, NEW t \in Sender, NEW data, NEW answer,
           Collect(t, "SUCCESS", data, answer)
    PROVE  ran[Mine(t)] = 1
<1>1. PICK r \in requests : r.id = msg[t].id /\ r.rpl # NoData
  BY DEF Collect, GetRplHandler, NotNamed, NotFound, Refused, First, WithId
<1>2. r.data = Mine(t)
  BY <1>1 DEF Sent, OwnRequest, Collect
<1> QED
  BY <1>1, <1>2 DEF Tasks, Answers

(* A thread that gets its request into the queue. *)
Sends(t) == \E id \in Id : Send(t, "SUCCESS", id)

(* A thread that leaves SendMessageToSlave. *)
LEMMA ReturnAdvances ==
    ASSUME Locked, GuiShape, NEW t \in Sender, msg[t].pc \notin {"idle", "done"},
           NEW why \in SendStatus, Return(t, why),
           why = "SUCCESS" => ran[Mine(t)] = 1,
           why = "NAME_NOT_FOUND" => Absent(<<t, 1>>)'
    PROVE  Advances(t) /\ Locked'
<1>1. Moves(t) /\ (Begins(t, why) \/ Ends(t, why))
  BY ReturnMoves
<1>2. CASE Begins(t, why)
  <2>1. Advances(t)
    BY <1>2 DEF Begins, Advances
  <2>2. Locked'
    BY <1>1, <1>2, LockedMoves DEF Begins
  <2> QED
    BY <2>1, <2>2
<1>3. CASE Ends(t, why)
  <2>1. Advances(t)
    BY <1>3 DEF Ends, Advances
  <2>2. Locked'
    BY <1>1, <1>3, LockedMoves DEF Ends
  <2> QED
    BY <2>1, <2>2
<1> QED
  BY <1>1, <1>2, <1>3

(* The steps of the threads that put no request. *)
LEMMA QuietThreads ==
    ASSUME ProxyInv, OneProxy, GuiShape, Tasks, Threads, UNCHANGED workerVars, Kept,
           issued' \in Nat, issued <= issued', signalled' \subseteq signalled,
           UNCHANGED guiVars \/ \E t \in Sender : SenderStep(t) /\ ~ Sends(t)
    PROVE  Threads'
<1> USE DEF Threads
<1>1. Kept
  OBVIOUS
<1>2. issued \in Nat /\ issued' \in Nat /\ issued <= issued' /\ requests \subseteq Request
  BY IdAssumption DEF ProxyInv, IInv, TypeOK
<1>3. OwnEvents'
  BY <1>1, OwnEventsStay DEF Sent
<1>4. SlavesEvent \in signalled' => SlavesEvent \in signalled
  OBVIOUS
<1>5. CASE UNCHANGED guiVars
  <2>1. UNCHANGED <<msg, slavesLock>>
    BY <1>5 DEF guiVars
  <2>2. \A t \in Sender : OwnRequest(t)'
    BY <1>1, <1>2, <2>1, OwnRequestStays DEF Sent, Advances
  <2>3. Locked' /\ (Calm' => Calm)
    BY <2>1 DEF Locked, Calm
  <2> QED
    BY <1>1, <1>2, <1>3, <1>4, <2>1, <2>2, <2>3, InTurnStays DEF Sent
<1>6. ASSUME NEW t \in Sender, SenderStep(t), ~ Sends(t) PROVE Threads'
  <2>0. Moves(t) /\ GuiShape' /\ OwnRequest(t) /\ Locked /\ OwnEvents
    BY <1>6, SenderMoves, MovesShape DEF Sent
  <2>1. ASSUME NEW u \in Sender, u # t PROVE OwnRequest(u)'
    <3>1. Advances(u) /\ OwnRequest(u)
      BY <2>0, <2>1 DEF Advances, Moves, Sent
    <3> QED
      BY <1>1, <1>2, <3>1, OwnRequestStays
  <2>2. ASSUME Advances(t) PROVE Sent'
    <3>1. OwnRequest(t)'
      BY <1>1, <1>2, <2>0, <2>2, OwnRequestStays
    <3> QED
      BY <1>3, <2>1, <3>1 DEF Sent
  <2>3. ASSUME Advances(t), Locked', msg[t].pc # "wait" PROVE Threads'
    <3>1. Sent'
      BY <2>2, <2>3
    <3>2. Calm' => Calm
      BY <2>0, CalmMoves
    <3>3. \A u \in Sender : msg[u].pc = "wait" => msg'[u] = msg[u]
      BY <2>0, <2>3 DEF Moves
    <3> QED
      BY <1>1, <1>2, <1>4, <2>3, <3>1, <3>2, <3>3, InTurnStays
  <2>4. CASE Enter(t)
    <3>1. /\ msg[t].pc = "idle" /\ msg'[t].pc = "send"
          /\ msg'[t].status = msg[t].status /\ msg'[t].try = msg[t].try
      BY <2>4 DEF Enter, GuiShape, MsgState
    <3>2. Advances(t)
      BY <3>1 DEF Advances
    <3>3. Locked'
      BY <2>0, <2>4, LockedMoves DEF Enter
    <3> QED
      BY <2>3, <3>1, <3>2, <3>3
  <2>5. CASE t \in Initer /\ Started(t)
    <3>1. msg[t].pc = "start"
      BY <2>5 DEF Started
    <3>2. CASE starter[t].ok
      <4>1. msg' = [msg EXCEPT ![t].pc = "send", ![t].try = 2] /\ UNCHANGED slavesLock
        BY <2>5, <3>2 DEF Started
      <4>2. msg'[t].pc = "send" /\ msg'[t].status = msg[t].status /\ msg'[t].try = 2
        BY <4>1 DEF GuiShape, MsgState
      <4>3. Advances(t)
        BY <3>1, <4>2 DEF Advances
      <4>4. Locked'
        BY <2>0, <3>1, <4>1, LockedMoves
      <4> QED
        BY <2>3, <3>1, <4>3, <4>4
    <3>3. CASE ~ starter[t].ok
      <4>1. End(t, "NOT_STARTED")
        BY <2>5, <3>3 DEF Started
      <4>2. msg'[t].pc = "done" /\ msg'[t].status = "NOT_STARTED" /\ msg'[t].try = msg[t].try
        BY <3>1, <4>1, EndMoves
      <4>3. Advances(t)
        BY <4>2 DEF Advances
      <4>4. Locked'
        BY <2>0, <4>1, <4>2, LockedMoves
      <4> QED
        BY <2>3, <3>1, <4>3, <4>4
    <3> QED
      BY <3>2, <3>3
  <2>6. CASE Await(t)
    <3>1. /\ msg[t].pc = "wait" /\ msg' = [msg EXCEPT ![t].pc = "collect"] /\ UNCHANGED slavesLock
          /\ SlavesEvent \in signalled /\ SlavesEvent \notin signalled'
      BY <2>6 DEF Await, WaitEvent, Goto
    <3>2. /\ msg'[t].pc = "collect" /\ msg'[t].status = msg[t].status
          /\ msg'[t].id = msg[t].id /\ msg'[t].try = msg[t].try
      BY <3>1 DEF GuiShape, MsgState
    <3>3. Advances(t)
      BY <3>1, <3>2 DEF Advances
    <3>4. Locked'
      BY <2>0, <3>1, LockedMoves
    <3>5. Calm' => \A r \in requests' : r.rpl # NoData
      BY <1>1, <2>0, <3>1, CalmMoves DEF InTurn, Kept, Descends
    <3>6. InTurn'
      BY <3>1, <3>5 DEF InTurn
    <3> QED
      BY <2>2, <3>3, <3>4, <3>6
  <2>7. CASE TimeOut(t)
    <3>1. Return(t, "TIMEOUT") /\ msg[t].pc = "wait"
      BY <2>7 DEF TimeOut
    <3>2. Advances(t) /\ Locked'
      BY <2>0, <3>1, ReturnAdvances DEF SendStatus
    <3>3. msg'[t].status = "TIMEOUT"
      BY <3>1, ReturnMoves DEF Begins, Ends, SendStatus
    <3>4. InTurn'
      BY <3>3 DEF InTurn, Calm
    <3> QED
      BY <2>2, <3>2, <3>4
  <2>8. ASSUME NEW st \in Status, NEW data \in Payload, NEW answer \in {"SUCCESS", "REFUSED"},
               Collect(t, st, data, answer)
        PROVE  Threads'
    <3>1. PICK why \in SendStatus :
            /\ Return(t, why) /\ msg[t].pc = "collect"
            /\ why = "SUCCESS" => st = "SUCCESS"
            /\ why = "NAME_NOT_FOUND" => st = "NAME_NOT_FOUND"
      BY <2>8, CollectReturns
    <3>2. why = "SUCCESS" => ran[Mine(t)] = 1
      BY <2>8, <3>1, ReplyIsOwn
    <3>3. why = "NAME_NOT_FOUND" => Absent(<<t, 1>>)'
      BY <2>0, <2>8, <3>1, MissingQueue
    <3>4. Advances(t) /\ Locked'
      BY <2>0, <3>1, <3>2, <3>3, ReturnAdvances
    <3> QED
      BY <2>3, <3>1, <3>4
  <2>9. ASSUME NEW st \in Status, NEW id \in Id, Send(t, st, id) PROVE Threads'
    <3>1. st # "SUCCESS"
      BY <1>6, <2>9 DEF Sends
    <3>2. Return(t, st) /\ msg[t].pc = "send" /\ st \in SendStatus
      BY <2>9, <3>1 DEF Send, SendStatus
    <3>3. st = "NAME_NOT_FOUND" => Absent(<<t, 1>>)'
      BY <2>0, <2>9, MissingQueue
    <3>4. Advances(t) /\ Locked'
      BY <2>0, <3>1, <3>2, <3>3, ReturnAdvances
    <3> QED
      BY <2>3, <3>2, <3>4
  <2> QED
    BY <1>6, <2>4, <2>5, <2>6, <2>7, <2>8, <2>9 DEF SenderStep
<1> QED
  BY <1>5, <1>6

(* A thread that puts its request: the event of the service is not set,    *)
(* because nobody else who holds the lock waits for it.                    *)
LEMMA SendThreads ==
    ASSUME ProxyInv, Stalls, GuiShape, InHand, Tasks, Threads, NEW t \in Sender, Sends(t)
    PROVE  Tasks' /\ Threads'
<1> USE DEF Threads
<1> USE GuiFacts, ServerFacts
<1>1. PICK id \in Id : Send(t, "SUCCESS", id)
  BY DEF Sends
<1>2. /\ msg[t].pc = "send" /\ UNCHANGED workerVars
      /\ msg' = [msg EXCEPT ![t].pc = "wait", ![t].id = id] /\ UNCHANGED slavesLock
      /\ PutReqHandler(Service, Proxy, SlavesEvent, Mine(t), "SUCCESS", id)
  BY <1>1 DEF Send
<1>3. /\ Untouched(Mine(t)) /\ Mine(t) \in Data /\ Mine(t)[1] = t
      /\ Mine(t) = <<t, msg[t].try>> /\ msg[t].try \in {1, 2}
  BY <1>2, MineFacts DEF Sent, OwnRequest, Mine
<1>4. /\ Tasks' /\ Put(Service, SlavesEvent, Mine(t), id)
      /\ \E q \in QueueName :
            q = MakeQueueName(Service, Proxy) /\ Found(q) /\ SetEvent(queues[q].event)
  BY <1>2, <1>3, PutTasks
<1>5. PICK r : /\ r.data = Mine(t) /\ r.id = id /\ r.event = SlavesEvent /\ r.pid = Service
               /\ r.queue = ProxyQueue
               /\ r.rpl = NoData /\ requests' = requests \cup {r}
  <2>1. PICK q \in QueueName :
          /\ Named(Service, Proxy, q)
          /\ id = GivenId /\ requests' = requests \cup {NewRequest(Service, q, SlavesEvent, Mine(t))}
    BY <1>2 DEF PutReqHandler, NotNamed, NotFound, Refused, NewRequest
  <2>2. q = ProxyQueue
    BY <2>1, TheProxyQueue DEF Named
  <2> QED
    BY <2>1, <2>2 DEF NewRequest
<1>6. id = issued + 2 /\ issued' = issued + 1 /\ issued \in Nat /\ \A x \in requests : x.id <= issued + 1
  <2>1. id = issued + 2 /\ issued' = issued + 1 /\ issued \in Nat
    BY <1>4, IdAssumption DEF Put, ProxyInv, IInv, TypeOK
  <2>2. \A x \in requests : x.id = x.turn + 1 /\ x.turn <= issued /\ x.turn \in Nat
    BY IdAssumption DEF ProxyInv, IInv, TypeOK, Counting, Turns, Request
  <2> QED
    BY <2>1, <2>2
<1>7. /\ msg'[t].pc = "wait" /\ msg'[t].id = id /\ msg'[t].status = "NONE"
      /\ msg'[t].try = msg[t].try /\ Mine(t)' = Mine(t)
      /\ \A u \in Sender : u # t => msg'[u] = msg[u] /\ Mine(u)' = Mine(u)
  BY <1>2 DEF GuiShape, MsgState, Mine
<1>8. OwnEvents'
  BY <1>5 DEF Sent, OwnEvents
<1>9. /\ \A x \in Data : x # Mine(t) /\ Untouched(x) => Untouched(x)'
      /\ \A x \in Data : x # Mine(t) /\ Absent(x) => Absent(x)'
  BY <1>4 DEF Put
<1>10. ASSUME NEW u \in Sender PROVE OwnRequest(u)'
  <2>0. Mine(u) \in Data /\ Mine(u)[1] = u /\ <<u, 1>> \in Data /\ <<u, 2>> \in Data
    BY MineFacts
  <2>1. OwnRequest(u) /\ ran' = ran /\ msg'[u].try = msg[u].try
    BY <1>2, <1>7 DEF workerVars, Sent
  <2>2. ASSUME msg[u].try = 1 PROVE Untouched(<<u, 2>>)'
    <3>1. <<u, 2>> # Mine(t) /\ Untouched(<<u, 2>>)
      BY <1>3, <2>1, <2>2 DEF OwnRequest
    <3> QED
      BY <1>9, <2>0, <3>1
  <2>3. ASSUME msg[u].pc = "start" \/ msg[u].try = 2 PROVE Absent(<<u, 1>>)'
    <3>1. <<u, 1>> # Mine(t) /\ Absent(<<u, 1>>)
      BY <1>2, <1>3, <2>1, <2>3 DEF OwnRequest
    <3> QED
      BY <1>9, <2>0, <3>1
  <2>4. CASE u = t
    <3>1. id <= issued' + 1 /\ \A x \in requests : x.id # id
      BY <1>6
    <3>2. \A x \in requests' : x.id = id => x.data = Mine(t)
      BY <1>5, <3>1
    <3> QED
      BY <1>7, <2>1, <2>2, <2>3, <2>4, <3>1, <3>2 DEF OwnRequest
  <2>5. CASE u # t
    <3>1. msg'[u] = msg[u] /\ Mine(u)' = Mine(u) /\ Mine(u) # Mine(t)
      BY <1>3, <1>7, <2>0, <2>5
    <3>2. msg[u].pc \in {"idle", "send"} => Untouched(Mine(u))'
      <4>1. PICK d \in Data : d = Mine(u)
        BY <2>0
      <4>2. msg[u].pc \in {"idle", "send"} => Untouched(d)'
        BY <1>9, <2>1, <3>1, <4>1 DEF OwnRequest
      <4> QED
        BY <3>1, <4>1, <4>2 DEF Untouched, Absent
    <3>3. ASSUME msg[u].pc \in {"wait", "collect"}
          PROVE  /\ msg[u].id <= issued' + 1
                 /\ \A x \in requests' : x.id = msg[u].id => x.data = Mine(u)
      <4>1. msg[u].id \in Nat
        BY IdAssumption DEF GuiShape, MsgState
      <4>2. msg[u].id <= issued + 1
        BY <2>1, <3>3 DEF OwnRequest
      <4>3. msg[u].id <= issued' + 1 /\ id # msg[u].id
        BY <1>6, <4>1, <4>2
      <4> QED
        BY <1>5, <2>1, <3>3, <4>3 DEF OwnRequest
    <3>4. msg[u].status = "SUCCESS" => ran'[Mine(u)] = 1
      BY <2>1 DEF OwnRequest
    <3> QED
      BY <2>2, <2>3, <3>1, <3>2, <3>3, <3>4 DEF OwnRequest
  <2> QED
    BY <2>4, <2>5
<1>11. Locked'
  BY <1>2, <1>7 DEF Locked
<1>12. SlavesEvent \in signalled' => SlavesEvent \in signalled
  <2>1. queues[ProxyQueue].event # SlavesEvent /\ SetEvent(queues[ProxyQueue].event)
    BY <1>4, TheProxyQueue DEF Found, Stalls, OwnEvent
  <2> QED
    BY <2>1 DEF SetEvent
<1>13. ASSUME Calm' PROVE InTurn'
  <2>1. Calm /\ t \in Initer
    <3>1. SenderStep(t)
      BY <1>1 DEF SenderStep, Status
    <3> QED
      BY <1>13, <3>1, SenderMoves, CalmMoves
  <2>2. slavesLock = t
    BY <1>2, <2>1 DEF Locked
  <2>3. ASSUME NEW u \in Sender, msg[u].pc = "wait" PROVE FALSE
    <3>1. u \in Initer
      BY <2>1, <2>3 DEF Calm, Sender
    <3>2. slavesLock = u
      BY <2>3, <3>1 DEF Locked
    <3> QED
      BY <1>2, <2>2, <2>3, <3>2
  <2>4. SlavesEvent \notin signalled'
    BY <1>12, <2>1, <2>3 DEF InTurn
  <2>5. \A x \in requests : x.data[1] \in Sender
    BY DEF ProxyInv, IInv, TypeOK, Request
  <2>6. \A x \in requests' :
            x.rpl = NoData => msg'[x.data[1]].pc = "wait" /\ x.data = Mine(x.data[1])'
    BY <1>3, <1>5, <1>7, <2>1, <2>3, <2>5 DEF InTurn
  <2> QED
    BY <2>4, <2>6 DEF InTurn
<1>14. InTurn'
  BY <1>13 DEF InTurn
<1> QED
  BY <1>4, <1>8, <1>10, <1>11, <1>14 DEF Sent

LEMMA AsksThreads ==
    ASSUME ProxyInv, OneProxy, Stalls, GuiShape, InHand, Tasks, Threads, Asks
    PROVE  Tasks' /\ Threads'
<1> USE GuiFacts, ServerFacts
<1>1. CASE \E t \in Sender : Sends(t)
  BY <1>1, SendThreads
<1>2. ASSUME NEW t \in Sender, NEW st \in Status, NEW id \in Id, Send(t, st, id), st # "SUCCESS"
      PROVE  /\ Tasks' /\ Kept /\ UNCHANGED signalled
             /\ issued \in Nat /\ issued' \in Nat /\ issued <= issued'
  <2>1. Tasks' /\ Kept /\ UNCHANGED signalled
    <3>1. /\ Untouched(Mine(t)) /\ Mine(t) \in Data
          /\ PutReqHandler(Service, Proxy, SlavesEvent, Mine(t), st, id)
      BY <1>2, MineFacts DEF Send, Threads, Sent, OwnRequest
    <3> QED
      BY <1>2, <3>1, PutTasks, AsksWorkers
  <2>2. issued \in Nat
    BY IdAssumption DEF ProxyInv, IInv, TypeOK
  <2>3. issued' = issued \/ issued' = issued + 1
    BY <1>2
    DEF Send, PutReqHandler, NotNamed, NotFound, Refused, Advance, counters
  <2> QED
    BY <2>1, <2>2, <2>3
<1>3. ASSUME Quietly
      PROVE  /\ Tasks' /\ Kept /\ signalled' \subseteq signalled
             /\ issued \in Nat /\ issued' \in Nat /\ issued <= issued'
  <2>1. Tasks' /\ Kept
    BY <1>3, QuietTasks, AsksWorkers DEF workerVars, Quietly
  <2> QED
    BY <1>3, <2>1, IdAssumption DEF Quietly, ProxyInv, IInv, TypeOK
<1>4. CASE ~ \E t \in Sender : Sends(t)
  <2>1. /\ Tasks' /\ Kept /\ signalled' \subseteq signalled
        /\ issued \in Nat /\ issued' \in Nat /\ issued <= issued'
    BY <1>2, <1>3, <1>4, AsksQuietly DEF Sends
  <2>2. UNCHANGED guiVars \/ \E t \in Sender : SenderStep(t) /\ ~ Sends(t)
    BY <1>4 DEF Asks, StartService, StartAsker, AskForProxy
  <2> QED
    BY <2>1, <2>2, QuietThreads, AsksWorkers
<1> QED
  BY <1>1, <1>4

-----------------------------------------------------------------------------
(* The invariant                                                           *)

Proxies == ProxyInv /\ OneProxy /\ Stalls /\ InHand /\ Apart /\ Parents /\ Rest

GuiInv == Proxies /\ Tasks /\ GuiShape /\ Threads

LEMMA GuiInvInit == GuiInit => GuiInv
<1> SUFFICES ASSUME GuiInit PROVE GuiInv
  OBVIOUS
<1>1. ProxyInv /\ InHand /\ Apart /\ Tasks /\ Parents /\ Rest /\ \A d \in Data : Untouched(d)
  BY ProxyInvInit, TasksInit, ParentsInit, RestInit DEF GuiInit
<1>2. OneProxy
  BY DEF GuiInit, WorkerInit, OneProxy
<1>3. Stalls
  BY TheProxyQueue DEF GuiInit, Init, Stalls, OwnEvent, NoSilentStall, Serving, Found
<1>4. /\ slavesLock = NoThread /\ requests = {} /\ signalled = {}
      /\ msg = [t \in Sender |-> [pc |-> "idle", try |-> 1, id |-> 0, status |-> "NONE"]]
  BY DEF GuiInit, Init
<1>5. GuiShape
  BY <1>4, ServerFacts DEF GuiShape, MsgState
<1>6. Threads
  <2>1. ASSUME NEW t \in Sender PROVE OwnRequest(t)
    <3>1. msg[t].pc = "idle" /\ msg[t].try = 1 /\ msg[t].status = "NONE"
      BY <1>4
    <3>2. Untouched(Mine(t)) /\ Untouched(<<t, 2>>)
      BY <1>1, <1>5, MineFacts
    <3> QED
      BY <3>1, <3>2 DEF OwnRequest
  <2>2. OwnEvents /\ InTurn
    BY <1>4 DEF OwnEvents, InTurn
  <2>3. Locked
    BY <1>4, GuiFacts DEF Locked
  <2> QED
    BY <2>1, <2>2, <2>3 DEF Threads, Sent
<1> QED
  BY <1>1, <1>2, <1>3, <1>5, <1>6 DEF GuiInv, Proxies

LEMMA GuiInvStep ==
    ASSUME GuiInv, [GuiNext]_allVars
    PROVE  GuiInv' /\ [Next]_vars
<1> USE DEF GuiInv, Proxies
<1>0. TypeOK /\ ProxyShape
  BY DEF ProxyInv, IInv
<1>1. CASE Machine /\ UNCHANGED guiVars
  <2>1. ProxyInv' /\ [Next]_vars
    BY <1>1, MachineKeeps
  <2>2. TypeOK'
    BY <2>1 DEF ProxyInv, IInv
  <2>3. OneProxy' /\ Stalls' /\ InHand' /\ Apart' /\ Tasks' /\ Parents' /\ Rest'
    BY <1>0, <1>1, <2>2, MachineOneProxy, MachineStalls, MachineJobs, MachineTasks, MachineParents,
       MachineRest
  <2>4. GuiShape'
    BY <1>1 DEF GuiShape, guiVars
  <2> QED
    BY <1>1, <2>1, <2>3, <2>4, MachineThreads
<1>2. CASE Asks
  <2>1. [Next]_vars
    BY <1>2, AsksUseQueue
  <2>2. ProxyInv'
    BY <1>0, <1>2, <2>1, IInvStep, AsksProxyShape DEF ProxyInv
  <2>3. OneProxy' /\ Stalls'
    BY <1>2, AsksView, OutsideOneProxy, OutsideStalls
  <2>4. InHand' /\ Apart'
    BY <1>2, <2>1, <2>2, OutsideJobs, AsksWorkers DEF ProxyInv, workerVars
  <2>5. Parents' /\ Rest'
    BY <1>0, <1>2, AsksParents
  <2> QED
    BY <1>2, <2>1, <2>2, <2>3, <2>4, <2>5, AsksShape, AsksThreads
<1>3. CASE UNCHANGED allVars
  <2>1. UNCHANGED <<vars, workerVars, startVars, guiVars>>
    BY <1>3 DEF allVars
  <2>2. [Next]_vars
    BY <2>1
  <2>3. ProxyInv'
    BY <1>0, <2>1, <2>2, IInvStep, BornStep
       DEF ProxyInv, ProxyShape, WorkerShape, StartShape, workerVars, startVars
  <2>4. OneProxy' /\ Stalls'
    BY <2>1 DEF vars, workerVars, Stalls, OwnEvent, NoSilentStall, Serving, Found, ServerActive, Waiting,
                QueueEvent, Self, OneProxy
  <2>5. InHand' /\ Apart'
    BY <2>1, <2>2, <2>3, OutsideJobs DEF ProxyInv, workerVars
  <2>6. Tasks'
    BY <2>1, QuietTasks DEF vars, workerVars
  <2>7. Parents' /\ Rest'
    BY <2>1 DEF vars, workerVars, startVars, Parents, ListedOnce, OwnChild, Past, At, Rest
  <2>8. GuiShape' /\ Threads'
    BY <2>1 DEF vars, workerVars, guiVars, GuiShape, Threads, Sent, OwnEvents, OwnRequest, Untouched,
                Absent, Mine, Locked, InTurn, Calm
  <2> QED
    BY <2>2, <2>3, <2>4, <2>5, <2>6, <2>7, <2>8
<1> QED
  BY <1>1, <1>2, <1>3, GuiCases

LEMMA GuiInductive == GuiSpec => []GuiInv
BY GuiInvInit, GuiInvStep, PTL DEF GuiSpec

-----------------------------------------------------------------------------
(* The threads of the service, too, drive the queue service as Spec says:  *)
(* whatever QueueServerProofs proves of Spec holds while they start        *)
(* proxies, send messages and give up waiting.                             *)
THEOREM MessagesUseTheQueue == GuiSpec => Spec
<1>1. GuiInit => Init
  BY DEF GuiInit
<1>2. ASSUME GuiInv, [GuiNext]_allVars PROVE [Next]_vars
  BY <1>2, GuiInvStep
<1> QED
  BY <1>1, <1>2, GuiInductive, PTL DEF GuiSpec, Spec

(* SendMessageToSlave returns STATUS_SUCCESS only when the callback of the *)
(* proxy ran this very message, the first or the second one, whoever else  *)
(* waits for m_QueueEvent, takes its wake-up or left a late answer behind. *)
(* The types of the whole composition come with it.                        *)
THEOREM SuccessIsDone == GuiSpec => []SuccessMeansDone
<1>1. GuiInv => SuccessMeansDone
  <2> SUFFICES ASSUME GuiInv PROVE SuccessMeansDone
    OBVIOUS
  <2>1. GuiTypeOK
    BY TypesOfProxies DEF GuiInv, Proxies, GuiTypeOK, GuiShape
  <2>2. ASSUME NEW t \in Sender, msg[t].status = "SUCCESS" PROVE ran[Mine(t)] > 0
    <3>1. ran[Mine(t)] = 1
      BY <2>2 DEF GuiInv, Threads, Sent, OwnRequest
    <3> QED
      BY <3>1
  <2> QED
    BY <2>1, <2>2 DEF SuccessMeansDone
<1> QED
  BY <1>1, GuiInductive, PTL

(* No message is carried out twice, although the pids, the callbacks and   *)
(* the proxies that handle it come and go; and InitProcess sends a second  *)
(* one only when nobody has the first any more.                            *)
THEOREM NothingDoneTwice == GuiSpec => []DoneOnce
<1>1. GuiInv => DoneOnce
  <2> SUFFICES ASSUME GuiInv PROVE DoneOnce
    OBVIOUS
  <2>1. \A d \in Message : ran[d] <= 1
    BY SenderAssumption DEF GuiInv, Tasks, RunOnce
  <2>2. ASSUME NEW t \in Initer, msg[t].try = 2 PROVE ~ InProxy(<<t, 1>>)
    <3>1. Absent(<<t, 1>>)
      BY <2>2, GuiFacts DEF GuiInv, Threads, Sent, OwnRequest
    <3> QED
      BY <3>1 DEF Absent, InProxy, Callback, Busy
  <2> QED
    BY <2>1, <2>2 DEF DoneOnce
<1> QED
  BY <1>1, GuiInductive, PTL

(* While every sender holds m_SlavesLock and no wait has timed out, a      *)
(* thread that m_QueueEvent woke finds its reply: one event is enough for  *)
(* any number of threads.                                                  *)
THEOREM LockedSendersInTurn == GuiSpec => []WokenInTurn
<1>1. GuiInv => WokenInTurn
  <2> SUFFICES ASSUME GuiInv, Calm, NEW t \in Sender, msg[t].pc = "collect",
                      NEW r \in WithId(ProxyQueue, msg[t].id)
               PROVE  r.rpl # NoData
    BY DEF WokenInTurn, WokenByReply, Calm
  <2>1. r \in requests /\ r.id = msg[t].id
    BY DEF WithId
  <2>2. r.data = Mine(t) /\ r.data[1] = t
    BY <2>1, MineFacts DEF GuiInv, Threads, Sent, OwnRequest
  <2> QED
    BY <2>1, <2>2 DEF GuiInv, Threads, InTurn
<1> QED
  BY <1>1, GuiInductive, PTL

(* The proxies the service messages are those that programs call: a proxy  *)
(* that passed CreateQueueWorker owns the queue, its wake-up is not lost,  *)
(* and no two callbacks have one request in hand.                          *)
THEOREM ProxiesOfTheService == GuiSpec => [](OneProxy /\ NoSilentStall /\ OneCallbackEach)
<1>1. GuiInv => OneProxy /\ NoSilentStall /\ OneCallbackEach
  BY ApartCallbacks DEF GuiInv, Proxies, Stalls
<1> QED
  BY <1>1, GuiInductive, PTL
=============================================================================
