----------------------------- MODULE PortServer -----------------------------
(***************************************************************************)
(* How a program calls SbieSvc, on both sides of the LPC port: the client  *)
(* (SbieDll_CallServer in core/dll/callsvc.c) and the pool of threads that *)
(* serve the port (core/svc/PipeServer.cpp).  A port message is short, so  *)
(* requests and replies travel in parts: while the service collects a      *)
(* request it acknowledges every part with an empty reply, and while it    *)
(* replies every further part has to be asked for.                         *)
(*                                                                         *)
(* The service keeps a structure for every client thread, found by the     *)
(* process and thread ids in the message.  in_use keeps a structure from   *)
(* being freed under the thread that works with it.  When the last thread  *)
(* of a process is gone, every target is notified that the process ended;  *)
(* QueueServer is one of the targets.                                      *)
(***************************************************************************)
EXTENDS Naturals, FiniteSets, SequencesExt

CONSTANTS
    Client, Pid,    (* thread ids, and process ids                         *)
    Owner,          (* the pid of the process with each thread id          *)
    Worker,         (* the threads that serve the port                     *)
    NoWorker, NoClient,
    Chunks, Pieces, (* lengths of requests and replies, in port messages   *)
    MayFail,        (* whether allocations and system calls may fail       *)
    MaxStarts,      (* bound: threads started, all told                    *)
    MaxConns,       (* bound: connections                                  *)
    MaxCalls        (* bound: calls, all told                              *)

ASSUME PortAssumption ==
    /\ Owner \in [Client -> Pid]
    /\ Client # {} /\ IsFiniteSet(Client)
    /\ NoWorker \notin Worker
    /\ Chunks \subseteq Nat \ {0} /\ Pieces \subseteq Nat \ {0}
    /\ MayFail \in BOOLEAN
    /\ MaxStarts \in Nat /\ MaxConns \in Nat /\ MaxCalls \in Nat

VARIABLES
    alive,      (* the threads that run                                    *)
    starts,     (* how many threads were started                           *)
    born,       (* create times of the processes; 0: never started         *)
    user,       (* where each client thread is in SbieDll_CallServer       *)
    conns,      (* the connections ever asked for, and their two ends      *)
    inbox,      (* the message queue of the port                           *)
    worker,     (* where each thread of the service is                     *)
    lock,       (* the owner of m_lock                                     *)
    process,    (* m_client_map: create times; NoClient: not in the map    *)
    client,     (* the thread maps: the structure of each client thread    *)
    done,       (* history: how often the handler ran for each call        *)
    outcome,    (* history: the reply each call returned, or NULL          *)
    lost,       (* history: threads that ended while they were connecting  *)
    crossed     (* a message met the structure of another connection       *)

world   == <<alive, starts, born>>
tables  == <<process, client>>
history == <<lost, crossed>>
results == <<done, outcome>>
vars    == <<alive, starts, born, user, conns, inbox, worker, lock, process, client,
             done, outcome, lost, crossed>>

-----------------------------------------------------------------------------
(* Types                                                                   *)

ThisCall == Client \X (1 .. MaxCalls)
Conn     == 0 .. MaxConns

(* Part 0 asks for the next part of a reply. *)
Part  == (0 .. MaxCalls) \X Nat
Reply == [part : Part, length : Nat]
Empty == [part |-> <<0, 0>>, length |-> 0]

Message == [type : {"connect", "request", "died", "closed"}, thread : Client, conn : Conn,
            part : Part, length : Nat, time : Nat]

User == [pc : {"idle", "connect", "connected", "send", "wait"}, conn : Conn,
         registered : BOOLEAN, n : 0 .. MaxCalls, length : Nat, i : Nat, got : Seq(Part)]

NULL == <<<<0, 0>>>>

Idle(n) == [pc |-> "idle", conn |-> 0, registered |-> FALSE, n |-> n,
            length |-> 0, i |-> 0, got |-> << >>]

(* buf holds the parts of the message at buf_hdr, whose length is `length` *)
(* (0 when buf_hdr is NULL); ptr counts the parts already sent.            *)
ClientThread == [hPort : Conn, in_use : BOOLEAN, replying : BOOLEAN,
                 buf : Seq(Part), length : Nat, ptr : Nat]

Fresh == [hPort |-> 0, in_use |-> FALSE, replying |-> FALSE,
          buf |-> << >>, length |-> 0, ptr |-> 0]

ASSUME SentinelAssumption ==
    NoClient \notin Nat /\ NoClient \notin ClientThread

NoMessage == [type |-> "request", thread |-> CHOOSE t \in Client : TRUE, conn |-> 0,
              part |-> <<0, 0>>, length |-> 0, time |-> 0]

Free == [pc |-> "receive", msg |-> NoMessage, out |-> Empty]

PortTypeOK ==
    /\ alive \subseteq Client
    /\ starts \in 0 .. MaxStarts
    /\ born \in [Pid -> Nat]
    /\ user \in [Client -> User]
    /\ conns \in Seq([thread : Client, client : BOOLEAN, server : BOOLEAN]) /\ Len(conns) <= MaxConns
    /\ inbox \in Seq(Message)
    /\ worker \in [Worker -> [pc : {"receive", "connect", "evict", "find", "request", "call",
                                    "misled", "finish", "reply", "died", "closed", "remove"},
                              msg : Message, out : Reply]]
    /\ lock \in Worker \cup {NoWorker}
    /\ process \in [Pid -> Nat \cup {NoClient}]
    /\ client \in [Client -> ClientThread \cup {NoClient}]
    /\ \A t \in Client :
          client[t] # NoClient =>
              /\ Len(client[t].buf) <= client[t].length
              /\ client[t].length > 0 => client[t].ptr < client[t].length
    /\ done \in [ThisCall -> Nat]
    /\ outcome \in [ThisCall -> Seq(Part)]
    /\ lost \subseteq Client
    /\ crossed \in BOOLEAN

Threads(p)   == {t \in Client : Owner[t] = p}
Running(p)   == Threads(p) \cap alive # {}
Connected(p) == {t \in Threads(p) : client[t] # NoClient}

(* The port of a structure, 0 when there is none. *)
Port(t) == IF client[t] = NoClient THEN 0 ELSE client[t].hPort

Msg(type, t, c, part, length) ==
    [type |-> type, thread |-> t, conn |-> c, part |-> part, length |-> length,
     time |-> born[Owner[t]]]

-----------------------------------------------------------------------------
(* Threads and processes of the clients                                    *)

StartThread(t) ==
    /\ t \notin alive
    /\ starts < MaxStarts
    /\ alive' = alive \cup {t}
    /\ starts' = starts + 1
    /\ born' = IF Running(Owner[t]) THEN born ELSE [born EXCEPT ![Owner[t]] = @ + 1]
    /\ UNCHANGED <<user, conns, inbox, worker, lock, tables, results, history>>

(* What is left of q when it keeps the places in S, in their order: a set  *)
(* with one member.                                                        *)
Keeping(q, S) ==
    LET n == Cardinality(S)
        order == {f \in [1 .. n -> S] : \A i, j \in 1 .. n : i < j => f[i] < f[j]}
    IN {[i \in 1 .. n |-> q[f[i]]] : f \in order}

(* A thread ends, or the whole process.  Windows takes back the requests   *)
(* of the threads that nobody has received, tells the port of each thread  *)
(* that it died (NtRegisterThreadTerminatePort), and tells the port of     *)
(* each handle of the process that it was closed.                          *)
End(S, p) ==
    LET whole == S = Threads(p) \cap alive
        dead  == {t \in S : user[t].registered}
        shut  == {c \in DOMAIN conns : whole /\ conns[c].client /\ Owner[conns[c].thread] = p}
        left  == {i \in DOMAIN inbox : ~ (inbox[i].type = "request" /\ inbox[i].thread \in S)}
    IN
    /\ alive' = alive \ S
    /\ \E kept \in Keeping(inbox, left),
          deaths \in SetToSeqs({Msg("died", t, 0, <<0, 0>>, 0) : t \in dead}),
          closings \in SetToSeqs({Msg("closed", conns[c].thread, c, <<0, 0>>, 0) : c \in shut}) :
             inbox' = kept \o deaths \o closings
    /\ conns' = [c \in DOMAIN conns |-> [conns[c] EXCEPT !.client = @ /\ c \notin shut]]
    /\ user' = [t \in Client |-> IF t \in S THEN Idle(user[t].n) ELSE user[t]]
    /\ lost' = lost \cup {t \in S : user[t].pc \in {"connect", "connected"}}
    /\ UNCHANGED <<starts, born, worker, lock, tables, results, crossed>>

EndThread(t) ==
    /\ t \in alive
    /\ End({t}, Owner[t])

EndProcess(p) ==
    /\ Running(p)
    /\ End(Threads(p) \cap alive, p)

-----------------------------------------------------------------------------
(* SbieDll_CallServer                                                      *)

(* The calls that were made. *)
Asked == {d \in ThisCall : user[d[1]].n >= d[2]}

At(t, pc) == t \in alive /\ user[t].pc = pc

(* A call without a connection connects first (SbieDll_ConnectPort).       *)
BeginCall(t) ==
    /\ At(t, "idle")
    /\ Cardinality(Asked) < MaxCalls
    /\ \E length \in Chunks :
          LET call == [user[t] EXCEPT !.n = @ + 1, !.length = length, !.i = 1, !.got = << >>] IN
          \/ /\ user[t].conn # 0
             /\ user' = [user EXCEPT ![t] = [call EXCEPT !.pc = "send"]]
             /\ UNCHANGED <<conns, inbox>>
          \/ /\ user[t].conn = 0
             /\ Len(conns) < MaxConns
             /\ conns' = Append(conns, [thread |-> t, client |-> FALSE, server |-> FALSE])
             /\ inbox' = Append(inbox, Msg("connect", t, Len(conns'), <<0, 0>>, 0))
             /\ user' = [user EXCEPT ![t] = [call EXCEPT !.pc = "connect", !.conn = Len(conns')]]
    /\ UNCHANGED <<world, worker, lock, tables, results, history>>

Register(t) ==
    /\ At(t, "connected")
    /\ user' = [user EXCEPT ![t].pc = "send", ![t].registered = TRUE]
    /\ UNCHANGED <<world, conns, inbox, worker, lock, tables, results, history>>

(* NtRequestWaitReplyPort, with the next part of the request, or with an   *)
(* empty message that asks for the next part of the reply.                 *)
Send(t) ==
    /\ At(t, "send")
    /\ conns[user[t].conn].server
    /\ inbox' = Append(inbox, Msg("request", t, user[t].conn, <<user[t].n, user[t].i>>, user[t].length))
    /\ user' = [user EXCEPT ![t].pc = "wait"]
    /\ UNCHANGED <<world, conns, worker, lock, tables, results, history>>

(* The status is a failure: the service has closed its end, or Windows     *)
(* could not send.  The client closes its handle and returns NULL.         *)
Abandon(t) ==
    /\ \/ At(t, "send") /\ (MayFail \/ ~ conns[user[t].conn].server)
       \/ At(t, "wait") /\ ~ conns[user[t].conn].server
    /\ conns' = [conns EXCEPT ![user[t].conn].client = FALSE]
    /\ inbox' = Append(inbox, Msg("closed", t, user[t].conn, <<0, 0>>, 0))
    /\ user' = [user EXCEPT ![t] = [Idle(@.n) EXCEPT !.registered = user[t].registered]]
    /\ outcome' = [outcome EXCEPT ![<<t, user[t].n>>] = NULL]
    /\ UNCHANGED <<world, worker, lock, tables, done, history>>

(* The end of SbieDll_CallServer.  The connection stays.                   *)
Return(t, reply) ==
    /\ user' = [user EXCEPT ![t].pc = "idle", ![t].length = 0, ![t].i = 0, ![t].got = << >>]
    /\ outcome' = [outcome EXCEPT ![<<t, user[t].n>>] = reply]

Continue(t, i, got) ==
    /\ user' = [user EXCEPT ![t].pc = "send", ![t].i = i, ![t].got = got]
    /\ UNCHANGED outcome

(* What the client does with an answer.  An empty one lets it go on while  *)
(* it sends its request.  A reply before the whole request was sent, none  *)
(* after that, and a reply with the sequence number of another call end    *)
(* the call.                                                               *)
Understand(t, out) ==
    LET u   == user[t]
        got == Append(u.got, out.part)
    IN
    IF u.i \in 1 .. u.length - 1
    THEN IF out = Empty THEN Continue(t, u.i + 1, << >>) ELSE Return(t, NULL)
    ELSE IF out = Empty \/ got[1] # <<u.n, 1>> THEN Return(t, NULL)
    ELSE IF Len(got) = out.length THEN Return(t, got)
    ELSE Continue(t, 0, got)

-----------------------------------------------------------------------------
(* PipeServer::Thread                                                      *)

Does(w, pc) == worker[w].pc = pc

Goto(w, pc) == worker' = [worker EXCEPT ![w].pc = pc]

Done(w) == worker' = [worker EXCEPT ![w] = Free]

Receive(w) ==
    /\ Does(w, "receive")
    /\ inbox # << >>
    /\ LET m == Head(inbox) IN
       worker' = [worker EXCEPT ![w] =
           [pc |-> IF m.type = "request" THEN "find" ELSE m.type, msg |-> m, out |-> Empty]]
    /\ inbox' = Tail(inbox)
    /\ UNCHANGED <<world, user, conns, lock, tables, results, history>>

(* NtAcceptConnectPort.  It fails when the client does not wait any more,  *)
(* which goes unnoticed: the structure stays, without a port.              *)
Accept(m) ==
    LET t == m.thread
        ok == At(t, "connect") /\ user[t].conn = m.conn
        c == IF ok THEN m.conn ELSE 0
    IN
    /\ client' = [client EXCEPT ![t] = [Fresh EXCEPT !.hPort = c]]
    /\ conns' = [i \in DOMAIN conns |->
                    IF i = c THEN [conns[i] EXCEPT !.client = TRUE, !.server = TRUE]
                    ELSE IF i = Port(t)
                    THEN [conns[i] EXCEPT !.server = FALSE]
                    ELSE conns[i]]
    /\ user' = IF ok THEN [user EXCEPT ![t].pc = "connected"] ELSE user

(* The pool is exhausted: the connection is rejected, and the call returns *)
(* NULL.                                                                   *)
Reject(m) ==
    LET t == m.thread IN
    /\ IF At(t, "connect") /\ user[t].conn = m.conn
       THEN /\ user' = [user EXCEPT ![t] = [Idle(@.n) EXCEPT !.registered = user[t].registered]]
            /\ outcome' = [outcome EXCEPT ![<<t, user[t].n>>] = NULL]
       ELSE UNCHANGED <<user, outcome>>
    /\ UNCHANGED <<conns, client>>

(* PortConnect.  The structure of the process remembers the create time of *)
(* the process that has the pid now.  A previous connection is closed once *)
(* no thread works with it (Evict).                                        *)
PortConnect(w) ==
    LET m == worker[w].msg
        p == Owner[m.thread]
        made == [process EXCEPT ![p] =
                    IF @ # NoClient THEN @ ELSE IF Running(p) THEN born[p] ELSE 0]
    IN
    /\ Does(w, "connect") /\ lock = NoWorker
    /\ \/ /\ Port(m.thread) = 0
          /\ process' = made
          /\ Accept(m)
          /\ Done(w)
          /\ UNCHANGED <<lock, outcome>>
       \/ /\ MayFail /\ client[m.thread] = NoClient
          /\ process' \in {process, made}
          /\ Reject(m)
          /\ Done(w)
          /\ UNCHANGED lock
       \/ /\ Port(m.thread) # 0
          /\ lock' = w
          /\ Goto(w, "evict")
          /\ UNCHANGED <<user, conns, tables, outcome>>
    /\ UNCHANGED <<world, inbox, done, history>>

Evict(w) ==
    /\ Does(w, "evict")
    /\ ~ client[worker[w].msg.thread].in_use
    /\ Accept(worker[w].msg)
    /\ lock' = NoWorker
    /\ Done(w)
    /\ UNCHANGED <<world, inbox, process, results, history>>

BugPortFindClient(w) ==
    LET t == worker[w].msg.thread IN
    /\ Does(w, "find") /\ lock = NoWorker
    /\ IF client[t] = NoClient
       THEN Done(w) /\ UNCHANGED crossed
       ELSE /\ crossed' = (client[t].hPort # worker[w].msg.conn)
            /\ Goto(w, IF client[t].replying THEN "finish" ELSE "request")
    /\ UNCHANGED <<world, user, conns, inbox, lock, tables, results, lost>>

(* The structure is found by process and thread id, whatever connection    *)
(* the message came from.  A message without a structure is dropped.       *)
PortFindClient(w) ==
    LET t == worker[w].msg.thread IN
    /\ Does(w, "find") /\ lock = NoWorker
    /\ IF client[t] = NoClient
       THEN Done(w) /\ UNCHANGED <<client, crossed>>
       ELSE /\ client' = [client EXCEPT ![t].in_use = TRUE]
            /\ crossed' = (client[t].hPort # worker[w].msg.conn)
            /\ Goto(w, IF client[t].replying THEN "finish" ELSE "request")
    /\ UNCHANGED <<world, user, conns, inbox, lock, process, results, lost>>

(* PortRequest, up to the call of the target.  The first part of a request *)
(* tells its length.  Without memory, or with a part that exceeds that     *)
(* length, there is an empty reply.                                        *)
Refused(t) ==
    [client EXCEPT ![t].buf = << >>, ![t].length = 0, ![t].ptr = 0, ![t].replying = TRUE]

Collect(t, part, length) ==
    [client EXCEPT ![t].buf = Append(@, part), ![t].length = length]

(* Nothing tells a first part from a later one: whatever part finds no     *)
(* buffer is read as the header of a request, and its bytes, which are not *)
(* modelled, decide whether that is refused or believed.  A later part     *)
(* finds none after its predecessor was refused, because the client takes  *)
(* the empty reply for an acknowledgement.                                 *)
PortRequest(w) ==
    LET m == worker[w].msg
        s == client[m.thread]
        length == IF s.length = 0 THEN m.length ELSE s.length
        later == s.length = 0 /\ m.part[2] # 1
        fits == Len(s.buf) + 1 <= length
    IN
    /\ Does(w, "request")
    /\ \/ /\ ~ later /\ fits
          /\ client' = Collect(m.thread, m.part, length)
          /\ Goto(w, IF Len(s.buf) + 1 = length THEN "call" ELSE "finish")
       \/ /\ later \/ ~ fits \/ (MayFail /\ s.length = 0)
          /\ client' = Refused(m.thread)
          /\ Goto(w, "finish")
       \/ /\ later
          /\ \E believed \in Chunks : client' = Collect(m.thread, m.part, believed)
          /\ Goto(w, "misled")
    /\ UNCHANGED <<world, user, conns, inbox, lock, process, results, history>>

(* The handler of the target runs, for as long as it takes.                *)
CallTarget(w) ==
    LET t == worker[w].msg.thread
        n == client[t].buf[1][1]
    IN
    /\ Does(w, "call")
    /\ done' = [done EXCEPT ![<<t, n>>] = @ + 1]
    /\ \/ \E k \in Pieces :
             client' = [client EXCEPT ![t].buf = [i \in 1 .. k |-> <<n, i>>], ![t].length = k,
                                      ![t].ptr = 0, ![t].replying = TRUE]
       \/ MayFail /\ client' = Refused(t)
    /\ Goto(w, "finish")
    /\ UNCHANGED <<world, user, conns, inbox, lock, process, outcome, history>>

(* What PortReply leaves in the structure: the message is freed with its   *)
(* last part.                                                              *)
BugUnmoved(s) ==
    IF s.ptr + 1 >= s.length THEN [Fresh EXCEPT !.hPort = s.hPort] ELSE s

Replied(s) ==
    IF s.ptr + 1 >= s.length THEN [Fresh EXCEPT !.hPort = s.hPort] ELSE [s EXCEPT !.ptr = @ + 1]

(* PortReply sends the next part of the reply, if there is one; the        *)
(* structure is released.                                                  *)
PortReply(w) ==
    LET t == worker[w].msg.thread
        s == client[t]
    IN
    /\ Does(w, "finish")
    /\ client' = [client EXCEPT ![t] = [IF s.replying THEN Replied(s) ELSE s EXCEPT !.in_use = FALSE]]
    /\ worker' = [worker EXCEPT ![w].pc = "reply",
          ![w].out = IF s.replying /\ s.length > 0
                     THEN [part |-> s.buf[s.ptr + 1], length |-> s.length] ELSE Empty]
    /\ UNCHANGED <<world, user, conns, inbox, lock, process, results, history>>

(* NtReplyWaitReceivePort sends the answer, which is for nobody when the   *)
(* connection was closed.                                                  *)
SendReply(w) ==
    LET m == worker[w].msg IN
    /\ Does(w, "reply")
    /\ IF At(m.thread, "wait") /\ user[m.thread].conn = m.conn /\ conns[m.conn].server
       THEN Understand(m.thread, worker[w].out)
       ELSE UNCHANGED <<user, outcome>>
    /\ Done(w)
    /\ UNCHANGED <<world, conns, inbox, lock, tables, done, history>>

(* PortDisconnectHelper, for the structure of thread t or for none.  It    *)
(* waits under the lock until nobody works with the structure (Discard).    *)
Forget(w, p) ==
    /\ process' = IF Connected(p) = {} THEN [process EXCEPT ![p] = NoClient] ELSE process
    /\ Done(w)
    /\ UNCHANGED <<client, conns, lock>>

Await(w, t) ==
    /\ lock' = w
    /\ worker' = [worker EXCEPT ![w].pc = "remove", ![w].msg.thread = t]
    /\ UNCHANGED <<tables, conns>>

BugPortDisconnect(w) ==
    LET t == worker[w].msg.thread IN
    /\ Does(w, "died") /\ lock = NoWorker
    /\ IF client[t] = NoClient THEN Forget(w, Owner[t])
       ELSE IF client[t].in_use THEN Done(w) /\ UNCHANGED <<tables, conns, lock>>
       ELSE Await(w, t)
    /\ UNCHANGED <<world, user, inbox, results, history>>

(* LPC_CLIENT_DIED names the thread.                                       *)
PortDisconnect(w) ==
    LET t == worker[w].msg.thread IN
    /\ Does(w, "died") /\ lock = NoWorker
    /\ IF client[t] = NoClient THEN Forget(w, Owner[t]) ELSE Await(w, t)
    /\ UNCHANGED <<world, user, inbox, results, history>>

(* LPC_PORT_CLOSED has but the create time of the process.  One thread     *)
(* that cannot be opened any more is taken for the one meant; a thread     *)
(* that is about to end may still be opened.                               *)
PortDisconnectByCreateTime(w) ==
    /\ Does(w, "closed") /\ lock = NoWorker
    /\ LET found == {p \in Pid : process[p] = worker[w].msg.time} IN
       IF found = {}
       THEN Done(w) /\ UNCHANGED <<tables, conns, lock>>
       ELSE \E p \in found :
               \/ Forget(w, p)
               \/ \E t \in Connected(p) \ alive : Await(w, t)
    /\ UNCHANGED <<world, user, inbox, results, history>>

(* The structure is freed, and the port closed.  With the last structure   *)
(* of a process the targets are notified that it ended.                    *)
Discard(w) ==
    LET t == worker[w].msg.thread
        p == Owner[t]
    IN
    /\ Does(w, "remove")
    /\ ~ client[t].in_use
    /\ client' = [client EXCEPT ![t] = NoClient]
    /\ conns' = [c \in DOMAIN conns |-> [conns[c] EXCEPT !.server = @ /\ c # Port(t)]]
    /\ process' = IF Connected(p) = {t} THEN [process EXCEPT ![p] = NoClient] ELSE process
    /\ lock' = NoWorker
    /\ Done(w)
    /\ UNCHANGED <<world, user, inbox, results, history>>

-----------------------------------------------------------------------------
Init ==
    /\ alive = {}
    /\ starts = 0 /\ born = [p \in Pid |-> 0]
    /\ user = [t \in Client |-> Idle(0)]
    /\ conns = << >> /\ inbox = << >>
    /\ worker = [w \in Worker |-> Free]
    /\ lock = NoWorker
    /\ process = [p \in Pid |-> NoClient] /\ client = [t \in Client |-> NoClient]
    /\ done = [d \in ThisCall |-> 0] /\ outcome = [d \in ThisCall |-> << >>]
    /\ lost = {} /\ crossed = FALSE

UserStep(t) ==
    \/ StartThread(t)
    \/ EndThread(t)
    \/ BeginCall(t)
    \/ Register(t)
    \/ Send(t)
    \/ Abandon(t)

WorkerStep(w) ==
    \/ Receive(w)
    \/ PortConnect(w)
    \/ Evict(w)
    \/ PortFindClient(w)
    \/ PortRequest(w)
    \/ CallTarget(w)
    \/ PortReply(w)
    \/ SendReply(w)
    \/ PortDisconnect(w)
    \/ PortDisconnectByCreateTime(w)
    \/ Discard(w)

(* The model says nothing of what follows when a message of one connection *)
(* has met the structure of another one (two threads may then work with it *)
(* at a time), or when a later part of a request was believed to begin one *)
(* (what is collected, and handed to a target, is then no request that was *)
(* ever made).                                                             *)
Astray == crossed \/ \E w \in Worker : Does(w, "misled")

Next ==
    /\ ~ Astray
    /\ \/ \E t \in Client : UserStep(t)
       \/ \E p \in Pid : EndProcess(p)
       \/ \E w \in Worker : WorkerStep(w)

Spec == Init /\ [][Next]_vars

(* The threads of the service are scheduled, and handlers return.          *)
FairSpec == Spec /\ \A w \in Worker : WF_vars(~ Astray /\ WorkerStep(w))

-----------------------------------------------------------------------------
(* Properties                                                              *)

(* The thread that executes a request works with the structure of the      *)
(* connection the request came from, which nobody frees or reuses          *)
(* meanwhile (in_use), so the targets are never told that a process ended  *)
(* while a request of it is being handled; and what it hands to the target *)
(* is the parts of one request, in order.  This is so until the service    *)
(* goes Astray: the bytes of a later part that was believed to begin a     *)
(* request are handed to a target too, and no property covers that.        *)
InUse ==
    /\ PortTypeOK
    /\ \A w \in Worker :
           LET m == worker[w].msg IN
           Does(w, "request") \/ Does(w, "call") \/ Does(w, "finish") =>
               /\ process[Owner[m.thread]] # NoClient
               /\ client[m.thread] # NoClient
               /\ client[m.thread].in_use
               /\ crossed \/ client[m.thread].hPort = m.conn
               /\ Does(w, "call") =>
                     LET s == client[m.thread] IN
                     s.buf = [i \in 1 .. s.length |-> <<m.part[1], i>>]

(* SbieDll_CallServer promises what RemoteCall says: the handler runs at   *)
(* most once for a call, and a reply is the whole reply of the handler to  *)
(* this call, whatever became of connections, threads and ids, until the   *)
(* service goes Astray.                                                    *)
Failed == <<0, 0>>
Wrong  == <<0, 1>>

AnswerOf(d) ==
    LET reply == outcome[d] IN
    IF reply = NULL THEN Failed
    ELSE IF \A i \in DOMAIN reply : reply[i] = <<d[2], i>> THEN d ELSE Wrong

Unanswered == <<0, 2>>

Remote == INSTANCE RemoteCall WITH
    Calls <- ThisCall, NoAnswer <- Unanswered, Failed <- Failed,
    asked <- Asked,
    done <- done,
    answer <- [d \in ThisCall |-> IF outcome[d] = << >> THEN Unanswered ELSE AnswerOf(d)]

RemoteSpec == Remote!Spec

(* A thread that has ended does not stay in the tables, unless it ended    *)
(* while it was connecting, or the service went Astray.                    *)
EndNoticed ==
    \A t \in Client :
        t \notin alive /\ client[t] # NoClient ~>
            (t \in alive \/ client[t] = NoClient \/ t \in lost \/ Astray)
=============================================================================
