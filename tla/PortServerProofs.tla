-------------------------- MODULE PortServerProofs --------------------------
(* What TLAPS proves of the LPC port server for any number of client       *)
(* threads, processes and serving threads, and any number and length of    *)
(* messages: a thread of the service works with the structure of the       *)
(* connection its request came over, and what SbieDll_CallServer promises  *)
(* is what RemoteCall says.                                                *)
EXTENDS PortServer, SequenceTheorems, FiniteSetTheorems, TLAPS

-----------------------------------------------------------------------------
(* The parts of a message                                                  *)

Parts(n, k) == [j \in 1 .. k |-> <<n, j>>]

LEMMA PartsAre ==
    ASSUME NEW n \in 0 .. MaxCalls, NEW k \in Nat
    PROVE  /\ Parts(n, k) \in Seq(Part)
           /\ Len(Parts(n, k)) = k
           /\ \A j \in 1 .. k : Parts(n, k)[j] = <<n, j>>
<1>1. \A j \in 1 .. k : <<n, j>> \in Part
  BY DEF Part
<1>2. Parts(n, k) \in [1 .. k -> Part]
  BY <1>1 DEF Parts
<1> QED
  BY <1>2 DEF Parts

LEMMA NoParts ==
    ASSUME NEW n
    PROVE  Parts(n, 0) = << >>
BY DEF Parts

LEMMA PartsGrow ==
    ASSUME NEW n \in 0 .. MaxCalls, NEW k \in Nat
    PROVE  Append(Parts(n, k), <<n, k + 1>>) = Parts(n, k + 1)
<1>1. <<n, k + 1>> \in Part
  BY DEF Part
<1>0. Parts(n, k) \in Seq(Part) /\ Len(Parts(n, k)) = k
      /\ \A j \in 1 .. k : Parts(n, k)[j] = <<n, j>>
  BY PartsAre
<1>2. /\ Append(Parts(n, k), <<n, k + 1>>) \in Seq(Part)
      /\ Len(Append(Parts(n, k), <<n, k + 1>>)) = k + 1
      /\ \A j \in 1 .. k : Append(Parts(n, k), <<n, k + 1>>)[j] = Parts(n, k)[j]
      /\ Append(Parts(n, k), <<n, k + 1>>)[k + 1] = <<n, k + 1>>
  BY <1>0, <1>1, AppendProperties
<1>3. k + 1 \in Nat /\ Parts(n, k + 1) \in Seq(Part) /\ Len(Parts(n, k + 1)) = k + 1
      /\ \A j \in 1 .. k + 1 : Parts(n, k + 1)[j] = <<n, j>>
  <2>1. k + 1 \in Nat
    OBVIOUS
  <2> QED
    BY <2>1, PartsAre
<1>4. ASSUME NEW j \in 1 .. k + 1
      PROVE  Append(Parts(n, k), <<n, k + 1>>)[j] = Parts(n, k + 1)[j]
  <2>1. j \in 1 .. k \/ j = k + 1
    OBVIOUS
  <2> QED
    BY <1>0, <1>2, <1>3, <2>1
<1> QED
  BY <1>2, <1>3, <1>4, SeqEqual

LEMMA FirstPart ==
    ASSUME NEW n \in 0 .. MaxCalls
    PROVE  << <<n, 1>> >> = Parts(n, 1) /\ Append(<< >>, <<n, 1>>) = Parts(n, 1)
BY PartsGrow, NoParts DEF Parts

-----------------------------------------------------------------------------
(* Sequences and sets                                                      *)

(* What is kept of a sequence has its elements from there, in their order. *)
From(q, S, kept) ==
    \E f \in [1 .. Len(kept) -> S] :
       /\ \A i \in 1 .. Len(kept) : kept[i] = q[f[i]]
       /\ \A i, j \in 1 .. Len(kept) : i < j => f[i] < f[j]

LEMMA KeepingIs ==
    ASSUME NEW X, NEW q \in Seq(X), NEW S \in SUBSET (DOMAIN q), NEW kept \in Keeping(q, S)
    PROVE  kept \in Seq(X) /\ From(q, S, kept)
<1> DEFINE n == Cardinality(S)
<1>1. DOMAIN q = 1 .. Len(q) /\ Len(q) \in Nat /\ \A i \in DOMAIN q : q[i] \in X
  BY LenProperties, ElementOfSeq
<1>2. n \in Nat
  <2>1. IsFiniteSet(1 .. Len(q))
    BY <1>1, FS_Interval
  <2>2. IsFiniteSet(S)
    BY <1>1, <2>1, FS_Subset
  <2> QED
    BY <2>2, FS_CardinalityType
<1>3. PICK f \in [1 .. n -> S] : /\ \A i, j \in 1 .. n : i < j => f[i] < f[j]
                                 /\ kept = [i \in 1 .. n |-> q[f[i]]]
  BY DEF Keeping
<1> HIDE DEF n
<1>4. kept \in [1 .. n -> X]
  BY <1>1, <1>3
<1>5. kept \in Seq(X) /\ Len(kept) = n
  BY <1>2, <1>4
<1> QED
  BY <1>3, <1>5 DEF From

LEMMA SetToSeqsIs ==
    ASSUME NEW X, NEW S \in SUBSET X, IsFiniteSet(S), NEW q \in SetToSeqs(S)
    PROVE  q \in Seq(X) /\ \A i \in DOMAIN q : q[i] \in S
<1>1. Cardinality(S) \in Nat
  BY FS_CardinalityType
<1>2. q \in [1 .. Cardinality(S) -> S]
  BY DEF SetToSeqs
<1> QED
  BY <1>1, <1>2

-----------------------------------------------------------------------------
(* The requests on their way                                               *)

(* A thread of the service that works for a request.                       *)
Serves(w) == worker[w].pc \in {"request", "call", "finish", "reply"}
Busy(w)   == Does(w, "find") \/ Serves(w)
Holds(w)  == worker[w].pc \in {"request", "call", "finish"}

(* The requests in the message queue, those no structure was looked up for *)
(* yet, and all that were not answered.                                    *)
Sent   == {inbox[i] : i \in {j \in DOMAIN inbox : inbox[j].type = "request"}}
Coming == Sent \cup {worker[w].msg : w \in {v \in Worker : Does(v, "find")}}
Flying == Sent \cup {worker[w].msg : w \in {v \in Worker : Busy(v)}}

(* No two of them came over one connection: a client waits for an answer   *)
(* before it sends again.                                                  *)
Alone ==
    /\ \A i, j \in DOMAIN inbox :
          inbox[i].type = "request" /\ inbox[j].type = "request" /\ inbox[i].conn = inbox[j].conn => i = j
    /\ \A i \in DOMAIN inbox, w \in Worker :
          inbox[i].type = "request" /\ Busy(w) => inbox[i].conn # worker[w].msg.conn
    /\ \A v, w \in Worker : Busy(v) /\ Busy(w) /\ worker[v].msg.conn = worker[w].msg.conn => v = w

-----------------------------------------------------------------------------
(* The inductive invariant                                                 *)

PortOf(s) == IF s = NoClient THEN 0 ELSE s.hPort

(* Both ends of a connection agree on the thread it belongs to.            *)
Wired ==
    /\ \A t \in Client :
          user[t].conn # 0 => user[t].conn \in DOMAIN conns /\ conns[user[t].conn].thread = t
    /\ \A t \in Client :
          PortOf(client[t]) # 0 =>
             /\ PortOf(client[t]) \in DOMAIN conns
             /\ conns[PortOf(client[t])].thread = t
             /\ conns[PortOf(client[t])].server
    /\ \A c \in DOMAIN conns : conns[c].server => PortOf(client[conns[c].thread]) = c

(* Where a client thread is with its call u.                               *)
Asking(u) ==
    /\ u.pc \in {"connect", "connected"} => u.i = 1 /\ u.got = << >>
    /\ u.pc # "idle" => u.conn # 0 /\ u.n > 0 /\ u.length > 0 /\ u.i <= u.length
    /\ u.pc \in {"send", "wait"} =>
          IF u.i = 0 THEN Len(u.got) > 0 /\ u.got = Parts(u.n, Len(u.got)) ELSE u.got = << >>

Users ==
    \A t \in Client : Asking(user[t]) /\ (user[t].pc = "connect" => ~ conns[user[t].conn].server)

(* A request m and the client thread u: if m came over the connection u    *)
(* has, then u waits for the answer to m.                                  *)
Owned(m) == m.conn \in DOMAIN conns /\ conns[m.conn].thread = m.thread

Linked(m, u) ==
    /\ m.part[1] \in 1 .. u.n
    /\ m.part[2] <= m.length /\ m.length > 0
    /\ u.conn = m.conn => u.pc = "wait" /\ m.part = <<u.n, u.i>> /\ m.length = u.length

Links == \A m \in Flying : Owned(m) /\ Linked(m, user[m.thread])

(* What a structure s holds: nothing; k parts of request n; a reply to it, *)
(* ptr parts of which were sent; an empty reply.                           *)
Clean(s) == ~ s.replying /\ s.length = 0 /\ s.ptr = 0 /\ s.buf = << >>

Half(s, n, length, k) ==
    ~ s.replying /\ s.length = length /\ s.ptr = 0 /\ k \in 1 .. length - 1 /\ s.buf = Parts(n, k)

Sending(s, n) == s.replying /\ s.length > 0 /\ s.ptr < s.length /\ s.buf = Parts(n, s.length)

Refusal(s) == s.replying /\ s.length = 0 /\ s.ptr = 0 /\ s.buf = << >>

(* s when part i of request n comes, or when the next part of the reply is *)
(* asked for.                                                              *)
Ready(s, n, length, i) ==
    \/ i > 0 /\ Clean(s)
    \/ i > 0 /\ Half(s, n, length, i - 1)
    \/ i = 0 /\ Sending(s, n) /\ s.ptr > 0

(* s between two requests of u.                                            *)
Between(u, s) ==
    u.conn # 0 /\ PortOf(s) = u.conn =>
       /\ u.pc \in {"idle", "connected"} => Clean(s)
       /\ u.pc = "send" => Ready(s, u.n, u.length, u.i) /\ (u.i = 0 => s.ptr = Len(u.got))

Spoken == \A t \in Client : Between(user[t], client[t])

(* s when the request m of u comes over the connection s has.              *)
Arrives(m, s, u) ==
    PortOf(s) = m.conn =>
       /\ Ready(s, m.part[1], m.length, m.part[2])
       /\ m.part[2] = 0 /\ u.conn = m.conn => s.ptr = Len(u.got)

Arrived == \A m \in Coming : Arrives(m, client[m.thread], user[m.thread])

(* s while a thread at pc works for the request m of u, over the           *)
(* connection s has; out is the answer.                                    *)
Called(m, s) ==
    /\ ~ s.replying /\ s.length = m.length /\ s.ptr = 0
    /\ m.part[2] = m.length /\ s.buf = Parts(m.part[1], s.length)

Finishes(m, s, u) ==
    \/ Half(s, m.part[1], m.length, m.part[2])
    \/ m.part[2] > 0 /\ Refusal(s)
    \/ m.part[2] = m.length /\ Sending(s, m.part[1]) /\ s.ptr = 0
    \/ m.part[2] = 0 /\ Arrives(m, s, u)

Answers(m, out, s, u) ==
    \/ out = Empty /\ m.part[2] > 0 /\ (Clean(s) \/ Half(s, m.part[1], m.length, m.part[2]))
    \/ /\ out.length > 0 /\ out.part[1] = m.part[1] /\ out.part[2] \in 1 .. out.length
       /\ IF m.part[2] = 0
          THEN u.conn = m.conn => out.part[2] = Len(u.got) + 1
          ELSE m.part[2] = m.length /\ out.part[2] = 1
       /\ \/ out.part[2] = out.length /\ Clean(s)
          \/ Sending(s, m.part[1]) /\ s.length = out.length /\ s.ptr = out.part[2]

Speaks(pc, m, out, s, u) ==
    PortOf(s) = m.conn =>
       /\ pc = "request" => m.part[2] > 0 /\ Arrives(m, s, u)
       /\ pc = "call" => Called(m, s)
       /\ pc = "finish" => Finishes(m, s, u)
       /\ pc = "reply" => Answers(m, out, s, u)

Served ==
    \A w \in Worker :
       LET m == worker[w].msg IN
       Serves(w) => Speaks(worker[w].pc, m, worker[w].out, client[m.thread], user[m.thread])

(* A thread that works with a structure has marked it.                     *)
Held ==
    \A w \in Worker :
       LET t == worker[w].msg.thread IN
       Holds(w) =>
          /\ client[t] # NoClient /\ client[t].in_use
          /\ Does(w, "call") \/ ~ crossed => PortOf(client[t]) = worker[w].msg.conn

(* A thread that waits for a structure to be released has m_lock.          *)
Locked ==
    \A w \in Worker :
       worker[w].pc \in {"evict", "remove"} =>
          lock = w /\ client[worker[w].msg.thread] # NoClient

(* A process stays in m_client_map as long as a thread of it does.         *)
Kept == \A t \in Client : client[t] # NoClient => process[Owner[t]] # NoClient

Shapes ==
    \A t \in Client :
       client[t] # NoClient /\ client[t].length = 0 => client[t].ptr = 0 /\ client[t].buf = << >>

PortInv ==
    /\ PortTypeOK /\ Wired /\ Alone /\ Users /\ Links
    /\ Spoken /\ Arrived /\ Served /\ Held /\ Locked /\ Kept /\ Shapes

-----------------------------------------------------------------------------
(* Steps that leave a request alone                                        *)

(* Two structures that differ only in in_use.                              *)
Alike(s, r) ==
    \/ r = s
    \/ /\ s # NoClient /\ r # NoClient
       /\ r.hPort = s.hPort /\ r.replying = s.replying
       /\ r.buf = s.buf /\ r.length = s.length /\ r.ptr = s.ptr

LEMMA ArrivesStill ==
    ASSUME NEW m, NEW s, NEW u, NEW r, NEW v, Arrives(m, s, u),
           Alike(s, r) \/ PortOf(r) # m.conn, v = u \/ v.conn # m.conn
    PROVE  Arrives(m, r, v)
BY DEF Arrives, Alike, PortOf, Ready, Clean, Half, Sending

LEMMA SpeaksStill ==
    ASSUME NEW pc, NEW m, NEW out, NEW s, NEW u, NEW r, NEW v, Speaks(pc, m, out, s, u),
           Alike(s, r) \/ PortOf(r) # m.conn, v = u \/ v.conn # m.conn
    PROVE  Speaks(pc, m, out, r, v)
<1>1. CASE PortOf(r) # m.conn
  BY <1>1 DEF Speaks
<1>2. CASE PortOf(r) = m.conn
  <2>1. PortOf(s) = m.conn /\ Alike(s, r)
    BY <1>2 DEF Alike, PortOf
  <2>2. Arrives(m, s, u) => Arrives(m, r, v)
    BY ArrivesStill
  <2>3. /\ Called(m, s) => Called(m, r)
        /\ Refusal(s) => Refusal(r)
        /\ Clean(s) => Clean(r)
        /\ \A n, k : Half(s, n, m.length, k) => Half(r, n, m.length, k)
        /\ \A n : Sending(s, n) => Sending(r, n)
        /\ r # s => r.ptr = s.ptr /\ r.length = s.length
    BY <2>1 DEF Alike, Called, Refusal, Clean, Half, Sending
  <2>4. Finishes(m, s, u) => Finishes(m, r, v)
    BY <2>2, <2>3 DEF Finishes
  <2>5. Answers(m, out, s, u) => Answers(m, out, r, v)
    BY <2>3 DEF Answers
  <2> QED
    BY <2>1, <2>2, <2>3, <2>4, <2>5 DEF Speaks
<1> QED
  BY <1>1, <1>2

LEMMA LinkedStill ==
    ASSUME NEW m, NEW u \in User, NEW v \in User, Linked(m, u), v.n >= u.n, v = u \/ v.conn # m.conn
    PROVE  Linked(m, v)
BY DEF Linked, User

(* What a step must not do to the client thread, and to its structure,     *)
(* while the request m is on its way.                                      *)
SameUser(m) ==
    LET t == m.thread IN user'[t] = user[t] \/ user'[t].conn # m.conn

SameClient(m) ==
    LET t == m.thread IN Alike(client[t], client'[t]) \/ PortOf(client'[t]) # m.conn

OnlyGrows ==
    /\ DOMAIN conns \subseteq DOMAIN conns'
    /\ \A c \in DOMAIN conns : conns'[c].thread = conns[c].thread
    /\ \A t \in Client : user'[t].n >= user[t].n

(* No new request, and no request comes a second time.                     *)
NothingNew ==
    /\ Flying' \subseteq Flying
    /\ Coming' \subseteq Coming
    /\ Alone'

LEMMA LinksKept ==
    ASSUME PortTypeOK, user' \in [Client -> User], Links, OnlyGrows,
           \A m \in Flying : m.thread \in Client, Flying' \subseteq Flying, \A m \in Flying' : SameUser(m)
    PROVE  Links'
<1>1. SUFFICES ASSUME NEW m \in Flying'
               PROVE  /\ m.conn \in DOMAIN conns' /\ conns'[m.conn].thread = m.thread
                      /\ Linked(m, user'[m.thread])
  BY DEF Links, Owned
<1>2. Owned(m) /\ Linked(m, user[m.thread]) /\ m.thread \in Client /\ SameUser(m)
  BY <1>1 DEF Links
<1>3. user[m.thread] \in User /\ user'[m.thread] \in User
  BY <1>2 DEF PortTypeOK
<1> QED
  BY <1>2, <1>3, LinkedStill DEF OnlyGrows, Owned, SameUser

LEMMA StillArrives ==
    ASSUME NEW m, Arrives(m, client[m.thread], user[m.thread]), SameUser(m), SameClient(m)
    PROVE  Arrives(m, client'[m.thread], user'[m.thread])
BY ArrivesStill DEF SameUser, SameClient

LEMMA ArrivedKept ==
    ASSUME Arrived, Coming' \subseteq Coming,
           \A m \in Coming' : SameUser(m) /\ SameClient(m)
    PROVE  Arrived'
<1>1. SUFFICES ASSUME NEW m \in Coming'
               PROVE  Arrives(m, client'[m.thread], user'[m.thread])
  BY DEF Arrived
<1> QED
  BY <1>1, StillArrives DEF Arrived

LEMMA ServedKept ==
    ASSUME Served, NEW w \in Worker, worker'[w] = worker[w],
           Serves(w) => SameUser(worker[w].msg) /\ SameClient(worker[w].msg)
    PROVE  LET m == worker'[w].msg IN
           Serves(w)' => Speaks(worker'[w].pc, m, worker'[w].out, client'[m.thread], user'[m.thread])
BY SpeaksStill DEF Served, Serves, SameUser, SameClient

-----------------------------------------------------------------------------
(* What the steps do to the requests on their way                          *)

Place == [pc : {"receive", "connect", "evict", "find", "request", "call",
                "misled", "finish", "reply", "died", "closed", "remove"},
          msg : Message, out : Reply]

LEMMA TypeFacts ==
    ASSUME PortTypeOK
    PROVE  /\ worker \in [Worker -> Place]
           /\ inbox \in Seq(Message) /\ DOMAIN inbox = 1 .. Len(inbox) /\ Len(inbox) \in Nat
           /\ \A i \in DOMAIN inbox : inbox[i] \in Message
           /\ Sent \subseteq Message /\ Coming \subseteq Flying /\ Flying \subseteq Message
           /\ \A m \in Flying : m.thread \in Client
<1>1. worker \in [Worker -> Place] /\ inbox \in Seq(Message)
  BY DEF PortTypeOK, Place
<1>2. DOMAIN inbox = 1 .. Len(inbox) /\ Len(inbox) \in Nat /\ \A i \in DOMAIN inbox : inbox[i] \in Message
  BY <1>1, LenProperties, ElementOfSeq
<1>3. Sent \subseteq Message
  BY <1>2 DEF Sent
<1>4. \A w \in Worker : worker[w].msg \in Message
  BY <1>1 DEF Place
<1>5. Coming \subseteq Flying /\ Flying \subseteq Message
  BY <1>3, <1>4 DEF Coming, Flying, Busy, Does
<1>6. \A m \in Message : m.thread \in Client
  BY DEF Message
<1> QED
  BY <1>1, <1>2, <1>3, <1>5, <1>6

(* Lemmas about a thread of the service that goes on with a request, or    *)
(* gives up.                                                               *)
LEMMA WorkerMoves ==
    ASSUME PortTypeOK, Alone, inbox' = inbox, NEW w \in Worker,
           \A v \in Worker : v # w => worker'[v] = worker[v],
           worker'[w].pc # "find",
           Serves(w)' => Busy(w) /\ worker'[w].msg = worker[w].msg
    PROVE  NothingNew
<1>1. Sent' = Sent
  BY DEF Sent
<1>2. \A v \in Worker : Busy(v)' => Busy(v) /\ worker'[v].msg = worker[v].msg
  BY DEF Busy, Serves, Does
<1>3. \A v \in Worker : Does(v, "find")' => Does(v, "find") /\ worker'[v].msg = worker[v].msg
  BY DEF Does
<1>4. Flying' \subseteq Flying
  BY <1>1, <1>2 DEF Flying
<1>5. Coming' \subseteq Coming
  BY <1>1, <1>3 DEF Coming
<1>6. Alone'
  BY <1>2 DEF Alone
<1> QED
  BY <1>4, <1>5, <1>6 DEF NothingNew

LEMMA Unmoved ==
    ASSUME Alone, inbox' = inbox, worker' = worker
    PROVE  NothingNew
<1>1. Sent' = Sent /\ Flying' = Flying /\ Coming' = Coming
  BY DEF Sent, Flying, Coming, Busy, Does, Serves
<1>2. Alone'
  BY DEF Alone, Busy, Does, Serves
<1> QED
  BY <1>1, <1>2 DEF NothingNew

LEMMA OtherMail ==
    ASSUME PortTypeOK, Alone, NEW m \in Message, m.type # "request",
           inbox' = Append(inbox, m), worker' = worker
    PROVE  NothingNew
<1>1. /\ DOMAIN inbox' = DOMAIN inbox \cup {Len(inbox) + 1}
      /\ \A i \in DOMAIN inbox : inbox'[i] = inbox[i]
      /\ inbox'[Len(inbox) + 1] = m
  BY TypeFacts, AppendProperties, LenProperties
<1>2. Sent' = Sent
  BY <1>1 DEF Sent
<1>3. Flying' = Flying /\ Coming' = Coming
  BY <1>2 DEF Flying, Coming, Busy, Does, Serves
<1>4. Alone'
  BY <1>1 DEF Alone, Busy, Does, Serves
<1> QED
  BY <1>3, <1>4 DEF NothingNew

LEMMA NewRequest ==
    ASSUME PortTypeOK, Alone, NEW m \in Message, m.type = "request",
           \A r \in Flying : r.conn # m.conn,
           inbox' = Append(inbox, m), worker' = worker
    PROVE  /\ Flying' = Flying \cup {m}
           /\ Coming' = Coming \cup {m}
           /\ Alone'
<1>1. /\ DOMAIN inbox' = DOMAIN inbox \cup {Len(inbox) + 1}
      /\ Len(inbox) + 1 \notin DOMAIN inbox
      /\ \A i \in DOMAIN inbox : inbox'[i] = inbox[i]
      /\ inbox'[Len(inbox) + 1] = m
  BY TypeFacts, AppendProperties, LenProperties
<1>2. Sent' = Sent \cup {m}
  BY <1>1 DEF Sent
<1>3. Flying' = Flying \cup {m} /\ Coming' = Coming \cup {m}
  BY <1>2 DEF Flying, Coming, Busy, Does, Serves
<1>4. /\ \A i \in DOMAIN inbox : inbox[i].type = "request" => inbox[i].conn # m.conn
      /\ \A w \in Worker : Busy(w) => worker[w].msg.conn # m.conn
  BY DEF Flying, Sent
<1>5. Alone'
  BY <1>1, <1>4 DEF Alone, Busy, Does, Serves
<1> QED
  BY <1>3, <1>5

LEMMA Received ==
    ASSUME PortTypeOK, Alone, NEW w \in Worker, Receive(w)
    PROVE  NothingNew
<1>1. /\ inbox # << >> /\ DOMAIN inbox' = 1 .. Len(inbox) - 1
      /\ \A i \in DOMAIN inbox' : inbox'[i] = inbox[i + 1] /\ i + 1 \in DOMAIN inbox
      /\ Head(inbox) = inbox[1] /\ 1 \in DOMAIN inbox
  BY TypeFacts, HeadTailProperties, LenProperties DEF Receive
<1>2. /\ worker \in [Worker -> Place] /\ ~ Busy(w)
      /\ worker' = [worker EXCEPT ![w] =
            [pc |-> IF inbox[1].type = "request" THEN "find" ELSE inbox[1].type,
             msg |-> inbox[1], out |-> Empty]]
  BY <1>1, TypeFacts DEF Receive, Busy, Serves, Does
<1>3. inbox[1].type \in {"connect", "request", "died", "closed"}
  BY <1>1, TypeFacts DEF Message
<1>4. Busy(w)' => /\ Does(w, "find")' /\ inbox[1].type = "request" /\ worker'[w].msg = inbox[1]
  BY <1>2, <1>3 DEF Busy, Serves, Does
<1>5. \A v \in Worker : v # w => worker'[v] = worker[v]
  BY <1>2
<1>6. \A v \in Worker : v # w => (Busy(v)' = Busy(v)) /\ (Does(v, "find")' = Does(v, "find"))
  BY <1>5 DEF Busy, Serves, Does
<1>7. Sent' \subseteq Sent /\ (inbox[1].type = "request" => inbox[1] \in Sent)
  BY <1>1 DEF Sent
<1>8. Flying' \subseteq Flying /\ Coming' \subseteq Coming
  BY <1>4, <1>5, <1>6, <1>7 DEF Flying, Coming, Busy
<1>9. Alone'
  BY <1>1, <1>4, <1>5, <1>6, TypeFacts DEF Alone
<1> QED
  BY <1>8, <1>9 DEF NothingNew

(* The notes that a thread or a process ended.                             *)
LEMMA Notes ==
    ASSUME PortTypeOK, NEW S \in SUBSET Client, NEW T \in SUBSET (DOMAIN conns),
           NEW deaths \in SetToSeqs({Msg("died", t, 0, <<0, 0>>, 0) : t \in S}),
           NEW closings \in SetToSeqs({Msg("closed", conns[c].thread, c, <<0, 0>>, 0) : c \in T})
    PROVE  /\ deaths \in Seq(Message) /\ \A i \in DOMAIN deaths : deaths[i].type # "request"
           /\ closings \in Seq(Message) /\ \A i \in DOMAIN closings : closings[i].type # "request"
<1> DEFINE D == {Msg("died", t, 0, <<0, 0>>, 0) : t \in S}
           C == {Msg("closed", conns[c].thread, c, <<0, 0>>, 0) : c \in T}
<1>1. /\ DOMAIN conns = 1 .. Len(conns) /\ Len(conns) \in Nat /\ Len(conns) <= MaxConns
      /\ \A c \in DOMAIN conns : conns[c].thread \in Client
  <2>1. conns \in Seq([thread : Client, client : BOOLEAN, server : BOOLEAN]) /\ Len(conns) <= MaxConns
    BY DEF PortTypeOK
  <2>2. DOMAIN conns = 1 .. Len(conns) /\ Len(conns) \in Nat
    BY <2>1, LenProperties
  <2>3. \A c \in DOMAIN conns : conns[c] \in [thread : Client, client : BOOLEAN, server : BOOLEAN]
    BY <2>1, <2>2, ElementOfSeq
  <2> QED
    BY <2>1, <2>2, <2>3
<1>2. \A t \in Client : born[Owner[t]] \in Nat
  BY PortAssumption DEF PortTypeOK
<1>3. \A t \in Client : Msg("died", t, 0, <<0, 0>>, 0) \in Message
                        /\ Msg("died", t, 0, <<0, 0>>, 0).type # "request"
  BY <1>2, PortAssumption DEF Msg, Message, Part, Conn
<1>4. \A c \in DOMAIN conns : Msg("closed", conns[c].thread, c, <<0, 0>>, 0) \in Message
                              /\ Msg("closed", conns[c].thread, c, <<0, 0>>, 0).type # "request"
  BY <1>1, <1>2, PortAssumption DEF Msg, Message, Part, Conn
<1>5. IsFiniteSet(S) /\ IsFiniteSet(T)
  <2>1. IsFiniteSet(1 .. Len(conns))
    BY <1>1, FS_Interval
  <2> QED
    BY <1>1, <2>1, FS_Subset, PortAssumption
<1>6. IsFiniteSet(D)
  <2>1. [t \in S |-> Msg("died", t, 0, <<0, 0>>, 0)] \in Surjection(S, D)
    BY DEF Surjection
  <2> QED
    BY <1>5, <2>1, FS_Surjection
<1>7. IsFiniteSet(C)
  <2>1. [c \in T |-> Msg("closed", conns[c].thread, c, <<0, 0>>, 0)] \in Surjection(T, C)
    BY DEF Surjection
  <2> QED
    BY <1>5, <2>1, FS_Surjection
<1>8. D \subseteq Message /\ \A m \in D : m.type # "request"
  BY <1>3
<1>9. C \subseteq Message /\ \A m \in C : m.type # "request"
  BY <1>4
<1>10. deaths \in SetToSeqs(D) /\ closings \in SetToSeqs(C)
  OBVIOUS
<1> HIDE DEF D, C
<1>11. deaths \in Seq(Message) /\ \A i \in DOMAIN deaths : deaths[i] \in D
  BY <1>6, <1>8, <1>10, SetToSeqsIs
<1>12. closings \in Seq(Message) /\ \A i \in DOMAIN closings : closings[i] \in C
  BY <1>7, <1>9, <1>10, SetToSeqsIs
<1> QED
  BY <1>8, <1>9, <1>11, <1>12

LEMMA Ended ==
    ASSUME PortTypeOK, Alone, NEW S \in SUBSET Client, NEW p, End(S, p), worker' = worker
    PROVE  inbox' \in Seq(Message) /\ NothingNew
<1> DEFINE dead == {t \in S : user[t].registered}
           shut == {c \in DOMAIN conns :
                      (S = Threads(p) \cap alive) /\ conns[c].client /\ Owner[conns[c].thread] = p}
           left == {i \in DOMAIN inbox : ~ (inbox[i].type = "request" /\ inbox[i].thread \in S)}
<1>1. PICK kept \in Keeping(inbox, left),
           deaths \in SetToSeqs({Msg("died", t, 0, <<0, 0>>, 0) : t \in dead}),
           closings \in SetToSeqs({Msg("closed", conns[c].thread, c, <<0, 0>>, 0) : c \in shut}) :
              inbox' = kept \o deaths \o closings
  BY DEF End
<1>2. dead \in SUBSET Client /\ shut \in SUBSET (DOMAIN conns) /\ left \in SUBSET (DOMAIN inbox)
  OBVIOUS
<1> HIDE DEF dead, shut, left
<1>3. /\ deaths \in Seq(Message) /\ \A i \in DOMAIN deaths : deaths[i].type # "request"
      /\ closings \in Seq(Message) /\ \A i \in DOMAIN closings : closings[i].type # "request"
  BY <1>1, <1>2, Notes
<1>4. inbox \in Seq(Message)
  BY TypeFacts
<1>5. kept \in Seq(Message) /\ From(inbox, left, kept)
  BY <1>1, <1>2, <1>4, KeepingIs
<1>6. PICK f \in [1 .. Len(kept) -> left] :
         /\ \A i \in 1 .. Len(kept) : kept[i] = inbox[f[i]]
         /\ \A i, j \in 1 .. Len(kept) : i < j => f[i] < f[j]
  BY <1>5 DEF From
<1> DEFINE notes == deaths \o closings
<1>7. inbox' = kept \o notes
  <2>1. (kept \o deaths) \o closings = kept \o (deaths \o closings)
    BY <1>3, <1>5, ConcatAssociative
  <2> QED
    BY <1>1, <2>1
<1>8. /\ DOMAIN kept = 1 .. Len(kept) /\ Len(kept) \in Nat
      /\ DOMAIN deaths = 1 .. Len(deaths) /\ Len(deaths) \in Nat
      /\ DOMAIN closings = 1 .. Len(closings) /\ Len(closings) \in Nat
  BY <1>3, <1>5, LenProperties
<1>9. notes \in Seq(Message) /\ Len(notes) \in Nat /\ \A i \in 1 .. Len(notes) : notes[i].type # "request"
  <2>1. /\ notes \in Seq(Message) /\ Len(notes) = Len(deaths) + Len(closings)
        /\ \A i \in 1 .. Len(deaths) + Len(closings) :
              notes[i] = IF i <= Len(deaths) THEN deaths[i] ELSE closings[i - Len(deaths)]
    BY <1>3, ConcatProperties
  <2>2. ASSUME NEW i \in 1 .. Len(notes) PROVE notes[i].type # "request"
    <3>1. CASE i <= Len(deaths)
      <4>1. i \in DOMAIN deaths /\ notes[i] = deaths[i]
        BY <1>8, <2>1, <2>2, <3>1
      <4> QED
        BY <1>3, <4>1
    <3>2. CASE ~ (i <= Len(deaths))
      <4>1. i - Len(deaths) \in DOMAIN closings /\ notes[i] = closings[i - Len(deaths)]
        BY <1>8, <2>1, <2>2, <3>2
      <4> QED
        BY <1>3, <4>1
    <3> QED
      BY <3>1, <3>2
  <2> QED
    BY <1>8, <2>1, <2>2
<1> HIDE DEF notes
<1>10. /\ inbox' \in Seq(Message) /\ DOMAIN inbox' = 1 .. Len(kept) + Len(notes)
       /\ \A i \in 1 .. Len(kept) + Len(notes) :
             inbox'[i] = IF i <= Len(kept) THEN kept[i] ELSE notes[i - Len(kept)]
  <2>1. /\ inbox' \in Seq(Message) /\ Len(inbox') = Len(kept) + Len(notes)
        /\ \A i \in 1 .. Len(kept) + Len(notes) :
              inbox'[i] = IF i <= Len(kept) THEN kept[i] ELSE notes[i - Len(kept)]
    BY <1>5, <1>7, <1>9, ConcatProperties
  <2> QED
    BY <2>1, LenProperties
<1>11. ASSUME NEW i \in DOMAIN inbox', inbox'[i].type = "request"
       PROVE  i \in 1 .. Len(kept) /\ f[i] \in DOMAIN inbox /\ inbox'[i] = inbox[f[i]]
  <2>1. i \in 1 .. Len(kept) + Len(notes)
    BY <1>10, <1>11
  <2>2. CASE i <= Len(kept)
    BY <1>2, <1>6, <1>8, <1>10, <2>1, <2>2
  <2>3. CASE ~ (i <= Len(kept))
    <3>1. i - Len(kept) \in 1 .. Len(notes) /\ inbox'[i] = notes[i - Len(kept)]
      BY <1>8, <1>9, <1>10, <2>1, <2>3
    <3> QED
      BY <1>9, <1>11, <3>1
  <2> QED
    BY <2>2, <2>3
<1>12. Sent' \subseteq Sent
  BY <1>11 DEF Sent
<1>13. Flying' \subseteq Flying /\ Coming' \subseteq Coming
  BY <1>12 DEF Flying, Coming, Busy, Does, Serves
<1>14. ASSUME NEW i \in DOMAIN inbox', NEW j \in DOMAIN inbox', inbox'[i].type = "request",
              inbox'[j].type = "request", inbox'[i].conn = inbox'[j].conn
       PROVE  i = j
  <2>1. f[i] = f[j]
    BY <1>11, <1>14 DEF Alone
  <2>2. /\ i \in 1 .. Len(kept) /\ j \in 1 .. Len(kept)
        /\ f[i] \in 1 .. Len(inbox) /\ Len(inbox) \in Nat
    BY <1>11, <1>14, TypeFacts
  <2> QED
    BY <1>6, <1>8, <2>1, <2>2
<1>15. Alone'
  BY <1>11, <1>14 DEF Alone, Busy, Does, Serves
<1> QED
  BY <1>10, <1>13, <1>15 DEF NothingNew

-----------------------------------------------------------------------------
(* The steps of the clients preserve the invariant                         *)

Link == [thread : Client, client : BOOLEAN, server : BOOLEAN]

LEMMA ConnFacts ==
    ASSUME PortTypeOK
    PROVE  /\ conns \in Seq(Link) /\ DOMAIN conns = 1 .. Len(conns)
           /\ Len(conns) \in Nat /\ Len(conns) <= MaxConns
           /\ \A c \in DOMAIN conns : conns[c] \in Link /\ c \in Conn /\ c # 0
<1>1. conns \in Seq(Link) /\ Len(conns) <= MaxConns
  BY DEF PortTypeOK, Link
<1>2. DOMAIN conns = 1 .. Len(conns) /\ Len(conns) \in Nat
  BY <1>1, LenProperties
<1>3. \A c \in DOMAIN conns : conns[c] \in Link
  BY <1>1, <1>2, ElementOfSeq
<1>4. \A c \in DOMAIN conns : c \in Conn /\ c # 0
  BY <1>1, <1>2, PortAssumption DEF Conn
<1> QED
  BY <1>1, <1>2, <1>3, <1>4

(* A client that does not wait for an answer has no request on its way     *)
(* over the connection it has.                                             *)
LEMMA NotWaiting ==
    ASSUME Links, NEW m \in Flying, user[m.thread].pc # "wait"
    PROVE  user[m.thread].conn # m.conn
BY DEF Links, Linked

LEMMA UserMoves ==
    ASSUME PortInv, UNCHANGED <<worker, client>>, user' \in [Client -> User], OnlyGrows,
           NothingNew, \A m \in Flying : SameUser(m)
    PROVE  Alone' /\ Links' /\ Arrived' /\ Served'
<1> USE DEF PortInv, NothingNew
<1>1. Links'
  BY TypeFacts, LinksKept
<1>2. \A m : SameClient(m)
  BY DEF SameClient, Alike
<1>3. Arrived'
  BY <1>2, TypeFacts, ArrivedKept
<1>4. \A w \in Worker : Serves(w) => worker[w].msg \in Flying
  BY DEF Flying, Busy
<1>5. Served'
  BY <1>2, <1>4, ServedKept DEF Served
<1> QED
  BY <1>1, <1>3, <1>5

LEMMA UserFacts ==
    ASSUME PortTypeOK
    PROVE  /\ user \in [Client -> User]
           /\ \A t \in Client : /\ user[t].n \in 0 .. MaxCalls /\ user[t].n \in Nat
                               /\ user[t].length \in Nat /\ user[t].i \in Nat
                               /\ user[t].conn \in Conn /\ user[t].got \in Seq(Part)
<1>1. user \in [Client -> User]
  BY DEF PortTypeOK
<1> QED
  BY <1>1, PortAssumption DEF User

(* A step that moves one client, from u to v.                              *)
LEMMA OneUser ==
    ASSUME PortTypeOK, NEW t \in Client, NEW v \in User, user' = [user EXCEPT ![t] = v],
           v.n >= user[t].n, \A m \in Flying : m.thread = t => m.conn # v.conn
    PROVE  /\ user' \in [Client -> User] /\ user'[t] = v
           /\ \A x \in Client : x # t => user'[x] = user[x]
           /\ \A x \in Client : user'[x].n >= user[x].n
           /\ \A m \in Flying : SameUser(m)
<1>1. /\ user' \in [Client -> User] /\ user'[t] = v
      /\ \A x \in Client : x # t => user'[x] = user[x]
  BY UserFacts
<1>2. \A x \in Client : user'[x].n >= user[x].n
  BY <1>1, UserFacts
<1>3. \A m \in Flying : SameUser(m)
  BY <1>1, TypeFacts DEF SameUser
<1> QED
  BY <1>1, <1>2, <1>3

LEMMA ServiceAside ==
    ASSUME PortInv, UNCHANGED <<worker, lock, tables, crossed>>
    PROVE  Held' /\ Locked' /\ Kept' /\ Shapes'
BY DEF PortInv, tables, Held, Locked, Kept, Shapes, Holds, Does

LEMMA StartThreadStep ==
    ASSUME PortInv, NEW t \in Client, StartThread(t)
    PROVE  PortInv'
<1> USE DEF StartThread, tables, results, history
<1>1. PortTypeOK'
  BY PortAssumption DEF PortInv, PortTypeOK
<1>2. NothingNew
  BY Unmoved DEF PortInv
<1>3. user' \in [Client -> User] /\ OnlyGrows /\ \A m \in Flying : SameUser(m)
  BY UserFacts DEF PortInv, OnlyGrows, SameUser
<1>4. Alone' /\ Links' /\ Arrived' /\ Served'
  BY <1>2, <1>3, UserMoves
<1>5. Wired' /\ Users' /\ Spoken'
  BY DEF PortInv, Wired, Users, Spoken
<1>6. Held' /\ Locked' /\ Kept' /\ Shapes'
  BY ServiceAside
<1> QED
  BY <1>1, <1>4, <1>5, <1>6 DEF PortInv

LEMMA RegisterStep ==
    ASSUME PortInv, NEW t \in Client, Register(t)
    PROVE  PortInv'
<1> DEFINE v == [user[t] EXCEPT !.pc = "send", !.registered = TRUE]
<1> USE DEF Register, tables, results, history, world
<1>1. user[t] \in User /\ user[t].pc = "connected"
  BY UserFacts DEF PortInv, At
<1>2. user' = [user EXCEPT ![t] = v]
  BY UserFacts DEF PortInv
<1>3. /\ v \in User /\ v.pc = "send" /\ v.conn = user[t].conn /\ v.n = user[t].n
      /\ v.length = user[t].length /\ v.i = user[t].i /\ v.got = user[t].got
  BY <1>1 DEF User
<1> HIDE DEF v
<1>4. /\ user' \in [Client -> User] /\ user'[t] = v
      /\ \A x \in Client : x # t => user'[x] = user[x]
      /\ \A x \in Client : user'[x].n >= user[x].n
      /\ \A m \in Flying : SameUser(m)
  <2>1. v.n >= user[t].n
    BY <1>3, UserFacts DEF PortInv
  <2>2. \A m \in Flying : m.thread = t => m.conn # v.conn
    BY <1>1, <1>3, NotWaiting DEF PortInv
  <2> QED
    BY <1>2, <1>3, <2>1, <2>2, OneUser DEF PortInv
<1>5. PortTypeOK'
  BY <1>4 DEF PortInv, PortTypeOK
<1>6. Alone' /\ Links' /\ Arrived' /\ Served'
  BY <1>4, Unmoved, UserMoves DEF PortInv, OnlyGrows
<1>7. Wired'
  BY <1>3, <1>4 DEF PortInv, Wired
<1>8. Users'
  BY <1>1, <1>3, <1>4 DEF PortInv, Users, Asking
<1>9. Spoken'
  BY <1>1, <1>3, <1>4 DEF PortInv, Spoken, Between, Users, Asking, Ready
<1>10. Held' /\ Locked' /\ Kept' /\ Shapes'
  BY ServiceAside
<1> QED
  BY <1>5, <1>6, <1>7, <1>8, <1>9, <1>10 DEF PortInv

LEMMA SendStep ==
    ASSUME PortInv, NEW t \in Client, Send(t)
    PROVE  PortInv'
<1> DEFINE u == user[t]
           v == [user[t] EXCEPT !.pc = "wait"]
<1> USE DEF Send, tables, results, history, world
<1>1. u \in User /\ u.pc = "send" /\ u.conn \in Conn /\ u.length \in Nat /\ u.i \in Nat
      /\ u.n \in 0 .. MaxCalls /\ u.n \in Nat
  BY UserFacts DEF PortInv, At
<1>0. PICK m : m = Msg("request", t, user[t].conn, <<user[t].n, user[t].i>>, user[t].length)
  OBVIOUS
<1>2. user' = [user EXCEPT ![t] = v] /\ inbox' = Append(inbox, m)
  BY <1>0, UserFacts DEF PortInv
<1>3. /\ v \in User /\ v.pc = "wait" /\ v.conn = u.conn /\ v.n = u.n
      /\ v.length = u.length /\ v.i = u.i /\ v.got = u.got
  BY <1>1 DEF User
<1>4. /\ m \in Message /\ m.type = "request" /\ m.thread = t /\ m.conn = u.conn
      /\ m.length = u.length /\ m.part = <<u.n, u.i>> /\ m.part[1] = u.n /\ m.part[2] = u.i
  <2>1. born[Owner[t]] \in Nat
    BY PortAssumption DEF PortInv, PortTypeOK
  <2> QED
    BY <1>0, <1>1, <2>1 DEF Msg, Message, Part
<1>5. /\ u.conn # 0 /\ u.n > 0 /\ u.length > 0 /\ u.i <= u.length
      /\ u.conn \in DOMAIN conns /\ conns[u.conn].thread = t
  BY <1>1 DEF PortInv, Users, Asking, Wired
<1> HIDE DEF u, v
<1>6. \A r \in Flying : r.conn # u.conn /\ (r.thread = t => r.conn # v.conn)
  <2>1. \A r \in Flying : r.thread = t => r.conn # u.conn
    BY <1>1, NotWaiting DEF PortInv, u
  <2>2. \A r \in Flying : conns[r.conn].thread = r.thread
    BY DEF PortInv, Links, Owned
  <2> QED
    BY <1>3, <1>5, <2>1, <2>2
<1>7. /\ user' \in [Client -> User] /\ user'[t] = v
      /\ \A x \in Client : x # t => user'[x] = user[x]
      /\ \A x \in Client : user'[x].n >= user[x].n
      /\ \A r \in Flying : SameUser(r)
  <2>1. v.n >= user[t].n
    BY <1>1, <1>3 DEF u
  <2> QED
    BY <1>2, <1>3, <1>6, <2>1, OneUser DEF PortInv
<1>8. PortTypeOK'
  <2>1. inbox' \in Seq(Message)
    BY <1>2, <1>4, TypeFacts, AppendProperties DEF PortInv
  <2> QED
    BY <1>7, <2>1 DEF PortInv, PortTypeOK
<1>9. Flying' = Flying \cup {m} /\ Coming' = Coming \cup {m} /\ Alone'
  BY <1>2, <1>4, <1>6, NewRequest DEF PortInv
<1>10. Links'
  <2>1. ASSUME NEW r \in Flying PROVE Owned(r)' /\ Linked(r, user'[r.thread])
    <3>1. user[r.thread] \in User /\ user'[r.thread] \in User /\ r.thread \in Client
      BY <1>7, TypeFacts, UserFacts DEF PortInv
    <3> QED
      BY <1>7, <3>1, LinkedStill DEF PortInv, Links, Owned, SameUser
  <2>2. Owned(m)'
    BY <1>4, <1>5 DEF Owned
  <2>3. Linked(m, user'[t])
    <3>1. m.part[1] \in 1 .. v.n /\ m.part[2] <= m.length /\ m.length > 0
      BY <1>1, <1>3, <1>4, <1>5
    <3>2. v.pc = "wait" /\ m.part = <<v.n, v.i>> /\ m.length = v.length
      BY <1>3, <1>4
    <3> QED
      BY <1>7, <3>1, <3>2 DEF Linked
  <2> QED
    BY <1>4, <1>9, <2>1, <2>2, <2>3 DEF Links, Owned
<1>11. \A r : SameClient(r)
  BY DEF SameClient, Alike
<1>12. Arrived'
  <2>1. ASSUME NEW r \in Coming PROVE Arrives(r, client'[r.thread], user'[r.thread])
    <3>1. r \in Flying /\ Arrives(r, client[r.thread], user[r.thread])
      BY TypeFacts DEF PortInv, Arrived
    <3>2. SameUser(r) /\ SameClient(r)
      BY <1>7, <1>11, <3>1
    <3> QED
      BY <3>1, <3>2, StillArrives
  <2>2. Arrives(m, client'[t], user'[t])
    BY <1>1, <1>3, <1>4, <1>5, <1>7 DEF PortInv, Spoken, Between, Arrives, u
  <2> QED
    BY <1>4, <1>9, <2>1, <2>2 DEF Arrived
<1>13. Served'
  <2>1. \A w \in Worker : Serves(w) => worker[w].msg \in Flying
    BY DEF Flying, Busy
  <2> QED
    BY <1>7, <1>11, <2>1, ServedKept DEF PortInv, Served
<1>14. Wired'
  BY <1>3, <1>7 DEF PortInv, Wired, u
<1>15. Users'
  BY <1>1, <1>3, <1>7 DEF PortInv, Users, Asking, u
<1>16. Spoken'
  BY <1>1, <1>3, <1>7 DEF PortInv, Spoken, Between, u
<1>17. Held' /\ Locked' /\ Kept' /\ Shapes'
  BY ServiceAside
<1> QED
  BY <1>8, <1>9, <1>10, <1>12, <1>13, <1>14, <1>15, <1>16, <1>17 DEF PortInv

(* There is a number left for a call that is about to begin.               *)
LEMMA RoomForCall ==
    ASSUME PortTypeOK, NEW t \in Client, Cardinality(Asked) < MaxCalls
    PROVE  user[t].n + 1 \in 1 .. MaxCalls
<1>1. MaxCalls \in Nat /\ user[t].n \in 0 .. MaxCalls
  BY UserFacts, PortAssumption
<1>2. IsFiniteSet(1 .. MaxCalls) /\ Cardinality(1 .. MaxCalls) = MaxCalls
  BY <1>1, FS_Interval
<1>3. IsFiniteSet(Asked)
  <2>1. IsFiniteSet(ThisCall)
    BY <1>2, PortAssumption, FS_Product DEF ThisCall
  <2>2. Asked \in SUBSET ThisCall
    BY DEF Asked
  <2> QED
    BY <2>1, <2>2, FS_Subset
<1>4. Cardinality(Asked) \in Nat
  BY <1>3, FS_CardinalityType
<1>5. SUFFICES ASSUME user[t].n = MaxCalls PROVE FALSE
  BY <1>1
<1>6. \A j \in 1 .. MaxCalls : <<t, j>> \in Asked
  BY <1>1, <1>5 DEF Asked, ThisCall
<1> DEFINE f == [j \in 1 .. MaxCalls |-> <<t, j>>]
<1>7. f \in Injection(1 .. MaxCalls, Asked)
  BY <1>6 DEF Injection, IsInjective
<1> HIDE DEF f
<1>8. Cardinality(1 .. MaxCalls) <= Cardinality(Asked)
  BY <1>3, <1>7, FS_Injection
<1> QED
  BY <1>1, <1>2, <1>4, <1>8

LEMMA CallOverConn ==
    ASSUME PortInv, NEW t \in Client, At(t, "idle"), Cardinality(Asked) < MaxCalls,
           NEW length \in Chunks, user[t].conn # 0,
           user' = [user EXCEPT ![t] = [[user[t] EXCEPT !.n = @ + 1, !.length = length,
                                                       !.i = 1, !.got = << >>] EXCEPT !.pc = "send"]],
           UNCHANGED <<world, conns, inbox, worker, lock, tables, results, history>>
    PROVE  PortInv'
<1> DEFINE v == [[user[t] EXCEPT !.n = @ + 1, !.length = length,
                                 !.i = 1, !.got = << >>] EXCEPT !.pc = "send"]
<1> USE DEF tables, results, history, world
<1>1. user[t] \in User /\ user[t].pc = "idle" /\ user[t].n \in Nat /\ user[t].n + 1 \in 1 .. MaxCalls
  BY UserFacts, RoomForCall DEF PortInv, At
<1>2. length \in Nat /\ length > 0
  BY PortAssumption
<1>3. /\ v \in User /\ v.pc = "send" /\ v.conn = user[t].conn /\ v.n = user[t].n + 1
      /\ v.length = length /\ v.i = 1 /\ v.got = << >>
  <2>1. v = [user[t] EXCEPT !.pc = "send", !.n = user[t].n + 1, !.length = length,
                            !.i = 1, !.got = << >>]
    BY <1>1 DEF User
  <2>2. << >> \in Seq(Part) /\ user[t].n + 1 \in 0 .. MaxCalls /\ 1 \in Nat
    BY <1>1, EmptySeq
  <2> HIDE DEF v
  <2> QED
    BY <1>1, <1>2, <2>1, <2>2 DEF User
<1>4. user' = [user EXCEPT ![t] = v]
  OBVIOUS
<1> HIDE DEF v
<1>5. /\ user' \in [Client -> User] /\ user'[t] = v
      /\ \A x \in Client : x # t => user'[x] = user[x]
      /\ \A x \in Client : user'[x].n >= user[x].n
      /\ \A m \in Flying : SameUser(m)
  <2>1. v.n >= user[t].n
    BY <1>1, <1>3
  <2>2. \A m \in Flying : m.thread = t => m.conn # v.conn
    BY <1>1, <1>3, NotWaiting DEF PortInv
  <2> QED
    BY <1>3, <1>4, <2>1, <2>2, OneUser DEF PortInv
<1>6. PortTypeOK'
  BY <1>5 DEF PortInv, PortTypeOK
<1>7. Alone' /\ Links' /\ Arrived' /\ Served'
  BY <1>5, Unmoved, UserMoves DEF PortInv, OnlyGrows
<1>8. Wired'
  BY <1>3, <1>5 DEF PortInv, Wired
<1>9. Users'
  BY <1>1, <1>2, <1>3, <1>5 DEF PortInv, Users, Asking
<1>10. Spoken'
  BY <1>1, <1>3, <1>5 DEF PortInv, Spoken, Between, Ready
<1>11. Held' /\ Locked' /\ Kept' /\ Shapes'
  BY ServiceAside
<1> QED
  BY <1>6, <1>7, <1>8, <1>9, <1>10, <1>11 DEF PortInv

LEMMA CallConnects ==
    ASSUME PortInv, NEW t \in Client, At(t, "idle"), Cardinality(Asked) < MaxCalls,
           NEW length \in Chunks, user[t].conn = 0, Len(conns) < MaxConns,
           conns' = Append(conns, [thread |-> t, client |-> FALSE, server |-> FALSE]),
           inbox' = Append(inbox, Msg("connect", t, Len(conns'), <<0, 0>>, 0)),
           user' = [user EXCEPT ![t] = [[user[t] EXCEPT !.n = @ + 1, !.length = length,
                                                       !.i = 1, !.got = << >>]
                                           EXCEPT !.pc = "connect", !.conn = Len(conns')]],
           UNCHANGED <<world, worker, lock, tables, results, history>>
    PROVE  PortInv'
<1> DEFINE new == [thread |-> t, client |-> FALSE, server |-> FALSE]
           c   == Len(conns) + 1
           v   == [[user[t] EXCEPT !.n = @ + 1, !.length = length, !.i = 1, !.got = << >>]
                      EXCEPT !.pc = "connect", !.conn = c]
           m   == Msg("connect", t, c, <<0, 0>>, 0)
<1> USE DEF tables, results, history, world
<1>1. user[t] \in User /\ user[t].pc = "idle" /\ user[t].n \in Nat /\ user[t].n + 1 \in 1 .. MaxCalls
  BY UserFacts, RoomForCall DEF PortInv, At
<1>2. length \in Nat /\ length > 0
  BY PortAssumption
<1>3. /\ conns \in Seq(Link) /\ Len(conns) \in Nat /\ DOMAIN conns = 1 .. Len(conns)
      /\ c \in Conn /\ c # 0 /\ c \notin DOMAIN conns /\ MaxConns \in Nat
  BY ConnFacts, PortAssumption DEF PortInv, Conn
<1>4. /\ conns' \in Seq(Link) /\ Len(conns') = c /\ DOMAIN conns' = DOMAIN conns \cup {c}
      /\ \A i \in DOMAIN conns : conns'[i] = conns[i]
      /\ conns'[c] = new
  <2>1. new \in Link
    BY DEF Link
  <2>2. /\ conns' \in Seq(Link) /\ Len(conns') = c /\ conns'[c] = new
        /\ \A i \in 1 .. Len(conns) : conns'[i] = conns[i]
    BY <1>3, <2>1, AppendProperties
  <2> QED
    BY <1>3, <2>2, LenProperties
<1>5. /\ v \in User /\ v.pc = "connect" /\ v.conn = c /\ v.n = user[t].n + 1
      /\ v.length = length /\ v.i = 1 /\ v.got = << >>
  <2>1. v = [user[t] EXCEPT !.pc = "connect", !.conn = c, !.n = user[t].n + 1, !.length = length,
                            !.i = 1, !.got = << >>]
    BY <1>1 DEF User
  <2>2. << >> \in Seq(Part) /\ user[t].n + 1 \in 0 .. MaxCalls /\ 1 \in Nat
    BY <1>1, EmptySeq
  <2> HIDE DEF v, c
  <2> QED
    BY <1>1, <1>2, <1>3, <2>1, <2>2 DEF User
<1>6. m \in Message /\ m.type # "request"
  <2>1. born[Owner[t]] \in Nat
    BY PortAssumption DEF PortInv, PortTypeOK
  <2> QED
    BY <1>3, <2>1, PortAssumption DEF Msg, Message, Part
<1>7. user' = [user EXCEPT ![t] = v] /\ inbox' = Append(inbox, m)
  BY <1>4 DEF Msg
<1>8. new.thread = t /\ ~ new.server
  OBVIOUS
<1> HIDE DEF v, m, new, c
<1>9. /\ user' \in [Client -> User] /\ user'[t] = v
      /\ \A x \in Client : x # t => user'[x] = user[x]
      /\ \A x \in Client : user'[x].n >= user[x].n
      /\ \A r \in Flying : SameUser(r)
  <2>1. v.n >= user[t].n
    BY <1>1, <1>5
  <2>2. \A r \in Flying : r.thread = t => r.conn # v.conn
    BY <1>3, <1>5 DEF PortInv, Links, Owned
  <2> QED
    BY <1>5, <1>7, <2>1, <2>2, OneUser DEF PortInv
<1>10. PortTypeOK'
  <2>1. inbox' \in Seq(Message)
    BY <1>6, <1>7, TypeFacts, AppendProperties DEF PortInv
  <2>2. conns' \in Seq(Link) /\ Len(conns') <= MaxConns
    BY <1>3, <1>4 DEF c
  <2> QED
    BY <1>9, <2>1, <2>2 DEF PortInv, PortTypeOK, Link
<1>11. NothingNew
  BY <1>6, <1>7, OtherMail DEF PortInv
<1>12. OnlyGrows
  BY <1>4, <1>9 DEF OnlyGrows
<1>13. Alone' /\ Links' /\ Arrived' /\ Served'
  BY <1>9, <1>11, <1>12, UserMoves
<1>14. Wired'
  BY <1>3, <1>4, <1>5, <1>8, <1>9 DEF PortInv, Wired
<1>15. Users'
  BY <1>1, <1>2, <1>3, <1>4, <1>5, <1>8, <1>9 DEF PortInv, Users, Asking, Wired
<1>16. Spoken'
  BY <1>5, <1>9 DEF PortInv, Spoken, Between
<1>17. Held' /\ Locked' /\ Kept' /\ Shapes'
  BY ServiceAside
<1> QED
  BY <1>10, <1>13, <1>14, <1>15, <1>16, <1>17 DEF PortInv

LEMMA BeginCallStep ==
    ASSUME PortInv, NEW t \in Client, BeginCall(t)
    PROVE  PortInv'
<1>1. PICK length \in Chunks :
         LET call == [user[t] EXCEPT !.n = @ + 1, !.length = length, !.i = 1, !.got = << >>] IN
         \/ /\ user[t].conn # 0
            /\ user' = [user EXCEPT ![t] = [call EXCEPT !.pc = "send"]]
            /\ UNCHANGED <<conns, inbox>>
         \/ /\ user[t].conn = 0
            /\ Len(conns) < MaxConns
            /\ conns' = Append(conns, [thread |-> t, client |-> FALSE, server |-> FALSE])
            /\ inbox' = Append(inbox, Msg("connect", t, Len(conns'), <<0, 0>>, 0))
            /\ user' = [user EXCEPT ![t] = [call EXCEPT !.pc = "connect", !.conn = Len(conns')]]
  BY DEF BeginCall
<1>2. /\ At(t, "idle") /\ Cardinality(Asked) < MaxCalls
      /\ UNCHANGED <<world, worker, lock, tables, results, history>>
  BY DEF BeginCall
<1>3. CASE user[t].conn # 0
  BY <1>1, <1>2, <1>3, CallOverConn
<1>4. CASE user[t].conn = 0
  BY <1>1, <1>2, <1>4, CallConnects
<1> QED
  BY <1>3, <1>4

(* An idle client without a connection.                                    *)
LEMMA IdleUser ==
    ASSUME NEW u \in User, NEW b \in BOOLEAN
    PROVE  /\ [Idle(u.n) EXCEPT !.registered = b] \in User
           /\ [Idle(u.n) EXCEPT !.registered = b].pc = "idle"
           /\ [Idle(u.n) EXCEPT !.registered = b].conn = 0
           /\ [Idle(u.n) EXCEPT !.registered = b].n = u.n
           /\ [Idle(u.n) EXCEPT !.registered = b].i = 0
<1>1. << >> \in Seq(Part) /\ 0 \in Conn /\ 0 \in Nat /\ u.n \in 0 .. MaxCalls
  BY EmptySeq, PortAssumption DEF Conn, User
<1>2. Idle(u.n) \in User
  BY <1>1 DEF Idle, User
<1> QED
  BY <1>2 DEF Idle, User

(* The two ends of connections change, but not whose they are.             *)
Rewired ==
    /\ conns' \in Seq(Link) /\ Len(conns') = Len(conns) /\ DOMAIN conns' = DOMAIN conns
    /\ \A c \in DOMAIN conns : conns'[c].thread = conns[c].thread

LEMMA SameLength ==
    ASSUME PortTypeOK, conns' \in [DOMAIN conns -> Link],
           \A c \in DOMAIN conns : conns'[c].thread = conns[c].thread
    PROVE  Rewired
BY ConnFacts DEF Rewired

LEMMA AbandonStep ==
    ASSUME PortInv, NEW t \in Client, Abandon(t)
    PROVE  PortInv'
<1> DEFINE v == [Idle(user[t].n) EXCEPT !.registered = user[t].registered]
           m == Msg("closed", t, user[t].conn, <<0, 0>>, 0)
<1> USE DEF tables, results, history, world
<1>1. /\ user[t] \in User /\ user[t].registered \in BOOLEAN
      /\ user[t].pc \in {"send", "wait"}
      /\ user[t].n \in Nat /\ user[t].n \in 0 .. MaxCalls /\ user[t].conn \in Conn
  BY UserFacts DEF PortInv, Abandon, At, User
<1>2. /\ user' = [user EXCEPT ![t] = v] /\ inbox' = Append(inbox, m)
      /\ conns' = [conns EXCEPT ![user[t].conn].client = FALSE]
      /\ UNCHANGED <<worker, client, process, lock, crossed, alive, starts, born, done, lost>>
  BY UserFacts DEF PortInv, Abandon
<1>3. v \in User /\ v.pc = "idle" /\ v.conn = 0 /\ v.n = user[t].n /\ v.i = 0
  BY <1>1, IdleUser
<1>4. m \in Message /\ m.type # "request"
  <2>1. born[Owner[t]] \in Nat
    BY PortAssumption DEF PortInv, PortTypeOK
  <2> QED
    BY <1>1, <2>1, PortAssumption DEF Msg, Message, Part
<1>5. /\ outcome' \in [ThisCall -> Seq(Part)]
  <2>1. NULL \in Seq(Part)
    BY PortAssumption DEF NULL, Part
  <2>2. outcome' = [outcome EXCEPT ![<<t, user[t].n>>] = NULL]
    BY DEF Abandon
  <2> QED
    BY <2>1, <2>2 DEF PortInv, PortTypeOK
<1> HIDE DEF v, m
<1>6. /\ \A c \in DOMAIN conns : conns'[c].thread = conns[c].thread /\ conns'[c].server = conns[c].server
      /\ conns' \in [DOMAIN conns -> Link]
  BY <1>2, ConnFacts DEF PortInv, Link
<1>7. Rewired
  BY <1>6, SameLength DEF PortInv
<1>8. /\ user' \in [Client -> User] /\ user'[t] = v
      /\ \A x \in Client : x # t => user'[x] = user[x]
      /\ \A x \in Client : user'[x].n >= user[x].n
      /\ \A r \in Flying : SameUser(r)
  <2>1. v.n >= user[t].n
    BY <1>1, <1>3
  <2>2. \A r \in Flying : r.thread = t => r.conn # v.conn
    BY <1>3, ConnFacts DEF PortInv, Links, Owned
  <2> QED
    BY <1>2, <1>3, <2>1, <2>2, OneUser DEF PortInv
<1>9. PortTypeOK'
  <2>1. inbox' \in Seq(Message)
    BY <1>2, <1>4, TypeFacts, AppendProperties DEF PortInv
  <2>2. conns' \in Seq(Link) /\ Len(conns') <= MaxConns
    BY <1>7, ConnFacts DEF PortInv, Rewired
  <2> QED
    BY <1>2, <1>5, <1>8, <2>1, <2>2 DEF PortInv, PortTypeOK, Link
<1>10. NothingNew
  BY <1>2, <1>4, OtherMail DEF PortInv
<1>11. OnlyGrows
  BY <1>7, <1>8 DEF OnlyGrows, Rewired
<1>12. Alone' /\ Links' /\ Arrived' /\ Served'
  BY <1>2, <1>8, <1>10, <1>11, UserMoves
<1>13. Wired'
  BY <1>2, <1>3, <1>6, <1>7, <1>8 DEF PortInv, Wired, Rewired
<1>14. Users'
  <2>1. Asking(v)
    BY <1>3 DEF Asking
  <2>2. \A x \in Client : user[x].pc = "connect" => user[x].conn \in DOMAIN conns
    BY DEF PortInv, Users, Asking, Wired
  <2> QED
    BY <1>3, <1>6, <1>8, <2>1, <2>2 DEF PortInv, Users
<1>15. Spoken'
  BY <1>2, <1>3, <1>8 DEF PortInv, Spoken, Between
<1>16. Held' /\ Locked' /\ Kept' /\ Shapes'
  BY <1>2, ServiceAside
<1> QED
  BY <1>9, <1>12, <1>13, <1>14, <1>15, <1>16 DEF PortInv

LEMMA EndStep ==
    ASSUME PortInv, NEW S \in SUBSET Client, NEW p, End(S, p)
    PROVE  PortInv'
<1> USE DEF tables, results, history, world
<1>1. /\ user' = [t \in Client |-> IF t \in S THEN Idle(user[t].n) ELSE user[t]]
      /\ alive' = alive \ S /\ lost' = lost \cup {t \in S : user[t].pc \in {"connect", "connected"}}
      /\ UNCHANGED <<starts, born, worker, lock, client, process, done, outcome, crossed>>
  BY DEF End
<1>2. PICK shut : conns' = [c \in DOMAIN conns |-> [conns[c] EXCEPT !.client = @ /\ c \notin shut]]
  BY DEF End
<1>3. \A t \in Client : /\ Idle(user[t].n) \in User /\ Idle(user[t].n).pc = "idle"
                        /\ Idle(user[t].n).conn = 0 /\ Idle(user[t].n).n = user[t].n
                        /\ Idle(user[t].n).i = 0
  <2>1. ASSUME NEW u \in User
        PROVE  /\ Idle(u.n) \in User /\ Idle(u.n).pc = "idle" /\ Idle(u.n).conn = 0
               /\ Idle(u.n).n = u.n /\ Idle(u.n).i = 0
    BY EmptySeq, PortAssumption DEF Idle, User, Conn
  <2> QED
    BY <2>1, UserFacts DEF PortInv
<1>4. /\ user' \in [Client -> User]
      /\ \A t \in Client : /\ user'[t] = user[t] \/ user'[t] = Idle(user[t].n)
                           /\ user'[t].n = user[t].n /\ user[t].n \in Nat
  BY <1>1, <1>3, UserFacts DEF PortInv
<1>5. \A t \in Client : user'[t] = user[t] \/ (user'[t].pc = "idle" /\ user'[t].conn = 0 /\ user'[t].i = 0)
  BY <1>3, <1>4
<1>6. /\ conns' \in [DOMAIN conns -> Link]
      /\ \A c \in DOMAIN conns : conns'[c].thread = conns[c].thread /\ conns'[c].server = conns[c].server
  <2>1. ASSUME NEW c \in DOMAIN conns
        PROVE  /\ conns'[c] \in Link
               /\ conns'[c].thread = conns[c].thread /\ conns'[c].server = conns[c].server
    <3>1. conns[c] \in Link /\ conns'[c] = [conns[c] EXCEPT !.client = @ /\ c \notin shut]
      BY <1>2, ConnFacts DEF PortInv
    <3> QED
      BY <3>1 DEF Link
  <2> QED
    BY <1>2, <2>1
<1>7. Rewired
  BY <1>6, SameLength DEF PortInv
<1>8. inbox' \in Seq(Message) /\ NothingNew
  BY <1>1, Ended DEF PortInv
<1>9. PortTypeOK'
  <2>1. conns' \in Seq(Link) /\ Len(conns') <= MaxConns
    BY <1>7, ConnFacts DEF PortInv, Rewired
  <2>2. alive' \subseteq Client /\ lost' \subseteq Client
    BY <1>1 DEF PortInv, PortTypeOK
  <2> QED
    BY <1>1, <1>4, <1>8, <2>1, <2>2 DEF PortInv, PortTypeOK, Link
<1>10. OnlyGrows
  BY <1>4, <1>7 DEF OnlyGrows, Rewired
<1>11. \A m \in Flying : SameUser(m)
  <2>1. \A m \in Flying : m.thread \in Client /\ m.conn # 0
    BY TypeFacts, ConnFacts DEF PortInv, Links, Owned
  <2> QED
    BY <1>5, <2>1 DEF SameUser
<1>12. Alone' /\ Links' /\ Arrived' /\ Served'
  BY <1>1, <1>4, <1>8, <1>10, <1>11, UserMoves
<1>13. Wired'
  BY <1>1, <1>5, <1>6, <1>7 DEF PortInv, Wired, Rewired
<1>14. Users'
  <2>1. \A x \in Client : user[x].pc = "connect" => user[x].conn \in DOMAIN conns
    BY DEF PortInv, Users, Asking, Wired
  <2> QED
    BY <1>5, <1>6, <2>1 DEF PortInv, Users, Asking
<1>15. Spoken'
  BY <1>1, <1>5 DEF PortInv, Spoken, Between
<1>16. Held' /\ Locked' /\ Kept' /\ Shapes'
  BY <1>1, ServiceAside
<1> QED
  BY <1>9, <1>12, <1>13, <1>14, <1>15, <1>16 DEF PortInv

LEMMA UserStepInv ==
    ASSUME PortInv, NEW t \in Client, UserStep(t)
    PROVE  PortInv'
<1>1. CASE StartThread(t)
  BY <1>1, StartThreadStep
<1>2. CASE EndThread(t)
  BY <1>2, EndStep DEF EndThread
<1>3. CASE BeginCall(t)
  BY <1>3, BeginCallStep
<1>4. CASE Register(t)
  BY <1>4, RegisterStep
<1>5. CASE Send(t)
  BY <1>5, SendStep
<1>6. CASE Abandon(t)
  BY <1>6, AbandonStep
<1> QED
  BY <1>1, <1>2, <1>3, <1>4, <1>5, <1>6 DEF UserStep

LEMMA EndProcessStep ==
    ASSUME PortInv, NEW p \in Pid, EndProcess(p)
    PROVE  PortInv'
BY EndStep DEF EndProcess, Threads

-----------------------------------------------------------------------------
(* The steps of the service preserve the invariant                         *)

(* A thread of the service that works for no request after the step.       *)
LEMMA WorkerLeaves ==
    ASSUME PortInv, NEW w \in Worker, NEW x \in Place, worker' = [worker EXCEPT ![w] = x],
           x.pc \notin {"request", "call", "finish", "reply"},
           NothingNew, OnlyGrows, user' \in [Client -> User],
           \A m \in Flying' : SameUser(m) /\ SameClient(m)
    PROVE  Alone' /\ Links' /\ Arrived' /\ Served'
<1>1. \A v \in Worker : v # w => worker'[v] = worker[v]
  OBVIOUS
<1>2. worker'[w] = x
  BY TypeFacts DEF PortInv
<1>3. Alone' /\ Flying' \subseteq Flying /\ Coming' \subseteq Coming
  BY DEF NothingNew
<1>4. Links'
  BY <1>3, TypeFacts, LinksKept DEF PortInv
<1>5. Coming' \subseteq Flying'
  BY DEF Coming, Flying, Busy
<1>6. Arrived'
  BY <1>3, <1>5, ArrivedKept DEF PortInv
<1>7. \A v \in Worker : Serves(v)' => v # w /\ Serves(v) /\ worker[v].msg \in Flying'
  BY <1>1, <1>2 DEF Serves, Flying, Busy
<1>8. Served'
  BY <1>1, <1>7, ServedKept DEF PortInv, Served
<1> QED
  BY <1>3, <1>4, <1>6, <1>8

LEMMA WorkerAside ==
    ASSUME PortInv, NEW w \in Worker, NEW x \in Place, worker' = [worker EXCEPT ![w] = x],
           x.pc \notin {"request", "call", "finish", "reply"},
           NothingNew, UNCHANGED <<user, conns, client, crossed>>
    PROVE  /\ Wired' /\ Alone' /\ Users' /\ Links' /\ Spoken'
           /\ Arrived' /\ Served' /\ Held' /\ Shapes'
<1>1. user' \in [Client -> User] /\ OnlyGrows
  BY UserFacts DEF PortInv, OnlyGrows
<1>2. \A m : SameUser(m) /\ SameClient(m)
  BY DEF SameUser, SameClient, Alike
<1>3. Alone' /\ Links' /\ Arrived' /\ Served'
  BY <1>1, <1>2, WorkerLeaves
<1>4. Wired' /\ Users' /\ Spoken' /\ Shapes'
  BY DEF PortInv, Wired, Users, Spoken, Shapes
<1>5. Held'
  <2>1. \A v \in Worker : Holds(v)' => v # w /\ Holds(v) /\ worker'[v] = worker[v]
    BY TypeFacts DEF PortInv, Holds
  <2> QED
    BY <2>1 DEF PortInv, Held, Does
<1> QED
  BY <1>3, <1>4, <1>5

LEMMA ClientFacts ==
    ASSUME PortTypeOK, NEW t \in Client, client[t] # NoClient
    PROVE  /\ client[t] \in ClientThread /\ client[t].buf \in Seq(Part)
           /\ client[t].length \in Nat /\ client[t].ptr \in Nat
           /\ Len(client[t].buf) <= client[t].length
           /\ client[t].length > 0 => client[t].ptr < client[t].length
BY DEF PortTypeOK, ClientThread

LEMMA NoMessageType == NoMessage \in Message /\ Empty \in Reply /\ Free \in Place
<1>1. (CHOOSE t \in Client : TRUE) \in Client
  BY PortAssumption
<1>2. NoMessage \in Message /\ Empty \in Reply
  BY <1>1, PortAssumption DEF NoMessage, Message, Empty, Reply, Part, Conn
<1> QED
  BY <1>2 DEF Free, Place

LEMMA ReceiveStep ==
    ASSUME PortInv, NEW w \in Worker, Receive(w)
    PROVE  PortInv'
<1> DEFINE m == Head(inbox)
           x == [pc |-> IF m.type = "request" THEN "find" ELSE m.type, msg |-> m, out |-> Empty]
<1> USE DEF tables, results, history, world
<1>1. /\ worker' = [worker EXCEPT ![w] = x] /\ inbox # << >> /\ inbox' = Tail(inbox)
      /\ UNCHANGED <<world, user, conns, lock, tables, results, history>>
  BY DEF Receive
<1>2. m \in Message /\ inbox' \in Seq(Message)
  BY <1>1, TypeFacts, HeadTailProperties DEF PortInv
<1>3. x \in Place /\ x.pc \in {"find", "connect", "died", "closed"}
  BY <1>2, NoMessageType DEF Place, Message
<1> HIDE DEF x, m
<1>4. NothingNew
  BY Received DEF PortInv
<1>5. /\ Wired' /\ Alone' /\ Users' /\ Links' /\ Spoken'
      /\ Arrived' /\ Served' /\ Held' /\ Shapes'
  BY <1>1, <1>3, <1>4, WorkerAside
<1>6. worker' \in [Worker -> Place]
  BY <1>1, <1>3, TypeFacts DEF PortInv
<1>7. PortTypeOK'
  BY <1>1, <1>2, <1>6 DEF PortInv, PortTypeOK, Place
<1>8. Locked' /\ Kept'
  BY <1>1, <1>3, TypeFacts DEF PortInv, Locked, Kept
<1> QED
  BY <1>5, <1>7, <1>8 DEF PortInv

LEMMA DoneMoves ==
    ASSUME PortInv, NEW w \in Worker, Done(w), inbox' = inbox
    PROVE  NothingNew /\ worker' \in [Worker -> Place] /\ worker' = [worker EXCEPT ![w] = Free]
           /\ worker'[w] = Free /\ Free.pc = "receive"
           /\ \A v \in Worker : v # w => worker'[v] = worker[v]
<1>1. worker' = [worker EXCEPT ![w] = Free] /\ Free \in Place /\ Free.pc = "receive"
  BY NoMessageType DEF Done, Free
<1>2. /\ worker' \in [Worker -> Place] /\ worker'[w] = Free
      /\ \A v \in Worker : v # w => worker'[v] = worker[v]
  BY <1>1, TypeFacts DEF PortInv
<1>3. NothingNew
  BY <1>1, <1>2, WorkerMoves DEF PortInv, Serves
<1> QED
  BY <1>1, <1>2, <1>3

(* A message that changes nothing.                                         *)
LEMMA IgnoreStep ==
    ASSUME PortInv, NEW w \in Worker, Done(w), crossed' = crossed,
           UNCHANGED <<world, user, conns, inbox, lock, tables, results, history>>
    PROVE  PortInv'
<1> USE DEF tables, results, history, world
<1>1. NothingNew /\ worker' \in [Worker -> Place] /\ worker' = [worker EXCEPT ![w] = Free]
      /\ worker'[w] = Free /\ Free.pc = "receive"
      /\ \A v \in Worker : v # w => worker'[v] = worker[v]
  BY DoneMoves
<1>2. /\ Wired' /\ Alone' /\ Users' /\ Links' /\ Spoken'
      /\ Arrived' /\ Served' /\ Held' /\ Shapes'
  BY <1>1, NoMessageType, WorkerAside
<1>3. PortTypeOK'
  BY <1>1 DEF PortInv, PortTypeOK, Place
<1>4. Locked' /\ Kept'
  BY <1>1 DEF PortInv, Locked, Kept
<1> QED
  BY <1>2, <1>3, <1>4 DEF PortInv

LEMMA ForgetStep ==
    ASSUME PortInv, NEW w \in Worker, NEW p \in Pid, Forget(w, p),
           UNCHANGED <<world, user, inbox, results, history>>
    PROVE  PortInv'
<1> USE DEF results, history, world
<1>0. Done(w) /\ UNCHANGED <<client, conns, lock>>
  BY DEF Forget
<1>1. NothingNew /\ worker' \in [Worker -> Place] /\ worker' = [worker EXCEPT ![w] = Free]
      /\ worker'[w] = Free /\ Free.pc = "receive"
      /\ \A v \in Worker : v # w => worker'[v] = worker[v]
  BY <1>0, DoneMoves
<1>2. /\ Wired' /\ Alone' /\ Users' /\ Links' /\ Spoken'
      /\ Arrived' /\ Served' /\ Held' /\ Shapes'
  BY <1>0, <1>1, NoMessageType, WorkerAside
<1>3. process' \in [Pid -> Nat \cup {NoClient}]
  BY DEF Forget, PortInv, PortTypeOK
<1>4. PortTypeOK'
  BY <1>0, <1>1, <1>3 DEF PortInv, PortTypeOK, Place
<1>5. Kept'
  BY <1>0 DEF Forget, PortInv, PortTypeOK, Kept, Connected, Threads
<1>6. Locked'
  BY <1>0, <1>1 DEF PortInv, Locked
<1> QED
  BY <1>2, <1>4, <1>5, <1>6 DEF PortInv

LEMMA AwaitStep ==
    ASSUME PortInv, NEW w \in Worker, NEW t \in Client, Await(w, t), lock = NoWorker, client[t] # NoClient,
           UNCHANGED <<world, user, inbox, results, history>>
    PROVE  PortInv'
<1> DEFINE x == [worker[w] EXCEPT !.pc = "remove", !.msg = [worker[w].msg EXCEPT !.thread = t]]
<1> USE DEF tables, results, history, world
<1>1. worker' = [worker EXCEPT ![w] = x] /\ lock' = w /\ UNCHANGED <<client, process, conns>>
  BY TypeFacts DEF Await, PortInv
<1>2. x \in Place /\ x.pc = "remove" /\ x.msg.thread = t
  <2>1. worker[w] \in Place /\ worker[w].msg \in Message
    BY TypeFacts DEF PortInv, Place
  <2>2. [worker[w].msg EXCEPT !.thread = t] \in Message /\ [worker[w].msg EXCEPT !.thread = t].thread = t
    BY <2>1 DEF Message
  <2> QED
    BY <2>1, <2>2 DEF Place
<1> HIDE DEF x
<1>3. /\ worker' \in [Worker -> Place] /\ worker'[w] = x
      /\ \A v \in Worker : v # w => worker'[v] = worker[v]
  BY <1>1, <1>2, TypeFacts DEF PortInv
<1>4. NothingNew
  BY <1>2, <1>3, WorkerMoves DEF PortInv, Serves
<1>5. /\ Wired' /\ Alone' /\ Users' /\ Links' /\ Spoken'
      /\ Arrived' /\ Served' /\ Held' /\ Shapes'
  BY <1>1, <1>2, <1>4, WorkerAside
<1>6. PortTypeOK'
  BY <1>1, <1>3 DEF PortInv, PortTypeOK, Place
<1>7. Kept'
  BY <1>1 DEF PortInv, Kept
<1>8. Locked'
  BY <1>1, <1>2, <1>3, PortAssumption DEF PortInv, Locked
<1> QED
  BY <1>5, <1>6, <1>7, <1>8 DEF PortInv

LEMMA PortDisconnectStep ==
    ASSUME PortInv, NEW w \in Worker, PortDisconnect(w)
    PROVE  PortInv'
<1>1. worker[w].msg.thread \in Client /\ Owner[worker[w].msg.thread] \in Pid
  BY TypeFacts, PortAssumption DEF PortInv, Place, Message
<1> QED
  BY <1>1, ForgetStep, AwaitStep DEF PortDisconnect

LEMMA PortDisconnectByCreateTimeStep ==
    ASSUME PortInv, NEW w \in Worker, PortDisconnectByCreateTime(w)
    PROVE  PortInv'
<1>1. lock = NoWorker /\ UNCHANGED <<world, user, inbox, results, history>>
  BY DEF PortDisconnectByCreateTime
<1>2. \/ Done(w) /\ UNCHANGED <<tables, conns, lock>>
      \/ \E p \in Pid : Forget(w, p)
      \/ \E p \in Pid : \E t \in Connected(p) \ alive : Await(w, t)
  BY DEF PortDisconnectByCreateTime
<1>3. CASE Done(w) /\ UNCHANGED <<tables, conns, lock>>
  BY <1>1, <1>3, IgnoreStep DEF history
<1>4. CASE \E p \in Pid : Forget(w, p)
  BY <1>1, <1>4, ForgetStep
<1>5. CASE \E p \in Pid : \E t \in Connected(p) \ alive : Await(w, t)
  BY <1>1, <1>5, AwaitStep DEF Connected, Threads
<1> QED
  BY <1>2, <1>3, <1>4, <1>5

(* A structure whose thread nobody works for is replaced by a new one, for *)
(* a connection that waits to be accepted or for none.                     *)
LEMMA AcceptStep ==
    ASSUME PortInv, NEW w \in Worker, Accept(worker[w].msg), Done(w),
           \A v \in Worker : Holds(v) => worker[v].msg.thread # worker[w].msg.thread,
           \A v \in Worker : v # w => worker[v].pc \notin {"evict", "remove"},
           lock' \in Worker \cup {NoWorker},
           process' \in [Pid -> Nat \cup {NoClient}],
           process'[Owner[worker[w].msg.thread]] # NoClient,
           \A p \in Pid : process[p] # NoClient => process'[p] # NoClient,
           UNCHANGED <<world, inbox, results, history>>
    PROVE  PortInv'
<1> DEFINE m  == worker[w].msg
           t  == m.thread
           ok == At(t, "connect") /\ user[t].conn = m.conn
           c  == IF ok THEN m.conn ELSE 0
           s  == [Fresh EXCEPT !.hPort = c]
           d  == Port(t)
<1> USE DEF results, history, world
<1>1. t \in Client /\ m.conn \in Conn
  BY TypeFacts DEF PortInv, Place, Message
<1>2. /\ client' = [client EXCEPT ![t] = s]
      /\ conns' = [i \in DOMAIN conns |->
                      IF i = c THEN [conns[i] EXCEPT !.client = TRUE, !.server = TRUE]
                      ELSE IF i = d THEN [conns[i] EXCEPT !.server = FALSE]
                      ELSE conns[i]]
      /\ user' = IF ok THEN [user EXCEPT ![t] = [user[t] EXCEPT !.pc = "connected"]] ELSE user
  BY <1>1, UserFacts DEF Accept, PortInv
<1>3. /\ s \in ClientThread /\ s.hPort = c /\ Clean(s) /\ s.length = 0 /\ Len(s.buf) = 0
      /\ s # NoClient /\ PortOf(s) = c
  <2>1. c \in Conn
    BY <1>1, PortAssumption DEF Conn
  <2>2. Fresh \in ClientThread
    BY EmptySeq, PortAssumption DEF Fresh, ClientThread, Conn
  <2> QED
    BY <2>1, <2>2, EmptySeq, SentinelAssumption DEF Fresh, ClientThread, Clean, PortOf
<1>4. d = PortOf(client[t])
  BY DEF Port, PortOf
<1>5. c # 0 => /\ ok /\ c = m.conn /\ c = user[t].conn /\ user[t].pc = "connect"
               /\ c \in DOMAIN conns /\ conns[c].thread = t
  BY <1>1 DEF At, PortInv, Wired
<1>6. ok => c = user[t].conn /\ user[t].pc = "connect" /\ c # 0
  BY <1>1 DEF At, PortInv, Users, Asking
<1>7. d # 0 => d \in DOMAIN conns /\ conns[d].thread = t
  BY <1>1, <1>4 DEF PortInv, Wired
<1> HIDE DEF s, c, d
<1>8. /\ user' \in [Client -> User]
      /\ \A x \in Client : x # t => user'[x] = user[x]
      /\ user'[t] = IF ok THEN [user[t] EXCEPT !.pc = "connected"] ELSE user[t]
      /\ user'[t].conn = user[t].conn /\ user'[t].n = user[t].n /\ user'[t].length = user[t].length
      /\ user'[t].i = user[t].i /\ user'[t].got = user[t].got
      /\ user'[t].pc = IF ok THEN "connected" ELSE user[t].pc
  <2>1. user[t] \in User
    BY <1>1, UserFacts DEF PortInv
  <2>2. [user[t] EXCEPT !.pc = "connected"] \in User
    BY <2>1 DEF User
  <2> HIDE DEF ok
  <2>3. /\ user' \in [Client -> User]
        /\ \A x \in Client : x # t => user'[x] = user[x]
        /\ user'[t] = IF ok THEN [user[t] EXCEPT !.pc = "connected"] ELSE user[t]
    BY <1>1, <1>2, <2>2, UserFacts DEF PortInv
  <2> QED
    BY <2>1, <2>3 DEF User
<1> HIDE DEF ok, t, m
<1>9. /\ client' \in [Client -> ClientThread \cup {NoClient}]
      /\ client'[t] = s /\ \A x \in Client : x # t => client'[x] = client[x]
  BY <1>1, <1>2, <1>3 DEF PortInv, PortTypeOK
<1>10. /\ conns' \in [DOMAIN conns -> Link]
       /\ \A i \in DOMAIN conns :
             /\ conns'[i].thread = conns[i].thread
             /\ conns'[i].server = IF i = c THEN TRUE ELSE IF i = d THEN FALSE ELSE conns[i].server
  <2>1. ASSUME NEW i \in DOMAIN conns
        PROVE  /\ conns'[i] \in Link /\ conns'[i].thread = conns[i].thread
               /\ conns'[i].server = IF i = c THEN TRUE ELSE IF i = d THEN FALSE ELSE conns[i].server
    <3>1. conns[i] \in Link
      BY ConnFacts DEF PortInv
    <3> QED
      BY <1>2, <3>1 DEF Link
  <2> QED
    BY <1>2, <2>1
<1>11. Rewired
  BY <1>10, SameLength DEF PortInv
<1>12. NothingNew /\ worker' \in [Worker -> Place] /\ worker' = [worker EXCEPT ![w] = Free]
       /\ worker'[w] = Free /\ Free.pc = "receive"
       /\ \A v \in Worker : v # w => worker'[v] = worker[v]
  BY DoneMoves
<1>13. OnlyGrows
  <2>1. \A x \in Client : user'[x].n = user[x].n /\ user[x].n \in Nat
    BY <1>8, UserFacts DEF PortInv
  <2> QED
    BY <1>11, <2>1 DEF OnlyGrows, Rewired
<1>14. ASSUME NEW r \in Flying PROVE SameUser(r) /\ SameClient(r)
  <2>1. r.thread \in Client /\ r.conn \in DOMAIN conns /\ r.conn # 0
    BY TypeFacts, ConnFacts DEF PortInv, Links, Owned
  <2>2. CASE r.thread # t
    BY <1>8, <1>9, <2>1, <2>2 DEF SameUser, SameClient, Alike
  <2>3. CASE r.thread = t /\ ok
    <3>1. r.conn # c
      BY <1>6, <2>3, NotWaiting DEF PortInv
    <3> QED
      BY <1>3, <1>6, <1>8, <1>9, <2>3, <3>1 DEF SameUser, SameClient
  <2>4. CASE r.thread = t /\ ~ ok
    BY <1>3, <1>5, <1>8, <1>9, <2>1, <2>4 DEF SameUser, SameClient
  <2> QED
    BY <2>2, <2>3, <2>4
<1>15. Alone' /\ Links' /\ Arrived' /\ Served'
  BY <1>8, <1>12, <1>13, <1>14, NoMessageType, WorkerLeaves DEF NothingNew
<1>16. PortTypeOK'
  <2>1. conns' \in Seq(Link) /\ Len(conns') <= MaxConns
    BY <1>11, ConnFacts DEF PortInv, Rewired
  <2>2. \A x \in Client : client'[x] # NoClient =>
           /\ Len(client'[x].buf) <= client'[x].length
           /\ client'[x].length > 0 => client'[x].ptr < client'[x].length
    BY <1>3, <1>9, ClientFacts DEF PortInv
  <2> QED
    BY <1>8, <1>9, <1>12, <2>1, <2>2 DEF PortInv, PortTypeOK, Link, Place
<1>17. Wired'
  <2>1. \A x \in Client : user'[x].conn = user[x].conn
    BY <1>8
  <2>2. ASSUME NEW x \in Client, PortOf(client'[x]) # 0
        PROVE  /\ PortOf(client'[x]) \in DOMAIN conns
               /\ conns'[PortOf(client'[x])].thread = x
               /\ conns'[PortOf(client'[x])].server
    <3>1. CASE x = t
      BY <1>3, <1>5, <1>9, <1>10, <2>2, <3>1
    <3>2. CASE x # t
      <4>1. /\ client'[x] = client[x] /\ PortOf(client[x]) \in DOMAIN conns
            /\ conns[PortOf(client[x])].thread = x /\ conns[PortOf(client[x])].server
        BY <1>9, <2>2, <3>2 DEF PortInv, Wired
      <4>2. PortOf(client[x]) # c /\ PortOf(client[x]) # d
        BY <1>5, <1>7, <2>2, <3>2, <4>1
      <4> QED
        BY <1>10, <4>1, <4>2
    <3> QED
      BY <3>1, <3>2
  <2>3. ASSUME NEW i \in DOMAIN conns, conns'[i].server
        PROVE  PortOf(client'[conns'[i].thread]) = i
    <3>1. CASE i = c
      BY <1>3, <1>5, <1>9, <1>10, <2>3, <3>1, ConnFacts DEF PortInv
    <3>2. CASE i # c
      <4>1. i # d /\ PortOf(client[conns[i].thread]) = i /\ conns[i].thread \in Client
        BY <1>10, <2>3, <3>2, ConnFacts DEF PortInv, Wired, Link
      <4> QED
        BY <1>4, <1>9, <1>10, <4>1
    <3> QED
      BY <3>1, <3>2
  <2> QED
    BY <1>10, <1>11, <2>1, <2>2, <2>3 DEF PortInv, Wired, Rewired
<1>18. Users'
  <2>1. Asking(user'[t])
    BY <1>1, <1>6, <1>8 DEF PortInv, Users, Asking
  <2>2. ASSUME NEW x \in Client, user'[x].pc = "connect" PROVE ~ conns'[user'[x].conn].server
    <3>1. /\ user'[x] = user[x] /\ user[x].conn \in DOMAIN conns /\ conns[user[x].conn].thread = x
          /\ ~ conns[user[x].conn].server /\ (x = t => ~ ok)
      <4>1. (x = t => ~ ok) /\ user'[x] = user[x]
        BY <1>8, <2>2
      <4>2. Asking(user[x]) /\ user[x].pc = "connect"
        BY <2>2, <4>1 DEF PortInv, Users
      <4> QED
        BY <4>1, <4>2 DEF PortInv, Users, Asking, Wired
    <3>2. user[x].conn # c
      BY <1>5, <1>6, <3>1, ConnFacts DEF PortInv
    <3> QED
      BY <1>10, <3>1, <3>2
  <2> QED
    BY <1>8, <2>1, <2>2 DEF PortInv, Users
<1>19. Spoken'
  <2>1. Between(user'[t], client'[t])
    BY <1>3, <1>5, <1>8, <1>9 DEF Between
  <2> QED
    BY <1>8, <1>9, <2>1 DEF PortInv, Spoken
<1>20. Held'
  <2>1. ASSUME NEW v \in Worker, Holds(v)'
        PROVE  worker'[v] = worker[v] /\ Holds(v) /\ client'[worker[v].msg.thread] = client[worker[v].msg.thread]
    <3>1. v # w /\ worker'[v] = worker[v] /\ Holds(v)
      BY <1>12, <2>1 DEF Holds
    <3>2. worker[v].msg.thread # t /\ worker[v].msg.thread \in Client
      BY <3>1, TypeFacts DEF t, m, PortInv, Place, Message
    <3> QED
      BY <1>9, <3>1, <3>2
  <2> QED
    BY <2>1 DEF PortInv, Held, Does
<1>21. Locked'
  BY <1>12 DEF Locked
<1>22. Kept'
  <2>1. process'[Owner[t]] # NoClient
    BY DEF t, m
  <2> QED
    BY <1>9, <2>1, PortAssumption DEF PortInv, Kept
<1>23. Shapes'
  BY <1>3, <1>9 DEF PortInv, Shapes, Clean
<1> QED
  BY <1>15, <1>16, <1>17, <1>18, <1>19, <1>20, <1>21, <1>22, <1>23 DEF PortInv

LEMMA RejectStep ==
    ASSUME PortInv, NEW w \in Worker, Reject(worker[w].msg), Done(w), lock' = lock,
           process' \in [Pid -> Nat \cup {NoClient}],
           \A p \in Pid : process[p] # NoClient => process'[p] # NoClient,
           UNCHANGED <<world, inbox, done, history>>
    PROVE  PortInv'
<1> DEFINE m == worker[w].msg
           t == m.thread
           v == [Idle(user[t].n) EXCEPT !.registered = user[t].registered]
<1> USE DEF history, world
<1>1. t \in Client /\ user[t] \in User /\ user[t].registered \in BOOLEAN /\ user[t].n \in Nat
  BY TypeFacts, UserFacts DEF PortInv, Place, Message, User
<1>2. v \in User /\ v.pc = "idle" /\ v.conn = 0 /\ v.n = user[t].n /\ v.i = 0
  BY <1>1, IdleUser
<1>3. UNCHANGED <<conns, client>> /\ (user' = user \/ user' = [user EXCEPT ![t] = v])
  BY UserFacts DEF Reject, PortInv
<1>4. outcome' \in [ThisCall -> Seq(Part)]
  <2>1. NULL \in Seq(Part)
    BY PortAssumption DEF NULL, Part
  <2>2. outcome' = outcome \/ outcome' = [outcome EXCEPT ![<<t, user[t].n>>] = NULL]
    BY DEF Reject
  <2> QED
    BY <2>1, <2>2 DEF PortInv, PortTypeOK
<1> HIDE DEF v, t, m
<1>5. /\ user' \in [Client -> User]
      /\ \A x \in Client : user'[x] = user[x] \/ (user'[x].pc = "idle" /\ user'[x].conn = 0 /\ user'[x].i = 0)
      /\ \A x \in Client : user'[x].n = user[x].n
  BY <1>1, <1>2, <1>3, UserFacts DEF PortInv
<1>6. NothingNew /\ worker' \in [Worker -> Place] /\ worker' = [worker EXCEPT ![w] = Free]
      /\ worker'[w] = Free /\ Free.pc = "receive"
      /\ \A x \in Worker : x # w => worker'[x] = worker[x]
  BY DoneMoves
<1>7. OnlyGrows
  <2>1. \A x \in Client : user'[x].n = user[x].n /\ user[x].n \in Nat
    BY <1>5, UserFacts DEF PortInv
  <2> QED
    BY <1>3, <2>1 DEF OnlyGrows
<1>8. ASSUME NEW r \in Flying PROVE SameUser(r) /\ SameClient(r)
  <2>1. r.thread \in Client /\ r.conn # 0
    BY TypeFacts, ConnFacts DEF PortInv, Links, Owned
  <2> QED
    BY <1>3, <1>5, <2>1 DEF SameUser, SameClient, Alike
<1>9. Alone' /\ Links' /\ Arrived' /\ Served'
  BY <1>5, <1>6, <1>7, <1>8, NoMessageType, WorkerLeaves DEF NothingNew
<1>10. PortTypeOK'
  BY <1>3, <1>4, <1>5, <1>6 DEF PortInv, PortTypeOK, Place
<1>11. Wired'
  BY <1>3, <1>5 DEF PortInv, Wired
<1>12. Users'
  BY <1>3, <1>5 DEF PortInv, Users, Asking
<1>13. Spoken'
  BY <1>3, <1>5 DEF PortInv, Spoken, Between
<1>14. Held'
  BY <1>3, <1>6 DEF PortInv, Held, Holds, Does
<1>15. Locked'
  BY <1>3, <1>6 DEF PortInv, Locked
<1>16. Kept'
  BY <1>3, PortAssumption DEF PortInv, Kept
<1>17. Shapes'
  BY <1>3 DEF PortInv, Shapes
<1> QED
  BY <1>9, <1>10, <1>11, <1>12, <1>13, <1>14, <1>15, <1>16, <1>17 DEF PortInv

(* Nobody holds a structure without a port, or one that is not in use.     *)
LEMMA NotHeld ==
    ASSUME PortInv, ~ crossed, NEW t \in Client,
           PortOf(client[t]) = 0 \/ client[t] = NoClient \/ ~ client[t].in_use,
           NEW w \in Worker, Holds(w)
    PROVE  worker[w].msg.thread # t
<1>1. worker[w].msg \in Flying
  BY DEF Flying, Busy, Serves, Holds
<1>2. worker[w].msg.conn # 0
  BY <1>1, ConnFacts DEF PortInv, Links, Owned
<1> QED
  BY <1>2 DEF PortInv, Held

LEMMA PortConnectStep ==
    ASSUME PortInv, ~ crossed, NEW w \in Worker, PortConnect(w)
    PROVE  PortInv'
<1> DEFINE m == worker[w].msg
           p == Owner[m.thread]
           made == [process EXCEPT ![p] = IF @ # NoClient THEN @ ELSE IF Running(p) THEN born[p] ELSE 0]
<1> USE DEF results, history, world, tables
<1>1. m.thread \in Client /\ p \in Pid
  BY TypeFacts, PortAssumption DEF PortInv, Place, Message
<1>2. /\ made \in [Pid -> Nat \cup {NoClient}]
      /\ made[p] # NoClient
      /\ \A q \in Pid : process[q] # NoClient => made[q] # NoClient
  <2>1. process \in [Pid -> Nat \cup {NoClient}] /\ born[p] \in Nat
    BY <1>1 DEF PortInv, PortTypeOK
  <2> QED
    BY <1>1, <2>1, SentinelAssumption
<1>3. /\ lock = NoWorker /\ Does(w, "connect")
      /\ UNCHANGED <<world, inbox, done, history>>
  BY DEF PortConnect
<1>4. \A v \in Worker : worker[v].pc \notin {"evict", "remove"}
  BY <1>3, PortAssumption DEF PortInv, Locked
<1>5. CASE Port(m.thread) = 0 /\ process' = made /\ Accept(m) /\ Done(w) /\ UNCHANGED <<lock, outcome>>
  <2>1. \A v \in Worker : Holds(v) => worker[v].msg.thread # m.thread
    BY <1>1, <1>5, NotHeld DEF Port, PortOf
  <2>2. lock' \in Worker \cup {NoWorker}
    BY <1>3, <1>5
  <2> HIDE DEF made
  <2> QED
    BY <1>2, <1>3, <1>4, <1>5, <2>1, <2>2, AcceptStep
<1>6. CASE process' \in {process, made} /\ Reject(m) /\ Done(w) /\ UNCHANGED lock
  <2>1. process \in [Pid -> Nat \cup {NoClient}]
    BY DEF PortInv, PortTypeOK
  <2> HIDE DEF made
  <2>2. process' \in [Pid -> Nat \cup {NoClient}] /\ \A q \in Pid : process[q] # NoClient => process'[q] # NoClient
    BY <1>2, <1>6, <2>1
  <2> QED
    BY <1>3, <1>6, <2>2, RejectStep
<1>7. CASE Port(m.thread) # 0 /\ lock' = w /\ Goto(w, "evict") /\ UNCHANGED <<user, conns, tables, outcome>>
  <2> DEFINE x == [worker[w] EXCEPT !.pc = "evict"]
  <2>1. worker' = [worker EXCEPT ![w] = x] /\ x \in Place /\ x.pc = "evict" /\ x.msg = m
    BY <1>7, TypeFacts DEF Goto, PortInv, Place
  <2> HIDE DEF x
  <2>2. /\ worker' \in [Worker -> Place] /\ worker'[w] = x
        /\ \A v \in Worker : v # w => worker'[v] = worker[v]
    BY <2>1, TypeFacts DEF PortInv
  <2>3. NothingNew
    BY <1>3, <2>1, <2>2, WorkerMoves DEF PortInv, Serves
  <2>4. /\ Wired' /\ Alone' /\ Users' /\ Links' /\ Spoken'
        /\ Arrived' /\ Served' /\ Held' /\ Shapes'
    BY <1>3, <1>7, <2>1, <2>3, WorkerAside
  <2>5. PortTypeOK'
    BY <1>3, <1>7, <2>2 DEF PortInv, PortTypeOK, Place
  <2>6. Kept'
    BY <1>7 DEF PortInv, Kept
  <2>7. Locked'
    BY <1>4, <1>7, <2>1, <2>2 DEF Locked, Port
  <2> QED
    BY <2>4, <2>5, <2>6, <2>7 DEF PortInv
<1> QED
  BY <1>5, <1>6, <1>7 DEF PortConnect

LEMMA LockedAlone ==
    ASSUME PortInv, NEW w \in Worker, worker[w].pc \in {"evict", "remove"}
    PROVE  /\ \A v \in Worker : v # w => worker[v].pc \notin {"evict", "remove"}
           /\ client[worker[w].msg.thread] # NoClient
           /\ worker[w].msg.thread \in Client
BY TypeFacts DEF PortInv, Locked, Place, Message

LEMMA EvictStep ==
    ASSUME PortInv, ~ crossed, NEW w \in Worker, Evict(w)
    PROVE  PortInv'
<1> DEFINE t == worker[w].msg.thread
<1> USE DEF results, history, world, tables
<1>1. /\ \A v \in Worker : v # w => worker[v].pc \notin {"evict", "remove"}
      /\ client[t] # NoClient /\ t \in Client
  BY LockedAlone DEF Evict, Does
<1>2. \A v \in Worker : Holds(v) => worker[v].msg.thread # t
  BY <1>1, NotHeld DEF Evict
<1>3. process \in [Pid -> Nat \cup {NoClient}] /\ process[Owner[t]] # NoClient
  BY <1>1 DEF PortInv, PortTypeOK, Kept
<1> QED
  BY <1>1, <1>2, <1>3, AcceptStep DEF Evict

LEMMA DiscardStep ==
    ASSUME PortInv, ~ crossed, NEW w \in Worker, Discard(w)
    PROVE  PortInv'
<1> DEFINE t == worker[w].msg.thread
           p == Owner[t]
           d == PortOf(client[t])
<1> USE DEF results, history, world, tables
<1>1. /\ \A v \in Worker : v # w => worker[v].pc \notin {"evict", "remove"}
      /\ client[t] # NoClient /\ t \in Client
  BY LockedAlone DEF Discard, Does
<1>2. /\ Done(w) /\ lock' = NoWorker
      /\ client' = [client EXCEPT ![t] = NoClient]
      /\ conns' = [c \in DOMAIN conns |-> [conns[c] EXCEPT !.server = @ /\ c # d]]
      /\ process' = IF Connected(p) = {t} THEN [process EXCEPT ![p] = NoClient] ELSE process
      /\ UNCHANGED <<world, user, inbox, results, history>>
  BY DEF Discard, Port, PortOf
<1>3. ~ client[t].in_use
  BY DEF Discard
<1>4. \A v \in Worker : Holds(v) => worker[v].msg.thread # t
  BY <1>1, <1>3, NotHeld
<1> HIDE DEF d, t
<1>5. /\ client' \in [Client -> ClientThread \cup {NoClient}]
      /\ client'[t] = NoClient /\ PortOf(client'[t]) = 0
      /\ \A x \in Client : x # t => client'[x] = client[x]
  BY <1>1, <1>2 DEF PortInv, PortTypeOK, PortOf
<1>6. /\ conns' \in [DOMAIN conns -> Link]
      /\ \A c \in DOMAIN conns :
            conns'[c].thread = conns[c].thread /\ (conns'[c].server <=> (conns[c].server /\ c # d))
  <2>1. ASSUME NEW c \in DOMAIN conns
        PROVE  /\ conns'[c] \in Link /\ conns'[c].thread = conns[c].thread
               /\ (conns'[c].server <=> (conns[c].server /\ c # d))
    <3>1. conns[c] \in Link /\ conns'[c] = [conns[c] EXCEPT !.server = conns[c].server /\ c # d]
      BY <1>2, ConnFacts DEF PortInv
    <3> QED
      BY <3>1 DEF Link
  <2> QED
    BY <1>2, <2>1
<1>7. Rewired
  BY <1>6, SameLength DEF PortInv
<1>8. NothingNew /\ worker' \in [Worker -> Place] /\ worker' = [worker EXCEPT ![w] = Free]
      /\ worker'[w] = Free /\ Free.pc = "receive"
      /\ \A v \in Worker : v # w => worker'[v] = worker[v]
  BY <1>2, DoneMoves
<1>9. user' \in [Client -> User] /\ OnlyGrows
  BY <1>2, <1>7, UserFacts DEF PortInv, OnlyGrows, Rewired
<1>10. ASSUME NEW r \in Flying PROVE SameUser(r) /\ SameClient(r)
  <2>1. r.thread \in Client /\ r.conn # 0
    BY TypeFacts, ConnFacts DEF PortInv, Links, Owned
  <2> QED
    BY <1>2, <1>5, <2>1 DEF SameUser, SameClient, Alike
<1>11. Alone' /\ Links' /\ Arrived' /\ Served'
  BY <1>8, <1>9, <1>10, NoMessageType, WorkerLeaves DEF NothingNew
<1>12. process' \in [Pid -> Nat \cup {NoClient}]
  BY <1>2 DEF PortInv, PortTypeOK
<1>13. PortTypeOK'
  <2>1. conns' \in Seq(Link) /\ Len(conns') <= MaxConns
    BY <1>7, ConnFacts DEF PortInv, Rewired
  <2>2. \A x \in Client : client'[x] # NoClient =>
           /\ Len(client'[x].buf) <= client'[x].length
           /\ client'[x].length > 0 => client'[x].ptr < client'[x].length
    BY <1>5, ClientFacts DEF PortInv
  <2>3. lock' \in Worker \cup {NoWorker}
    BY <1>2
  <2> QED
    BY <1>2, <1>5, <1>8, <1>12, <2>1, <2>2, <2>3 DEF PortInv, PortTypeOK, Link, Place
<1>14. Wired'
  <2>1. ASSUME NEW x \in Client, PortOf(client'[x]) # 0
        PROVE  /\ PortOf(client'[x]) \in DOMAIN conns
               /\ conns'[PortOf(client'[x])].thread = x
               /\ conns'[PortOf(client'[x])].server
    <3>1. x # t /\ client'[x] = client[x] /\ PortOf(client[x]) \in DOMAIN conns
          /\ conns[PortOf(client[x])].thread = x /\ conns[PortOf(client[x])].server
      BY <1>5, <2>1 DEF PortInv, Wired
    <3>2. PortOf(client[x]) # d
      BY <1>1, <2>1, <3>1 DEF PortInv, Wired, d
    <3> QED
      BY <1>6, <3>1, <3>2
  <2>2. ASSUME NEW i \in DOMAIN conns, conns'[i].server
        PROVE  PortOf(client'[conns'[i].thread]) = i
    <3>1. i # d /\ PortOf(client[conns[i].thread]) = i /\ conns[i].thread \in Client
      BY <1>6, <2>2, ConnFacts DEF PortInv, Wired, Link
    <3> QED
      BY <1>5, <1>6, <3>1 DEF d
  <2> QED
    <3>1. user' = user /\ DOMAIN conns' = DOMAIN conns
      BY <1>2, <1>7 DEF Rewired
    <3>2. \A c \in DOMAIN conns : conns'[c].thread = conns[c].thread
      BY <1>6
    <3> QED
      BY <2>1, <2>2, <3>1, <3>2 DEF PortInv, Wired
<1>15. Users'
  <2>1. \A x \in Client : user[x].pc = "connect" => user[x].conn \in DOMAIN conns
    BY DEF PortInv, Users, Asking, Wired
  <2> QED
    BY <1>2, <1>6, <2>1 DEF PortInv, Users
<1>16. Spoken'
  BY <1>2, <1>5 DEF PortInv, Spoken, Between
<1>17. Held'
  <2>1. ASSUME NEW v \in Worker, Holds(v)'
        PROVE  worker'[v] = worker[v] /\ Holds(v) /\ client'[worker[v].msg.thread] = client[worker[v].msg.thread]
    <3>1. v # w /\ worker'[v] = worker[v] /\ Holds(v)
      BY <1>8, <2>1 DEF Holds
    <3>2. worker[v].msg.thread # t /\ worker[v].msg.thread \in Client
      BY <1>4, <3>1, TypeFacts DEF PortInv, Place, Message
    <3> QED
      BY <1>5, <3>1, <3>2
  <2> QED
    BY <1>2, <2>1 DEF PortInv, Held, Does
<1>18. Locked'
  BY <1>1, <1>8 DEF Locked, t
<1>19. Kept'
  BY <1>2, <1>5 DEF PortInv, PortTypeOK, Kept, Connected, Threads
<1>20. Shapes'
  BY <1>5 DEF PortInv, Shapes
<1> QED
  BY <1>11, <1>13, <1>14, <1>15, <1>16, <1>17, <1>18, <1>19, <1>20 DEF PortInv

-----------------------------------------------------------------------------
(* A thread that works with a structure                                    *)

(* What w may rely on: the structure is that of the connection its request *)
(* came over, no other request came over it, and nobody else holds it.     *)
LEMMA Exclusive ==
    ASSUME PortInv, ~ crossed, NEW w \in Worker, Holds(w)
    PROVE  LET m == worker[w].msg
               t == m.thread
           IN
           /\ worker[w] \in Place /\ m \in Message /\ t \in Client /\ m \in Flying
           /\ client[t] # NoClient /\ client[t] \in ClientThread /\ client[t].in_use
           /\ PortOf(client[t]) = m.conn /\ m.conn # 0
           /\ Linked(m, user[t]) /\ user[t] \in User
           /\ \A v \in Worker : v # w /\ Busy(v) => worker[v].msg.conn # m.conn
           /\ \A r \in Sent : r.conn # m.conn
           /\ \A v \in Worker : v # w /\ Holds(v) => worker[v].msg.thread # t
<1> DEFINE m == worker[w].msg
           t == m.thread
<1>1. /\ worker[w] \in Place /\ m \in Message /\ t \in Client
      /\ \A v \in Worker : Holds(v) => Busy(v) /\ worker[v].msg \in Flying
  BY TypeFacts DEF PortInv, Place, Message, Flying, Busy, Serves, Holds
<1>2. m \in Flying /\ m.conn # 0 /\ Linked(m, user[t])
  BY <1>1, ConnFacts DEF PortInv, Links, Owned
<1>3. \A v \in Worker : Holds(v) =>
         LET s == client[worker[v].msg.thread] IN
         s # NoClient /\ s.in_use /\ PortOf(s) = worker[v].msg.conn
  BY DEF PortInv, Held
<1>4. client[t] \in ClientThread /\ user[t] \in User
  BY <1>1, <1>3, ClientFacts, UserFacts DEF PortInv
<1>5. /\ \A v \in Worker : v # w /\ Busy(v) => worker[v].msg.conn # m.conn
      /\ \A r \in Sent : r.conn # m.conn
  BY <1>1 DEF PortInv, Alone, Sent
<1>6. \A v \in Worker : v # w /\ Holds(v) => worker[v].msg.thread # t
  BY <1>1, <1>3, <1>5
<1> QED
  BY <1>1, <1>2, <1>3, <1>4, <1>5, <1>6

(* w works for its request m and leaves the structure as r, itself as x.   *)
LEMMA ServeStep ==
    ASSUME PortInv, ~ crossed, NEW w \in Worker, Holds(w), NEW r \in ClientThread, NEW x \in Place,
           client' = [client EXCEPT ![worker[w].msg.thread] = r],
           worker' = [worker EXCEPT ![w] = x],
           r.hPort = client[worker[w].msg.thread].hPort,
           Len(r.buf) <= r.length, r.length > 0 => r.ptr < r.length,
           r.length = 0 => r.ptr = 0 /\ r.buf = << >>,
           x.msg = worker[w].msg,
           (x.pc \in {"call", "finish"} /\ r.in_use) \/ x.pc \in {"reply", "misled"},
           Speaks(x.pc, worker[w].msg, x.out, r, user[worker[w].msg.thread]),
           done' \in [ThisCall -> Nat],
           UNCHANGED <<world, user, conns, inbox, lock, process, outcome, history>>
    PROVE  PortInv'
<1> DEFINE m == worker[w].msg
           t == m.thread
<1> USE DEF history, world
<1>1. /\ worker[w] \in Place /\ m \in Message /\ t \in Client /\ m \in Flying
      /\ client[t] # NoClient /\ client[t] \in ClientThread /\ client[t].in_use
      /\ PortOf(client[t]) = m.conn /\ m.conn # 0
      /\ Linked(m, user[t]) /\ user[t] \in User
      /\ \A v \in Worker : v # w /\ Busy(v) => worker[v].msg.conn # m.conn
      /\ \A q \in Sent : q.conn # m.conn
      /\ \A v \in Worker : v # w /\ Holds(v) => worker[v].msg.thread # t
  BY Exclusive
<1>2. r # NoClient /\ PortOf(r) = m.conn
  BY <1>1, SentinelAssumption DEF PortOf
<1>3. worker'[w] = x /\ worker' \in [Worker -> Place] /\ \A v \in Worker : v # w => worker'[v] = worker[v]
  BY TypeFacts DEF PortInv
<1>4. NothingNew
  <2>1. Serves(w)' => Busy(w) /\ worker'[w].msg = worker[w].msg
    BY <1>3 DEF Busy, Serves, Holds
  <2>2. worker'[w].pc # "find"
    BY <1>3
  <2> QED
    BY <1>3, <2>1, <2>2, WorkerMoves DEF PortInv
<1>5. Does(w, "find")' = FALSE
  BY <1>3 DEF Does
<1>6. user' = user /\ conns' = conns /\ lock' = lock /\ process' = process /\ crossed' = crossed
  OBVIOUS
<1> HIDE DEF m, t
<1>7. /\ client' \in [Client -> ClientThread \cup {NoClient}]
      /\ client'[t] = r /\ \A y \in Client : y # t => client'[y] = client[y]
  BY <1>1 DEF PortInv, PortTypeOK, t, m
<1>8. \A q : SameUser(q)
  BY <1>6 DEF SameUser
<1>9. \A q : q.thread \in Client /\ q.conn # m.conn => SameClient(q)
  BY <1>2, <1>7 DEF SameClient, Alike
<1>10. Alone' /\ Flying' \subseteq Flying /\ Coming' \subseteq Coming
  BY <1>4 DEF NothingNew
<1>11. Links'
  BY <1>6, <1>8, <1>10, TypeFacts, UserFacts, LinksKept DEF PortInv, OnlyGrows
<1>12. Arrived'
  <2>1. ASSUME NEW q \in Coming' PROVE q.conn # m.conn /\ q.thread \in Client
    <3>1. Sent' = Sent
      BY DEF Sent
    <3>2. q \in Sent \/ \E v \in Worker : v # w /\ Does(v, "find") /\ q = worker[v].msg
      BY <1>3, <1>5, <3>1 DEF Coming, Does
    <3>3. q.conn # m.conn
      BY <1>1, <3>2 DEF Busy
    <3> QED
      BY <1>10, <3>3, TypeFacts DEF PortInv
  <2> QED
    BY <1>8, <1>9, <1>10, <2>1, ArrivedKept DEF PortInv
<1>13. Served'
  <2>1. ASSUME NEW v \in Worker, v # w
        PROVE  Serves(v)' => Speaks(worker'[v].pc, worker'[v].msg, worker'[v].out,
                                    client'[worker'[v].msg.thread], user'[worker'[v].msg.thread])
    <3>1. Serves(v) => worker[v].msg.conn # m.conn /\ worker[v].msg.thread \in Client
      BY <1>1, <2>1, TypeFacts DEF Busy, PortInv, Place, Message
    <3> QED
      BY <1>3, <1>8, <1>9, <2>1, <3>1, ServedKept DEF PortInv
  <2>2. Speaks(worker'[w].pc, worker'[w].msg, worker'[w].out,
               client'[worker'[w].msg.thread], user'[worker'[w].msg.thread])
    BY <1>3, <1>6, <1>7 DEF m, t
  <2> QED
    BY <2>1, <2>2 DEF Served
<1>14. PortTypeOK'
  <2>1. \A y \in Client : client'[y] # NoClient =>
           /\ Len(client'[y].buf) <= client'[y].length
           /\ client'[y].length > 0 => client'[y].ptr < client'[y].length
    BY <1>7, ClientFacts DEF PortInv
  <2> QED
    BY <1>3, <1>7, <2>1 DEF PortInv, PortTypeOK, Place
<1>15. \A y \in Client : PortOf(client'[y]) = PortOf(client[y])
  BY <1>1, <1>2, <1>7 DEF PortOf
<1>16. Wired'
  <2>1. \A c \in DOMAIN conns : conns[c].thread \in Client
    BY ConnFacts DEF PortInv, Link
  <2> QED
    BY <1>6, <1>15, <2>1 DEF PortInv, Wired
<1>17. Users'
  BY <1>6 DEF PortInv, Users
<1>18. Spoken'
  <2>1. Between(user[t], r)
    BY <1>1, <1>2 DEF Between, Linked
  <2> QED
    BY <1>6, <1>7, <2>1 DEF PortInv, Spoken
<1>19. Held'
  <2>1. ASSUME NEW v \in Worker, v # w, Holds(v)'
        PROVE  /\ worker'[v] = worker[v] /\ Holds(v)
               /\ client'[worker[v].msg.thread] = client[worker[v].msg.thread]
    <3>1. worker'[v] = worker[v] /\ Holds(v)
      BY <1>3, <2>1 DEF Holds
    <3>2. worker[v].msg.thread # t /\ worker[v].msg.thread \in Client
      BY <1>1, <2>1, <3>1, TypeFacts DEF PortInv, Place, Message
    <3> QED
      BY <1>7, <3>1, <3>2
  <2>2. Holds(w)' => /\ client'[worker'[w].msg.thread] # NoClient
                     /\ client'[worker'[w].msg.thread].in_use
                     /\ PortOf(client'[worker'[w].msg.thread]) = worker'[w].msg.conn
    BY <1>2, <1>3, <1>7 DEF m, t, Holds
  <2> QED
    BY <1>6, <2>1, <2>2 DEF PortInv, Held, Does
<1>20. Locked'
  <2>1. \A v \in Worker : worker'[v].pc \in {"evict", "remove"} => v # w /\ worker'[v] = worker[v]
    BY <1>3
  <2>2. \A v \in Worker : worker[v].msg.thread \in Client
    BY TypeFacts DEF PortInv, Place, Message
  <2> QED
    BY <1>2, <1>6, <1>7, <2>1, <2>2 DEF PortInv, Locked
<1>21. Kept'
  BY <1>1, <1>6, <1>7 DEF PortInv, Kept
<1>22. Shapes'
  BY <1>7 DEF PortInv, Shapes
<1> QED
  BY <1>10, <1>11, <1>12, <1>13, <1>14, <1>16, <1>17, <1>18, <1>19, <1>20, <1>21, <1>22 DEF PortInv

LEMMA Refuses ==
    ASSUME NEW s \in ClientThread
    PROVE  LET r == [s EXCEPT !.buf = << >>, !.length = 0, !.ptr = 0, !.replying = TRUE] IN
           /\ r \in ClientThread /\ Refusal(r) /\ r.hPort = s.hPort /\ r.in_use = s.in_use
           /\ r.buf = << >> /\ r.length = 0 /\ r.ptr = 0 /\ Len(r.buf) = 0
BY EmptySeq DEF ClientThread, Refusal

LEMMA Collected ==
    ASSUME PortInv, NEW t \in Client, client[t] \in ClientThread, NEW part, NEW length,
           client' = Collect(t, part, length)
    PROVE  client' = [client EXCEPT ![t] =
                         [client[t] EXCEPT !.buf = Append(client[t].buf, part), !.length = length]]
BY DEF Collect, PortInv, PortTypeOK, ClientThread

(* The parts of a request are collected in order.                          *)
LEMMA Collects ==
    ASSUME NEW s \in ClientThread, NEW m \in Message, m.part[1] \in 0 .. MaxCalls,
           m.part[2] > 0, m.part[2] <= m.length,
           Ready(s, m.part[1], m.length, m.part[2]), s.length = 0 => m.part[2] = 1
    PROVE  /\ ~ s.replying /\ s.ptr = 0
           /\ (IF s.length = 0 THEN m.length ELSE s.length) = m.length
           /\ Append(s.buf, m.part) = Parts(m.part[1], m.part[2])
<1>1. /\ m.part[2] \in Nat /\ m.length \in Nat
      /\ m.part = <<m.part[1], m.part[2]>>
      /\ s.length \in Nat
  BY DEF Message, Part, ClientThread
<1>2. CASE Clean(s)
  <2>1. s.length = 0 /\ s.buf = << >> /\ m.part = <<m.part[1], 1>> /\ m.part[2] = 1
    BY <1>1, <1>2 DEF Clean
  <2> QED
    BY <1>2, <2>1, FirstPart DEF Clean
<1>3. CASE Half(s, m.part[1], m.length, m.part[2] - 1)
  <2>1. /\ m.part[2] - 1 \in Nat /\ m.part[2] - 1 \in 1 .. m.length - 1
        /\ (m.part[2] - 1) + 1 = m.part[2] /\ s.buf = Parts(m.part[1], m.part[2] - 1)
        /\ s.length = m.length
    BY <1>1, <1>3 DEF Half
  <2>2. Append(Parts(m.part[1], m.part[2] - 1), <<m.part[1], (m.part[2] - 1) + 1>>)
          = Parts(m.part[1], (m.part[2] - 1) + 1)
    BY <2>1, PartsGrow
  <2> QED
    BY <1>1, <1>3, <2>1, <2>2 DEF Half
<1> QED
  BY <1>1, <1>2, <1>3 DEF Ready

LEMMA PortRequestStep ==
    ASSUME PortInv, ~ crossed, NEW w \in Worker, PortRequest(w)
    PROVE  PortInv'
<1> DEFINE m == worker[w].msg
           t == m.thread
           s == client[t]
           u == user[t]
           length == IF s.length = 0 THEN m.length ELSE s.length
           buf == Append(s.buf, m.part)
           later == s.length = 0 /\ m.part[2] # 1
<1> USE DEF history, world, results
<1>1. Holds(w) /\ Serves(w) /\ worker[w].pc = "request"
  BY DEF PortRequest, Does, Holds, Serves
<1>2. /\ worker[w] \in Place /\ m \in Message /\ t \in Client
      /\ s # NoClient /\ s \in ClientThread /\ s.in_use
      /\ PortOf(s) = m.conn
      /\ Linked(m, u) /\ u \in User
  BY <1>1, Exclusive
<1>3. m.part[2] > 0 /\ Ready(s, m.part[1], m.length, m.part[2])
  BY <1>1, <1>2 DEF PortInv, Served, Speaks, Arrives
<1>4. /\ m.part[1] \in 0 .. MaxCalls /\ m.part[2] \in Nat /\ m.length \in Nat
      /\ m.part[2] <= m.length /\ m.length > 0
  BY <1>2 DEF Linked, Message, Part
<1>5. done' \in [ThisCall -> Nat] /\ UNCHANGED <<world, user, conns, inbox, lock, process, outcome, history>>
  BY DEF PortRequest, PortInv, PortTypeOK
<1>6. CASE /\ ~ later
           /\ client' = Collect(t, m.part, length)
           /\ Goto(w, IF Len(s.buf) + 1 = length THEN "call" ELSE "finish")
  <2> DEFINE r == [s EXCEPT !.buf = buf, !.length = length]
             x == [worker[w] EXCEPT !.pc = IF Len(s.buf) + 1 = length THEN "call" ELSE "finish"]
  <2>0. Len(buf) = Len(s.buf) + 1
    BY <1>2, <1>4 DEF ClientThread, Message
  <2>1. /\ ~ s.replying /\ s.ptr = 0 /\ length = m.length
        /\ buf = Parts(m.part[1], m.part[2])
    BY <1>2, <1>3, <1>4, <1>6, Collects
  <2>2. buf \in Seq(Part) /\ Len(buf) = m.part[2]
    <3>1. Parts(m.part[1], m.part[2]) \in Seq(Part)
          /\ Len(Parts(m.part[1], m.part[2])) = m.part[2]
      BY <1>4, PartsAre, Zenon
    <3> QED
      BY <2>1, <3>1, Zenon
  <2>3. client' = [client EXCEPT ![t] = r]
    <3> HIDE DEF length
    <3> QED
      BY <1>2, <1>6, Collected, Zenon
  <2>4. worker' = [worker EXCEPT ![w] = x]
    BY <1>6, TypeFacts DEF Goto, PortInv
  <2> HIDE DEF s, buf, length, m, t, u
  <2>5. /\ r \in ClientThread /\ r.hPort = s.hPort /\ r.in_use = s.in_use /\ r.replying = s.replying
        /\ r.ptr = s.ptr /\ r.buf = buf /\ r.length = length
    BY <1>2, <1>4, <2>1, <2>2 DEF ClientThread
  <2>6. /\ x \in Place /\ x.msg = worker[w].msg
        /\ x.pc = IF Len(buf) = length THEN "call" ELSE "finish"
    BY <1>2, <2>0 DEF Place
  <2> HIDE DEF r, x
  <2>7. Speaks(x.pc, m, x.out, r, u)
    <3>1. CASE m.part[2] = m.length
      <4>1. Called(m, r) /\ x.pc = "call"
        BY <2>1, <2>2, <2>5, <2>6, <3>1 DEF Called
      <4>2. x.pc # "request" /\ x.pc # "finish" /\ x.pc # "reply"
        BY <4>1
      <4> QED
        BY <4>1, <4>2, Zenon DEF Speaks
    <3>2. CASE m.part[2] # m.length
      <4>1. x.pc = "finish"
        BY <2>1, <2>2, <2>6, <3>2
      <4>2. Half(r, m.part[1], m.length, m.part[2])
        BY <1>3, <1>4, <2>1, <2>5, <3>2 DEF Half
      <4> QED
        BY <4>1, <4>2 DEF Speaks, Finishes
    <3> QED
      BY <3>1, <3>2
  <2>8. Len(r.buf) <= r.length /\ r.length # 0 /\ (r.length > 0 => r.ptr < r.length)
    BY <1>4, <2>1, <2>2, <2>5
  <2> QED
    BY <1>1, <1>2, <1>5, <2>3, <2>4, <2>5, <2>6, <2>7, <2>8, ServeStep DEF s, t, m, u
<1>7. CASE client' = Refused(t) /\ Goto(w, "finish")
  <2> DEFINE r == [s EXCEPT !.buf = << >>, !.length = 0, !.ptr = 0, !.replying = TRUE]
             x == [worker[w] EXCEPT !.pc = "finish"]
  <2>1. /\ r \in ClientThread /\ Refusal(r) /\ r.hPort = s.hPort /\ r.in_use = s.in_use
        /\ r.buf = << >> /\ r.length = 0 /\ r.ptr = 0 /\ Len(r.buf) = 0
    BY <1>2, Refuses
  <2>2. client' = [client EXCEPT ![t] = r]
    BY <1>2, <1>7 DEF Refused, PortInv, PortTypeOK
  <2>3. worker' = [worker EXCEPT ![w] = x]
    BY <1>7, TypeFacts DEF Goto, PortInv
  <2>4. x \in Place /\ x.msg = worker[w].msg /\ x.pc = "finish"
    BY <1>2 DEF Place
  <2> HIDE DEF r, x
  <2>5. Speaks(x.pc, m, x.out, r, u)
    BY <1>3, <2>1, <2>4 DEF Speaks, Finishes
  <2>6. /\ Len(r.buf) <= r.length /\ (r.length > 0 => r.ptr < r.length)
        /\ (r.length = 0 => r.ptr = 0 /\ r.buf = << >>) /\ r.in_use
    BY <1>2, <2>1
  <2> HIDE DEF s, m, t, u
  <2> QED
    BY <1>1, <1>5, <2>1, <2>2, <2>3, <2>4, <2>5, <2>6, ServeStep DEF s, t, m, u
<1>8. ASSUME later, NEW believed \in Chunks, client' = Collect(t, m.part, believed), Goto(w, "misled")
      PROVE  PortInv'
  <2> DEFINE r == [s EXCEPT !.buf = buf, !.length = believed]
             x == [worker[w] EXCEPT !.pc = "misled"]
  <2>1. s.ptr = 0 /\ s.buf = << >> /\ believed \in Nat \ {0}
    BY <1>2, <1>8, PortAssumption DEF PortInv, Shapes
  <2>2. m.part \in Part /\ buf \in Seq(Part) /\ Len(buf) = 1
    <3>1. PICK part : part = m.part
      OBVIOUS
    <3>2. part \in Part
      BY <1>2, <3>1 DEF Message
    <3>3. PICK one : one = Append(<< >>, part)
      OBVIOUS
    <3>4. buf = one
      BY <2>1, <3>1, <3>3, Zenon
    <3>5. one \in Seq(Part) /\ Len(one) = 1
      BY <3>2, <3>3
    <3> QED
      BY <3>1, <3>2, <3>4, <3>5, Zenon
  <2>3. client' = [client EXCEPT ![t] = r]
    BY <1>2, <1>8, Collected, Zenon
  <2>4. worker' = [worker EXCEPT ![w] = x]
    BY <1>8, TypeFacts DEF Goto, PortInv
  <2>5. x \in Place /\ x.msg = worker[w].msg /\ x.pc = "misled"
    BY <1>2 DEF Place
  <2> HIDE DEF s, buf, m, t, u, length, later
  <2>6. /\ r \in ClientThread /\ r.hPort = s.hPort /\ r.ptr = s.ptr /\ r.buf = buf /\ r.length = believed
    BY <1>2, <2>1, <2>2 DEF ClientThread
  <2> HIDE DEF r, x
  <2>7. Speaks(x.pc, m, x.out, r, u)
    BY <2>5 DEF Speaks
  <2>8. Len(r.buf) <= r.length /\ r.length # 0 /\ (r.length > 0 => r.ptr < r.length)
    <3>1. Len(r.buf) = 1 /\ r.ptr = 0 /\ r.length = believed
      BY <2>1, <2>2, <2>6, Zenon
    <3> QED
      BY <2>1, <3>1
  <2> QED
    BY <1>1, <1>2, <1>5, <2>3, <2>4, <2>5, <2>6, <2>7, <2>8, ServeStep DEF s, t, m, u
<1> QED
  BY <1>6, <1>7, <1>8 DEF PortRequest

LEMMA CallTargetStep ==
    ASSUME PortInv, ~ crossed, NEW w \in Worker, CallTarget(w)
    PROVE  PortInv'
<1> DEFINE m == worker[w].msg
           t == m.thread
           s == client[t]
           u == user[t]
           n == s.buf[1][1]
           x == [worker[w] EXCEPT !.pc = "finish"]
<1> USE DEF history, world
<1>1. Holds(w) /\ Serves(w) /\ worker[w].pc = "call"
  BY DEF CallTarget, Does, Holds, Serves
<1>2. /\ worker[w] \in Place /\ m \in Message /\ t \in Client
      /\ s # NoClient /\ s \in ClientThread /\ s.in_use
      /\ PortOf(s) = m.conn
      /\ Linked(m, u) /\ u \in User
  BY <1>1, Exclusive
<1>3. /\ m.part[1] \in 0 .. MaxCalls /\ m.part[2] \in Nat /\ m.length \in Nat /\ m.length > 0
      /\ m.part[2] = m.length /\ s.length = m.length /\ s.buf = Parts(m.part[1], s.length)
  BY <1>1, <1>2 DEF PortInv, Served, Speaks, Called, Linked, Message, Part
<1>4. n = m.part[1]
  <2>1. Parts(m.part[1], m.length)[1] = <<m.part[1], 1>>
    BY <1>3, PartsAre
  <2> QED
    BY <1>3, <2>1
<1>5. done' \in [ThisCall -> Nat] /\ UNCHANGED <<world, user, conns, inbox, lock, process, outcome, history>>
  <2>1. done \in [ThisCall -> Nat]
    BY DEF PortInv, PortTypeOK
  <2>2. PICK d : d = <<t, n>> /\ done' = [done EXCEPT ![d] = done[d] + 1]
    BY DEF CallTarget
  <2>3. d \in ThisCall /\ done[d] + 1 \in Nat
    <3>1. n \in 1 .. user[t].n /\ user[t].n \in 0 .. MaxCalls /\ MaxCalls \in Nat
      BY <1>2, <1>4, UserFacts, PortAssumption DEF Linked, PortInv
    <3>2. n \in 1 .. MaxCalls
      BY <3>1
    <3>3. d \in ThisCall
      BY <1>2, <2>2, <3>2 DEF ThisCall
    <3> QED
      BY <2>1, <3>3
  <2>4. done' \in [ThisCall -> Nat]
    BY <2>1, <2>2, <2>3
  <2> QED
    BY <2>4 DEF CallTarget
<1>6. worker' = [worker EXCEPT ![w] = x]
  BY TypeFacts DEF CallTarget, Goto, PortInv
<1>7. x \in Place /\ x.msg = worker[w].msg /\ x.pc = "finish"
  BY <1>2 DEF Place
<1> HIDE DEF x
<1>8. CASE \E k \in Pieces :
              client' = [client EXCEPT ![t].buf = [i \in 1 .. k |-> <<n, i>>], ![t].length = k,
                                       ![t].ptr = 0, ![t].replying = TRUE]
  <2>1. PICK k \in Pieces :
              client' = [client EXCEPT ![t].buf = [i \in 1 .. k |-> <<n, i>>], ![t].length = k,
                                       ![t].ptr = 0, ![t].replying = TRUE]
    BY <1>8
  <2> DEFINE r == [s EXCEPT !.buf = Parts(m.part[1], k), !.length = k, !.ptr = 0, !.replying = TRUE]
  <2>2. k \in Nat /\ k > 0
    BY PortAssumption
  <2>3. Parts(m.part[1], k) \in Seq(Part) /\ Len(Parts(m.part[1], k)) = k
    BY <1>3, <2>2, PartsAre
  <2>4. client' = [client EXCEPT ![t] = r]
    <3>1. [i \in 1 .. k |-> <<n, i>>] = Parts(m.part[1], k)
      BY <1>4 DEF Parts
    <3> QED
      BY <1>2, <2>1, <3>1 DEF PortInv, PortTypeOK
  <2> HIDE DEF s, m, t, u
  <2>5. /\ r \in ClientThread /\ r.hPort = s.hPort /\ r.in_use = s.in_use /\ r.replying
        /\ r.ptr = 0 /\ r.buf = Parts(m.part[1], k) /\ r.length = k
    BY <1>2, <2>2, <2>3 DEF ClientThread
  <2> HIDE DEF r
  <2>6. Speaks(x.pc, m, x.out, r, u)
    BY <1>3, <1>7, <2>2, <2>5 DEF Speaks, Finishes, Sending
  <2>7. /\ Len(r.buf) <= r.length /\ (r.length > 0 => r.ptr < r.length)
        /\ (r.length = 0 => r.ptr = 0 /\ r.buf = << >>) /\ r.in_use
    BY <1>2, <2>2, <2>3, <2>5
  <2> QED
    BY <1>1, <1>5, <1>6, <1>7, <2>4, <2>5, <2>6, <2>7, ServeStep DEF s, t, m, u
<1>9. CASE client' = Refused(t)
  <2> DEFINE r == [s EXCEPT !.buf = << >>, !.length = 0, !.ptr = 0, !.replying = TRUE]
  <2>1. /\ r \in ClientThread /\ Refusal(r) /\ r.hPort = s.hPort /\ r.in_use = s.in_use
        /\ r.buf = << >> /\ r.length = 0 /\ r.ptr = 0 /\ Len(r.buf) = 0
    BY <1>2, Refuses
  <2>2. client' = [client EXCEPT ![t] = r]
    BY <1>2, <1>9 DEF Refused, PortInv, PortTypeOK
  <2> HIDE DEF r
  <2>3. Speaks(x.pc, m, x.out, r, u)
    BY <1>3, <1>7, <2>1 DEF Speaks, Finishes
  <2>4. /\ Len(r.buf) <= r.length /\ (r.length > 0 => r.ptr < r.length)
        /\ (r.length = 0 => r.ptr = 0 /\ r.buf = << >>) /\ r.in_use
    BY <1>2, <2>1
  <2> HIDE DEF s, m, t, u
  <2> QED
    BY <1>1, <1>5, <1>6, <1>7, <2>1, <2>2, <2>3, <2>4, ServeStep DEF s, t, m, u
<1> QED
  BY <1>8, <1>9 DEF CallTarget

(* What PortReply leaves of a structure.                                   *)
LeftBy(s, r) ==
    /\ r \in ClientThread /\ r.hPort = s.hPort
    /\ Len(r.buf) <= r.length
    /\ r.length > 0 => r.ptr < r.length
    /\ r.length = 0 => r.ptr = 0 /\ r.buf = << >>
    /\ ~ s.replying => /\ r.replying = s.replying /\ r.buf = s.buf
                       /\ r.length = s.length /\ r.ptr = s.ptr
    /\ s.replying /\ s.ptr + 1 >= s.length => Clean(r)
    /\ s.replying /\ s.ptr + 1 < s.length =>
          r.replying /\ r.buf = s.buf /\ r.length = s.length /\ r.ptr = s.ptr + 1

LEMMA RepliedIs ==
    ASSUME NEW s \in ClientThread, Len(s.buf) <= s.length, s.length > 0 => s.ptr < s.length,
           s.length = 0 => s.ptr = 0 /\ s.buf = << >>,
           NEW r, r = [IF s.replying THEN Replied(s) ELSE s EXCEPT !.in_use = FALSE]
    PROVE  LeftBy(s, r)
<1> USE DEF LeftBy
<1>1. s.length \in Nat /\ s.ptr \in Nat /\ s.hPort \in Conn
  BY DEF ClientThread
<1>2. CASE ~ s.replying
  BY <1>1, <1>2 DEF ClientThread
<1>3. CASE s.replying /\ s.ptr + 1 >= s.length
  <2>1. r = [[Fresh EXCEPT !.hPort = s.hPort] EXCEPT !.in_use = FALSE]
    BY <1>3 DEF Replied
  <2>2. Fresh \in ClientThread
    BY EmptySeq, PortAssumption DEF Fresh, ClientThread, Conn
  <2>3. /\ r \in ClientThread /\ r.hPort = s.hPort /\ r.buf = << >> /\ r.length = 0 /\ r.ptr = 0
        /\ ~ r.replying
    BY <1>1, <2>1, <2>2 DEF Fresh, ClientThread
  <2> QED
    BY <1>1, <1>3, <2>3, EmptySeq DEF Clean
<1>4. CASE s.replying /\ ~ (s.ptr + 1 >= s.length)
  <2>1. r = [[s EXCEPT !.ptr = s.ptr + 1] EXCEPT !.in_use = FALSE]
    BY <1>4 DEF Replied
  <2>2. /\ r \in ClientThread /\ r.hPort = s.hPort /\ r.replying = s.replying /\ r.buf = s.buf
        /\ r.length = s.length /\ r.ptr = s.ptr + 1
    <3> DEFINE q == [s EXCEPT !.ptr = s.ptr + 1]
    <3>1. /\ q \in ClientThread /\ q.hPort = s.hPort /\ q.replying = s.replying /\ q.buf = s.buf
          /\ q.length = s.length /\ q.ptr = s.ptr + 1
      BY <1>1 DEF ClientThread
    <3>2. r = [q EXCEPT !.in_use = FALSE]
      BY <2>1
    <3> HIDE DEF q
    <3> QED
      BY <3>1, <3>2 DEF ClientThread
  <2>3. s.ptr + 1 < s.length
    BY <1>1, <1>4
  <2>4. Len(r.buf) <= r.length /\ r.ptr < r.length /\ r.length # 0
    BY <1>1, <2>2, <2>3
  <2>5. ~ (s.ptr + 1 >= s.length)
    BY <1>4
  <2> QED
    BY <1>4, <2>2, <2>4, <2>5
<1> QED
  BY <1>2, <1>3, <1>4

LEMMA PortReplyStep ==
    ASSUME PortInv, ~ crossed, NEW w \in Worker, PortReply(w)
    PROVE  PortInv'
<1> DEFINE m == worker[w].msg
           t == m.thread
           s == client[t]
           u == user[t]
           r == [IF s.replying THEN Replied(s) ELSE s EXCEPT !.in_use = FALSE]
           o == IF s.replying /\ s.length > 0
                THEN [part |-> s.buf[s.ptr + 1], length |-> s.length] ELSE Empty
           x == [worker[w] EXCEPT !.pc = "reply", !.out = o]
<1> USE DEF history, world, results
<1>1. Holds(w) /\ Serves(w) /\ worker[w].pc = "finish"
  BY DEF PortReply, Does, Holds, Serves
<1>2. /\ worker[w] \in Place /\ m \in Message /\ t \in Client
      /\ s # NoClient /\ s \in ClientThread
      /\ PortOf(s) = m.conn
      /\ Linked(m, u) /\ u \in User
  BY <1>1, Exclusive
<1>3. Finishes(m, s, u)
  BY <1>1, <1>2 DEF PortInv, Served, Speaks
<1>4. /\ m.part[1] \in 0 .. MaxCalls /\ m.part[2] \in Nat /\ m.length \in Nat
      /\ m.part[2] <= m.length /\ m.length > 0
      /\ s.length \in Nat /\ s.ptr \in Nat
  BY <1>2 DEF Linked, Message, Part, ClientThread
<1>5. /\ Len(s.buf) <= s.length /\ (s.length > 0 => s.ptr < s.length)
      /\ (s.length = 0 => s.ptr = 0 /\ s.buf = << >>)
  BY <1>2, ClientFacts DEF PortInv, Shapes
<1>6. /\ client' = [client EXCEPT ![t] = r]
      /\ worker' = [worker EXCEPT ![w] = x]
      /\ UNCHANGED <<world, user, conns, inbox, lock, process, results, history>>
  BY TypeFacts DEF PortReply, PortInv
<1>7. done' \in [ThisCall -> Nat]
  BY <1>6 DEF PortInv, PortTypeOK
<1>8. LeftBy(s, r)
  <2>1. r = [IF s.replying THEN Replied(s) ELSE s EXCEPT !.in_use = FALSE]
    OBVIOUS
  <2> HIDE DEF r, s
  <2> QED
    BY <1>2, <1>5, <2>1, RepliedIs
<1>9. ASSUME Sending(s, m.part[1])
      PROVE  /\ o.part = <<m.part[1], s.ptr + 1>> /\ o.length = s.length /\ o \in Reply
             /\ o.part[1] = m.part[1] /\ o.part[2] = s.ptr + 1
             /\ o.length > 0 /\ o.part[2] \in 1 .. o.length
             /\ \/ o.part[2] = o.length /\ Clean(r)
                \/ Sending(r, m.part[1]) /\ r.length = o.length /\ r.ptr = o.part[2]
  <2>1. s.buf[s.ptr + 1] = <<m.part[1], s.ptr + 1>>
    <3>1. s.ptr + 1 \in 1 .. s.length /\ s.buf = Parts(m.part[1], s.length)
      BY <1>4, <1>9 DEF Sending
    <3>2. \A j \in 1 .. s.length : Parts(m.part[1], s.length)[j] = <<m.part[1], j>>
      BY <1>4, PartsAre
    <3> QED
      BY <3>1, <3>2
  <2>2. o = [part |-> <<m.part[1], s.ptr + 1>>, length |-> s.length]
    BY <1>9, <2>1 DEF Sending
  <2>3. s.replying /\ s.length > 0 /\ s.ptr < s.length
    BY <1>9 DEF Sending
  <2> HIDE DEF s, r, m, t, u
  <2>4. /\ o.part = <<m.part[1], s.ptr + 1>> /\ o.length = s.length /\ o \in Reply
        /\ o.part[1] = m.part[1] /\ o.part[2] = s.ptr + 1
        /\ o.length > 0 /\ o.part[2] \in 1 .. o.length
    BY <1>4, <2>2, <2>3 DEF Reply, Part
  <2>5. CASE s.ptr + 1 >= s.length
    BY <1>4, <1>8, <2>3, <2>4, <2>5 DEF LeftBy
  <2>6. CASE s.ptr + 1 < s.length
    BY <1>4, <1>8, <1>9, <2>3, <2>4, <2>6 DEF Sending, LeftBy
  <2> QED
    BY <1>4, <2>4, <2>5, <2>6
<1> HIDE DEF r
<1>10. o \in Reply /\ Answers(m, o, r, u)
  <2>1. CASE Half(s, m.part[1], m.length, m.part[2])
    <3>1. o = Empty /\ m.part[2] > 0
      BY <1>4, <2>1 DEF Half
    <3>2. Half(r, m.part[1], m.length, m.part[2])
      BY <1>8, <2>1 DEF Half, LeftBy
    <3> QED
      BY <3>1, <3>2, NoMessageType DEF Answers
  <2>2. CASE m.part[2] > 0 /\ Refusal(s)
    <3>1. o = Empty /\ Clean(r)
      BY <1>4, <1>8, <2>2 DEF Refusal, LeftBy
    <3> QED
      BY <2>2, <3>1, NoMessageType DEF Answers
  <2>3. CASE m.part[2] = m.length /\ Sending(s, m.part[1]) /\ s.ptr = 0
    <3>1. m.part[2] # 0 /\ s.ptr + 1 = 1
      BY <1>4, <2>3
    <3> HIDE DEF o, s
    <3> QED
      BY <1>9, <2>3, <3>1 DEF Answers
  <2>4. CASE m.part[2] = 0 /\ Arrives(m, s, u)
    <3>1. Sending(s, m.part[1]) /\ (u.conn = m.conn => s.ptr = Len(u.got))
      BY <1>2, <1>4, <2>4 DEF Arrives, Ready
    <3> HIDE DEF o, s
    <3> QED
      BY <1>9, <2>4, <3>1 DEF Answers
  <2> QED
    BY <1>3, <2>1, <2>2, <2>3, <2>4 DEF Finishes
<1>11. x \in Place /\ x.msg = worker[w].msg /\ x.pc = "reply" /\ x.out = o
  <2> HIDE DEF o
  <2> QED
    BY <1>2, <1>10 DEF Place
<1> HIDE DEF x, o
<1>12. Speaks(x.pc, m, x.out, r, u)
  BY <1>10, <1>11 DEF Speaks
<1> HIDE DEF s, m, t, u
<1> QED
  BY <1>1, <1>6, <1>7, <1>8, <1>11, <1>12, ServeStep DEF s, t, m, u, LeftBy

LEMMA PortFindClientStep ==
    ASSUME PortInv, ~ crossed, NEW w \in Worker, PortFindClient(w)
    PROVE  PortInv'
<1> DEFINE m == worker[w].msg
           t == m.thread
           s == client[t]
           r == [s EXCEPT !.in_use = TRUE]
           x == [worker[w] EXCEPT !.pc = IF s.replying THEN "finish" ELSE "request"]
<1> USE DEF history, world, results, tables
<1>1. /\ worker[w] \in Place /\ m \in Message /\ t \in Client /\ m \in Coming
      /\ worker[w].pc = "find" /\ lock = NoWorker
  BY TypeFacts DEF PortInv, Place, Message, PortFindClient, Coming, Does
<1>2. CASE s = NoClient
  <2>1. Done(w) /\ UNCHANGED <<client, crossed>>
    BY <1>2 DEF PortFindClient
  <2> QED
    BY <2>1, IgnoreStep DEF PortFindClient
<1>3. CASE s # NoClient
  <2>1. s \in ClientThread
    BY <1>1, <1>3, ClientFacts DEF PortInv
  <2>2. /\ client' = [client EXCEPT ![t] = r]
        /\ (~ crossed' => s.hPort = m.conn) /\ crossed' \in BOOLEAN
        /\ worker' = [worker EXCEPT ![w] = x]
        /\ UNCHANGED <<world, user, conns, inbox, lock, process, results, lost>>
    BY <1>1, <1>3, TypeFacts DEF PortFindClient, Goto, PortInv, PortTypeOK
  <2>3. /\ r \in ClientThread /\ r.in_use /\ r # NoClient
        /\ r.hPort = s.hPort /\ r.replying = s.replying /\ r.buf = s.buf
        /\ r.length = s.length /\ r.ptr = s.ptr
    BY <2>1, SentinelAssumption DEF ClientThread
  <2>4. x \in Place /\ x.msg = m /\ x.pc = IF s.replying THEN "finish" ELSE "request"
    BY <1>1 DEF Place
  <2>5. Alike(s, r) /\ PortOf(r) = PortOf(s)
    BY <1>3, <2>3 DEF Alike, PortOf
  <2> HIDE DEF r, x
  <2>6. /\ client' \in [Client -> ClientThread \cup {NoClient}]
        /\ client'[t] = r /\ \A y \in Client : y # t => client'[y] = client[y]
    BY <1>1, <2>2, <2>3 DEF PortInv, PortTypeOK
  <2>7. worker'[w] = x /\ worker' \in [Worker -> Place] /\ \A v \in Worker : v # w => worker'[v] = worker[v]
    BY <2>2, <2>4, TypeFacts DEF PortInv
  <2>8. \A q : SameUser(q)
    BY <2>2 DEF SameUser
  <2>9. \A q : q.thread \in Client => SameClient(q)
    BY <2>5, <2>6 DEF SameClient, Alike
  <2>10. Alone' /\ Flying' \subseteq Flying /\ Coming' \subseteq Coming
    <3>1. worker'[w].pc # "find" /\ worker'[w].msg = worker[w].msg /\ Busy(w)
      BY <1>1, <2>4, <2>7 DEF Busy, Does
    <3> QED
      BY <2>2, <2>7, <3>1, WorkerMoves DEF PortInv, NothingNew
  <2>11. Links'
    BY <2>2, <2>8, <2>10, TypeFacts, UserFacts, LinksKept DEF PortInv, OnlyGrows
  <2>12. Arrived'
    BY <2>8, <2>9, <2>10, TypeFacts, ArrivedKept DEF PortInv
  <2>13. Served'
    <3>1. ASSUME NEW v \in Worker, v # w
          PROVE  Serves(v)' => Speaks(worker'[v].pc, worker'[v].msg, worker'[v].out,
                                      client'[worker'[v].msg.thread], user'[worker'[v].msg.thread])
      <4>1. worker[v].msg.thread \in Client
        BY TypeFacts DEF PortInv, Place, Message
      <4> QED
        BY <2>7, <2>8, <2>9, <3>1, <4>1, ServedKept DEF PortInv
    <3>2. Arrives(m, r, user[t])
      BY <1>1, <2>5, ArrivesStill DEF PortInv, Arrived
    <3>3. Speaks(x.pc, m, x.out, r, user[t])
      <4>1. CASE PortOf(r) # m.conn
        BY <4>1 DEF Speaks
      <4>2. CASE PortOf(r) = m.conn
        <5>1. Ready(r, m.part[1], m.length, m.part[2])
          BY <3>2, <4>2 DEF Arrives
        <5>2. IF r.replying THEN m.part[2] = 0 ELSE m.part[2] > 0
          BY <5>1 DEF Ready, Clean, Half, Sending
        <5> QED
          BY <2>3, <2>4, <3>2, <4>2, <5>2 DEF Speaks, Finishes
      <4> QED
        BY <4>1, <4>2
    <3> QED
      BY <2>2, <2>4, <2>6, <2>7, <3>1, <3>3 DEF Served
  <2>14. PortTypeOK'
    <3>1. \A y \in Client : client'[y] # NoClient =>
             /\ Len(client'[y].buf) <= client'[y].length
             /\ client'[y].length > 0 => client'[y].ptr < client'[y].length
      BY <1>1, <1>3, <2>3, <2>6, ClientFacts DEF PortInv
    <3> QED
      BY <2>2, <2>6, <2>7, <3>1 DEF PortInv, PortTypeOK, Place
  <2>15. \A y \in Client : PortOf(client'[y]) = PortOf(client[y])
    BY <2>5, <2>6
  <2>16. Wired'
    <3>1. \A c \in DOMAIN conns : conns[c].thread \in Client
      BY ConnFacts DEF PortInv, Link
    <3> QED
      BY <2>2, <2>15, <3>1 DEF PortInv, Wired
  <2>17. Users'
    BY <2>2 DEF PortInv, Users
  <2>18. Spoken'
    <3>1. Between(user[t], r)
      BY <1>1, <2>3, <2>5 DEF PortInv, Spoken, Between, Clean, Ready, Half, Sending
    <3> QED
      BY <2>2, <2>6, <3>1 DEF PortInv, Spoken
  <2>19. Held'
    <3>1. ASSUME NEW v \in Worker, v # w, Holds(v)'
          PROVE  LET y == worker'[v].msg IN
                 /\ client'[y.thread] # NoClient /\ client'[y.thread].in_use
                 /\ PortOf(client'[y.thread]) = y.conn
      <4>1. /\ worker'[v] = worker[v] /\ Holds(v) /\ worker[v].msg.thread \in Client
        BY <2>7, <3>1, TypeFacts DEF Holds, PortInv, Place, Message
      <4>2. LET y == worker[v].msg IN
            /\ client[y.thread] # NoClient /\ client[y.thread].in_use /\ PortOf(client[y.thread]) = y.conn
        BY <4>1 DEF PortInv, Held
      <4> QED
        BY <2>3, <2>6, <2>15, <4>1, <4>2
    <3>2. /\ worker'[w].msg.thread = t /\ worker'[w].msg.conn = m.conn
          /\ worker'[w].pc # "call"
          /\ client'[t] # NoClient /\ client'[t].in_use
          /\ (~ crossed' => PortOf(client'[t]) = m.conn)
      BY <1>3, <2>2, <2>3, <2>4, <2>5, <2>6, <2>7 DEF PortOf
    <3> QED
      BY <3>1, <3>2 DEF Held, Does
  <2>20. Locked'
    <3>1. \A v \in Worker : worker'[v].pc \notin {"evict", "remove"}
      BY <1>1, <2>4, <2>7, PortAssumption DEF PortInv, Locked
    <3> QED
      BY <3>1 DEF Locked
  <2>21. Kept'
    BY <1>1, <1>3, <2>2, <2>6 DEF PortInv, Kept
  <2>22. Shapes'
    BY <1>1, <1>3, <2>3, <2>6 DEF PortInv, Shapes
  <2> QED
    BY <2>10, <2>11, <2>12, <2>13, <2>14, <2>16, <2>17, <2>18, <2>19, <2>20, <2>21, <2>22 DEF PortInv
<1> QED
  BY <1>2, <1>3

-----------------------------------------------------------------------------
(* The client takes an answer                                              *)

(* What an answer to the request m of u tells him.                         *)
LEMMA AnswerIs ==
    ASSUME NEW u \in User, Asking(u), u.pc = "wait", NEW out \in Reply, NEW m, NEW s,
           Answers(m, out, s, u), u.conn = m.conn,
           m.part[1] = u.n, m.part[2] = u.i, m.length = u.length
    PROVE  /\ u.i \in 1 .. u.length - 1 => out = Empty /\ (Clean(s) \/ Half(s, u.n, u.length, u.i))
           /\ u.i \notin 1 .. u.length - 1 =>
                 \/ out = Empty /\ Clean(s)
                 \/ \E k \in 1 .. out.length :
                       /\ out # Empty /\ Append(u.got, out.part) = Parts(u.n, k)
                       /\ IF k = out.length THEN Clean(s) ELSE Sending(s, u.n) /\ s.ptr = k
<1>1. /\ u.n \in 0 .. MaxCalls /\ u.i \in Nat /\ u.length \in Nat /\ u.i <= u.length /\ u.length > 0
      /\ u.got \in Seq(Part) /\ Len(u.got) \in Nat
      /\ out.part = <<out.part[1], out.part[2]>> /\ out.part[2] \in Nat /\ out.length \in Nat
  BY LenProperties DEF User, Asking, Reply, Part
<1>2. CASE out = Empty /\ m.part[2] > 0 /\ (Clean(s) \/ Half(s, m.part[1], m.length, m.part[2]))
  <2>1. Half(s, m.part[1], m.length, m.part[2]) => u.i \in 1 .. u.length - 1
    BY <1>2 DEF Half
  <2> QED
    BY <1>2, <2>1
<1>3. CASE /\ out.length > 0 /\ out.part[1] = m.part[1] /\ out.part[2] \in 1 .. out.length
           /\ IF m.part[2] = 0
              THEN u.conn = m.conn => out.part[2] = Len(u.got) + 1
              ELSE m.part[2] = m.length /\ out.part[2] = 1
           /\ \/ out.part[2] = out.length /\ Clean(s)
              \/ Sending(s, m.part[1]) /\ s.length = out.length /\ s.ptr = out.part[2]
  <2>1. out # Empty
    BY <1>3 DEF Empty
  <2>2. u.i \notin 1 .. u.length - 1
    BY <1>1, <1>3
  <2>3. Append(u.got, out.part) = Parts(u.n, out.part[2])
    <3>1. CASE u.i = 0
      <4>1. out.part = <<u.n, Len(u.got) + 1>> /\ u.got = Parts(u.n, Len(u.got))
        BY <1>1, <1>3, <3>1 DEF Asking
      <4>2. Append(Parts(u.n, Len(u.got)), <<u.n, Len(u.got) + 1>>) = Parts(u.n, Len(u.got) + 1)
        BY <1>1, PartsGrow
      <4> QED
        BY <1>3, <3>1, <4>1, <4>2
    <3>2. CASE u.i # 0
      <4>1. out.part = <<u.n, 1>> /\ u.got = << >> /\ out.part[2] = 1
        BY <1>1, <1>3, <3>2 DEF Asking
      <4> QED
        BY <1>1, <4>1, FirstPart
    <3> QED
      BY <3>1, <3>2
  <2>4. IF out.part[2] = out.length THEN Clean(s) ELSE Sending(s, u.n) /\ s.ptr = out.part[2]
    <3>1. ASSUME Sending(s, m.part[1]), s.length = out.length, s.ptr = out.part[2] PROVE out.part[2] # out.length
      BY <1>1, <3>1 DEF Sending
    <3> QED
      BY <1>3, <3>1
  <2> QED
    BY <1>3, <2>1, <2>2, <2>3, <2>4
<1> QED
  BY <1>2, <1>3 DEF Answers

(* The answer out makes v of client t: it goes on, or its call returns     *)
(* NULL or the whole reply.                                                *)
Takes(t, out, v) ==
    /\ v \in User /\ user' = [user EXCEPT ![t] = v]
    /\ v.conn = user[t].conn /\ v.n = user[t].n
    /\ Asking(v) /\ Between(v, client[t])
    /\ \/ /\ v.pc = "send" /\ user[t].i \in 1 .. user[t].length - 1 /\ v.i = user[t].i + 1
          /\ out = Empty /\ outcome' = outcome
       \/ v.pc = "send" /\ v.i = 0 /\ outcome' = outcome
       \/ v.pc = "idle" /\ outcome' = [outcome EXCEPT ![<<t, user[t].n>>] = NULL]
       \/ /\ v.pc = "idle" /\ out # Empty
          /\ \E k \in Nat \ {0} : outcome' = [outcome EXCEPT ![<<t, user[t].n>>] = Parts(user[t].n, k)]

LEMMA Understood ==
    ASSUME PortInv, NEW w \in Worker, worker[w].pc = "reply",
           NEW t \in Client, t = worker[w].msg.thread, user[t].pc = "wait",
           user[t].conn = worker[w].msg.conn, conns[worker[w].msg.conn].server,
           Understand(t, worker[w].out)
    PROVE  \E v : Takes(t, worker[w].out, v)
<1> DEFINE m == worker[w].msg
           u == user[t]
           s == client[t]
           out == worker[w].out
           got == Append(u.got, out.part)
           back == [u EXCEPT !.pc = "idle", !.length = 0, !.i = 0, !.got = << >>]
           more == [u EXCEPT !.pc = "send", !.i = u.i + 1, !.got = << >>]
           next == [u EXCEPT !.pc = "send", !.i = 0, !.got = got]
<1>1. /\ u \in User /\ u.n \in 0 .. MaxCalls /\ u.i \in Nat /\ u.length \in Nat /\ u.got \in Seq(Part)
      /\ u.conn \in Conn /\ Asking(u) /\ out \in Reply
  BY TypeFacts, UserFacts DEF PortInv, Users, Place
<1>2. m \in Flying /\ Serves(w)
  BY DEF Flying, Busy, Serves
<1>3. m.part = <<u.n, u.i>> /\ m.length = u.length /\ conns[m.conn].thread = t /\ m.conn \in DOMAIN conns
      /\ u.conn = m.conn
  BY <1>2 DEF PortInv, Links, Linked, Owned
<1>4. PortOf(s) = m.conn
  BY <1>3 DEF PortInv, Wired
<1>5. Answers(m, out, s, u)
  BY <1>2, <1>4 DEF PortInv, Served, Speaks
<1>6. m.part[1] = u.n /\ m.part[2] = u.i
  BY <1>3
<1>7. /\ u.i \in 1 .. u.length - 1 => out = Empty /\ (Clean(s) \/ Half(s, u.n, u.length, u.i))
      /\ u.i \notin 1 .. u.length - 1 =>
            \/ out = Empty /\ Clean(s)
            \/ \E k \in 1 .. out.length :
                  /\ out # Empty /\ got = Parts(u.n, k)
                  /\ IF k = out.length THEN Clean(s) ELSE Sending(s, u.n) /\ s.ptr = k
  <2> HIDE DEF m, u, s, out
  <2> QED
    BY <1>1, <1>3, <1>5, <1>6, AnswerIs DEF u
<1>8. /\ Understand(t, out)
      /\ u.i <= u.length /\ u.length > 0 /\ u.n > 0 /\ u.conn # 0
  BY <1>1 DEF Asking
<1>9. /\ back \in User /\ back.pc = "idle" /\ back.conn = u.conn /\ back.n = u.n /\ Asking(back)
  BY <1>1, EmptySeq DEF User, Asking
<1>10. \A reply : Return(t, reply) =>
          /\ user' = [user EXCEPT ![t] = back]
          /\ outcome' = [outcome EXCEPT ![<<t, u.n>>] = reply]
  BY UserFacts DEF Return, PortInv
<1>11. Return(t, NULL) /\ Clean(s) => Takes(t, out, back)
  BY <1>9, <1>10 DEF Takes, Between
<1>12. CASE u.i \in 1 .. u.length - 1
  <2>1. Continue(t, u.i + 1, << >>) /\ out = Empty
    BY <1>7, <1>8, <1>12 DEF Understand
  <2>2. /\ more \in User /\ more.pc = "send" /\ more.conn = u.conn /\ more.n = u.n
        /\ more.length = u.length /\ more.i = u.i + 1 /\ more.got = << >>
    <3>1. u.i + 1 \in Nat /\ << >> \in Seq(Part)
      BY <1>1, EmptySeq
    <3> HIDE DEF u
    <3> QED
      BY <1>1, <3>1 DEF User
  <2>3. user' = [user EXCEPT ![t] = more] /\ outcome' = outcome
    BY <2>1, UserFacts DEF Continue, PortInv
  <2> HIDE DEF more, u, s
  <2>4. Asking(more)
    BY <1>1, <1>8, <1>12, <2>2 DEF Asking
  <2>5. Between(more, s)
    <3>1. u.i + 1 > 0 /\ (u.i + 1) - 1 = u.i
      BY <1>1
    <3> QED
      BY <1>7, <1>12, <2>2, <3>1 DEF Between, Ready
  <2>6. Takes(t, out, more)
    BY <1>12, <2>1, <2>2, <2>3, <2>4, <2>5 DEF Takes, u, s
  <2> QED
    BY <2>6
<1>13. CASE u.i \notin 1 .. u.length - 1
  <2>1. CASE out = Empty /\ Clean(s)
    <3>1. Return(t, NULL)
      BY <1>8, <1>13, <2>1 DEF Understand
    <3> QED
      BY <1>11, <2>1, <3>1
  <2>2. ASSUME NEW k \in 1 .. out.length, out # Empty, got = Parts(u.n, k),
               IF k = out.length THEN Clean(s) ELSE Sending(s, u.n) /\ s.ptr = k
        PROVE  \E v : Takes(t, out, v)
    <3>1. out.length \in Nat /\ k \in Nat /\ k > 0 /\ got \in Seq(Part) /\ Len(got) = k /\ got[1] = <<u.n, 1>>
      <4>1. out.length \in Nat /\ k \in Nat /\ k > 0 /\ 1 \in 1 .. k
        BY <1>1 DEF Reply
      <4>2. /\ Parts(u.n, k) \in Seq(Part) /\ Len(Parts(u.n, k)) = k
            /\ \A j \in 1 .. k : Parts(u.n, k)[j] = <<u.n, j>>
        BY <1>1, <4>1, PartsAre
      <4> QED
        BY <2>2, <4>1, <4>2
    <3>2. CASE k = out.length
      <4>1. Return(t, got)
        BY <1>8, <1>13, <2>2, <3>1, <3>2 DEF Understand
      <4>2. outcome' = [outcome EXCEPT ![<<t, u.n>>] = Parts(u.n, k)] /\ user' = [user EXCEPT ![t] = back]
        BY <1>10, <2>2, <4>1
      <4>3. Between(back, s)
        BY <1>9, <2>2, <3>2 DEF Between
      <4>4. k \in Nat \ {0}
        BY <3>1
      <4> HIDE DEF got, back
      <4>5. \E j \in Nat \ {0} : outcome' = [outcome EXCEPT ![<<t, u.n>>] = Parts(u.n, j)]
        BY <4>2, <4>4
      <4> HIDE DEF u, s
      <4>6. /\ back \in User /\ user' = [user EXCEPT ![t] = back]
            /\ back.conn = u.conn /\ back.n = u.n /\ back.pc = "idle"
            /\ Asking(back) /\ Between(back, s) /\ out # Empty
        BY <1>9, <2>2, <4>2, <4>3
      <4>7. Takes(t, out, back)
        BY <4>5, <4>6 DEF Takes, u, s
      <4> QED
        BY <4>7
    <3>3. CASE k # out.length
      <4>1. Continue(t, 0, got)
        BY <1>8, <1>13, <2>2, <3>1, <3>3 DEF Understand
      <4> HIDE DEF got
      <4>2. /\ next \in User /\ next.pc = "send" /\ next.conn = u.conn /\ next.n = u.n
            /\ next.length = u.length /\ next.i = 0 /\ next.got = got
        BY <1>1, <3>1 DEF User
      <4>3. user' = [user EXCEPT ![t] = next] /\ outcome' = outcome
        BY <4>1, UserFacts DEF Continue, PortInv
      <4> HIDE DEF next, u, s
      <4>4. Asking(next)
        BY <1>1, <1>8, <2>2, <3>1, <4>2 DEF Asking
      <4>5. Between(next, s)
        BY <2>2, <3>1, <3>3, <4>2 DEF Between, Ready
      <4>6. Takes(t, out, next)
        BY <4>2, <4>3, <4>4, <4>5 DEF Takes, u, s
      <4> QED
        BY <4>6
    <3> QED
      BY <3>2, <3>3
  <2> QED
    BY <1>7, <1>13, <2>1, <2>2
<1> QED
  BY <1>12, <1>13

LEMMA SendReplyStep ==
    ASSUME PortInv, ~ crossed, NEW w \in Worker, SendReply(w)
    PROVE  PortInv'
<1> DEFINE m == worker[w].msg
           t == m.thread
<1> USE DEF history, world, tables
<1>1. /\ Done(w) /\ worker[w].pc = "reply" /\ Busy(w)
      /\ UNCHANGED <<world, conns, inbox, lock, tables, done, history>>
  BY DEF SendReply, Does, Busy, Serves
<1>2. NothingNew /\ worker' \in [Worker -> Place] /\ worker' = [worker EXCEPT ![w] = Free]
      /\ worker'[w] = Free /\ Free.pc = "receive"
      /\ \A v \in Worker : v # w => worker'[v] = worker[v]
  BY <1>1, DoneMoves
<1>3. CASE UNCHANGED <<user, outcome>>
  <2>1. UNCHANGED results
    BY <1>1, <1>3 DEF results
  <2> QED
    BY <1>1, <1>3, <2>1, IgnoreStep
<1>4. CASE At(t, "wait") /\ user[t].conn = m.conn /\ conns[m.conn].server /\ Understand(t, worker[w].out)
  <2>1. t \in Client /\ user[t].pc = "wait"
    BY <1>4, TypeFacts DEF PortInv, Place, Message, At
  <2>2. PICK v : Takes(t, worker[w].out, v)
    BY <1>1, <1>4, <2>1, Understood
  <2>3. /\ v \in User /\ user' = [user EXCEPT ![t] = v] /\ v.conn = m.conn /\ v.n = user[t].n
        /\ Asking(v) /\ Between(v, client[t]) /\ v.pc \in {"idle", "send"}
    BY <1>4, <2>2 DEF Takes
  <2>4. \A r \in Flying' : r.conn # m.conn /\ r \in Flying
    <3>1. Sent' = Sent
      BY <1>1 DEF Sent
    <3>2. \A r \in Sent : r.conn # m.conn
      BY <1>1 DEF PortInv, Alone, Sent
    <3>3. \A x \in Worker : Busy(x)' => x # w /\ worker'[x] = worker[x] /\ Busy(x)
      BY <1>2 DEF Busy, Serves, Does
    <3>4. \A x \in Worker : Busy(x)' => worker'[x].msg.conn # m.conn
      BY <1>1, <3>3 DEF PortInv, Alone
    <3> QED
      BY <1>2, <3>1, <3>2, <3>4 DEF Flying, NothingNew
  <2>5. /\ user' \in [Client -> User] /\ user'[t] = v
        /\ \A x \in Client : x # t => user'[x] = user[x]
        /\ \A x \in Client : user'[x].n = user[x].n /\ user[x].n \in Nat
    BY <2>1, <2>3, UserFacts DEF PortInv
  <2>6. OnlyGrows
    BY <1>1, <2>5 DEF OnlyGrows
  <2>7. \A r \in Flying' : SameUser(r) /\ SameClient(r)
    <3>1. \A r \in Flying' : r.thread \in Client /\ r.conn # v.conn
      BY <2>3, <2>4, TypeFacts DEF PortInv
    <3> QED
      BY <1>1, <2>5, <3>1 DEF SameUser, SameClient, Alike
  <2>8. Alone' /\ Links' /\ Arrived' /\ Served'
    BY <1>2, <2>5, <2>6, <2>7, NoMessageType, WorkerLeaves
  <2>9. outcome' \in [ThisCall -> Seq(Part)]
    <3>1. NULL \in Seq(Part)
      BY PortAssumption DEF NULL, Part
    <3>2. \A k \in Nat : Parts(user[t].n, k) \in Seq(Part)
      BY <2>1, UserFacts, PartsAre DEF PortInv
    <3>3. outcome \in [ThisCall -> Seq(Part)]
      BY DEF PortInv, PortTypeOK
    <3>4. PICK reply \in Seq(Part) : outcome' = outcome \/ outcome' = [outcome EXCEPT ![<<t, user[t].n>>] = reply]
      BY <2>2, <3>1, <3>2 DEF Takes
    <3> QED
      BY <3>3, <3>4
  <2>10. PortTypeOK'
    BY <1>1, <1>2, <2>5, <2>9 DEF PortInv, PortTypeOK, Place
  <2>11. Wired'
    BY <1>1, <1>4, <2>3, <2>5 DEF PortInv, Wired
  <2>12. Users'
    BY <1>1, <2>3, <2>5 DEF PortInv, Users
  <2>13. Spoken'
    BY <1>1, <2>3, <2>5 DEF PortInv, Spoken
  <2>14. Held' /\ Locked'
    BY <1>1, <1>2 DEF PortInv, Held, Locked, Holds, Does
  <2>15. Kept' /\ Shapes'
    BY <1>1 DEF PortInv, Kept, Shapes
  <2> QED
    BY <2>8, <2>10, <2>11, <2>12, <2>13, <2>14, <2>15 DEF PortInv
<1> QED
  BY <1>3, <1>4 DEF SendReply

-----------------------------------------------------------------------------
(* The invariant                                                           *)

LEMMA Begun == Init => PortInv
<1> SUFFICES ASSUME Init PROVE PortInv
  OBVIOUS
<1> USE DEF Init
<1>1. /\ \A t \in Client : user[t] = Idle(0) /\ client[t] = NoClient
      /\ \A w \in Worker : worker[w].pc = "receive"
      /\ DOMAIN conns = {} /\ DOMAIN inbox = {}
  BY DEF Free
<1>2. Flying = {} /\ Coming = {}
  BY <1>1 DEF Flying, Coming, Sent, Busy, Serves, Does
<1>3. Idle(0) \in User /\ Idle(0).conn = 0 /\ Idle(0).pc = "idle"
  <2>1. 0 \in 0 .. MaxCalls /\ 0 \in Conn /\ << >> \in Seq(Part)
    BY PortAssumption, EmptySeq DEF Conn
  <2> QED
    BY <2>1 DEF Idle, User
<1>4. PortTypeOK
  <2>1. user \in [Client -> User] /\ client \in [Client -> ClientThread \cup {NoClient}]
    BY <1>3
  <2>2. worker \in [Worker -> Place]
    BY NoMessageType
  <2>3. /\ alive \subseteq Client /\ starts \in 0 .. MaxStarts
        /\ lock \in Worker \cup {NoWorker} /\ lost \subseteq Client
    BY PortAssumption
  <2>6. crossed \in BOOLEAN
    BY Zenon
  <2>5. /\ born \in [Pid -> Nat] /\ process \in [Pid -> Nat \cup {NoClient}]
        /\ done \in [ThisCall -> Nat]
    OBVIOUS
  <2>4. inbox \in Seq(Message) /\ Len(conns) <= MaxConns /\ outcome \in [ThisCall -> Seq(Part)]
        /\ conns \in Seq([thread : Client, client : BOOLEAN, server : BOOLEAN])
    BY PortAssumption, EmptySeq
  <2> QED
    BY <1>1, <2>1, <2>2, <2>3, <2>4, <2>5, <2>6 DEF PortTypeOK, Place
<1>5. Wired /\ Users /\ Spoken
  BY <1>1, <1>3 DEF Wired, Users, Spoken, PortOf, Asking, Between
<1>6. Alone /\ Links /\ Arrived /\ Served /\ Held /\ Locked
  BY <1>1, <1>2 DEF Alone, Links, Arrived, Served, Held, Locked, Busy, Serves, Holds, Does
<1>7. Kept /\ Shapes
  BY <1>1 DEF Kept, Shapes
<1> QED
  BY <1>4, <1>5, <1>6, <1>7 DEF PortInv

LEMMA WorkerStepInv ==
    ASSUME PortInv, ~ crossed, NEW w \in Worker, WorkerStep(w)
    PROVE  PortInv'
BY ReceiveStep, PortConnectStep, EvictStep, PortFindClientStep, PortRequestStep, CallTargetStep,
   PortReplyStep, SendReplyStep, PortDisconnectStep, PortDisconnectByCreateTimeStep, DiscardStep
   DEF WorkerStep

LEMMA Stutters ==
    ASSUME PortInv, UNCHANGED vars
    PROVE  PortInv'
<1> USE DEF vars
<1>1. Flying' = Flying /\ Coming' = Coming
  BY DEF Flying, Coming, Sent, Busy, Serves, Does
<1>2. PortTypeOK'
  BY DEF PortInv, PortTypeOK
<1>3. Wired' /\ Users' /\ Spoken' /\ Kept' /\ Shapes'
  BY DEF PortInv, Wired, Users, Spoken, Kept, Shapes
<1>4. Alone' /\ Served' /\ Held' /\ Locked'
  BY DEF PortInv, Alone, Served, Held, Locked, Busy, Serves, Holds, Does
<1>5. Links' /\ Arrived'
  BY <1>1 DEF PortInv, Links, Owned, Arrived
<1> QED
  BY <1>2, <1>3, <1>4, <1>5 DEF PortInv

LEMMA StepKeeps == PortInv /\ [Next]_vars => PortInv'
<1> SUFFICES ASSUME PortInv, [Next]_vars PROVE PortInv'
  OBVIOUS
<1>1. CASE Next
  <2>1. ~ crossed
    BY <1>1 DEF Next, Astray
  <2> QED
    BY <1>1, <2>1, UserStepInv, EndProcessStep, WorkerStepInv DEF Next
<1>2. CASE UNCHANGED vars
  BY <1>2, Stutters
<1> QED
  BY <1>1, <1>2

LEMMA PortInductive == Spec => []PortInv
BY Begun, StepKeeps, PTL DEF Spec

(* InUse: a thread that executes a request works with the structure of the *)
(* connection the request came over, marked and in the tables, and hands   *)
(* the parts of one request to the target, in order.                       *)
THEOREM WorksInUse == Spec => []InUse
<1>1. PortInv => InUse
  <2> SUFFICES ASSUME PortInv PROVE InUse
    OBVIOUS
  <2>1. ASSUME NEW w \in Worker, Holds(w)
        PROVE  LET m == worker[w].msg
                   s == client[m.thread] IN
               /\ process[Owner[m.thread]] # NoClient
               /\ s # NoClient /\ s.in_use
               /\ crossed \/ s.hPort = m.conn
               /\ Does(w, "call") => s.buf = Parts(m.part[1], s.length)
    <3> DEFINE m == worker[w].msg
               s == client[m.thread]
    <3>1. m.thread \in Client
      BY TypeFacts DEF PortInv, Place, Message
    <3>2. s # NoClient /\ s.in_use /\ (Does(w, "call") \/ ~ crossed => PortOf(s) = m.conn)
      BY <2>1 DEF PortInv, Held
    <3>3. process[Owner[m.thread]] # NoClient
      BY <3>1, <3>2 DEF PortInv, Kept
    <3>4. Does(w, "call") => Called(m, s)
      BY <2>1, <3>2 DEF PortInv, Served, Speaks, Serves, Does
    <3> QED
      BY <3>2, <3>3, <3>4 DEF PortOf, Called
  <2> QED
    BY <2>1 DEF InUse, PortInv, Holds, Does, Parts
<1> QED
  BY <1>1, PortInductive, PTL

-----------------------------------------------------------------------------
(* The strengthening: which call a request belongs to, and whether the     *)
(* handler ran for it.                                                     *)

Name(m) == <<m.thread, m.part[1]>>

(* The requests that were not handed to the target yet.                    *)
Waiting == Coming \cup {worker[w].msg : w \in {v \in Worker : Does(v, "request") \/ Does(v, "call")}}

(* The requests of one call come over one connection, the one its thread   *)
(* has now unless the call failed.                                         *)
Named(m, u) == m.part[1] = u.n => u.conn = m.conn \/ (u.conn = 0 /\ u.pc = "idle")

Names ==
    /\ \A m \in Flying : Named(m, user[m.thread])
    /\ \A m, r \in Flying : Name(m) = Name(r) => m.conn = r.conn

(* The handler does not run before it has the last part of the request,    *)
(* nor after that.                                                         *)
Outset(u) == u.pc \in {"connect", "connected", "send"} /\ u.i > 0

Once == \A d \in ThisCall : done[d] \in {0, 1} /\ (done[d] = 1 => d \in Asked)

Unbegun ==
    /\ \A t \in Client : Outset(user[t]) => done[<<t, user[t].n>>] = 0
    /\ \A m \in Waiting : m.part[2] > 0 => done[Name(m)] = 0
    /\ \A m \in Flying : m.part[2] \in 1 .. m.length - 1 => done[Name(m)] = 0

(* A structure that holds a reply, and a thread that sends a part of one.  *)
Replies(t) ==
    client[t] # NoClient =>
        \A n \in 1 .. MaxCalls : Sending(client[t], n) => done[<<t, n>>] = 1

Hands(w) == Does(w, "reply") /\ worker[w].out # Empty => done[Name(worker[w].msg)] = 1

Made == (\A t \in Client : Replies(t)) /\ (\A w \in Worker : Hands(w))

(* A call has no outcome while it goes on.                                 *)
Open ==
    \A d \in ThisCall :
       LET u == user[d[1]] IN
       d[2] > u.n \/ (d[2] = u.n /\ u.pc # "idle") => outcome[d] = << >>

CallInv == Names /\ Once /\ Unbegun /\ Made /\ Open

-----------------------------------------------------------------------------
(* The steps of RemoteCall                                                 *)

Answer == [d \in ThisCall |-> IF outcome[d] = << >> THEN Unanswered ELSE AnswerOf(d)]

remote == <<Asked, done, Answer>>

Same == Asked' = Asked /\ done' = done

LEMMA AnswerIs1 ==
    \A d \in ThisCall :
       Answer[d] = IF outcome[d] = << >> THEN Unanswered
                   ELSE IF outcome[d] = NULL THEN Failed
                   ELSE IF \A i \in DOMAIN outcome[d] : outcome[d][i] = <<d[2], i>> THEN d ELSE Wrong
BY DEF Answer, AnswerOf

LEMMA AnswerThen ==
    \A d \in ThisCall :
       Answer'[d] = IF outcome'[d] = << >> THEN Unanswered
                    ELSE IF outcome'[d] = NULL THEN Failed
                    ELSE IF \A i \in DOMAIN outcome'[d] : outcome'[d][i] = <<d[2], i>> THEN d ELSE Wrong
BY DEF Answer, AnswerOf

LEMMA Silent ==
    ASSUME Same, outcome' = outcome
    PROVE  UNCHANGED remote
BY DEF Same, remote, Answer, AnswerOf

LEMMA Answered ==
    ASSUME PortTypeOK, NEW d \in ThisCall, NEW reply, outcome' = [outcome EXCEPT ![d] = reply]
    PROVE  /\ outcome'[d] = reply
           /\ \A e \in ThisCall : e # d => outcome'[e] = outcome[e]
           /\ Answer' = [Answer EXCEPT ![d] = Answer'[d]]
<1>1. DOMAIN outcome = ThisCall
  BY DEF PortTypeOK
<1>2. outcome'[d] = reply /\ \A e \in ThisCall : e # d => outcome'[e] = outcome[e]
  BY <1>1
<1>3. \A e \in ThisCall : e # d => Answer'[e] = Answer[e]
  BY <1>2, AnswerIs1, AnswerThen
<1>4. /\ Answer' = [e \in ThisCall |-> Answer'[e]]
      /\ [Answer EXCEPT ![d] = Answer'[d]] = [e \in ThisCall |-> IF e = d THEN Answer'[d] ELSE Answer[e]]
  BY DEF Answer
<1> QED
  BY <1>2, <1>3, <1>4

LEMMA Fails ==
    ASSUME PortTypeOK, Same, NEW d \in ThisCall, d \in Asked, outcome[d] = << >>,
           outcome' = [outcome EXCEPT ![d] = NULL]
    PROVE  Remote!Next
<1>1. outcome'[d] = NULL /\ Answer' = [Answer EXCEPT ![d] = Answer'[d]]
  BY Answered
<1>2. NULL # << >>
  BY DEF NULL
<1>3. Answer[d] = Unanswered /\ Answer'[d] = Failed
  BY <1>1, <1>2, AnswerIs1, AnswerThen
<1>4. Remote!Fail(d)
  BY <1>1, <1>3 DEF Remote!Fail, Answer, Same
<1> QED
  BY <1>4 DEF Remote!Next

LEMMA Returns ==
    ASSUME PortTypeOK, Same, NEW d \in ThisCall, done[d] = 1, outcome[d] = << >>,
           NEW k \in Nat \ {0}, outcome' = [outcome EXCEPT ![d] = Parts(d[2], k)]
    PROVE  Remote!Next
<1>1. outcome'[d] = Parts(d[2], k) /\ Answer' = [Answer EXCEPT ![d] = Answer'[d]]
  BY Answered
<1>2. /\ Parts(d[2], k)[1] = <<d[2], 1>> /\ DOMAIN Parts(d[2], k) = 1 .. k /\ 1 \in 1 .. k
      /\ \A i \in 1 .. k : Parts(d[2], k)[i] = <<d[2], i>>
  BY DEF Parts
<1>3. Parts(d[2], k) # << >> /\ Parts(d[2], k) # NULL
  BY <1>2 DEF NULL
<1>4. Answer[d] = Unanswered /\ Answer'[d] = d
  BY <1>1, <1>2, <1>3, AnswerIs1, AnswerThen
<1>5. Remote!Return(d)
  BY <1>1, <1>4 DEF Remote!Return, Answer, Same
<1> QED
  BY <1>5 DEF Remote!Next

LEMMA Does1 ==
    ASSUME PortTypeOK, NEW d \in ThisCall, d \in Asked, done[d] = 0,
           Asked' = Asked, done' = [done EXCEPT ![d] = @ + 1], outcome' = outcome
    PROVE  Remote!Next
<1>1. done' = [done EXCEPT ![d] = 1]
  BY DEF PortTypeOK
<1>2. Answer' = Answer
  BY DEF Answer, AnswerOf
<1>3. Remote!Do(d)
  BY <1>1, <1>2 DEF Remote!Do, Answer
<1> QED
  BY <1>3 DEF Remote!Next

-----------------------------------------------------------------------------
(* What every step but the begin of a call does to a client thread         *)

Goes(t) ==
    LET u == user[t]
        v == user'[t]
    IN
    v = u \/ /\ v.n = u.n
             /\ (v.conn = u.conn /\ u.conn # 0) \/ (v.conn = 0 /\ v.pc = "idle")
             /\ v.pc # "idle" => u.pc # "idle"
             /\ Outset(v) => Outset(u) \/ done[<<t, u.n>>] = 0

LEMMA UsersGo ==
    ASSUME PortInv, CallInv, \A t \in Client : Goes(t),
           Flying' \subseteq Flying, Waiting' \subseteq Waiting, done' = done
    PROVE  Names' /\ Once' /\ Unbegun' /\ Same
<1>1. \A t \in Client : user'[t].n = user[t].n
  BY DEF Goes
<1>2. Asked' = Asked
  BY <1>1 DEF Asked, ThisCall
<1>3. \A m \in Flying : m.thread \in Client
  BY TypeFacts DEF PortInv
<1>4. ASSUME NEW m \in Flying'
      PROVE  Named(m, user'[m.thread])
  <2>1. m.thread \in Client /\ Named(m, user[m.thread]) /\ Goes(m.thread)
    BY <1>3, <1>4 DEF CallInv, Names
  <2> QED
    BY <2>1 DEF Named, Goes
<1>5. Names'
  BY <1>4 DEF CallInv, Names, Name
<1>6. Once'
  BY <1>2 DEF CallInv, Once
<1>7. ASSUME NEW t \in Client, Outset(user'[t])
      PROVE  done'[<<t, user'[t].n>>] = 0
  BY <1>1, <1>7 DEF CallInv, Unbegun, Goes
<1>8. Unbegun'
  BY <1>7 DEF CallInv, Unbegun, Name, Outset
<1> QED
  BY <1>2, <1>5, <1>6, <1>8 DEF Same

LEMMA StillOpen ==
    ASSUME CallInv, \A t \in Client : Goes(t), outcome' = outcome
    PROVE  Open'
<1>1. ASSUME NEW d \in ThisCall, d[2] > user'[d[1]].n \/ (d[2] = user'[d[1]].n /\ user'[d[1]].pc # "idle")
      PROVE  outcome'[d] = << >>
  <2>1. d[1] \in Client
    BY DEF ThisCall
  <2> QED
    BY <1>1, <2>1 DEF CallInv, Open, Goes
<1> QED
  BY <1>1 DEF Open

LEMMA Closed ==
    ASSUME PortTypeOK, CallInv, \A t \in Client : Goes(t), NEW x \in Client, user'[x].pc = "idle",
           user'[x].n = user[x].n, NEW reply,
           outcome' = [outcome EXCEPT ![<<x, user[x].n>>] = reply]
    PROVE  Open'
<1>1. ASSUME NEW d \in ThisCall, d[2] > user'[d[1]].n \/ (d[2] = user'[d[1]].n /\ user'[d[1]].pc # "idle")
      PROVE  outcome'[d] = << >>
  <2>1. d[1] \in Client /\ d = <<d[1], d[2]>>
    BY DEF ThisCall
  <2>2. user[x].n \in Nat
    BY UserFacts
  <2>3. d # <<x, user[x].n>>
    BY <1>1, <2>1, <2>2
  <2>4. outcome'[d] = outcome[d]
    BY <2>3 DEF PortTypeOK
  <2> QED
    BY <1>1, <2>1, <2>4 DEF CallInv, Open, Goes
<1> QED
  BY <1>1 DEF Open

(* A call that goes on has a number, and no outcome.                       *)
LEMMA Going ==
    ASSUME PortInv, CallInv, NEW t \in Client, user[t].pc # "idle"
    PROVE  <<t, user[t].n>> \in ThisCall /\ <<t, user[t].n>> \in Asked /\ outcome[<<t, user[t].n>>] = << >>
<1>1. user[t].n \in 1 .. MaxCalls
  BY UserFacts, PortAssumption DEF PortInv, Users, Asking
<1> QED
  BY <1>1 DEF ThisCall, Asked, CallInv, Open

-----------------------------------------------------------------------------
(* The steps of the clients                                                *)

LEMMA OwnStep ==
    ASSUME PortInv, CallInv, \A t \in Client : Goes(t), NothingNew, UNCHANGED <<worker, client, done>>
    PROVE  Names' /\ Once' /\ Unbegun' /\ Made' /\ Same
<1>1. Waiting' \subseteq Waiting
  BY DEF Waiting, NothingNew, Does
<1>2. Names' /\ Once' /\ Unbegun' /\ Same
  BY <1>1, UsersGo DEF NothingNew
<1>3. Made'
  BY DEF CallInv, Made, Replies, Hands, Does, Name
<1> QED
  BY <1>2, <1>3

LEMMA StartThreadStays ==
    ASSUME PortInv, CallInv, NEW t \in Client, StartThread(t)
    PROVE  CallInv' /\ UNCHANGED remote
<1>1. UNCHANGED <<user, inbox, worker, client, done, outcome>>
  BY DEF StartThread, tables, results
<1>2. \A x \in Client : Goes(x)
  BY <1>1 DEF Goes
<1>3. NothingNew
  BY <1>1, Unmoved DEF PortInv
<1> QED
  BY <1>1, <1>2, <1>3, OwnStep, StillOpen, Silent DEF CallInv

LEMMA RegisterStays ==
    ASSUME PortInv, CallInv, NEW t \in Client, Register(t)
    PROVE  CallInv' /\ UNCHANGED remote
<1>1. UNCHANGED <<inbox, worker, client, done, outcome>>
  BY DEF Register, tables, results
<1>2. /\ user[t].pc = "connected" /\ user[t].conn # 0
      /\ user' = [user EXCEPT ![t] = [user[t] EXCEPT !.pc = "send", !.registered = TRUE]]
  BY UserFacts DEF Register, At, PortInv, Users, Asking
<1>3. \A x \in Client : Goes(x)
  BY <1>2, UserFacts DEF Goes, Outset, PortInv, User
<1>4. NothingNew
  BY <1>1, Unmoved DEF PortInv
<1> QED
  BY <1>1, <1>3, <1>4, OwnStep, StillOpen, Silent DEF CallInv

LEMMA AbandonFails ==
    ASSUME PortInv, CallInv, NEW t \in Client, Abandon(t)
    PROVE  CallInv' /\ Remote!Next
<1> DEFINE v == [Idle(user[t].n) EXCEPT !.registered = user[t].registered]
           m == Msg("closed", t, user[t].conn, <<0, 0>>, 0)
<1>1. /\ UNCHANGED <<worker, client, done>> /\ inbox' = Append(inbox, m)
      /\ outcome' = [outcome EXCEPT ![<<t, user[t].n>>] = NULL]
  BY DEF Abandon, tables
<1>2. user[t] \in User /\ user[t].registered \in BOOLEAN /\ user[t].pc \in {"send", "wait"}
  BY UserFacts DEF PortInv, Abandon, At, User
<1>3. user' = [user EXCEPT ![t] = v]
  BY UserFacts DEF PortInv, Abandon
<1>4. v.pc = "idle" /\ v.conn = 0 /\ v.n = user[t].n
  BY <1>2, IdleUser
<1> HIDE DEF v
<1>5. user'[t] = v /\ \A x \in Client : x # t => user'[x] = user[x]
  BY <1>3, UserFacts DEF PortInv
<1>6. \A x \in Client : Goes(x)
  BY <1>4, <1>5 DEF Goes, Outset
<1>7. m \in Message /\ m.type # "request"
  <2>1. born[Owner[t]] \in Nat /\ user[t].conn \in Conn
    BY UserFacts, PortAssumption DEF PortInv, PortTypeOK
  <2> QED
    BY <2>1, PortAssumption DEF Msg, Message, Part
<1>8. NothingNew
  BY <1>1, <1>7, OtherMail DEF PortInv
<1>9. Names' /\ Once' /\ Unbegun' /\ Made' /\ Same
  BY <1>1, <1>6, <1>8, OwnStep
<1>10. Open'
  BY <1>1, <1>4, <1>5, <1>6, Closed DEF PortInv
<1>11. Remote!Next
  BY <1>1, <1>2, <1>9, Going, Fails DEF PortInv
<1> QED
  BY <1>9, <1>10, <1>11 DEF CallInv

LEMMA EndStays ==
    ASSUME PortInv, CallInv, NEW S \in SUBSET Client, NEW p, End(S, p)
    PROVE  CallInv' /\ UNCHANGED remote
<1>1. /\ user' = [t \in Client |-> IF t \in S THEN Idle(user[t].n) ELSE user[t]]
      /\ UNCHANGED <<worker, client, done, outcome>>
  BY DEF End, tables, results
<1>2. \A t \in Client : Goes(t)
  BY <1>1 DEF Goes, Outset, Idle
<1>3. NothingNew
  BY <1>1, Ended DEF PortInv
<1> QED
  BY <1>1, <1>2, <1>3, OwnStep, StillOpen, Silent DEF CallInv

LEMMA SendStays ==
    ASSUME PortInv, CallInv, NEW t \in Client, Send(t)
    PROVE  CallInv' /\ UNCHANGED remote
<1> DEFINE u == user[t]
           v == [user[t] EXCEPT !.pc = "wait"]
<1>1. /\ UNCHANGED <<worker, client, done, outcome>> /\ u.pc = "send"
      /\ u \in User /\ u.conn # 0 /\ u.conn \in Conn /\ u.n \in 0 .. MaxCalls /\ u.length \in Nat /\ u.i \in Nat
  BY UserFacts DEF Send, At, tables, results, PortInv, Users, Asking
<1>2. PICK m : m = Msg("request", t, user[t].conn, <<user[t].n, user[t].i>>, user[t].length)
  OBVIOUS
<1>3. inbox' = Append(inbox, m) /\ user' = [user EXCEPT ![t] = v]
  BY <1>2, UserFacts DEF Send, PortInv
<1>4. /\ m \in Message /\ m.type = "request" /\ m.thread = t
      /\ m.conn = u.conn /\ m.part = <<u.n, u.i>> /\ m.length = u.length
  <2>1. born[Owner[t]] \in Nat
    BY PortAssumption DEF PortInv, PortTypeOK
  <2> QED
    BY <1>1, <1>2, <2>1 DEF Msg, Message, Part
<1>5. m.part[1] = u.n /\ m.part[2] = u.i /\ Name(m) = <<t, u.n>>
  BY <1>4 DEF Name
<1>6. \A r \in Flying : r.thread \in Client /\ (r.thread = t => r.conn # u.conn) /\ Owned(r)
  BY <1>1, NotWaiting, TypeFacts DEF PortInv, Links
<1>7. \A r \in Flying : r.conn # m.conn
  <2>1. conns[u.conn].thread = t
    BY <1>1 DEF PortInv, Wired
  <2> QED
    BY <1>4, <1>6, <2>1 DEF Owned
<1>8. Flying' = Flying \cup {m} /\ Coming' = Coming \cup {m}
  BY <1>3, <1>4, <1>7, <1>1, NewRequest DEF PortInv
<1>9. Waiting' = Waiting \cup {m}
  BY <1>1, <1>8 DEF Waiting, Does
<1>10. /\ v.n = u.n /\ v.conn = u.conn /\ v.pc = "wait" /\ user'[t] = v
       /\ \A x \in Client : x # t => user'[x] = user[x]
  BY <1>1, <1>3, UserFacts DEF PortInv, User
<1> HIDE DEF v
<1>11. \A x \in Client : Goes(x)
  BY <1>1, <1>10 DEF Goes, Outset
<1>12. Same
  <2>1. \A x \in Client : user'[x].n = user[x].n
    BY <1>10
  <2> QED
    BY <1>1, <2>1 DEF Same, Asked, ThisCall
(* No other request of this call is on its way. *)
<1>13. ASSUME NEW r \in Flying PROVE Name(r) # Name(m)
  <2>1. r.thread = t => Named(r, u)
    BY DEF CallInv, Names
  <2> QED
    BY <1>1, <1>4, <1>5, <1>6, <2>1 DEF Name, Named
<1>14. Names'
  <2>1. \A r \in Flying : Named(r, user'[r.thread])
    BY <1>1, <1>6, <1>10 DEF CallInv, Names, Named
  <2>2. Named(m, user'[m.thread])
    BY <1>4, <1>10 DEF Named
  <2> QED
    BY <1>8, <1>13, <2>1, <2>2 DEF CallInv, Names, Name
<1>15. Once'
  BY <1>12 DEF CallInv, Once, Same
<1>16. u.i > 0 => done[<<t, u.n>>] = 0
  BY <1>1 DEF CallInv, Unbegun, Outset
<1>17. Unbegun'
  <2>1. \A x \in Client : Outset(user'[x]) => done'[<<x, user'[x].n>>] = 0
    BY <1>1, <1>10 DEF CallInv, Unbegun, Outset
  <2>2. \A r \in Waiting' : r.part[2] > 0 => done'[Name(r)] = 0
    BY <1>1, <1>5, <1>9, <1>16 DEF CallInv, Unbegun
  <2>3. \A r \in Flying' : r.part[2] \in 1 .. r.length - 1 => done'[Name(r)] = 0
    BY <1>1, <1>5, <1>8, <1>16 DEF CallInv, Unbegun
  <2> QED
    BY <2>1, <2>2, <2>3 DEF Unbegun, Outset, Name
<1>18. Made'
  BY <1>1 DEF CallInv, Made, Replies, Hands, Does, Name
<1> QED
  BY <1>1, <1>11, <1>12, <1>14, <1>15, <1>17, <1>18, StillOpen, Silent DEF CallInv

LEMMA BeginCallAsks ==
    ASSUME PortInv, CallInv, NEW t \in Client, BeginCall(t)
    PROVE  CallInv' /\ Remote!Next
<1> DEFINE u == user[t]
           n == u.n + 1
           d == <<t, n>>
<1>1. /\ UNCHANGED <<worker, client, done, outcome>> /\ u.pc = "idle" /\ Cardinality(Asked) < MaxCalls
      /\ u \in User /\ u.n \in Nat
  BY UserFacts DEF BeginCall, At, tables, results, PortInv
<1>2. n \in 1 .. MaxCalls /\ d \in ThisCall
  BY <1>1, RoomForCall DEF PortInv, ThisCall
<1>3. PICK length \in Chunks :
         LET call == [user[t] EXCEPT !.n = @ + 1, !.length = length, !.i = 1, !.got = << >>] IN
         \/ /\ user[t].conn # 0
            /\ user' = [user EXCEPT ![t] = [call EXCEPT !.pc = "send"]]
            /\ UNCHANGED <<conns, inbox>>
         \/ /\ user[t].conn = 0
            /\ Len(conns) < MaxConns
            /\ conns' = Append(conns, [thread |-> t, client |-> FALSE, server |-> FALSE])
            /\ inbox' = Append(inbox, Msg("connect", t, Len(conns'), <<0, 0>>, 0))
            /\ user' = [user EXCEPT ![t] = [call EXCEPT !.pc = "connect", !.conn = Len(conns')]]
  BY DEF BeginCall
<1>4. user'[t].n = n /\ \A x \in Client : x # t => user'[x] = user[x]
  <2> DEFINE call == [user[t] EXCEPT !.n = @ + 1, !.length = length, !.i = 1, !.got = << >>]
  <2>1. \A pc, c : /\ [call EXCEPT !.pc = pc].n = n
                   /\ [call EXCEPT !.pc = pc, !.conn = c].n = n
    BY <1>1 DEF User
  <2>2. PICK v : v.n = n /\ user' = [user EXCEPT ![t] = v]
    BY <1>3, <2>1
  <2> QED
    BY <2>2, UserFacts DEF PortInv
<1>5. NothingNew
  <2>1. CASE inbox' = inbox
    BY <1>1, <2>1, Unmoved DEF PortInv
  <2>2. CASE /\ conns' = Append(conns, [thread |-> t, client |-> FALSE, server |-> FALSE])
             /\ Len(conns) < MaxConns
             /\ inbox' = Append(inbox, Msg("connect", t, Len(conns'), <<0, 0>>, 0))
    <3>1. Len(conns') \in Conn /\ born[Owner[t]] \in Nat
      <4>1. Len(conns') = Len(conns) + 1 /\ Len(conns) \in Nat
        BY <2>2, ConnFacts, AppendProperties, LenProperties DEF PortInv
      <4> QED
        BY <2>2, <4>1, PortAssumption DEF Conn, PortInv, PortTypeOK
    <3>2. Msg("connect", t, Len(conns'), <<0, 0>>, 0) \in Message
      BY <3>1, PortAssumption DEF Msg, Message, Part
    <3> QED
      BY <1>1, <2>2, <3>2, OtherMail DEF Msg, PortInv
  <2> QED
    BY <1>3, <2>1, <2>2
<1> HIDE DEF u
<1>6. Waiting' \subseteq Waiting /\ Flying' \subseteq Flying
  BY <1>1, <1>5 DEF Waiting, NothingNew, Does
<1>7. Asked' = Asked \cup {d} /\ d \notin Asked
  <2>1. \A e \in ThisCall : e = <<e[1], e[2]>> /\ e[1] \in Client /\ e[2] \in Nat
    BY PortAssumption DEF ThisCall
  <2>2. \A e \in ThisCall : e \in Asked' <=> e \in Asked \/ e = d
    BY <1>1, <1>4, <2>1 DEF Asked, u
  <2>3. d \notin Asked
    BY <1>1 DEF Asked, u
  <2>4. Asked' \subseteq ThisCall /\ Asked \subseteq ThisCall
    BY DEF Asked, ThisCall
  <2> QED
    BY <1>2, <2>2, <2>3, <2>4
<1>8. done[d] = 0 /\ outcome[d] = << >>
  BY <1>1, <1>2, <1>7 DEF CallInv, Once, Open, u
<1>9. Names'
  <2>1. ASSUME NEW m \in Flying' PROVE Named(m, user'[m.thread])
    <3>1. m \in Flying /\ m.thread \in Client /\ Linked(m, user[m.thread])
      BY <1>6, TypeFacts DEF PortInv, Links
    <3>2. m.thread = t => m.part[1] # n
      BY <1>1, <3>1 DEF Linked, u
    <3> QED
      BY <1>4, <3>1, <3>2 DEF CallInv, Names, Named
  <2> QED
    BY <1>6, <2>1 DEF CallInv, Names, Name
<1>10. Once'
  BY <1>1, <1>7 DEF CallInv, Once
<1>11. Unbegun'
  <2>1. ASSUME NEW x \in Client, Outset(user'[x])
        PROVE  done'[<<x, user'[x].n>>] = 0
    BY <1>1, <1>4, <1>8, <2>1 DEF CallInv, Unbegun
  <2> QED
    BY <1>1, <1>6, <2>1 DEF CallInv, Unbegun, Name, Outset
<1>12. Made'
  BY <1>1 DEF CallInv, Made, Replies, Hands, Does, Name
<1>13. Open'
  <2>1. ASSUME NEW e \in ThisCall,
               e[2] > user'[e[1]].n \/ (e[2] = user'[e[1]].n /\ user'[e[1]].pc # "idle")
        PROVE  outcome'[e] = << >>
    <3>1. e[1] \in Client /\ e[2] \in Nat /\ e = <<e[1], e[2]>>
      BY PortAssumption DEF ThisCall
    <3>2. CASE e[1] = t
      <4>1. e[2] > u.n
        BY <1>1, <1>4, <2>1, <3>1, <3>2
      <4> QED
        BY <1>1, <3>2, <4>1 DEF CallInv, Open, u
    <3>3. CASE e[1] # t
      BY <1>1, <1>4, <2>1, <3>1, <3>3 DEF CallInv, Open
    <3> QED
      BY <3>2, <3>3
  <2> QED
    BY <2>1 DEF Open
<1>14. Remote!Next
  <2>1. Answer' = Answer
    BY <1>1 DEF Answer, AnswerOf
  <2>2. Remote!Ask(d)
    BY <1>1, <1>7, <2>1 DEF Remote!Ask, Answer
  <2> QED
    BY <1>2, <2>2 DEF Remote!Next
<1> QED
  BY <1>9, <1>10, <1>11, <1>12, <1>13, <1>14 DEF CallInv

LEMMA UserStepActs ==
    ASSUME PortInv, CallInv, NEW t \in Client, UserStep(t)
    PROVE  CallInv' /\ (Remote!Next \/ UNCHANGED remote)
<1>1. CASE EndThread(t)
  BY <1>1, EndStays DEF EndThread
<1> QED
  BY <1>1, StartThreadStays, BeginCallAsks, RegisterStays, SendStays, AbandonFails DEF UserStep

-----------------------------------------------------------------------------
(* The steps of the service                                                *)

Quiet(w) ==
    /\ NothingNew /\ done' = done
    /\ \A v \in Worker : v # w => worker'[v] = worker[v]
    /\ \A t \in Client : Goes(t)

LEMMA Aside ==
    ASSUME PortInv, CallInv, NEW w \in Worker, Quiet(w),
           \/ worker'[w].pc \notin {"request", "call"}
           \/ (Does(w, "find") \/ Does(w, "request")) /\ worker'[w].msg = worker[w].msg,
           \A t \in Client : Replies(t)', Hands(w)'
    PROVE  Names' /\ Once' /\ Unbegun' /\ Made' /\ Same
<1>1. Waiting' \subseteq Waiting
  <2>1. ASSUME NEW v \in Worker, Does(v, "request")' \/ Does(v, "call")'
        PROVE  worker'[v].msg \in Waiting
    <3>1. CASE v = w
      BY <2>1, <3>1 DEF Waiting, Coming, Does
    <3>2. CASE v # w
      BY <2>1, <3>2 DEF Waiting, Quiet, Does
    <3> QED
      BY <3>1, <3>2
  <2> QED
    BY <2>1 DEF Waiting, Quiet, NothingNew
<1>2. Names' /\ Once' /\ Unbegun' /\ Same
  BY <1>1, UsersGo DEF Quiet, NothingNew
<1>3. \A v \in Worker : Hands(v)'
  <2>1. ASSUME NEW v \in Worker, v # w PROVE Hands(v)'
    BY <2>1 DEF Quiet, CallInv, Made, Hands, Does, Name
  <2> QED
    BY <2>1
<1>4. Made'
  BY <1>3 DEF Made
<1> QED
  BY <1>2, <1>4

LEMMA SameReplies ==
    ASSUME CallInv, NEW t \in Client, client'[t] = client[t], done' = done
    PROVE  Replies(t)'
BY DEF CallInv, Made, Replies

LEMMA NoReplies ==
    ASSUME NEW t \in Client, ~ client'[t].replying
    PROVE  Replies(t)'
BY DEF Replies, Sending

LEMMA SameUsers ==
    ASSUME user' = user
    PROVE  \A t \in Client : Goes(t)
BY DEF Goes

(* A thread of the service gives up its message.                           *)
LEMMA Leaves ==
    ASSUME PortInv, CallInv, NEW w \in Worker, Done(w), UNCHANGED <<inbox, done>>,
           \A t \in Client : Goes(t) /\ Replies(t)'
    PROVE  Names' /\ Once' /\ Unbegun' /\ Made' /\ Same
<1>1. /\ NothingNew /\ worker'[w] = Free /\ Free.pc = "receive"
      /\ \A v \in Worker : v # w => worker'[v] = worker[v]
  BY DoneMoves
<1>2. Quiet(w)
  BY <1>1 DEF Quiet
<1>3. Hands(w)' /\ worker'[w].pc \notin {"request", "call"}
  BY <1>1 DEF Hands, Does
<1> QED
  BY <1>2, <1>3, Aside

LEMMA ReceiveStays ==
    ASSUME PortInv, CallInv, NEW w \in Worker, Receive(w)
    PROVE  CallInv' /\ UNCHANGED remote
<1>1. UNCHANGED <<user, client, done, outcome>>
  BY DEF Receive, tables, results
<1>2. \A t \in Client : Goes(t) /\ Replies(t)'
  BY <1>1, SameUsers, SameReplies
<1>3. /\ \A v \in Worker : v # w => worker'[v] = worker[v]
      /\ worker'[w].pc \in {"find", "connect", "died", "closed"}
  <2>1. Head(inbox) \in Message
    BY TypeFacts, HeadTailProperties DEF PortInv, Receive
  <2>2. Head(inbox).type \in {"connect", "request", "died", "closed"}
    BY <2>1 DEF Message
  <2> QED
    BY <2>2, TypeFacts DEF PortInv, Receive
<1>4. Quiet(w)
  BY <1>1, <1>2, <1>3, Received DEF Quiet, PortInv
<1>5. Hands(w)'
  BY <1>3 DEF Hands, Does
<1>6. Names' /\ Once' /\ Unbegun' /\ Made' /\ Same
  BY <1>2, <1>3, <1>4, <1>5, Aside
<1> QED
  BY <1>1, <1>2, <1>6, StillOpen, Silent DEF CallInv

LEMMA Accepts ==
    ASSUME PortInv, CallInv, NEW m, m.thread \in Client, Accept(m), done' = done
    PROVE  \A t \in Client : Goes(t) /\ Replies(t)'
<1>1. ASSUME NEW t \in Client PROVE Goes(t)
  <2>1. CASE user' = user
    BY <2>1, SameUsers
  <2>2. CASE /\ At(m.thread, "connect")
             /\ user' = [user EXCEPT ![m.thread].pc = "connected"]
    <3>1. user[m.thread].pc = "connect" /\ user[m.thread].conn # 0
      BY <2>2 DEF At, PortInv, Users, Asking
    <3> QED
      BY <2>2, <3>1, UserFacts DEF PortInv, User, Goes, Outset
  <2> QED
    BY <2>1, <2>2 DEF Accept
<1>2. ASSUME NEW t \in Client PROVE Replies(t)'
  <2>1. DOMAIN client = Client
    BY DEF PortInv, PortTypeOK
  <2>2. CASE t = m.thread
    BY <2>1, <2>2, NoReplies DEF Accept, Fresh
  <2>3. CASE t # m.thread
    BY <2>1, <2>3, SameReplies DEF Accept
  <2> QED
    BY <2>2, <2>3
<1> QED
  BY <1>1, <1>2

LEMMA PortConnectStays ==
    ASSUME PortInv, CallInv, NEW w \in Worker, PortConnect(w)
    PROVE  CallInv' /\ (Remote!Next \/ UNCHANGED remote)
<1> DEFINE m == worker[w].msg
           t == m.thread
<1>1. t \in Client /\ UNCHANGED <<inbox, done>> /\ Does(w, "connect")
  BY TypeFacts DEF PortInv, PortConnect, Place, Message
<1>2. CASE Accept(m) /\ Done(w) /\ outcome' = outcome
  BY <1>1, <1>2, Accepts, Leaves, StillOpen, Silent DEF CallInv
<1>3. CASE Reject(m) /\ Done(w)
  <2>1. client' = client
    BY <1>3 DEF Reject
  <2>2. CASE UNCHANGED <<user, outcome>>
    BY <1>1, <1>3, <2>1, <2>2, SameUsers, SameReplies, Leaves, StillOpen, Silent DEF CallInv
  <2>3. CASE /\ At(t, "connect")
             /\ user' = [user EXCEPT ![t] = [Idle(@.n) EXCEPT !.registered = user[t].registered]]
             /\ outcome' = [outcome EXCEPT ![<<t, user[t].n>>] = NULL]
    <3>1. user[t] \in User /\ user[t].registered \in BOOLEAN /\ user[t].pc = "connect"
      BY <1>1, <2>3, UserFacts DEF PortInv, At, User
    <3> DEFINE v == [Idle(user[t].n) EXCEPT !.registered = user[t].registered]
    <3>2. v.pc = "idle" /\ v.conn = 0 /\ v.n = user[t].n
      BY <3>1, IdleUser
    <3>3. user' = [user EXCEPT ![t] = v]
      BY <1>1, <2>3, UserFacts DEF PortInv
    <3> HIDE DEF v
    <3>4. user'[t] = v /\ \A x \in Client : x # t => user'[x] = user[x]
      BY <1>1, <3>3, UserFacts DEF PortInv
    <3>5. \A x \in Client : Goes(x)
      BY <3>2, <3>4 DEF Goes, Outset
    <3>6. Names' /\ Once' /\ Unbegun' /\ Made' /\ Same
      BY <1>1, <1>3, <2>1, <3>5, SameReplies, Leaves
    <3>7. Open'
      BY <1>1, <2>3, <3>2, <3>4, <3>5, Closed DEF PortInv
    <3>8. Remote!Next
      BY <1>1, <2>3, <3>1, <3>6, Going, Fails DEF PortInv
    <3> QED
      BY <3>6, <3>7, <3>8 DEF CallInv
  <2> QED
    BY <1>3, <2>2, <2>3 DEF Reject
<1>4. CASE Goto(w, "evict") /\ UNCHANGED <<user, client, outcome>>
  <2>1. /\ \A v \in Worker : v # w => worker'[v] = worker[v]
        /\ worker'[w].pc = "evict"
    BY <1>4, TypeFacts DEF Goto, PortInv, Place
  <2>2. NothingNew
    BY <1>1, <2>1, WorkerMoves DEF PortInv, Serves
  <2>3. \A x \in Client : Goes(x) /\ Replies(x)'
    BY <1>1, <1>4, SameUsers, SameReplies
  <2>4. Quiet(w) /\ Hands(w)'
    BY <1>1, <2>1, <2>2, <2>3 DEF Quiet, Hands, Does
  <2> QED
    BY <1>1, <1>4, <2>1, <2>3, <2>4, Aside, StillOpen, Silent DEF CallInv
<1> QED
  BY <1>2, <1>3, <1>4 DEF PortConnect, history, tables

LEMMA EvictStays ==
    ASSUME PortInv, CallInv, NEW w \in Worker, Evict(w)
    PROVE  CallInv' /\ UNCHANGED remote
<1>1. /\ worker[w].msg.thread \in Client /\ UNCHANGED <<inbox, done, outcome>>
      /\ Accept(worker[w].msg) /\ Done(w)
  BY TypeFacts DEF PortInv, Evict, Place, Message, results
<1> QED
  BY <1>1, Accepts, Leaves, StillOpen, Silent DEF CallInv

LEMMA PortFindClientStays ==
    ASSUME PortInv, CallInv, NEW w \in Worker, PortFindClient(w)
    PROVE  CallInv' /\ UNCHANGED remote
<1> DEFINE t == worker[w].msg.thread
<1>1. t \in Client /\ UNCHANGED <<user, inbox, done, outcome>> /\ Does(w, "find")
  BY TypeFacts DEF PortInv, PortFindClient, Place, Message, results
<1>2. CASE Done(w) /\ client' = client
  BY <1>1, <1>2, SameUsers, SameReplies, Leaves, StillOpen, Silent DEF CallInv
<1>3. CASE /\ client[t] # NoClient
           /\ client' = [client EXCEPT ![t].in_use = TRUE]
           /\ Goto(w, IF client[t].replying THEN "finish" ELSE "request")
  <2>1. /\ \A v \in Worker : v # w => worker'[v] = worker[v]
        /\ worker'[w].pc \in {"finish", "request"} /\ worker'[w].msg = worker[w].msg
    BY <1>3, TypeFacts DEF Goto, PortInv, Place
  <2>2. NothingNew
    BY <1>1, <2>1, WorkerMoves DEF PortInv, Busy
  <2>3. ASSUME NEW x \in Client PROVE Replies(x)'
    <3>1. CASE x # t
      BY <1>1, <1>3, <3>1, SameReplies
    <3>2. CASE x = t
      <4>1. client[t] \in ClientThread
        BY <1>1, <1>3 DEF PortInv, PortTypeOK
      <4>2. client'[t] = [client[t] EXCEPT !.in_use = TRUE]
        BY <1>1, <1>3 DEF PortInv, PortTypeOK
      <4>3. \A n : Sending(client'[t], n) => Sending(client[t], n)
        BY <4>1, <4>2 DEF ClientThread, Sending
      <4> QED
        BY <1>1, <1>3, <3>2, <4>3 DEF Replies, CallInv, Made
    <3> QED
      BY <3>1, <3>2
  <2>4. \A x \in Client : Goes(x)
    BY <1>1, SameUsers
  <2>5. Quiet(w) /\ Hands(w)'
    BY <1>1, <2>1, <2>2, <2>4 DEF Quiet, Hands, Does
  <2>6. Names' /\ Once' /\ Unbegun' /\ Made' /\ Same
    BY <1>1, <2>1, <2>3, <2>5, Aside
  <2> QED
    BY <1>1, <2>4, <2>6, StillOpen, Silent DEF CallInv
<1> QED
  BY <1>2, <1>3 DEF PortFindClient

(* The structure a thread works with while it collects a request, and      *)
(* while it replies.                                                       *)
LEMMA AtWork ==
    ASSUME PortInv, ~ crossed, NEW w \in Worker, Holds(w)
    PROVE  LET m == worker[w].msg
               t == m.thread
               s == client[t]
           IN  /\ t \in Client /\ s \in ClientThread /\ s # NoClient
               /\ m \in Flying /\ m.part[1] \in 1 .. MaxCalls
               /\ Name(m) \in ThisCall /\ Name(m) \in Asked
               /\ m.part[2] \in Nat /\ m.length \in Nat /\ m.length > 0 /\ m.part \in Part
               /\ Does(w, "request") => m.part[2] > 0 /\ ~ s.replying
               /\ Does(w, "call") => Called(m, s)
               /\ Does(w, "finish") => Finishes(m, s, user[t]) /\ PortOf(s) = m.conn
<1> DEFINE m == worker[w].msg
           t == m.thread
           s == client[t]
<1>1. m \in Message /\ m \in Flying /\ t \in Client
  BY TypeFacts DEF PortInv, Place, Message, Flying, Busy, Serves, Holds
<1>2. s # NoClient /\ PortOf(s) = m.conn
  BY DEF PortInv, Held
<1>3. s \in ClientThread
  BY <1>1, <1>2 DEF PortInv, PortTypeOK
<1>4. m.part \in Part /\ m.part[2] \in Nat /\ m.length \in Nat /\ m.length > 0 /\ m.part[1] \in 1 .. user[t].n
  BY <1>1 DEF Message, Part, PortInv, Links, Linked
<1>5. m.part[1] \in 1 .. MaxCalls /\ m.part[1] <= user[t].n
  BY <1>1, <1>4, UserFacts, PortAssumption DEF PortInv
<1>6. Name(m) \in ThisCall /\ Name(m) \in Asked
  BY <1>1, <1>5 DEF Name, ThisCall, Asked
<1>7. Speaks(worker[w].pc, m, worker[w].out, s, user[t])
  BY DEF PortInv, Served, Serves, Holds
<1>8. Does(w, "request") => m.part[2] > 0 /\ Arrives(m, s, user[t])
  BY <1>2, <1>7 DEF Speaks, Does
<1>9. Does(w, "request") => m.part[2] > 0 /\ ~ s.replying
  BY <1>2, <1>4, <1>8 DEF Arrives, Ready, Clean, Half
<1>10. /\ Does(w, "call") => Called(m, s)
       /\ Does(w, "finish") => Finishes(m, s, user[t])
  BY <1>2, <1>7 DEF Speaks, Does
<1> QED
  BY <1>1, <1>2, <1>3, <1>4, <1>5, <1>6, <1>9, <1>10

LEMMA RefusedIs ==
    ASSUME PortTypeOK, NEW t \in Client, client[t] \in ClientThread, client' = Refused(t)
    PROVE  /\ \A x \in Client : x # t => client'[x] = client[x]
           /\ Refusal(client'[t])
<1>1. DOMAIN client = Client
  BY DEF PortTypeOK
<1>2. client' = [client EXCEPT ![t] =
          [client[t] EXCEPT !.buf = << >>, !.length = 0, !.ptr = 0, !.replying = TRUE]]
  BY <1>1 DEF Refused, ClientThread
<1> QED
  BY <1>1, <1>2, Refuses

LEMMA PortRequestStays ==
    ASSUME PortInv, CallInv, ~ crossed, NEW w \in Worker, PortRequest(w)
    PROVE  CallInv' /\ UNCHANGED remote
<1> DEFINE m == worker[w].msg
           t == m.thread
           s == client[t]
<1>1. UNCHANGED <<user, inbox, done, outcome>> /\ Does(w, "request") /\ Holds(w)
  BY DEF PortRequest, results, Does, Holds
<1>2. t \in Client /\ s \in ClientThread /\ ~ s.replying
  BY <1>1, AtWork
<1>3. PICK pc \in {"call", "finish", "misled"} : Goto(w, pc)
  BY DEF PortRequest
<1>4. /\ \A v \in Worker : v # w => worker'[v] = worker[v]
      /\ worker'[w].pc \in {"call", "finish", "misled"} /\ worker'[w].msg = m
  BY <1>3, TypeFacts DEF Goto, PortInv, Place
<1>5. NothingNew
  BY <1>1, <1>4, WorkerMoves DEF PortInv, Busy, Serves, Does
<1>6. /\ \A x \in Client : x # t => client'[x] = client[x]
      /\ \A n : ~ Sending(client'[t], n)
  <2>1. DOMAIN client = Client
    BY DEF PortInv, PortTypeOK
  <2>2. CASE client' = Refused(t)
    BY <1>2, <2>2, RefusedIs DEF Refusal, Sending, PortInv
  <2>3. ASSUME NEW l, client' = Collect(t, m.part, l)
        PROVE  /\ \A x \in Client : x # t => client'[x] = client[x]
               /\ \A n : ~ Sending(client'[t], n)
    BY <1>2, <2>1, <2>3 DEF Collect, Sending, ClientThread
  <2> QED
    BY <2>2, <2>3 DEF PortRequest
<1>7. ASSUME NEW x \in Client PROVE Goes(x) /\ Replies(x)'
  <2>1. x = t => Replies(x)'
    BY <1>6 DEF Replies
  <2> QED
    BY <1>1, <1>6, <2>1, SameUsers, SameReplies
<1>8. Quiet(w) /\ Hands(w)'
  BY <1>1, <1>4, <1>5, <1>7 DEF Quiet, Hands, Does
<1>9. Names' /\ Once' /\ Unbegun' /\ Made' /\ Same
  BY <1>1, <1>4, <1>7, <1>8, Aside
<1> QED
  BY <1>1, <1>7, <1>9, StillOpen, Silent DEF CallInv

(* Nothing but the thread itself works for the call it hands to the        *)
(* target.                                                                 *)
LEMMA NoOther ==
    ASSUME PortInv, CallInv, NEW w \in Worker, Busy(w), inbox' = inbox,
           \A v \in Worker : v # w => worker'[v] = worker[v],
           worker'[w].pc = "finish", worker'[w].msg = worker[w].msg
    PROVE  /\ \A r \in Waiting' : Name(r) # Name(worker[w].msg)
           /\ \A r \in Flying' : Name(r) = Name(worker[w].msg) => r = worker[w].msg
<1> DEFINE m == worker[w].msg
<1>1. Sent' = Sent /\ m \in Flying
  BY DEF Sent, Flying
<1>2. \A r \in Sent : r.conn # m.conn /\ r \in Flying
  BY DEF PortInv, Alone, Sent, Flying
<1>3. \A v \in Worker : v # w /\ Busy(v) => worker[v].msg.conn # m.conn /\ worker[v].msg \in Flying
  BY DEF PortInv, Alone, Flying
<1>4. \A v \in Worker : Busy(v)' => v = w \/ (Busy(v) /\ worker'[v].msg = worker[v].msg)
  BY DEF Busy, Serves, Does
<1>5. ASSUME NEW r \in Flying', r.conn = m.conn
      PROVE  r = m /\ r \notin Sent
  BY <1>1, <1>2, <1>3, <1>4, <1>5 DEF Flying
<1>6. Flying' \subseteq Flying
  BY <1>1, <1>4 DEF Flying
<1>7. ASSUME NEW r \in Flying', Name(r) = Name(m) PROVE r = m
  BY <1>1, <1>5, <1>6, <1>7 DEF CallInv, Names
<1>8. ASSUME NEW r \in Waiting' PROVE r \in Flying' /\ r.conn # m.conn
  <2>1. CASE r \in Sent
    BY <1>1, <1>2, <2>1 DEF Flying
  <2>2. ASSUME NEW v \in Worker, Does(v, "find")' \/ Does(v, "request")' \/ Does(v, "call")', r = worker'[v].msg
        PROVE  r \in Flying' /\ r.conn # m.conn
    <3>1. v # w /\ Busy(v)'
      BY <2>2 DEF Does, Busy, Serves
    <3> QED
      BY <1>3, <1>4, <2>2, <3>1 DEF Flying
  <2> QED
    BY <1>1, <2>1, <2>2 DEF Waiting, Coming
<1>9. ASSUME NEW r \in Waiting' PROVE Name(r) # Name(m)
  BY <1>1, <1>6, <1>8 DEF CallInv, Names
<1> QED
  BY <1>7, <1>9

LEMMA CallTargetDoes ==
    ASSUME PortInv, CallInv, ~ crossed, NEW w \in Worker, CallTarget(w)
    PROVE  CallInv' /\ Remote!Next
<1>1. /\ UNCHANGED <<user, inbox, outcome>> /\ Does(w, "call") /\ Holds(w) /\ Goto(w, "finish")
      /\ Busy(w)
  BY DEF CallTarget, results, Does, Holds, Busy, Serves
<1> DEFINE m == worker[w].msg
           t == m.thread
           s == client[t]
           n == s.buf[1][1]
           d == <<t, n>>
<1>2. /\ t \in Client /\ s \in ClientThread /\ m \in Flying /\ Called(m, s)
      /\ Name(m) \in ThisCall /\ Name(m) \in Asked /\ m.length \in Nat /\ m.length > 0
      /\ m.part[1] \in 1 .. MaxCalls
  BY <1>1, AtWork
<1>3. n = m.part[1] /\ m.part[2] = m.length
  <2>1. s.buf = Parts(m.part[1], m.length) /\ 1 \in 1 .. m.length
    BY <1>2 DEF Called
  <2> QED
    BY <1>2, <2>1 DEF Called, Parts
<1>4. d = Name(m) /\ d \in ThisCall /\ d \in Asked
  BY <1>2, <1>3 DEF Name
<1>5. /\ done' = [done EXCEPT ![d] = @ + 1]
      /\ \/ \E k \in Pieces :
               client' = [client EXCEPT ![t].buf = [i \in 1 .. k |-> <<n, i>>], ![t].length = k,
                                        ![t].ptr = 0, ![t].replying = TRUE]
         \/ client' = Refused(t)
  BY DEF CallTarget
<1> HIDE DEF d, n
<1>6. done[d] = 0
  BY <1>1, <1>2, <1>3, <1>4 DEF CallInv, Unbegun, Waiting
<1>7. /\ done'[d] = 1
      /\ \A e \in ThisCall : e # d => done'[e] = done[e]
  <2>1. done \in [ThisCall -> Nat]
    BY DEF PortInv, PortTypeOK
  <2>2. done' = [done EXCEPT ![d] = done[d] + 1]
    BY <1>5
  <2>3. done[d] + 1 = 1
    BY <1>6
  <2> QED
    BY <1>4, <2>1, <2>2, <2>3
<1>8. /\ \A v \in Worker : v # w => worker'[v] = worker[v]
      /\ worker'[w].pc = "finish" /\ worker'[w].msg = m
  BY <1>1, TypeFacts DEF Goto, PortInv, Place
<1>9. NothingNew
  BY <1>1, <1>8, WorkerMoves DEF PortInv
<1>10. /\ \A r \in Waiting' : Name(r) # d
       /\ \A r \in Flying' : Name(r) = d => r = m
  BY <1>1, <1>4, <1>8, NoOther
<1>11. Waiting' \subseteq Waiting
  <2>1. ASSUME NEW v \in Worker, Does(v, "request")' \/ Does(v, "call")'
        PROVE  worker'[v].msg \in Waiting
    BY <1>8, <2>1 DEF Waiting, Does
  <2> QED
    BY <1>9, <2>1 DEF Waiting, NothingNew
<1>12. Asked' = Asked
  BY <1>1 DEF Asked
<1>13. \A r \in Flying : Name(r) \in ThisCall
  <2>1. \A r \in Flying : r.thread \in Client /\ r.part[1] \in 1 .. user[r.thread].n
    BY TypeFacts DEF PortInv, Links, Linked
  <2>2. \A x \in Client : user[x].n \in 0 .. MaxCalls
    BY UserFacts DEF PortInv
  <2>3. \A r \in Flying : r.part[1] \in 1 .. MaxCalls
    BY <2>1, <2>2, PortAssumption
  <2> QED
    BY <2>1, <2>3 DEF Name, ThisCall
<1>14. Names'
  BY <1>1, <1>9 DEF CallInv, Names, NothingNew, Name
<1>15. Once'
  BY <1>4, <1>7, <1>12 DEF CallInv, Once
<1>16. Unbegun'
  <2>1. ASSUME NEW x \in Client, Outset(user[x]) PROVE done'[<<x, user[x].n>>] = 0
    <3>1. <<x, user[x].n>> \in ThisCall /\ done[<<x, user[x].n>>] = 0
      BY <2>1, Going DEF Outset, CallInv, Unbegun
    <3>2. Named(m, user[t]) /\ Linked(m, user[t])
      BY <1>2 DEF CallInv, Names, PortInv, Links
    <3>3. x = t => user[x].n # n
      BY <1>3, <2>1, <3>2 DEF Named, Linked, Outset
    <3> QED
      BY <1>7, <3>1, <3>3 DEF d
  <2>2. ASSUME NEW r \in Waiting', r.part[2] > 0 PROVE done'[Name(r)] = 0
    <3>1. r \in Waiting /\ Name(r) # d
      BY <1>10, <1>11
    <3>2. r \in Flying
      BY <3>1, TypeFacts DEF Waiting, PortInv, Flying, Busy, Serves, Does
    <3> QED
      BY <1>7, <1>13, <2>2, <3>1, <3>2 DEF CallInv, Unbegun
  <2>3. ASSUME NEW r \in Flying', r.part[2] \in 1 .. r.length - 1 PROVE done'[Name(r)] = 0
    <3>1. r \in Flying /\ r # m
      BY <1>2, <1>3, <1>9, <2>3 DEF NothingNew
    <3> QED
      BY <1>7, <1>10, <1>13, <2>3, <3>1 DEF CallInv, Unbegun
  <2> QED
    BY <1>1, <2>1, <2>2, <2>3 DEF Unbegun, Outset, Name
<1>17. /\ \A x \in Client : x # t => client'[x] = client[x]
       /\ \A j \in 1 .. MaxCalls : Sending(client'[t], j) => j = n
  <2>1. DOMAIN client = Client
    BY DEF PortInv, PortTypeOK
  <2>2. CASE client' = Refused(t)
    BY <1>2, <2>2, RefusedIs DEF Refusal, Sending, PortInv
  <2>3. ASSUME NEW k \in Pieces,
               client' = [client EXCEPT ![t].buf = [i \in 1 .. k |-> <<n, i>>], ![t].length = k,
                                        ![t].ptr = 0, ![t].replying = TRUE]
        PROVE  /\ \A x \in Client : x # t => client'[x] = client[x]
               /\ \A j \in 1 .. MaxCalls : Sending(client'[t], j) => j = n
    <3> DEFINE p == Parts(n, k)
    <3>1. /\ \A x \in Client : x # t => client'[x] = client[x]
          /\ client'[t].buf = p /\ client'[t].length = k
      BY <1>2, <2>1, <2>3 DEF ClientThread, Parts
    <3>2. k \in Nat \ {0} /\ 1 \in 1 .. k
      BY PortAssumption
    <3>3. \A j : Parts(j, k)[1] = <<j, 1>>
      BY <3>2 DEF Parts
    <3>4. ASSUME NEW j, Sending(client'[t], j) PROVE j = n
      <4>1. Parts(j, k) = p
        BY <3>1, <3>4 DEF Sending
      <4>2. <<j, 1>> = <<n, 1>>
        BY <3>3, <4>1
      <4> QED
        BY <4>2
    <3> QED
      BY <3>1, <3>4
  <2> QED
    BY <1>5, <2>2, <2>3
<1>18. ASSUME NEW x \in Client PROVE Replies(x)'
  <2>1. CASE x = t
    BY <1>7, <1>17, <2>1 DEF Replies, d
  <2>2. CASE x # t
    <3>1. \A j \in 1 .. MaxCalls : <<x, j>> \in ThisCall /\ <<x, j>> # d
      BY <2>2 DEF ThisCall, d
    <3> QED
      BY <1>7, <1>17, <2>2, <3>1 DEF Replies, CallInv, Made
  <2> QED
    BY <2>1, <2>2
<1>19. ASSUME NEW v \in Worker PROVE Hands(v)'
  <2>1. CASE v = w
    BY <1>8, <2>1 DEF Hands, Does
  <2>2. CASE v # w
    <3>1. Does(v, "reply") => worker[v].msg \in Flying
      BY DEF Flying, Busy, Serves, Does
    <3> QED
      BY <1>6, <1>7, <1>8, <1>13, <2>2, <3>1 DEF Hands, Does, CallInv, Made, Name
  <2> QED
    BY <2>1, <2>2
<1>20. Open'
  BY <1>1, SameUsers, StillOpen
<1>21. Remote!Next
  BY <1>1, <1>4, <1>5, <1>6, <1>12, Does1 DEF PortInv
<1> QED
  BY <1>14, <1>15, <1>16, <1>18, <1>19, <1>20, <1>21 DEF CallInv, Made

(* A part of a reply is sent only after the handler ran.                   *)
LEMMA PortReplyStays ==
    ASSUME PortInv, CallInv, ~ crossed, NEW w \in Worker, PortReply(w)
    PROVE  CallInv' /\ UNCHANGED remote
<1> DEFINE m == worker[w].msg
           t == m.thread
           s == client[t]
           r == [IF s.replying THEN Replied(s) ELSE s EXCEPT !.in_use = FALSE]
           o == IF s.replying /\ s.length > 0
                THEN [part |-> s.buf[s.ptr + 1], length |-> s.length] ELSE Empty
           x == [worker[w] EXCEPT !.pc = "reply", !.out = o]
<1>1. UNCHANGED <<user, inbox, done, outcome>> /\ Does(w, "finish") /\ Holds(w) /\ Busy(w)
  BY DEF PortReply, results, Does, Holds, Busy, Serves
<1>2. /\ t \in Client /\ s \in ClientThread /\ s # NoClient
      /\ m.part[1] \in 1 .. MaxCalls /\ Name(m) = <<t, m.part[1]>> /\ m.part[2] \in Nat /\ m.length > 0
      /\ Finishes(m, s, user[t]) /\ PortOf(s) = m.conn
  BY <1>1, AtWork DEF Name
<1>3. client' = [client EXCEPT ![t] = r] /\ worker' = [worker EXCEPT ![w] = x]
  BY TypeFacts DEF PortReply, PortInv
<1>4. /\ \A v \in Worker : v # w => worker'[v] = worker[v]
      /\ worker'[w].pc = "reply" /\ worker'[w].msg = m /\ worker'[w].out = o
  <2>1. worker[w] \in Place
    BY TypeFacts DEF PortInv
  <2>2. x.pc = "reply" /\ x.msg = m /\ x.out = o
    BY <2>1 DEF Place
  <2> HIDE DEF x
  <2> QED
    BY <1>3, <2>2, TypeFacts DEF PortInv
<1>5. /\ Len(s.buf) <= s.length /\ (s.length > 0 => s.ptr < s.length)
      /\ (s.length = 0 => s.ptr = 0 /\ s.buf = << >>)
  BY <1>2, ClientFacts DEF PortInv, Shapes
<1>6. LeftBy(s, r)
  <2>1. r = [IF s.replying THEN Replied(s) ELSE s EXCEPT !.in_use = FALSE]
    OBVIOUS
  <2> HIDE DEF r, s
  <2> QED
    BY <1>2, <1>5, <2>1, RepliedIs
<1>7. /\ \A y \in Client : y # t => client'[y] = client[y]
      /\ client'[t] = r
  BY <1>2, <1>3 DEF PortInv, PortTypeOK
<1> HIDE DEF r, o, x
<1>8. \A n : Sending(r, n) => Sending(s, n)
  <2>1. s.length \in Nat /\ s.ptr \in Nat
    BY <1>2 DEF ClientThread
  <2> HIDE DEF s
  <2>2. CASE ~ s.replying
    BY <1>6, <2>2 DEF LeftBy, Sending
  <2>3. CASE s.replying /\ s.ptr + 1 >= s.length
    BY <1>6, <2>3 DEF LeftBy, Sending, Clean
  <2>4. CASE s.replying /\ s.ptr + 1 < s.length
    <3>1. r.buf = s.buf /\ r.length = s.length /\ s.ptr < s.length
      BY <1>6, <2>1, <2>4 DEF LeftBy
    <3> QED
      BY <2>4, <3>1 DEF Sending
  <2> QED
    BY <2>1, <2>2, <2>3, <2>4
<1>9. ASSUME NEW y \in Client PROVE Replies(y)'
  <2>1. CASE y # t
    BY <1>1, <1>7, <2>1, SameReplies
  <2>2. CASE y = t
    BY <1>1, <1>2, <1>7, <1>8, <2>2 DEF Replies, CallInv, Made
  <2> QED
    BY <2>1, <2>2
<1>10. o # Empty => Sending(s, m.part[1])
  <2>1. o # Empty => s.replying /\ s.length > 0
    BY DEF o
  <2> HIDE DEF s
  <2> QED
    BY <1>2, <2>1 DEF Finishes, Half, Refusal, Arrives, Ready
<1>11. Hands(w)'
  BY <1>1, <1>2, <1>4, <1>10 DEF Hands, Name, CallInv, Made, Replies
<1>12. NothingNew
  BY <1>1, <1>4, WorkerMoves DEF PortInv
<1>13. \A y \in Client : Goes(y)
  BY <1>1, SameUsers
<1>14. Quiet(w)
  BY <1>1, <1>4, <1>12, <1>13 DEF Quiet
<1>15. Names' /\ Once' /\ Unbegun' /\ Made' /\ Same
  BY <1>4, <1>9, <1>11, <1>14, Aside
<1> QED
  BY <1>1, <1>13, <1>15, StillOpen, Silent DEF CallInv

LEMMA SendReplyActs ==
    ASSUME PortInv, CallInv, NEW w \in Worker, SendReply(w)
    PROVE  CallInv' /\ (Remote!Next \/ UNCHANGED remote)
<1> DEFINE m == worker[w].msg
           t == m.thread
           u == user[t]
           out == worker[w].out
<1>1. UNCHANGED <<inbox, done, client>> /\ Does(w, "reply") /\ Serves(w) /\ Done(w)
  BY DEF SendReply, tables, Does, Serves
<1>2. CASE UNCHANGED <<user, outcome>>
  BY <1>1, <1>2, SameUsers, SameReplies, Leaves, StillOpen, Silent DEF CallInv
<1>3. CASE At(t, "wait") /\ u.conn = m.conn /\ conns[m.conn].server /\ Understand(t, out)
  <2>1. t \in Client /\ u.pc = "wait" /\ m \in Flying
    BY <1>1, <1>3, TypeFacts DEF PortInv, Place, Message, At, Flying, Busy
  <2>2. m.part = <<u.n, u.i>> /\ m.length = u.length /\ u.conn # 0 /\ u.n \in Nat /\ u.i \in Nat
    BY <1>3, <2>1, UserFacts DEF PortInv, Links, Linked, Users, Asking
  <2>3. Name(m) = <<t, u.n>> /\ m.part[2] = u.i
    BY <2>2 DEF Name
  <2>4. PICK v : Takes(t, out, v)
    BY <1>1, <1>3, <2>1, Understood DEF Does
  <2>5. user'[t] = v /\ v.n = u.n /\ v.conn = u.conn /\ \A x \in Client : x # t => user'[x] = user[x]
    BY <2>1, <2>4, UserFacts DEF Takes, PortInv
  <2>6. Outset(v) => done[<<t, u.n>>] = 0
    <3>1. Outset(v) => u.i \in 1 .. u.length - 1
      <4>1. \/ u.i \in 1 .. u.length - 1
            \/ v.pc = "send" /\ v.i = 0
            \/ v.pc = "idle"
        BY <2>4, Zenon DEF Takes
      <4> QED
        BY <4>1 DEF Outset
    <3> QED
      BY <2>1, <2>2, <2>3, <3>1 DEF CallInv, Unbegun
  <2>7. \A x \in Client : Goes(x)
    BY <2>1, <2>2, <2>5, <2>6 DEF Goes
  <2>8. Names' /\ Once' /\ Unbegun' /\ Made' /\ Same
    BY <1>1, <2>7, SameReplies, Leaves
  <2>9. <<t, u.n>> \in ThisCall /\ <<t, u.n>> \in Asked /\ outcome[<<t, u.n>>] = << >>
    BY <2>1, Going
  <2>10. CASE outcome' = outcome
    BY <2>7, <2>8, <2>10, StillOpen, Silent DEF CallInv
  <2>11. CASE v.pc = "idle" /\ outcome' = [outcome EXCEPT ![<<t, u.n>>] = NULL]
    <3>1. Open'
      BY <2>1, <2>5, <2>7, <2>11, Closed DEF PortInv
    <3>2. Remote!Next
      BY <2>8, <2>9, <2>11, Fails DEF PortInv
    <3> QED
      BY <2>8, <3>1, <3>2 DEF CallInv
  <2>12. ASSUME v.pc = "idle", out # Empty, NEW k \in Nat \ {0},
                outcome' = [outcome EXCEPT ![<<t, u.n>>] = Parts(u.n, k)]
         PROVE  CallInv' /\ Remote!Next
    <3>1. Open'
      BY <2>1, <2>5, <2>7, <2>12, Closed DEF PortInv
    <3>2. done[<<t, u.n>>] = 1
      BY <1>1, <2>3, <2>12 DEF CallInv, Made, Hands
    <3>3. PICK d : d = <<t, u.n>>
      OBVIOUS
    <3>4. d[2] = u.n
      BY <3>3
    <3>5. Remote!Next
      BY <2>8, <2>9, <2>12, <3>2, <3>3, <3>4, Returns DEF PortInv
    <3> QED
      BY <2>8, <3>1, <3>5 DEF CallInv
  <2> QED
    BY <2>4, <2>10, <2>11, <2>12 DEF Takes
<1> QED
  BY <1>2, <1>3 DEF SendReply

LEMMA DisconnectStays ==
    ASSUME PortInv, CallInv, NEW w \in Worker, PortDisconnect(w) \/ PortDisconnectByCreateTime(w)
    PROVE  CallInv' /\ UNCHANGED remote
<1>1. /\ UNCHANGED <<user, inbox, done, outcome, client>>
      /\ Done(w) \/ \E t \in Client : Await(w, t)
  <2>1. Connected(Owner[worker[w].msg.thread]) \subseteq Client
        /\ \A p \in Pid : Connected(p) \subseteq Client
    BY DEF Connected, Threads
  <2>2. worker[w].msg.thread \in Client
    BY TypeFacts DEF PortInv, Place, Message
  <2> QED
    BY <2>1, <2>2 DEF PortDisconnect, PortDisconnectByCreateTime, Forget, Await, results, tables
<1>2. \A t \in Client : Goes(t) /\ Replies(t)'
  BY <1>1, SameUsers, SameReplies
<1>3. CASE Done(w)
  BY <1>1, <1>2, <1>3, Leaves, StillOpen, Silent DEF CallInv
<1>4. ASSUME NEW t \in Client, Await(w, t) PROVE CallInv' /\ UNCHANGED remote
  <2>1. /\ \A v \in Worker : v # w => worker'[v] = worker[v]
        /\ worker'[w].pc = "remove"
    BY <1>4, TypeFacts DEF Await, PortInv, Place
  <2>2. NothingNew
    BY <1>1, <2>1, WorkerMoves DEF PortInv, Serves
  <2>3. Quiet(w) /\ Hands(w)'
    BY <1>1, <1>2, <2>1, <2>2 DEF Quiet, Hands, Does
  <2> QED
    BY <1>1, <1>2, <2>1, <2>3, Aside, StillOpen, Silent DEF CallInv
<1> QED
  BY <1>1, <1>3, <1>4

LEMMA DiscardStays ==
    ASSUME PortInv, CallInv, NEW w \in Worker, Discard(w)
    PROVE  CallInv' /\ UNCHANGED remote
<1>1. UNCHANGED <<user, inbox, done, outcome>> /\ Done(w)
      /\ client' = [client EXCEPT ![worker[w].msg.thread] = NoClient]
  BY DEF Discard, results
<1>2. ASSUME NEW t \in Client PROVE Replies(t)'
  <2>1. client'[t] = NoClient \/ client'[t] = client[t]
    BY <1>1 DEF PortInv, PortTypeOK
  <2>2. CASE client'[t] = NoClient
    BY <2>2 DEF Replies
  <2> QED
    BY <1>1, <2>1, <2>2, SameReplies
<1> QED
  BY <1>1, <1>2, SameUsers, Leaves, StillOpen, Silent DEF CallInv

-----------------------------------------------------------------------------
(* SbieDll_CallServer implements RemoteCall                                *)

LEMMA CallStep ==
    ASSUME PortInv, CallInv, [Next]_vars
    PROVE  CallInv' /\ (Remote!Next \/ UNCHANGED remote)
<1>1. CASE UNCHANGED vars
  <2>1. UNCHANGED <<user, inbox, worker, client, done, outcome>>
    BY <1>1 DEF vars
  <2>2. (\A t \in Client : Goes(t)) /\ NothingNew
    BY <2>1, SameUsers, Unmoved DEF PortInv
  <2> QED
    BY <2>1, <2>2, OwnStep, StillOpen, Silent DEF CallInv
<1>2. CASE Next
  <2>1. ~ crossed
    BY <1>2 DEF Next, Astray
  <2>2. ASSUME NEW p \in Pid, EndProcess(p) PROVE CallInv' /\ UNCHANGED remote
    BY <2>2, EndStays DEF EndProcess, Threads
  <2>3. ASSUME NEW w \in Worker, WorkerStep(w) PROVE CallInv' /\ (Remote!Next \/ UNCHANGED remote)
    BY <2>1, <2>3, ReceiveStays, PortConnectStays, EvictStays, PortFindClientStays, PortRequestStays,
       CallTargetDoes, PortReplyStays, SendReplyActs, DisconnectStays, DiscardStays DEF WorkerStep
  <2> QED
    BY <1>2, <2>2, <2>3, UserStepActs DEF Next
<1> QED
  BY <1>1, <1>2

LEMMA CallsBegin == Init => CallInv /\ Remote!Init
<1> SUFFICES ASSUME Init PROVE CallInv /\ Remote!Init
  OBVIOUS
<1> USE DEF Init
<1>1. /\ \A t \in Client : user[t].pc = "idle" /\ user[t].n = 0 /\ client[t] = NoClient
      /\ \A w \in Worker : worker[w].pc = "receive"
      /\ DOMAIN inbox = {}
  BY DEF Free, Idle
<1>2. Flying = {} /\ Waiting = {}
  BY <1>1 DEF Flying, Waiting, Coming, Sent, Busy, Serves, Does
<1>3. Asked = {}
  BY <1>1, PortAssumption DEF Asked, ThisCall
<1>4. Names /\ Once /\ Unbegun
  BY <1>1, <1>2 DEF Names, Once, Unbegun, Outset
<1>5. Made /\ Open
  BY <1>1 DEF Made, Replies, Hands, Does, Open
<1>6. Remote!Init
  BY <1>3 DEF Remote!Init
<1> QED
  BY <1>4, <1>5, <1>6 DEF CallInv

(* RemoteSpec: whatever becomes of connections, threads and processes, the *)
(* handler runs at most once for a call of SbieDll_CallServer, and a reply *)
(* is the whole reply of that handler to that call.                        *)
THEOREM CallsServerOnce == Spec => RemoteSpec
<1>1. Init => CallInv /\ Remote!Init
  BY CallsBegin
<1>2. ASSUME PortInv, CallInv, [Next]_vars
      PROVE  CallInv' /\ [Remote!Next]_remote
  BY <1>2, CallStep
<1>3. Spec => []CallInv
  BY <1>1, <1>2, PortInductive, PTL DEF Spec
<1> QED
  BY <1>1, <1>2, <1>3, PortInductive, PTL DEF Spec, RemoteSpec, Remote!Spec, remote, Answer
=============================================================================
