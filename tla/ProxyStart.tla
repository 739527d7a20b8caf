---------------------------- MODULE ProxyStart -----------------------------
(***************************************************************************)
(* How SbieSvc starts the proxy of a session: UserServer::StartWorker and  *)
(* GuiServer::StartSlave, which have the same text.  The service remembers *)
(* the proxies it started in a list.  A start first terminates what the    *)
(* list holds for the session, then creates a process and waits until the  *)
(* process has its queue.                                                  *)
(*                                                                         *)
(* StartAsync runs this on a thread of its own for every request, and      *)
(* without the lock that guards the list, so starts overlap.               *)
(***************************************************************************)
EXTENDS QueueWorker, SequencesExt

CONSTANTS
    Starter,    (* the threads that execute StartWorker                    *)
    Slow        (* whether a new process may take longer than 15 seconds   *)

ASSUME SlowAssumption == Slow \in BOOLEAN

VARIABLES
    listed,     (* m_WorkersList: the processes remembered, oldest first   *)
    starter,    (* where each thread is, and the processes it handles      *)
    corrupt     (* an element of the list was used after it was freed      *)

startVars == <<listed, starter, corrupt>>

IdleStarter ==
    [pc |-> "idle", victim |-> NoOne, next |-> NoOne, child |-> NoOne, ok |-> FALSE]

StarterState ==
    [pc : {"idle", "first", "sweep", "unlink", "event", "create", "wait", "done"},
     victim : Instance \cup {NoOne}, next : Instance \cup {NoOne},
     child : Instance \cup {NoOne}, ok : BOOLEAN]

StartTypeOK ==
    /\ listed \in Seq(Server \X (1 .. MaxStarts)) /\ IsInjective(listed)
    /\ starter \in [Starter -> StarterState]
    /\ corrupt \in BOOLEAN

(* The processes the service has open: Windows does not give out their     *)
(* pids again.                                                             *)
Open == ToSet(listed) \cup UNION {{starter[t].victim, starter[t].child} : t \in Starter}

Alive(w) == proc[w[1]].alive /\ proc[w[1]].born = w[2]

-----------------------------------------------------------------------------
(* StartWorker                                                             *)

At(t, pc) == starter[t].pc = pc

BeginStart(t) ==
    /\ At(t, "idle")
    /\ starter' = [starter EXCEPT ![t] = [IdleStarter EXCEPT !.pc = "first"]]
    /\ UNCHANGED <<listed, corrupt>>

(* List_Next *)
Place(w)  == CHOOSE i \in DOMAIN listed : listed[i] = w
NextOf(w) == IF Place(w) < Len(listed) THEN listed[Place(w) + 1] ELSE NoOne

(* The loop over the list reads the next element, and terminates the       *)
(* process ...                                                             *)
Visit(t, w) ==
    /\ starter' = [starter EXCEPT ![t].pc = "unlink", ![t].victim = w, ![t].next = NextOf(w)]
    /\ IF Alive(w) THEN ExitProcess(w[1]) /\ Vanish({w[1]})
                   ELSE UNCHANGED <<vars, workerVars>>
    /\ UNCHANGED <<listed, corrupt>>

Misuse ==
    /\ corrupt' = TRUE
    /\ UNCHANGED <<vars, workerVars, listed, starter>>

Sweep(t) ==
    \/ At(t, "first") /\ listed # << >> /\ Visit(t, Head(listed))
    \/ LET w == starter[t].next IN
       /\ At(t, "sweep")
       /\ w # NoOne
       /\ IF w \in ToSet(listed) THEN Visit(t, w) ELSE Misuse

(* ... then List_Remove and HeapFree.  Two threads that sweep at a time    *)
(* may hold one element, and one of them uses it when the other has freed  *)
(* it: from then on the heap of the service is in no defined state, and    *)
(* the model stops.                                                        *)
Unlink(t) ==
    /\ At(t, "unlink")
    /\ IF starter[t].victim \in ToSet(listed)
       THEN /\ listed' = RemoveAt(listed, Place(starter[t].victim))
            /\ starter' = [starter EXCEPT ![t].pc = "sweep", ![t].victim = NoOne]
            /\ UNCHANGED <<vars, workerVars, corrupt>>
       ELSE Misuse

(* A process that is put into the list meanwhile is not visited.           *)
EndSweep(t) ==
    /\ \/ At(t, "first") /\ listed = << >>
       \/ At(t, "sweep") /\ starter[t].next = NoOne
    /\ starter' = [starter EXCEPT ![t].pc = "event"]
    /\ UNCHANGED <<vars, workerVars, listed, corrupt>>

(* CreateEvent on the name of the session, which may exist, and ResetEvent. *)
ResetReady(t) ==
    /\ At(t, "event")
    /\ starter' = [starter EXCEPT ![t].pc = "create"]
    /\ ready' = FALSE
    /\ UNCHANGED <<vars, boot, job, ran, reported, listed, corrupt>>

BugLaunch(t, p) ==
    /\ At(t, "create")
    /\ p \notin {w[1] : w \in Open \ {NoOne}}
    /\ CreateProcess(p)
    /\ starter' = [starter EXCEPT ![t].pc = "wait", ![t].child = Self(p)]
    /\ UNCHANGED <<listed, corrupt>>

Launch(t, p) ==
    /\ At(t, "create")
    /\ p \notin {w[1] : w \in Open \ {NoOne}}
    /\ CreateProcess(p)
    /\ starter' = [starter EXCEPT ![t].pc = "wait", ![t].child = <<p, proc[p].born + 1>>]
    /\ UNCHANGED <<listed, corrupt>>

Finish(t, ok) ==
    /\ starter' = [starter EXCEPT ![t].pc = "done", ![t].ok = ok]
    /\ UNCHANGED <<vars, workerVars, corrupt>>

(* WaitForMultipleObjects reports the event first, whichever process set   *)
(* it: two starts share it.                                                *)
Announced(t) ==
    /\ At(t, "wait")
    /\ ready
    /\ \/ listed' = Append(listed, starter[t].child) /\ Finish(t, TRUE)
       \/ MayFail /\ UNCHANGED listed /\ Finish(t, FALSE)

(* The process ended, or 15 seconds passed: it is not put into the list,   *)
(* nor is it terminated.                                                   *)
NotAnnounced(t) ==
    /\ At(t, "wait")
    /\ ~ ready
    /\ ~ Alive(starter[t].child) \/ Slow
    /\ UNCHANGED listed
    /\ Finish(t, FALSE)

(* No memory, no token of the user, no process. *)
CannotStart(t) ==
    /\ MayFail
    /\ At(t, "event") \/ At(t, "create")
    /\ UNCHANGED listed
    /\ Finish(t, FALSE)

StartStep(t) ==
    \/ Sweep(t)
    \/ Unlink(t)
    \/ EndSweep(t)
    \/ ResetReady(t)
    \/ \E p \in Server : Launch(t, p)
    \/ Announced(t)
    \/ NotAnnounced(t)
    \/ CannotStart(t)

StartInit ==
    /\ listed = << >>
    /\ starter = [t \in Starter |-> IdleStarter]
    /\ corrupt = FALSE

-----------------------------------------------------------------------------
(* Properties                                                              *)

(* At most one proxy of the session owns the queue, and every other one is *)
(* about to find that out: a process that passed CreateQueue and still     *)
(* runs is the server of the queue.                                        *)
OneProxy ==
    \A p \in Server :
        boot[p] \in {"created", "announced", "serving"} => Serving(p)
=============================================================================
