------------------------------ MODULE Session -------------------------------
(***************************************************************************)
(* The sessions of the driver (core/drv/session.c) and their resource      *)
(* monitors.  A session exists while its leader runs.  Its monitor is a    *)
(* ring of entries (LogBuffer); what the driver does for programs of the   *)
(* session is appended, and programs outside any box read it.  A full ring *)
(* refuses what is new.  Every function runs to its end under              *)
(* Session_ListLock; a caller's buffer may turn out not to be writable     *)
(* while a reader copies to it, and then the call fails half-way.          *)
(*                                                                         *)
(* An entry is [Time][Type, PID, TID][Data].  The time takes one cell, and *)
(* type, pid and tid together another one, which tells entries apart.      *)
(***************************************************************************)
EXTENDS LogBuffer, FiniteSets

CONSTANTS
    SessionId,
    Instance,       (* the processes of a session that may lead it         *)
    Null,           (* no session block, no monitor_log                    *)
    DataLength,     (* lengths of Data                                     *)
    BufferLength,   (* buffer_len of buffers for MonitorGet2               *)
    MayFail         (* whether the pool may be exhausted                   *)

TimeCell == 1
IdsCell  == 1

ASSUME SessionAssumption ==
    (* Sizes of entries are ULONGs. *)
    /\ DataLength \subseteq 0 .. Limit - 1 - TimeCell - IdsCell
    /\ BufferLength \subseteq 0 .. Limit - 1
    /\ MayFail \in BOOLEAN

(* Windows says which session a process belongs to. *)
Pid == SessionId \X Instance

VARIABLES
    session,        (* Session_List                                        *)
    monitorCount,   (* Session_MonitorCount                                *)
    returned        (* what the call that ended last returned              *)

sessionVars == <<session, monitorCount, returned>>

(* The data of the entry with a number. *)
DataOf(ids, len) == [i \in 1 .. len |-> (ids + i) % Base]
EntryOf(number, len) == <<0, number % Base>> \o DataOf(number, len)
IdsAt(ring, ptr) == GetBytes(ring, Behind(DataPtr(ptr), TimeCell), IdsCell)[1]

SessionBlock == [leader : Pid, log : Ring \cup {Null}, overflow : BOOLEAN]

(* What is seen of an entry: its ids and its size, all told.               *)
Stamped == [stamp : Int, size : Int]

ASSUME NullAssumption ==
    Null \notin Ring /\ Null \notin SessionBlock /\ Null \notin Seq(Stamped)

(* `ids` holds the ids of the entries returned, `used` and `given` the     *)
(* lengths that MonitorGet2 returns and is given, `failed` whether there   *)
(* was an exception.                                                       *)
Reply(ids, used, given) == [ids |-> ids, used |-> used, given |-> given, failed |-> FALSE]
Nothing == Reply(<< >>, 0, 0)
Fault == [ids |-> << >>, used |-> 0, given |-> 0, failed |-> TRUE]

SessionTypeOK ==
    /\ session \in [SessionId -> SessionBlock \cup {Null}]
    /\ monitorCount \in Int
    /\ returned \in [ids : Seq(Cell), used : Nat, given : Nat, failed : BOOLEAN]

Monitored(s) == session[s] # Null /\ session[s].log # Null

-----------------------------------------------------------------------------
(* Session_Api_Leader, to become the leader.  A second leader is refused. *)
Session_Api_Leader(p) ==
    /\ session[p[1]] = Null
    /\ session' = [session EXCEPT ![p[1]] =
                      [leader |-> p, log |-> Null, overflow |-> FALSE]]
    /\ returned' = Nothing
    /\ UNCHANGED monitorCount

BugSession_Cancel(p) ==
    /\ \E s \in SessionId :
          /\ session[s] # Null /\ session[s].leader = p
          /\ session' = [session EXCEPT ![s] = Null]
          /\ UNCHANGED monitorCount
    /\ returned' = Nothing

(* Session_Cancel, called when a process ends.                             *)
Session_Cancel(p) ==
    /\ \E s \in SessionId :
          /\ session[s] # Null /\ session[s].leader = p
          /\ session' = [session EXCEPT ![s] = Null]
          /\ monitorCount' = monitorCount - (IF Monitored(s) THEN 1 ELSE 0)
    /\ returned' = Nothing

(* Session_Api_MonitorControl, which leaves monitor_overflow as it is. *)
Enable(s) ==
    /\ session[s] # Null /\ ~ Monitored(s)
    /\ \/ /\ session' = [session EXCEPT ![s].log = EmptyRing]
          /\ monitorCount' = monitorCount + 1
       \/ MayFail /\ UNCHANGED <<session, monitorCount>>
    /\ returned' = Nothing

Disable(s) ==
    /\ Monitored(s)
    /\ session' = [session EXCEPT ![s].log = Null]
    /\ monitorCount' = monitorCount - 1
    /\ returned' = Nothing

BugSession_MonitorPutEx(s, len) ==
    /\ monitorCount # 0 /\ Monitored(s)
    /\ LET log == session[s].log
           data == EntryOf(log.seq_counter, len) IN
       session' = [session EXCEPT
                      ![s].log = PushEntry(log, data, TRUE),
                      ![s].overflow = @ \/ ~ Pushed(log, data, TRUE)]
    /\ returned' = Nothing
    /\ UNCHANGED monitorCount

(* Session_MonitorPutEx.  Its callers look at Session_MonitorCount first,  *)
(* without the lock.                                                       *)
Session_MonitorPutEx(s, len) ==
    /\ monitorCount # 0 /\ Monitored(s)
    /\ LET log == session[s].log
           data == EntryOf(log.seq_counter, len) IN
       session' = [session EXCEPT
                      ![s].log = PushEntry(log, data, FALSE),
                      ![s].overflow = @ \/ ~ Pushed(log, data, FALSE)]
    /\ returned' = Nothing
    /\ UNCHANGED monitorCount

(* Both ways of reading find the monitor empty. *)
NoMoreEntries(s) ==
    /\ Monitored(s) /\ session[s].log.buffer_used = 0
    /\ session' = [session EXCEPT ![s].overflow = FALSE]
    /\ returned' = Nothing
    /\ UNCHANGED monitorCount

(* The oldest entry is returned and dropped, truncated where the caller's  *)
(* buffer is too small for its Data.  An exception leaves it where it is.  *)
Session_Api_MonitorGetEx(s) ==
    /\ Monitored(s) /\ session[s].log.buffer_used > 0
    /\ \/ LET log == session[s].log IN
          /\ returned' = Reply(<<IdsAt(log, log.buffer_start_ptr)>>, 0, 0)
          /\ session' = [session EXCEPT ![s].log = PopEntry(log)]
       \/ returned' = Fault /\ UNCHANGED session
    /\ UNCHANGED monitorCount

-----------------------------------------------------------------------------
(* Session_Api_MonitorGet2 copies entries while they fit into the rest of  *)
(* the buffer, which is unsigned, and ends with a length of zero.          *)

CopyFits(log, buffer_len) ==
    SizeAt(log, log.buffer_start_ptr) <= (buffer_len - Ulong) % Limit

Copying == [log : AnyRing, left : Int, ids : Seq(Int), used : Int]

CopyOne(now) ==
    LET ptr  == now.log.buffer_start_ptr
        size == SizeAt(now.log, ptr)
    IN IF now.log.buffer_used > 0 /\ CopyFits(now.log, now.left)
       THEN [log  |-> PopEntry(now.log),
             left |-> (now.left - Ulong - size) % Limit,
             ids  |-> Append(now.ids, IdsAt(now.log, ptr)),
             used |-> now.used + Ulong + size]
       ELSE now

Copies(ring, given) ==
    LET start == [log |-> ring, left |-> given, ids |-> << >>, used |-> 0]
    IN Iterate([now \in Copying |-> CopyOne(now)], start, MostEntries)

(* An exception while an entry or the final zero is written: the entries   *)
(* copied before are gone, and the length returned says that there were    *)
(* none.                                                                   *)
Session_Api_MonitorGet2(s, given) ==
    /\ Monitored(s) /\ session[s].log.buffer_used > 0
    /\ LET rounds == Copies(session[s].log, given)
           copied == rounds[MostEntries]
       IN \/ /\ returned' = Reply(copied.ids, copied.used + Ulong, given)
             /\ session' = [session EXCEPT ![s].log = copied.log]
          \/ /\ returned' = Fault
             /\ \E k \in 0 .. MostEntries : session' = [session EXCEPT ![s].log = rounds[k].log]
    /\ UNCHANGED monitorCount

-----------------------------------------------------------------------------
SessionInit ==
    /\ session = [s \in SessionId |-> Null]
    /\ monitorCount = 0
    /\ returned = Nothing

SessionNext ==
    \/ \E p \in Pid : Session_Api_Leader(p) \/ Session_Cancel(p)
    \/ \E s \in SessionId :
        \/ Enable(s)
        \/ Disable(s)
        \/ \E len \in DataLength : Session_MonitorPutEx(s, len)
        \/ NoMoreEntries(s)
        \/ Session_Api_MonitorGetEx(s)
        \/ \E given \in BufferLength : Session_Api_MonitorGet2(s, given)

SessionSpec == SessionInit /\ [][SessionNext]_sessionVars

-----------------------------------------------------------------------------
(* Properties                                                              *)

(* The callers of Session_MonitorPutEx skip it while Session_MonitorCount  *)
(* is zero, so the count must be that of the monitors, however they came   *)
(* to an end.                                                              *)
CountExact ==
    /\ SessionTypeOK
    /\ monitorCount = Cardinality({s \in SessionId : Monitored(s)})

(* The entries of a monitor, oldest first. *)
Held(ring) ==
    Walk(ring, Stamped,
         [ptr \in Int |-> [stamp |-> IdsAt(ring, ptr),
                           size  |-> TotalSize(SizeAt(ring, ptr))]])

Monitor == INSTANCE MonitorQueue WITH
    Off <- Null, Stamp <- Cell, Room <- BufferSize,
    Size <- {TotalSize(TimeCell + IdsCell + len) : len \in DataLength},
    held <- [s \in SessionId |-> IF Monitored(s) THEN Held(session[s].log) ELSE Null],
    noted <- {s \in SessionId : session[s] # Null /\ session[s].overflow},
    out <- returned.ids, failed <- returned.failed

(* However entries lie around the end of the ring and however readers mix  *)
(* the two calls, each monitor is a bounded queue of its own: what it has  *)
(* no room for is noted until a reader has found the monitor empty, and    *)
(* whatever leaves it is handed out by the call that took it, or that call *)
(* has failed.                                                             *)
QueueSpec == Monitor!Spec

(* "buffer_len" is the room of the caller, and "return total used buffer   *)
(* length" (session.c:1247) what of it was written.                        *)
ReplyFits == returned.used <= returned.given
=============================================================================
