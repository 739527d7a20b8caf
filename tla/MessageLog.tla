----------------------------- MODULE MessageLog -----------------------------
(***************************************************************************)
(* The message log of the driver (core/drv/api.c): Api_AddMessage appends  *)
(* a message to the ring Api_LogBuffer and drops the oldest ones to make   *)
(* room; Api_GetMessage returns to a reader the next message of his        *)
(* session.  SbieSvc reads for every session (session_id = -1).  Both run  *)
(* inside the critical section of the api.                                 *)
(*                                                                         *)
(* An entry holds the session and the text; process id and error code,     *)
(* which the code handles as it does the session, are left out.            *)
(***************************************************************************)
EXTENDS LogBuffer

CONSTANTS
    Session,        (* sessions, as ULONGs                                 *)
    Everything,     (* the session_id -1 of the service                    *)
    Reader,         (* who reads: a session, or the service                *)
    TextLength,     (* lengths of messages                                 *)
    Capacity        (* lengths of the readers' buffers                     *)

ASSUME MessageAssumption ==
    /\ Session \subseteq 0 .. Limit - 1 /\ Everything \notin Session
    /\ Reader \subseteq Session \cup {Everything}
    (* Sizes of entries are ULONGs. *)
    /\ TextLength \subseteq 0 .. Limit - 1 - Ulong
    (* The ring, of 64 KB, holds fewer entries than there are numbers. *)
    /\ MostEntries < Limit
    /\ Capacity \subseteq Nat

VARIABLES
    log,            (* Api_LogBuffer                                       *)
    num,            (* msg_num of each reader                              *)
    got             (* what Api_GetMessage returned, if it was called last *)

messageVars == <<log, num, got>>

(* The message with a number has a text of its own, so that a text tells   *)
(* which message it was taken from.                                        *)
TextOf(number, len) == [i \in 1 .. len |-> (number + i) % Base]

(* What lies behind the ring in memory. *)
Foreign == Base

Answer == [reader : Reader \cup {Everything}, number : 0 .. Limit - 1, text : Seq(0 .. Base),
           status : {"SUCCESS", "NO_MORE_ENTRIES", "BUFFER_TOO_SMALL", "EXCEPTION",
                     "NONE"}]

(* A status, and nothing of a message.                                     *)
Answered(status) ==
    [reader |-> Everything, number |-> 0, text |-> << >>, status |-> status]

MessageTypeOK ==
    /\ log \in Ring
    /\ num \in [Reader -> 0 .. Limit - 1]
    /\ got \in Answer

-----------------------------------------------------------------------------
Api_AddMessage(session, len) ==
    /\ log' = PushEntry(log, ToBytes(session) \o TextOf(Successor(log.seq_counter), len), TRUE)
    /\ got' = Answered("NONE")
    /\ UNCHANGED num

SessionAt(ptr) == GetUlong(log, DataPtr(ptr))
TextSize(ptr)  == SizeAt(log, ptr) - Ulong

(* memcpy knows nothing of the ring. *)
MemCopy(ptr, k) ==
    [i \in 1 .. k |->
        IF ptr + i - 1 < BufferSize THEN log.buffer_data[ptr + i - 1] ELSE Foreign]

BugText(ptr) == MemCopy(DataPtr(ptr), TextSize(ptr))

Text(ptr) == MemCopy(Behind(DataPtr(ptr), Ulong), TextSize(ptr))

Concerns(r, ptr) == r = Everything \/ SessionAt(ptr) = r

(* The loop: entries of other sessions are passed over.                    *)
PassedOne(r, seq) ==
    LET found == GetNext(seq, log) IN
    IF \A ptr \in found : Concerns(r, ptr) THEN seq
    ELSE SeqAt(log, CHOOSE ptr \in found : TRUE)

Passed(r) ==
    Iterate([seq \in Int |-> PassedOne(r, seq)], num[r], MostEntries)[MostEntries]

(* msg_num moves on also when the buffer of the reader is too small, but   *)
(* it is written last: an exception while the reader's memory is written   *)
(* leaves it as it is.                                                     *)
Api_GetMessage(r, maximum) ==
    LET found == GetNext(Passed(r), log) IN
    /\ \/ /\ found = {}
          /\ got' = [reader |-> r, number |-> num[r], text |-> << >>,
                     status |-> "NO_MORE_ENTRIES"]
          /\ UNCHANGED num
       \/ \E ptr \in found :
          /\ num' = [num EXCEPT ![r] = SeqAt(log, ptr)]
          /\ got' = [reader |-> r, number |-> SeqAt(log, ptr),
                     text |-> IF TextSize(ptr) <= maximum THEN Text(ptr) ELSE << >>,
                     status |-> IF TextSize(ptr) <= maximum THEN "SUCCESS" ELSE "BUFFER_TOO_SMALL"]
       \/ got' = Answered("EXCEPTION") /\ UNCHANGED num
    /\ UNCHANGED log

-----------------------------------------------------------------------------
MessageInit ==
    /\ log = EmptyRing
    /\ num = [r \in Reader |-> 0]
    /\ got = Answered("NONE")

MessageNext ==
    \/ \E session \in Session, len \in TextLength : Api_AddMessage(session, len)
    \/ \E r \in Reader, maximum \in Capacity : Api_GetMessage(r, maximum)

MessageSpec == MessageInit /\ [][MessageNext]_messageVars

-----------------------------------------------------------------------------
(* Properties                                                              *)

(* The messages in the ring, oldest first. *)
Kept ==
    Walk(log, [number : Int, session : Int, size : Int],
         [ptr \in Int |-> [number  |-> SeqAt(log, ptr),
                           session |-> SessionAt(ptr),
                           size    |-> TotalSize(SizeAt(log, ptr))]])

Window == INSTANCE MessageWindow WITH
    Size <- {TotalSize(Ulong + len) : len \in TextLength}, Overhead <- TotalSize(Ulong),
    Room <- BufferSize, kept <- Kept, last <- log.seq_counter,
    got <- [reader |-> got.reader, number |-> got.number, length |-> Len(got.text),
            status |-> got.status]

(* However the entries lie around the end of the ring, the ring holds the  *)
(* newest messages that fit, and every reader walks through them in order  *)
(* without repetition.  He gets the text of each one he comes to, unless   *)
(* it is longer than his buffer, and then no later request returns it.     *)
WindowSpec == Window!Spec

(* Api_GetMessage copies the text with one memcpy, which knows nothing of   *)
(* the ring: behind the end of the ring it reads what lies there in memory. *)
(* Up to that point the text belongs to the message whose number and        *)
(* session are returned, wherever the entry lies and whatever was dropped   *)
(* to make room for it.                                                     *)
TextOwn ==
    /\ MessageTypeOK
    /\ got.status = "SUCCESS" =>
        \A i \in DOMAIN got.text :
            got.text[i] # Foreign => got.text[i] = TextOf(got.number, Len(got.text))[i]
=============================================================================
