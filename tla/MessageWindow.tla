--------------------------- MODULE MessageWindow ----------------------------
(***************************************************************************)
(* What the message log of the driver promises.  Messages are numbered in  *)
(* the order they are added.  The log keeps the newest ones that fit.      *)
(* With each request a reader comes to the next message of his session, in *)
(* order, to each one once.  He gets its text if his buffer has room for   *)
(* it; if not, he is told so and has passed the message all the same.  So  *)
(* he misses the messages that were dropped before he asked for them, and  *)
(* those he asked for with too little room.                                *)
(***************************************************************************)
EXTENDS Integers, Sequences

CONSTANTS
    Session,    (* sessions that messages belong to                        *)
    Reader,     (* the sessions that messages are read for, or Everything  *)
    Everything,
    Size,       (* sizes of entries, all told                              *)
    Overhead,   (* what an entry takes besides its text                    *)
    Room,       (* the room the log has                                    *)
    Capacity,   (* the room for a text that readers offer                  *)
    Limit       (* message numbers are modulo Limit                        *)

VARIABLES
    kept,       (* the messages in the log, oldest first                   *)
    last,       (* the number given out last                               *)
    num,        (* the number each reader passes with his next request     *)
    got         (* what a request returned, if that was the latest call    *)

Successor(n) == (n + 1) % Limit

Load(messages) ==
    LET load[i \in 0 .. Len(messages)] ==
            IF i = 0 THEN 0 ELSE load[i - 1] + messages[i].size
    IN load[Len(messages)]

Outcome(r, number, length, status) ==
    [reader |-> r, number |-> number, length |-> length, status |-> status]
Nothing(status) == Outcome(Everything, 0, 0, status)

Init ==
    /\ kept = << >>
    /\ last = 0
    /\ num = [r \in Reader |-> 0]
    /\ got = Nothing("NONE")

(* A message that is larger than the log is not logged.                    *)
Add(session, size) ==
    LET messages == kept IN
    /\ got' = Nothing("NONE")
    /\ UNCHANGED num
    /\ IF size > Room THEN UNCHANGED <<kept, last>>
       ELSE /\ last' = Successor(last)
            /\ \E k \in 0 .. Len(messages) :
                  LET rest == SubSeq(messages, k + 1, Len(messages)) IN
                  /\ Load(rest) + size <= Room
                  /\ k > 0 => Load(SubSeq(messages, k, Len(messages))) + size > Room
                  /\ kept' = Append(rest, [number |-> last', session |-> session, size |-> size])

(* The messages a reader has not seen: those after his number, and all of  *)
(* them when his number is not in the log any more.                        *)
Ahead(messages, n) ==
    IF \E i \in DOMAIN messages : messages[i].number = n
    THEN {i \in DOMAIN messages : \E j \in 1 .. i - 1 : messages[j].number = n}
    ELSE DOMAIN messages

Concerns(r, message) == r = Everything \/ message.session = r

Read(r, capacity) ==
    LET messages == kept
        mine == {i \in Ahead(messages, num[r]) : Concerns(r, messages[i])}
    IN
    /\ UNCHANGED last
    /\ IF mine = {}
       THEN /\ got' = Outcome(r, num[r], 0, "NO_MORE_ENTRIES")
            /\ UNCHANGED num
       ELSE \E i \in mine :
            LET length == messages[i].size - Overhead IN
            /\ \A j \in mine : i <= j
            /\ num' = [num EXCEPT ![r] = messages[i].number]
            /\ got' = IF length <= capacity
                      THEN Outcome(r, messages[i].number, length, "SUCCESS")
                      ELSE Outcome(r, messages[i].number, 0, "BUFFER_TOO_SMALL")
    /\ UNCHANGED kept

(* A request that fails leaves every reader where he is.                   *)
Fail ==
    /\ got' = Nothing("EXCEPTION")
    /\ UNCHANGED <<kept, last, num>>

Next ==
    \/ Fail
    \/ \E session \in Session, size \in Size : Add(session, size)
    \/ \E r \in Reader, capacity \in Capacity : Read(r, capacity)

Spec == Init /\ [][Next]_<<kept, last, num, got>>
=============================================================================
