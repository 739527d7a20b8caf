---------------------------- MODULE MonitorQueue ----------------------------
(***************************************************************************)
(* What the resource monitor of a session promises.  While it is enabled   *)
(* it keeps what is put, in order, and each entry is taken by one call,    *)
(* which hands out what it takes, oldest first, unless it fails: then what *)
(* it has taken is lost.  What does not fit when it is put is lost as      *)
(* well, never what was put before, and that loss is noted until a reader  *)
(* has found the monitor empty.                                            *)
(***************************************************************************)
EXTENDS Integers, Sequences

CONSTANTS
    SessionId,
    Off,        (* in place of the entries: the session has no monitor     *)
    Stamp,      (* what an entry is known by                               *)
    Size,       (* sizes of entries, all told                              *)
    Room        (* the room a monitor has                                  *)

VARIABLES
    held,       (* the entries of each session, oldest first, or Off       *)
    noted,      (* the sessions whose losses are noted                     *)
    out,        (* the stamps of the entries returned by the call just ended *)
    failed      (* whether that call failed                                *)

Init ==
    /\ held = [s \in SessionId |-> Off]
    /\ noted = {}
    /\ out = << >>
    /\ failed = FALSE

Load(entries) ==
    LET load[i \in 0 .. Len(entries)] ==
            IF i = 0 THEN 0 ELSE load[i - 1] + entries[i].size
    IN load[Len(entries)]

(* The monitor is enabled, disabled, or goes with its session.             *)
Switch(s) ==
    /\ held' \in {[held EXCEPT ![s] = Off], [held EXCEPT ![s] = << >>]}
    /\ held[s] = Off \/ held'[s] = Off
    /\ noted' \in {noted, noted \ {s}}
    /\ out' = << >> /\ failed' = FALSE

Put(s, stamp, size) ==
    /\ held[s] # Off
    /\ IF Load(held[s]) + size <= Room
       THEN /\ held' = [held EXCEPT ![s] = Append(@, [stamp |-> stamp, size |-> size])]
            /\ UNCHANGED noted
       ELSE noted' = noted \cup {s} /\ UNCHANGED held
    /\ out' = << >> /\ failed' = FALSE

Get(s) ==
    /\ held[s] # Off
    /\ \E k \in 0 .. Len(held[s]) :
          /\ held' = [held EXCEPT ![s] = SubSeq(@, k + 1, Len(@))]
          /\ out' = [i \in 1 .. k |-> held[s][i].stamp]
    /\ noted' = IF held[s] = << >> THEN noted \ {s} ELSE noted
    /\ failed' = FALSE

(* A call fails after it has taken k entries.  The loss is not noted.      *)
Lose(s) ==
    /\ held[s] # Off
    /\ \E k \in 0 .. Len(held[s]) :
          held' = [held EXCEPT ![s] = SubSeq(@, k + 1, Len(@))]
    /\ out' = << >> /\ failed' = TRUE
    /\ UNCHANGED noted

Next ==
    \E s \in SessionId :
        \/ Switch(s)
        \/ Get(s)
        \/ Lose(s)
        \/ \E stamp \in Stamp, size \in Size : Put(s, stamp, size)

Spec == Init /\ [][Next]_<<held, noted, out, failed>>
=============================================================================
