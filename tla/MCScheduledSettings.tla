------------------------ MODULE MCScheduledSettings ------------------------
(***************************************************************************)
(* Two rules over a week of two days of three instants.  Rule 1 is         *)
(* external, at one of two sources and always or across midnight; rule 2   *)
(* is local, with the priority of rule 1 always or a higher one for an     *)
(* instant of the second day.                                              *)
(***************************************************************************)
EXTENDS ScheduledSettings, TLC

CONSTANTS s1, s2, ref, language, v1, v2, w1

MCRule(prio, start, end, days, source, value) ==
    [enabled |-> TRUE, priority |-> prio, start |-> start, end |-> end,
     days |-> days, source |-> source,
     ref |-> IF source = Local THEN NoRef ELSE ref,
     values |-> [s \in RuleKey |-> IF s = language THEN value ELSE Unset]]

MCOffered ==
    1 :> {MCRule(1, 0, 2, {0, 1}, s1, v1), MCRule(1, 2, 0, {0}, s2, v1)}
    @@ 2 :> {MCRule(1, 0, 2, {0, 1}, Local, v2), MCRule(2, 1, 1, {1}, Local, v2)}
=============================================================================
