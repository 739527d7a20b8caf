--------------------------- MODULE SettingsProofs ---------------------------
(***************************************************************************)
(* What TLAPS proves of the settings of SandMan and their history, for     *)
(* every number of threads, keys and values and for every bound, and of    *)
(* the scheduled settings, for every set of rules, sources, credentials,   *)
(* settings and windows.                                                   *)
(***************************************************************************)
EXTENDS SettingsHistory, ScheduledSettings, TLAPS

-----------------------------------------------------------------------------
(* Values                                                                  *)

LEMMA EmptyType == Empty \in Snapshot
BY DEF Empty, Snapshot, Setting

LEMMA IdleType == Idle \in CallState
BY EmptyType DEF Idle, CallState

LEMMA NoReadType == NoRead \in [key : Key \cup {NoKey}, value : Setting]
BY DEF NoRead, Setting

LEMMA NoCacheType == NoCache \in [Key -> Setting \cup {NotCached}]
BY DEF NoCache

LEMMA RevisionType ==
    ASSUME TypeOK, NEW t \in Thread
    PROVE  RevisionOf(t) \in Revision
BY DEF TypeOK, CallState, RevisionOf, Revision

LEMMA ReturnType ==
    ASSUME TypeOK, NEW t \in Thread, NEW ok \in BOOLEAN
    PROVE  ReturnTo(t, ok) \in CallState
<1>1. call[t] \in CallState
  BY DEF TypeOK
<1>2. /\ [call[t] EXCEPT !.pc = "apply"] \in CallState
      /\ [call[t] EXCEPT !.pc = "sync"] \in CallState
  BY <1>1 DEF CallState
<1> QED
  BY <1>2, IdleType DEF ReturnTo

LEMMA ListedType ==
    ASSUME NEW r \in Seq(Revision)
    PROVE  Listed(r) \subseteq DOMAIN r
BY DEF Listed

(* What is listed stays there: commits are only ever appended.             *)
LEMMA AppendType ==
    ASSUME NEW r \in Seq(Revision), NEW e \in Revision
    PROVE  /\ Append(r, e) \in Seq(Revision)
           /\ DOMAIN r \subseteq DOMAIN Append(r, e)
           /\ Len(Append(r, e)) = Len(r) + 1
           /\ DOMAIN Append(r, e) = 1 .. Len(r) + 1
           /\ DOMAIN r = 1 .. Len(r)
           /\ \A i \in DOMAIN r : Append(r, e)[i] = r[i]
           /\ Append(r, e)[Len(r) + 1] = e
OBVIOUS

-----------------------------------------------------------------------------
(* Type correctness                                                        *)

LEMMA InitType == Init => TypeOK
<1> SUFFICES ASSUME Init PROVE TypeOK
  OBVIOUS
<1>1. /\ conf \in Snapshot /\ ini \in Snapshot
      /\ cache \in [Key -> Setting \cup {NotCached}]
      /\ reader \in [Reader -> [key : Key \cup {NoKey}, value : Setting]]
      /\ call \in [Thread -> CallState]
  BY EmptyType, NoCacheType, NoReadType, IdleType DEF Init
<1>2. [values |-> Empty, at |-> 0, key |-> NoKey] \in Revision
  BY EmptyType DEF Revision
<1>3. revs \in Seq(Revision) /\ entries \subseteq DOMAIN revs
  <2>1. \/ revs = <<[values |-> Empty, at |-> 0, key |-> NoKey]>> /\ entries \in {{}, {1}}
        \/ revs = << >> /\ entries = {}
    BY DEF Init
  <2>2. CASE revs = <<[values |-> Empty, at |-> 0, key |-> NoKey]>>
    <3>1. revs \in Seq(Revision) /\ Len(revs) = 1
      BY <1>2, <2>2
    <3>2. DOMAIN revs = 1 .. Len(revs)
      BY <3>1
    <3>3. entries = {} \/ entries = {1}
      BY <2>1
    <3> QED
      BY <3>1, <3>2, <3>3
  <2>3. CASE revs = << >> /\ entries = {}
    BY <2>3
  <2> QED
    BY <2>1, <2>2, <2>3
<1>4. lastError \in BOOLEAN /\ available \in BOOLEAN
  BY DEF Init
<1>5. /\ mutex = NoThread /\ raced = {}
      /\ calls \in 0 .. MaxCalls /\ version \in Nat /\ strayed \in Nat
  BY SettingsAssumption DEF Init
<1> QED
  BY <1>1, <1>3, <1>4, <1>5 DEF TypeOK

LEMMA BeginType ==
    ASSUME TypeOK, Begin
    PROVE  calls' \in 0 .. MaxCalls
BY SettingsAssumption DEF TypeOK, Begin

LEMMA ReadType ==
    ASSUME TypeOK, NEW r \in Reader, Insert(r) \/ \E k \in Key : Miss(r, k)
    PROVE  TypeOK'
<1>1. ASSUME NEW k \in Key, Miss(r, k) PROVE TypeOK'
  <2>1. [key |-> k, value |-> conf[k]] \in [key : Key \cup {NoKey}, value : Setting]
    BY DEF TypeOK, Snapshot
  <2> QED
    BY <1>1, <2>1 DEF Miss, TypeOK, store, git, ghosts
<1>2. CASE Insert(r)
  <2>1. reader[r].value \in Setting
    BY DEF TypeOK
  <2>2. reader' \in [Reader -> [key : Key \cup {NoKey}, value : Setting]]
    BY <1>2, NoReadType DEF Insert, TypeOK
  <2>3. cache' \in [Key -> Setting \cup {NotCached}]
    BY <1>2, <2>1 DEF Insert, TypeOK
  <2> QED
    BY <1>2, <2>2, <2>3 DEF Insert, TypeOK, store, git, ghosts
<1> QED
  BY <1>1, <1>2

LEMMA ChangeType ==
    ASSUME TypeOK, NEW t \in Thread, NEW k \in Key, NEW v \in Setting, Change(t, k, v)
    PROVE  TypeOK'
<1>1. conf' \in Snapshot
  BY DEF Change, TypeOK, Snapshot
<1>2. version + 1 \in Nat /\ version' \in Nat
  BY DEF Change, TypeOK
<1>3. [Idle EXCEPT !.op = "change", !.pc = "enter", !.key = k, !.wrote = version + 1] \in CallState
  BY <1>2, IdleType DEF CallState
<1>4. call' \in [Thread -> CallState]
  BY <1>3 DEF Change, TypeOK
<1>5. raced' \subseteq Key
  BY DEF Change, Overtaken, TypeOK
<1> QED
  BY <1>1, <1>2, <1>4, <1>5, NoCacheType, BeginType DEF Change, TypeOK, git

LEMMA RecordType ==
    ASSUME TypeOK, NEW t \in Thread,
           Enter(t) \/ TakeSnapshot(t) \/ Refuse(t) \/ Checkpoint(t) \/ Sync(t)
    PROVE  TypeOK'
<1>0. call[t] \in CallState
  BY DEF TypeOK
<1>1. CASE Enter(t)
  <2>1. [call[t] EXCEPT !.pc = "snapshot"] \in CallState
    BY <1>0 DEF CallState
  <2>2. call' \in [Thread -> CallState]
    BY <1>1, <2>1 DEF Enter, Goto, TypeOK
  <2> QED
    BY <1>1, <2>2 DEF Enter, TypeOK, store, reading, git, ghosts
<1>2. CASE TakeSnapshot(t)
  <2>1. [call[t] EXCEPT !.pc = "commit", !.values = conf, !.at = version] \in CallState
    BY <1>0 DEF CallState, TypeOK
  <2>2. call' \in [Thread -> CallState]
    BY <1>2, <2>1 DEF TakeSnapshot, TypeOK
  <2> QED
    BY <1>2, <2>2 DEF TakeSnapshot, TypeOK, store, reading, git, ghosts
<1>3. CASE Refuse(t)
  <2>1. call' \in [Thread -> CallState]
    BY <1>3, ReturnType DEF Refuse, TypeOK
  <2> QED
    BY <1>3, <2>1 DEF Refuse, TypeOK, store, reading, git, ghosts
<1>4. CASE Checkpoint(t)
  <2>1. [Idle EXCEPT !.op = "checkpoint", !.pc = "enter"] \in CallState
    BY IdleType DEF CallState
  <2>2. call' \in [Thread -> CallState]
    BY <1>4, <2>1 DEF Checkpoint, TypeOK
  <2> QED
    BY <1>4, <2>2, BeginType DEF Checkpoint, TypeOK, store, reading, git, ghosts
<1>5. CASE Sync(t)
  <2>1. call' \in [Thread -> CallState]
    BY <1>5, IdleType DEF Sync, TypeOK
  <2>2. cache' \in [Key -> Setting \cup {NotCached}]
    <3>1. cache' = NoCache
      BY <1>5 DEF Sync
    <3> QED
      BY <3>1, NoCacheType, Zenon
  <2>3. ini' \in Snapshot
    BY <1>5 DEF Sync, TypeOK
  <2>4. /\ conf' = conf /\ reader' = reader /\ raced' = raced /\ revs' = revs
        /\ entries' = entries /\ lastError' = lastError /\ available' = available
        /\ mutex' = mutex /\ calls' = calls /\ version' = version /\ strayed' = strayed
    BY <1>5 DEF Sync, git, ghosts
  <2>5. /\ conf' \in Snapshot /\ revs' \in Seq(Revision) /\ entries' \subseteq DOMAIN revs'
        /\ reader' \in [Reader -> [key : Key \cup {NoKey}, value : Setting]]
    BY <2>4, Zenon DEF TypeOK
  <2>6. /\ lastError' \in BOOLEAN /\ available' \in BOOLEAN
        /\ mutex' \in Thread \cup {NoThread} /\ calls' \in 0 .. MaxCalls
        /\ version' \in Nat /\ strayed' \in Nat /\ raced' \subseteq Key
    BY <2>4, Zenon DEF TypeOK
  <2> QED
    BY <2>1, <2>2, <2>3, <2>5, <2>6, Zenon DEF TypeOK
<1> QED
  BY <1>1, <1>2, <1>3, <1>4, <1>5

LEMMA CommitType ==
    ASSUME TypeOK, NEW t \in Thread, Commit(t)
    PROVE  TypeOK'
<1>1. revs \in Seq(Revision) /\ RevisionOf(t) \in Revision
  BY RevisionType DEF TypeOK
<1>2. revs' \in Seq(Revision) /\ DOMAIN revs \subseteq DOMAIN revs'
  BY <1>1, AppendType DEF Commit
<1>3. entries' \subseteq DOMAIN revs'
  BY <1>2, ListedType DEF Commit, TypeOK
<1>4. call' \in [Thread -> CallState]
  BY ReturnType DEF Commit, TypeOK
<1>5. lastError' \in BOOLEAN /\ mutex' \in Thread \cup {NoThread}
  BY DEF Commit
<1> QED
  BY <1>2, <1>3, <1>4, <1>5 DEF Commit, TypeOK, store, reading, ghosts

LEMMA RestoreType ==
    ASSUME TypeOK, NEW t \in Thread, NEW i \in entries, Restore(t, i)
    PROVE  TypeOK'
<1>1. revs[i].values \in Snapshot
  <2>1. i \in DOMAIN revs /\ revs \in Seq(Revision)
    BY DEF TypeOK
  <2>2. revs[i] \in Revision
    BY <2>1
  <2> QED
    BY <2>2 DEF Revision
<1>2. [Idle EXCEPT !.op = "restoring", !.pc = "enter", !.target = revs[i].values] \in CallState
  BY <1>1, IdleType DEF CallState
<1>3. call' \in [Thread -> CallState]
  BY <1>2 DEF Restore, TypeOK
<1>4. lastError' \in BOOLEAN
  <2>1. lastError' = lastError \/ lastError' = TRUE
    BY Zenon DEF Restore
  <2> QED
    BY <2>1 DEF TypeOK
<1>5. /\ UNCHANGED <<store, reading, ghosts>>
      /\ UNCHANGED <<revs, entries, available, mutex>>
  BY Zenon DEF Restore
<1>6. calls' \in 0 .. MaxCalls
  BY BeginType DEF Restore
<1> QED
  BY <1>3, <1>4, <1>5, <1>6 DEF TypeOK, store, reading, ghosts

LEMMA ApplyType ==
    ASSUME TypeOK, NEW t \in Thread, ApplySnapshot(t)
    PROVE  TypeOK'
<1>0. call[t] \in CallState
  BY DEF TypeOK
<1>1. conf' \in Snapshot /\ ini' \in Snapshot
  BY <1>0 DEF ApplySnapshot, TypeOK, CallState
<1>2. version' \in Nat /\ strayed' \in Nat
  BY DEF ApplySnapshot, TypeOK
<1>3. [call[t] EXCEPT !.op = "restored", !.pc = "enter", !.wrote = version'] \in CallState
  BY <1>0, <1>2 DEF CallState
<1>4. call' \in [Thread -> CallState]
  BY <1>3, IdleType DEF ApplySnapshot, TypeOK
<1>5. raced' \subseteq Key
  BY DEF ApplySnapshot, Overtaken, TypeOK
<1> QED
  BY <1>1, <1>2, <1>4, <1>5, NoCacheType DEF ApplySnapshot, TypeOK, git

LEMMA RestartType ==
    ASSUME TypeOK, Restart
    PROVE  TypeOK'
<1>1. version' \in Nat /\ strayed' \in Nat
  BY DEF Restart, TypeOK
<1>2. ASSUME NEW late, late = revs \/ \E t \in Thread : late = Append(revs, RevisionOf(t))
      PROVE  late \in Seq(Revision)
  BY <1>2, RevisionType, AppendType DEF TypeOK
<1>3. [values |-> ini, at |-> version', key |-> NoKey] \in Revision
  BY <1>1 DEF TypeOK, Revision
<1>4. revs' \in Seq(Revision) /\ entries' \subseteq DOMAIN revs'
  <2>1. PICK late : /\ late \in Seq(Revision)
                    /\ \/ /\ revs' = late
                          /\ entries' \in {{}, Listed(late)}
                       \/ /\ revs' = Append(late, [values |-> ini, at |-> version', key |-> NoKey])
                          /\ entries' \in {{}, Listed(revs')}
    BY <1>2 DEF Restart
  <2>2. revs' \in Seq(Revision)
    BY <2>1, <1>3, AppendType
  <2> QED
    BY <2>1, <2>2, ListedType
<1>5. lastError' \in BOOLEAN /\ available' \in BOOLEAN
  BY DEF Restart
<1>6. /\ reader' \in [Reader -> [key : Key \cup {NoKey}, value : Setting]]
      /\ call' \in [Thread -> CallState]
  BY NoReadType, IdleType DEF Restart
<1> QED
  BY <1>1, <1>4, <1>5, <1>6, NoCacheType, BeginType DEF Restart, TypeOK

LEMMA NextType == TypeOK /\ [Next]_vars => TypeOK'
<1> SUFFICES ASSUME TypeOK, [Next]_vars PROVE TypeOK'
  OBVIOUS
<1>1. ASSUME NEW t \in Thread, Step(t) PROVE TypeOK'
  BY <1>1, RecordType, CommitType, ApplyType DEF Step
<1>2. CASE Flush
  BY <1>2 DEF Flush, TypeOK, reading, git, ghosts
<1>3. CASE UNCHANGED vars
  BY <1>3 DEF vars, TypeOK
<1> QED
  BY <1>1, <1>2, <1>3, ReadType, ChangeType, RecordType, RestoreType, RestartType DEF Next

(* Every reachable state of the settings and their history has its types;  *)
(* the list of the panel names commits that exist, and nothing else.       *)
THEOREM TypeCorrect == Spec => []TypeOK
<1> QED
  BY InitType, NextType, PTL DEF Spec

-----------------------------------------------------------------------------
(* Who holds a snapshot, and how old it is                                 *)

LEMMA AgeTypes ==
    ASSUME TypeOK
    PROVE  /\ version \in Nat /\ call \in [Thread -> CallState] /\ revs \in Seq(Revision)
           /\ \A i \in DOMAIN revs : revs[i].at \in Nat
           /\ \A u \in Thread : call[u].wrote \in Nat /\ call[u].at \in Nat
<1>1. version \in Nat /\ call \in [Thread -> CallState] /\ revs \in Seq(Revision)
  BY DEF TypeOK
<1>2. ASSUME NEW i \in DOMAIN revs PROVE revs[i].at \in Nat
  <2>1. revs[i] \in Revision
    BY <1>1
  <2> QED
    BY <2>1 DEF Revision
<1>3. ASSUME NEW u \in Thread PROVE call[u].wrote \in Nat /\ call[u].at \in Nat
  <2>1. call[u] \in CallState
    BY <1>1
  <2> QED
    BY <2>1 DEF CallState
<1> QED
  BY <1>1, <1>2, <1>3

(* Steps that neither take a snapshot nor commit one. *)
Moved ==
    /\ UNCHANGED <<revs, mutex>>
    /\ version' \in Nat /\ version <= version'
    /\ \A u \in Thread :
          \/ call'[u] = call[u]
          \/ call'[u].pc \notin {"snapshot", "commit"} /\ call'[u].wrote <= version'

LEMMA MovedStep ==
    ASSUME IInv, Moved
    PROVE  (Exclusive /\ Ages /\ NewestLast)'
<1>0. /\ version \in Nat /\ call \in [Thread -> CallState] /\ revs \in Seq(Revision)
      /\ \A i \in DOMAIN revs : revs[i].at \in Nat
      /\ \A u \in Thread : call[u].wrote \in Nat /\ call[u].at \in Nat
  BY AgeTypes DEF IInv
<1>1. Exclusive'
  BY DEF IInv, Exclusive, Moved, At
<1>2. NewestLast'
  BY DEF IInv, NewestLast, Moved
<1>3. \A i \in DOMAIN revs' : revs'[i].at <= version'
  <2>1. \A i \in DOMAIN revs : revs[i].at <= version
    BY DEF IInv, Ages
  <2> QED
    BY <1>0, <2>1 DEF Moved
<1>4. ASSUME NEW u \in Thread
      PROVE  /\ call'[u].wrote <= version'
             /\ At(u, "commit")' =>
                   /\ call'[u].at <= version'
                   /\ call'[u].wrote <= call'[u].at
                   /\ \A i \in DOMAIN revs' : revs'[i].at <= call'[u].at
  <2>1. CASE call'[u] = call[u]
    <3>1. /\ call[u].wrote <= version
          /\ call[u].pc = "commit" =>
                /\ call[u].at <= version
                /\ call[u].wrote <= call[u].at
                /\ \A i \in DOMAIN revs : revs[i].at <= call[u].at
      BY DEF IInv, Ages, At
    <3> QED
      BY <1>0, <2>1, <3>1 DEF Moved, At
  <2>2. CASE call'[u].pc \notin {"snapshot", "commit"} /\ call'[u].wrote <= version'
    BY <2>2 DEF At
  <2> QED
    BY <2>1, <2>2 DEF Moved
<1>5. Ages'
  BY <1>3, <1>4 DEF Ages
<1> QED
  BY <1>1, <1>2, <1>5

LEMMA ReturnPc ==
    ASSUME TypeOK, NEW t \in Thread, NEW ok \in BOOLEAN
    PROVE  /\ ReturnTo(t, ok).pc \notin {"snapshot", "commit"}
           /\ ReturnTo(t, ok).wrote \in {0, call[t].wrote}
<1>1. call[t] \in CallState
  BY DEF TypeOK
<1>2. /\ [call[t] EXCEPT !.pc = "apply"].pc = "apply"
      /\ [call[t] EXCEPT !.pc = "sync"].pc = "sync"
      /\ [call[t] EXCEPT !.pc = "apply"].wrote = call[t].wrote
      /\ [call[t] EXCEPT !.pc = "sync"].wrote = call[t].wrote
      /\ Idle.pc = "idle" /\ Idle.wrote = 0
  BY <1>1 DEF CallState, Idle
<1> QED
  BY <1>2 DEF ReturnTo

LEMMA MoveStep ==
    ASSUME IInv, NEW t \in Thread,
           \/ \E k \in Key, v \in Setting : Change(t, k, v)
           \/ Checkpoint(t) \/ Refuse(t) \/ ApplySnapshot(t) \/ Sync(t)
           \/ \E i \in entries : Restore(t, i)
    PROVE  Moved
<1>0. /\ version \in Nat /\ call \in [Thread -> CallState]
      /\ version <= version /\ version + 1 \in Nat /\ version <= version + 1
      /\ 0 <= version /\ version + 1 <= version + 1
      /\ call[t].wrote <= version
      /\ TypeOK
  BY DEF IInv, TypeOK, Ages
<1>1. ASSUME NEW k \in Key, NEW v \in Setting, Change(t, k, v) PROVE Moved
  <2>1. CASE conf[k] = v
    BY <1>0, <1>1, <2>1 DEF Change, Moved, git
  <2>2. CASE conf[k] # v
    BY <1>0, <1>1, <2>2 DEF Change, Moved, git, Idle
  <2> QED
    BY <2>1, <2>2
<1>2. CASE Checkpoint(t)
  BY <1>0, <1>2 DEF Checkpoint, Moved, Idle, git, ghosts
<1>3. CASE Refuse(t)
  <2>1. /\ call' = [call EXCEPT ![t] = ReturnTo(t, FALSE)]
        /\ UNCHANGED <<revs, mutex, version>>
    BY <1>3 DEF Refuse, git, ghosts
  <2> QED
    BY <1>0, <2>1, ReturnPc DEF Moved
<1>4. CASE ApplySnapshot(t)
  <2>1. /\ UNCHANGED <<revs, mutex>> /\ version' = version + 1
        /\ \/ call' = [call EXCEPT ![t].op = "restored", ![t].pc = "enter", ![t].wrote = version']
           \/ call' = [call EXCEPT ![t] = Idle]
    BY <1>4 DEF ApplySnapshot, git
  <2>2. CASE call' = [call EXCEPT ![t] = Idle]
    BY <1>0, <2>1, <2>2 DEF Moved, Idle
  <2>3. CASE call' = [call EXCEPT ![t].op = "restored", ![t].pc = "enter", ![t].wrote = version']
    <3>1. \A u \in Thread : u # t => call'[u] = call[u]
      BY <1>0, <2>3
    <3>2. call'[t].pc = "enter" /\ call'[t].wrote = version'
      BY <1>0, <2>3 DEF CallState
    <3> QED
      BY <1>0, <2>1, <3>1, <3>2 DEF Moved
  <2> QED
    BY <2>1, <2>2, <2>3
<1>5. CASE Sync(t)
  BY <1>0, <1>5 DEF Sync, Moved, Idle, git, ghosts
<1>6. ASSUME NEW i \in entries, Restore(t, i) PROVE Moved
  <2>1. /\ UNCHANGED <<revs, mutex, version>>
        /\ \/ call' = [call EXCEPT ![t] =
                   [Idle EXCEPT !.op = "restoring", !.pc = "enter", !.target = revs[i].values]]
           \/ call' = call
    BY <1>6 DEF Restore, ghosts
  <2>2. [Idle EXCEPT !.op = "restoring", !.pc = "enter", !.target = revs[i].values].pc = "enter"
    BY DEF Idle
  <2>3. [Idle EXCEPT !.op = "restoring", !.pc = "enter", !.target = revs[i].values].wrote = 0
    BY DEF Idle
  <2> QED
    BY <1>0, <2>1, <2>2, <2>3 DEF Moved
<1> QED
  BY <1>1, <1>2, <1>3, <1>4, <1>5, <1>6

LEMMA EnterStep ==
    ASSUME IInv, NEW t \in Thread, Enter(t)
    PROVE  (Exclusive /\ Ages /\ NewestLast)'
<1>0. /\ call \in [Thread -> CallState]
      /\ UNCHANGED <<revs, version>> /\ mutex = NoThread /\ mutex' = t
      /\ call' = [call EXCEPT ![t].pc = "snapshot"]
  BY DEF IInv, TypeOK, Enter, Goto, git, ghosts
<1>1. \A u \in Thread : call[u].pc \notin {"snapshot", "commit"}
  BY <1>0, SettingsAssumption DEF IInv, Exclusive, At
<1>2. /\ \A u \in Thread : u # t => call'[u] = call[u]
      /\ call'[t].pc = "snapshot" /\ call'[t].wrote = call[t].wrote
  BY <1>0 DEF CallState
<1>3. Exclusive'
  BY <1>0, <1>1, <1>2 DEF Exclusive, At
<1>4. Ages'
  <2>1. \A u \in Thread : call'[u].pc # "commit" /\ call'[u].wrote = call[u].wrote
    BY <1>1, <1>2
  <2> QED
    BY <1>0, <2>1 DEF IInv, Ages, At
<1>5. NewestLast'
  BY <1>0 DEF IInv, NewestLast
<1> QED
  BY <1>3, <1>4, <1>5

LEMMA SnapshotStep ==
    ASSUME IInv, NEW t \in Thread, TakeSnapshot(t)
    PROVE  (Exclusive /\ Ages /\ NewestLast)'
<1>0. /\ call \in [Thread -> CallState] /\ call[t].pc = "snapshot"
      /\ UNCHANGED <<revs, version, mutex>> /\ version \in Nat
      /\ call' = [call EXCEPT ![t].pc = "commit", ![t].values = conf, ![t].at = version]
  BY DEF IInv, TypeOK, TakeSnapshot, git, ghosts, At
<1>1. mutex = t /\ \A u \in Thread : u # t => call[u].pc \notin {"snapshot", "commit"}
  BY <1>0 DEF IInv, Exclusive, At
<1>2. \A u \in Thread : u # t => call'[u] = call[u]
  BY <1>0
<1>3. call'[t].pc = "commit" /\ call'[t].wrote = call[t].wrote /\ call'[t].at = version
  BY <1>0 DEF CallState
<1>4. Exclusive'
  BY <1>0, <1>1, <1>2 DEF Exclusive, At
<1>5. Ages'
  <2>1. \A u \in Thread : call'[u].wrote = call[u].wrote
    BY <1>2, <1>3
  <2>2. /\ \A i \in DOMAIN revs : revs[i].at <= version
        /\ \A u \in Thread : call[u].wrote <= version
    BY DEF IInv, Ages
  <2>3. ASSUME NEW u \in Thread, call'[u].pc = "commit" PROVE u = t
    BY <1>1, <1>2, <2>3
  <2>4. version <= version
    BY <1>0
  <2> QED
    BY <1>0, <1>3, <2>1, <2>2, <2>3, <2>4 DEF Ages, At
<1>6. NewestLast'
  BY <1>0 DEF IInv, NewestLast
<1> QED
  BY <1>4, <1>5, <1>6

(* A commit that is not older than the others goes to the end.             *)
LEMMA AppendOrder ==
    ASSUME NEW r \in Seq(Revision), NEW e \in Revision, NEW n \in Nat,
           \A i, j \in DOMAIN r : i < j => r[i].at <= r[j].at,
           \A i \in DOMAIN r : r[i].at <= e.at,
           \A i \in DOMAIN r : r[i].at <= n,
           e.at <= n
    PROVE  /\ \A i, j \in DOMAIN Append(r, e) : i < j => Append(r, e)[i].at <= Append(r, e)[j].at
           /\ \A i \in DOMAIN Append(r, e) : Append(r, e)[i].at <= n
<1>1. /\ DOMAIN Append(r, e) = 1 .. Len(r) + 1
      /\ DOMAIN r = 1 .. Len(r) /\ Len(r) \in Nat
      /\ \A i \in DOMAIN r : Append(r, e)[i] = r[i]
      /\ Append(r, e)[Len(r) + 1] = e
  BY AppendType
<1>2. ASSUME NEW i \in DOMAIN Append(r, e), NEW j \in DOMAIN Append(r, e), i < j
      PROVE  Append(r, e)[i].at <= Append(r, e)[j].at
  <2>1. i \in DOMAIN r
    BY <1>1, <1>2
  <2>2. j \in DOMAIN r \/ j = Len(r) + 1
    BY <1>1
  <2> QED
    BY <1>1, <1>2, <2>1, <2>2
<1>3. ASSUME NEW i \in DOMAIN Append(r, e) PROVE Append(r, e)[i].at <= n
  <2>1. i \in DOMAIN r \/ i = Len(r) + 1
    BY <1>1
  <2> QED
    BY <1>1, <2>1
<1> QED
  BY <1>2, <1>3

LEMMA CommitStep ==
    ASSUME IInv, NEW t \in Thread, Commit(t)
    PROVE  (Exclusive /\ Ages /\ NewestLast)'
<1>0. /\ TypeOK /\ call \in [Thread -> CallState] /\ call[t].pc = "commit"
      /\ revs \in Seq(Revision) /\ version \in Nat
      /\ UNCHANGED version /\ mutex' = NoThread
      /\ revs' = revs \/ revs' = Append(revs, RevisionOf(t))
      /\ \E ok \in BOOLEAN : call' = [call EXCEPT ![t] = ReturnTo(t, ok)]
  BY DEF IInv, TypeOK, Commit, ghosts, At
<1>1. \A u \in Thread : u # t => call[u].pc \notin {"snapshot", "commit"}
  BY <1>0 DEF IInv, Exclusive, At
<1>2. /\ \A u \in Thread : u # t => call'[u] = call[u]
      /\ call'[t].pc \notin {"snapshot", "commit"}
      /\ call'[t].wrote \in {0, call[t].wrote}
  BY <1>0, ReturnPc
<1>3. Exclusive'
  BY <1>1, <1>2 DEF Exclusive, At
<1>4. /\ call[t].at <= version
      /\ \A i \in DOMAIN revs : revs[i].at <= call[t].at
      /\ \A i \in DOMAIN revs : revs[i].at <= version
      /\ \A u \in Thread : call[u].wrote <= version
  BY <1>0 DEF IInv, Ages, At
<1>5. RevisionOf(t) \in Revision /\ RevisionOf(t).at = call[t].at
  BY <1>0, RevisionType DEF RevisionOf
<1>6. /\ \A i, j \in DOMAIN revs' : i < j => revs'[i].at <= revs'[j].at
      /\ \A i \in DOMAIN revs' : revs'[i].at <= version
  <2>1. \A i, j \in DOMAIN revs : i < j => revs[i].at <= revs[j].at
    BY DEF IInv, NewestLast
  <2>2. CASE revs' = revs
    BY <1>4, <2>1, <2>2
  <2>3. CASE revs' = Append(revs, RevisionOf(t))
    BY <1>0, <1>4, <1>5, <2>1, <2>3, AppendOrder
  <2> QED
    BY <1>0, <2>2, <2>3
<1>7. Ages'
  <2>1. \A u \in Thread : call'[u].pc # "commit"
    BY <1>1, <1>2
  <2>2. \A u \in Thread : call'[u].wrote <= version
    BY <1>0, <1>2, <1>4
  <2> QED
    BY <1>0, <1>6, <2>1, <2>2 DEF Ages, At
<1> QED
  BY <1>3, <1>6, <1>7 DEF NewestLast

(* What a git that outlived the program commits, and what initialize does, *)
(* is as ordered as the rest.                                              *)
LEMMA RestartStep ==
    ASSUME IInv, Restart
    PROVE  (Exclusive /\ Ages /\ NewestLast)'
<1> DEFINE First == [values |-> ini, at |-> version', key |-> NoKey]
           Sorted(r, n) == /\ \A i, j \in DOMAIN r : i < j => r[i].at <= r[j].at
                           /\ \A i \in DOMAIN r : r[i].at <= n
<1>0. TypeOK /\ revs \in Seq(Revision) /\ version \in Nat /\ version' = version + 1
  BY DEF IInv, TypeOK, Restart
<1>1. \A t \in Thread : call'[t].pc = "idle" /\ call'[t].wrote = 0
  BY DEF Restart, Idle
<1>2. Sorted(revs, version)
  BY DEF IInv, NewestLast, Ages
<1>3. ASSUME NEW t \in Thread, At(t, "commit")
      PROVE  /\ Append(revs, RevisionOf(t)) \in Seq(Revision)
             /\ Sorted(Append(revs, RevisionOf(t)), version)
  <2>1. RevisionOf(t) \in Revision /\ RevisionOf(t).at = call[t].at
    BY <1>0, RevisionType DEF RevisionOf
  <2>2. /\ call[t].at <= version
        /\ \A i \in DOMAIN revs : revs[i].at <= call[t].at
    BY <1>3 DEF IInv, Ages
  <2> QED
    BY <1>0, <1>2, <2>1, <2>2, AppendOrder, AppendType
<1>4. PICK late : /\ late \in Seq(Revision) /\ Sorted(late, version)
                  /\ revs' = late \/ revs' = Append(late, First)
  <2>1. PICK late \in {revs} \cup {Append(revs, RevisionOf(t)) : t \in {u \in Thread : At(u, "commit")}} :
              revs' = late \/ revs' = Append(late, First)
    BY DEF Restart
  <2> QED
    BY <1>0, <1>2, <1>3, <2>1
<1>5. Sorted(revs', version')
  <2>1. \A i \in DOMAIN late : late[i].at \in Nat
    <3>1. ASSUME NEW i \in DOMAIN late PROVE late[i] \in Revision
      BY <1>4
    <3> QED
      BY <3>1 DEF Revision
  <2>2. \A i \in DOMAIN late : late[i].at <= version'
    BY <1>0, <1>4, <2>1
  <2>3. First \in Revision /\ First.at = version' /\ version' \in Nat /\ version' <= version'
    BY <1>0 DEF TypeOK, Revision
  <2>4. Sorted(Append(late, First), version')
    <3> HIDE DEF First
    <3> QED
      BY <1>4, <2>2, <2>3, AppendOrder
  <2> QED
    BY <1>4, <2>2, <2>4
<1>6. Exclusive'
  BY <1>1 DEF Exclusive, At
<1>7. Ages'
  BY <1>0, <1>1, <1>5 DEF Ages, At
<1> QED
  BY <1>5, <1>6, <1>7 DEF NewestLast

LEMMA AgesStep == IInv /\ [Next]_vars => (Exclusive /\ Ages /\ NewestLast)'
<1> SUFFICES ASSUME IInv, [Next]_vars
             PROVE  (Exclusive /\ Ages /\ NewestLast)'
  OBVIOUS
<1>1. ASSUME NEW t \in Thread, Step(t) PROVE (Exclusive /\ Ages /\ NewestLast)'
  BY <1>1, EnterStep, SnapshotStep, CommitStep, MoveStep, MovedStep DEF Step
<1>2. ASSUME UNCHANGED <<revs, mutex, version, call>>
      PROVE  (Exclusive /\ Ages /\ NewestLast)'
  BY <1>2, AgeTypes, MovedStep DEF Moved, IInv
<1>3. ASSUME NEW r \in Reader, Insert(r) \/ \E k \in Key : Miss(r, k)
      PROVE  UNCHANGED <<revs, mutex, version, call>>
  BY <1>3 DEF Insert, Miss, git, ghosts
<1>4. Flush \/ UNCHANGED vars => UNCHANGED <<revs, mutex, version, call>>
  BY DEF Flush, vars, git, ghosts
<1> QED
  BY <1>1, <1>2, <1>3, <1>4, MoveStep, MovedStep, RestartStep DEF Next

-----------------------------------------------------------------------------
(* What the cache and the reads hold                                       *)

LEMMA MissStep ==
    ASSUME IInv, NEW r \in Reader, NEW k \in Key, Miss(r, k)
    PROVE  (Reads /\ CacheFresh)'
<1>1. UNCHANGED <<conf, cache, raced>>
  BY DEF Miss, store
<1>2. reader \in [Reader -> [key : Key \cup {NoKey}, value : Setting]]
  BY DEF IInv, TypeOK
<1>3. /\ \A q \in Reader : q # r => reader'[q] = reader[q]
      /\ reader'[r].key = k /\ reader'[r].value = conf[k]
  BY <1>2 DEF Miss
<1>4. Reads'
  BY <1>1, <1>3 DEF IInv, Reads
<1> QED
  BY <1>1, <1>4 DEF IInv, CacheFresh

LEMMA InsertStep ==
    ASSUME IInv, NEW r \in Reader, Insert(r)
    PROVE  (Reads /\ CacheFresh)'
<1>1. /\ UNCHANGED <<conf, raced>> /\ reader[r] # NoRead
      /\ cache' = [cache EXCEPT ![reader[r].key] = reader[r].value]
      /\ reader' = [reader EXCEPT ![r] = NoRead]
  BY DEF Insert, store
<1>2. /\ reader \in [Reader -> [key : Key \cup {NoKey}, value : Setting]]
      /\ cache \in [Key -> Setting \cup {NotCached}]
  BY DEF IInv, TypeOK
<1>3. reader[r].value = conf[reader[r].key] \/ reader[r].key \in raced
  BY <1>1 DEF IInv, Reads
<1>4. Reads'
  <2>1. \A q \in Reader : reader'[q] = reader[q] \/ reader'[q] = NoRead
    BY <1>1, <1>2
  <2>2. NoRead' = NoRead
    BY DEF NoRead
  <2> QED
    BY <1>1, <2>1, <2>2 DEF IInv, Reads
<1>5. ASSUME NEW k \in Key, cache'[k] \notin {NotCached, conf[k]} PROVE k \in raced
  BY <1>1, <1>2, <1>3, <1>5 DEF IInv, CacheFresh
<1> QED
  BY <1>1, <1>4, <1>5 DEF CacheFresh

(* A step that empties the cache and notes the reads it overtakes.         *)
LEMMA EmptiedStep ==
    ASSUME IInv, cache' = NoCache, reader' = reader, raced \subseteq raced',
           Overtaken({k \in Key : conf[k] # conf'[k]}) \subseteq raced'
    PROVE  (Reads /\ CacheFresh)'
<1>1. CacheFresh'
  BY DEF NoCache, CacheFresh
<1>2. ASSUME NEW r \in Reader, reader'[r] # NoRead
      PROVE  /\ reader'[r].key \in Key
             /\ reader'[r].value = conf'[reader'[r].key] \/ reader'[r].key \in raced'
  <2>1. /\ reader[r].key \in Key
        /\ reader[r].value = conf[reader[r].key] \/ reader[r].key \in raced
    BY <1>2 DEF IInv, Reads
  <2>2. CASE conf[reader[r].key] # conf'[reader[r].key]
    <3>1. reader[r].key \in Overtaken({k \in Key : conf[k] # conf'[k]})
      BY <2>1, <2>2 DEF Overtaken
    <3> QED
      BY <2>1, <3>1
  <2> QED
    BY <2>1, <2>2
<1>3. Reads'
  BY <1>2 DEF Reads, NoRead
<1> QED
  BY <1>1, <1>3

LEMMA ReadsStep == IInv /\ [Next]_vars => (Reads /\ CacheFresh)'
<1> SUFFICES ASSUME IInv, [Next]_vars
             PROVE  (Reads /\ CacheFresh)'
  OBVIOUS
<1>1. ASSUME UNCHANGED <<conf, reading>> PROVE (Reads /\ CacheFresh)'
  BY <1>1 DEF IInv, Reads, CacheFresh, NoRead, reading
<1>2. ASSUME NEW t \in Thread, NEW k \in Key, NEW v \in Setting, Change(t, k, v)
      PROVE  (Reads /\ CacheFresh)'
  <2>1. /\ conf' = [conf EXCEPT ![k] = v] /\ cache' = NoCache /\ reader' = reader
        /\ IF conf[k] = v THEN raced' = raced ELSE raced' = Overtaken({k})
    BY <1>2 DEF Change
  <2>2. conf \in [Key -> Setting]
    BY DEF IInv, TypeOK, Snapshot
  <2>3. {q \in Key : conf[q] # conf'[q]} = IF conf[k] = v THEN {} ELSE {k}
    BY <2>1, <2>2
  <2>4. Overtaken({}) = raced /\ raced \subseteq Overtaken({k})
    BY DEF Overtaken
  <2> QED
    BY <2>1, <2>3, <2>4, EmptiedStep
<1>3. ASSUME NEW t \in Thread, ApplySnapshot(t) \/ Sync(t)
      PROVE  (Reads /\ CacheFresh)'
  <2>1. CASE ApplySnapshot(t)
    <3>1. /\ cache' = NoCache /\ reader' = reader
          /\ raced' = Overtaken({k \in Key : conf[k] # conf'[k]})
      BY <2>1 DEF ApplySnapshot
    <3>2. raced \subseteq raced'
      BY <3>1 DEF Overtaken
    <3> QED
      BY <3>1, <3>2, EmptiedStep
  <2>2. CASE Sync(t)
    <3>1. cache' = NoCache /\ reader' = reader /\ raced' = raced /\ conf' = conf
      BY <2>2 DEF Sync
    <3>2. Overtaken({k \in Key : conf[k] # conf'[k]}) = raced
      BY <3>1 DEF Overtaken
    <3> QED
      BY <3>1, <3>2, EmptiedStep
  <2> QED
    BY <1>3, <2>1, <2>2
<1>4. ASSUME NEW t \in Thread,
             \/ Enter(t) \/ TakeSnapshot(t) \/ Commit(t) \/ Refuse(t) \/ Checkpoint(t)
             \/ \E i \in entries : Restore(t, i)
      PROVE  UNCHANGED <<conf, reading>>
  BY <1>4, Zenon DEF Enter, TakeSnapshot, Commit, Refuse, Checkpoint, Restore, store
<1>5. CASE Restart
  <2>1. cache' = NoCache /\ \A r \in Reader : reader'[r] = NoRead
    BY <1>5 DEF Restart
  <2> QED
    BY <2>1 DEF NoCache, CacheFresh, Reads, NoRead
<1>6. Flush \/ UNCHANGED vars => UNCHANGED <<conf, reading>>
  BY DEF Flush, vars, reading
<1> QED
  BY <1>1, <1>2, <1>3, <1>4, <1>5, <1>6, MissStep, InsertStep DEF Next, Step

-----------------------------------------------------------------------------
(* The invariant, and what follows from it                                 *)

LEMMA InitIInv == Init => IInv
<1> SUFFICES ASSUME Init PROVE IInv
  OBVIOUS
<1>1. TypeOK
  BY InitType
<1>2. \A t \in Thread : call[t].pc = "idle" /\ call[t].wrote = 0
  BY DEF Init, Idle
<1>3. Exclusive
  BY <1>2 DEF Exclusive, At
<1>4. \A i, j \in DOMAIN revs : revs[i].at = 0 /\ ~ i < j
  <2>1. revs = <<[values |-> Empty, at |-> 0, key |-> NoKey]>> \/ revs = << >>
    BY DEF Init
  <2> QED
    BY <2>1
<1>5. Ages /\ NewestLast
  BY <1>2, <1>4 DEF Ages, NewestLast, At, Init
<1>6. Reads /\ CacheFresh
  BY DEF Init, Reads, CacheFresh, NoCache, NoRead
<1> QED
  BY <1>1, <1>3, <1>5, <1>6 DEF IInv

LEMMA NextIInv == IInv /\ [Next]_vars => IInv'
BY NextType, AgesStep, ReadsStep DEF IInv

(* Whoever holds a snapshot holds the mutex of the history, no commit is   *)
(* newer than that snapshot, and no read hides a change it did not race.   *)
THEOREM Inductive == Spec => []IInv
<1> QED
  BY InitIInv, NextIInv, PTL DEF Spec

(* The history never ends with a stale snapshot, whoever records, restores *)
(* or fails in between, and however often the program restarts.            *)
THEOREM NewestIsLast == Spec => []NewestLast
<1>1. IInv => NewestLast
  BY DEF IInv
<1> QED
  BY <1>1, Inductive, PTL

(* The cache of the settings disagrees with them only for a key that was   *)
(* changed between the two halves of a read.                               *)
THEOREM CacheIsFresh == Spec => []CacheFresh
<1>1. IInv => CacheFresh
  BY DEF IInv
<1> QED
  BY <1>1, Inductive, PTL

(* Only its own Commit lets a thread that has a snapshot return.           *)
LEMMA OnlyCommit ==
    ASSUME IInv, [Next]_vars, NEW t \in Thread,
           At(t, "commit"), calls' = calls, call'[t].pc = "idle"
    PROVE  Commit(t)
<1>0. call \in [Thread -> CallState] /\ calls \in Nat /\ call[t].pc = "commit"
  BY SettingsAssumption DEF IInv, TypeOK, At
<1>1. ~ Begin
  BY <1>0 DEF Begin
<1>2. call' # call
  BY <1>0
<1>3. PICK u \in Thread : Step(u)
  <2>1. ~ UNCHANGED vars /\ ~ Flush
    BY <1>2 DEF vars, Flush
  <2>2. \A r \in Reader : ~ Insert(r) /\ \A k \in Key : ~ Miss(r, k)
    BY <1>2 DEF Insert, Miss
  <2>3. ~ Restart
    BY <1>1 DEF Restart
  <2>4. ASSUME NEW v \in Thread
        PROVE  /\ \A k \in Key, x \in Setting : ~ Change(v, k, x)
               /\ ~ Checkpoint(v) /\ \A i \in entries : ~ Restore(v, i)
    BY <1>1 DEF Change, Checkpoint, Restore
  <2> QED
    BY <2>1, <2>2, <2>3, <2>4 DEF Next
<1>4. u = t
  <2>1. \E c : call' = [call EXCEPT ![u] = c]
    BY <1>3 DEF Step, Enter, Goto, TakeSnapshot, Commit, Refuse, ApplySnapshot, Sync
  <2> QED
    BY <1>0, <2>1
<1> QED
  BY <1>0, <1>3, <1>4 DEF Step, At, Enter, TakeSnapshot, Refuse, ApplySnapshot, Sync

(* A change that is reported as recorded is in the repository: its commit  *)
(* bears its key, and holds the settings as they were after the change or  *)
(* later.                                                                  *)
THEOREM ReportsAreTrue == Spec => NoFalseClaim
<1> DEFINE Claim == \A t \in Thread :
          call[t].op = "change" /\ At(t, "commit") /\ calls' = calls /\ call'[t].pc = "idle" /\ ~ lastError' =>
              \E i \in DOMAIN revs' : revs'[i].key = call[t].key /\ revs'[i].at >= call[t].wrote
<1>1. IInv /\ [Next]_vars => [Claim]_vars
  <2> SUFFICES ASSUME IInv, [Next]_vars, NEW t \in Thread,
                      At(t, "commit"), calls' = calls, call'[t].pc = "idle", ~ lastError'
               PROVE  \E i \in DOMAIN revs' : revs'[i].key = call[t].key /\ revs'[i].at >= call[t].wrote
    OBVIOUS
  <2>1. Commit(t)
    BY OnlyCommit
  <2>2. revs' = Append(revs, RevisionOf(t))
    BY <2>1 DEF Commit
  <2>3. revs \in Seq(Revision) /\ RevisionOf(t) \in Revision
    BY RevisionType DEF IInv, TypeOK
  <2>4. Len(revs) + 1 \in DOMAIN revs' /\ revs'[Len(revs) + 1] = RevisionOf(t)
    BY <2>2, <2>3, AppendType
  <2>5. RevisionOf(t).key = call[t].key /\ RevisionOf(t).at = call[t].at
    BY DEF RevisionOf
  <2>6. call[t].at >= call[t].wrote
    BY AgeTypes DEF IInv, Ages
  <2> QED
    BY <2>4, <2>5, <2>6
<1> QED
  BY <1>1, Inductive, PTL DEF Spec, NoFalseClaim

-----------------------------------------------------------------------------
(* How the history and the live settings agree: the newest commit is what  *)
(* the program works with, and a restore can be undone.                    *)

(* The strengthening.  The latest state of the settings is being recorded  *)
(* by a thread ...                                                         *)
Awaits(t) == call[t].pc \in {"enter", "snapshot", "commit"} /\ call[t].wrote = version

(* ... or is in a snapshot of the version n, or strayed after it.          *)
Accounted(n) == n >= version \/ strayed > n \/ \E t \in Thread : Awaits(t)

(* Snapshots of the latest version hold the latest settings.               *)
Same ==
    /\ \A i \in DOMAIN revs : revs[i].at = version => revs[i].values = conf
    /\ \A t \in Thread : At(t, "commit") /\ call[t].at = version => call[t].values = conf

Known ==
    /\ ~ lastError /\ revs # << >> => Accounted(revs[Len(revs)].at)
    /\ \A t \in Thread : At(t, "commit") => Accounted(call[t].at)

(* Without a repository nobody gets as far as a snapshot, and the error    *)
(* stays.                                                                  *)
Refusal ==
    ~ available => lastError /\ \A t \in Thread : ~ At(t, "snapshot") /\ ~ At(t, "commit")

(* A restore goes on only when its checkpoint is in the repository.        *)
Checked ==
    \A t \in Thread : At(t, "apply") => \E i \in DOMAIN revs : revs[i].at = call[t].at

Agree == Same /\ Known /\ Refusal /\ Checked

HInv == IInv /\ Agree

-----------------------------------------------------------------------------
(* What the steps do to it                                                 *)

(* Nothing happens to the settings or the repository, and whoever records  *)
(* goes on or is refused.                                                  *)
Quiet ==
    /\ UNCHANGED <<conf, revs, available, version, strayed>>
    /\ lastError => lastError'
    /\ \A u \in Thread :
          \/ call'[u] = call[u]
          \/ /\ call'[u].pc \notin {"commit", "apply"}
             /\ call'[u].pc = "snapshot" => available
             /\ Awaits(u) /\ available => Awaits(u)'

(* t makes a new version, and will record it or let it stray.              *)
Fresh(t) ==
    /\ UNCHANGED <<revs, available, lastError>>
    /\ version' = version + 1
    /\ \A u \in Thread : u # t => call'[u] = call[u]
    /\ call'[t].pc \notin {"snapshot", "commit", "apply"}
    /\ strayed' = version' \/ (strayed' = strayed /\ Awaits(t)')

LEMMA QuietStep ==
    ASSUME HInv, Quiet
    PROVE  Agree'
<1>1. Refusal'
  BY DEF HInv, Agree, Refusal, Quiet, At
<1>2. Same'
  BY DEF HInv, Agree, Same, Quiet, At
<1>3. Checked'
  BY DEF HInv, Agree, Checked, Quiet, At
<1>4. ASSUME NEW n, available, Accounted(n) PROVE Accounted(n)'
  BY <1>4 DEF Accounted, Quiet, Awaits
<1>5. Known'
  <2>1. CASE available
    BY <1>4, <2>1 DEF HInv, Agree, Known, Quiet, At
  <2>2. CASE ~ available
    <3>1. lastError' /\ \A u \in Thread : ~ At(u, "commit")'
      BY <2>2 DEF HInv, Agree, Refusal, Quiet, At
    <3> QED
      BY <3>1 DEF Known
  <2> QED
    BY <2>1, <2>2
<1> QED
  BY <1>1, <1>2, <1>3, <1>5 DEF Agree

LEMMA FreshStep ==
    ASSUME HInv, NEW t \in Thread, Fresh(t)
    PROVE  Agree'
<1>0. /\ version \in Nat /\ revs \in Seq(Revision)
      /\ \A i \in DOMAIN revs : revs[i].at \in Nat /\ revs[i].at <= version
      /\ \A u \in Thread : call[u].at \in Nat /\ (At(u, "commit") => call[u].at <= version)
  BY AgeTypes DEF HInv, IInv, Ages
<1>1. Refusal'
  BY DEF HInv, Agree, Refusal, Fresh, At
<1>2. Same'
  BY <1>0 DEF Same, Fresh, At
<1>3. Checked'
  BY DEF HInv, Agree, Checked, Fresh, At
<1>4. ASSUME NEW n \in Nat, n <= version PROVE Accounted(n)'
  BY <1>0, <1>4 DEF Accounted, Fresh
<1>5. ASSUME revs # << >> PROVE Len(revs) \in DOMAIN revs
  BY <1>0, <1>5
<1>6. Known'
  <2>1. revs' # << >> => Accounted(revs[Len(revs)].at)'
    BY <1>0, <1>4, <1>5 DEF Fresh
  <2>2. ASSUME NEW u \in Thread, At(u, "commit")' PROVE Accounted(call[u].at)'
    BY <1>0, <1>4, <2>2 DEF Fresh, At
  <2> QED
    BY <2>1, <2>2 DEF Known, Fresh, Accounted, Awaits, At
<1> QED
  BY <1>1, <1>2, <1>3, <1>6 DEF Agree

-----------------------------------------------------------------------------
(* Which step does what                                                    *)

LEMMA ChangeEffect ==
    ASSUME HInv, NEW t \in Thread, NEW k \in Key, NEW v \in Setting, Change(t, k, v)
    PROVE  Quiet \/ Fresh(t)
<1>0. call \in [Thread -> CallState] /\ conf \in [Key -> Setting]
  BY DEF HInv, IInv, TypeOK, Snapshot
<1>1. CASE conf[k] = v
  <2>1. conf' = conf
    BY <1>0, <1>1 DEF Change
  <2> QED
    BY <1>1, <2>1 DEF Change, Quiet, git
<1>2. CASE conf[k] # v
  <2>1. /\ UNCHANGED <<revs, available, lastError, strayed>> /\ version' = version + 1
        /\ call' = [call EXCEPT ![t] =
               [Idle EXCEPT !.op = "change", !.pc = "enter", !.key = k, !.wrote = version + 1]]
    BY <1>2 DEF Change, git
  <2>2. call'[t].pc = "enter" /\ call'[t].wrote = version'
    BY <1>0, <2>1 DEF Idle
  <2> QED
    BY <1>0, <2>1, <2>2 DEF Fresh, Awaits
<1> QED
  BY <1>1, <1>2

LEMMA ApplyEffect ==
    ASSUME HInv, NEW t \in Thread, ApplySnapshot(t)
    PROVE  Fresh(t)
<1>0. call \in [Thread -> CallState]
  BY DEF HInv, IInv, TypeOK
<1>1. UNCHANGED <<revs, available, lastError>> /\ version' = version + 1
  BY DEF ApplySnapshot, git
<1>2. CASE /\ call' = [call EXCEPT ![t].op = "restored", ![t].pc = "enter", ![t].wrote = version']
           /\ UNCHANGED strayed
  <2>1. call'[t].pc = "enter" /\ call'[t].wrote = version'
    BY <1>0, <1>2 DEF CallState
  <2> QED
    BY <1>0, <1>1, <1>2, <2>1 DEF Fresh, Awaits
<1>3. CASE call' = [call EXCEPT ![t] = Idle] /\ strayed' = version'
  BY <1>0, <1>1, <1>3 DEF Fresh, Idle
<1> QED
  BY <1>2, <1>3 DEF ApplySnapshot

(* Calls begin, wait their turn, are refused and end.                      *)
LEMMA QuietEffect ==
    ASSUME HInv, NEW t \in Thread,
           \/ Checkpoint(t) \/ Enter(t) \/ Refuse(t) \/ Sync(t)
           \/ \E i \in entries : Restore(t, i)
    PROVE  Quiet
<1>0. call \in [Thread -> CallState] /\ lastError \in BOOLEAN
  BY DEF HInv, IInv, TypeOK
<1>1. CASE Checkpoint(t)
  BY <1>0, <1>1 DEF Checkpoint, Quiet, Awaits, At, Idle, store, git, ghosts
<1>2. CASE Enter(t)
  <2>1. /\ UNCHANGED <<conf, revs, lastError, available, version, strayed>>
        /\ available /\ call[t].pc = "enter"
        /\ call' = [call EXCEPT ![t].pc = "snapshot"]
    BY <1>2 DEF Enter, Goto, At, store, git, ghosts
  <2>2. call'[t].pc = "snapshot" /\ call'[t].wrote = call[t].wrote
    BY <1>0, <2>1 DEF CallState
  <2>3. \A u \in Thread : u # t => call'[u] = call[u]
    BY <1>0, <2>1
  <2> QED
    BY <2>1, <2>2, <2>3 DEF Quiet, Awaits
<1>3. CASE Refuse(t)
  <2>1. /\ UNCHANGED <<conf, revs, lastError, available, version, strayed>>
        /\ ~ available
        /\ call' = [call EXCEPT ![t] = ReturnTo(t, FALSE)]
    BY <1>3 DEF Refuse, store, git, ghosts
  <2>2. ReturnTo(t, FALSE).pc \in {"sync", "idle"}
    <3>1. call[t] \in CallState
      BY <1>0
    <3>2. [call[t] EXCEPT !.pc = "sync"].pc = "sync" /\ Idle.pc = "idle"
      BY <3>1 DEF CallState, Idle
    <3> QED
      BY <3>2 DEF ReturnTo
  <2>3. \A u \in Thread : u # t => call'[u] = call[u]
    BY <1>0, <2>1
  <2>4. call'[t].pc \in {"sync", "idle"}
    BY <1>0, <2>1, <2>2
  <2> QED
    BY <2>1, <2>3, <2>4 DEF Quiet
<1>4. CASE Sync(t)
  BY <1>0, <1>4 DEF Sync, Quiet, Awaits, At, Idle, git, ghosts
<1>5. ASSUME NEW i \in entries, Restore(t, i) PROVE Quiet
  <2>0. lastError => lastError'
    <3>1. lastError' = lastError \/ lastError' = TRUE
      BY <1>5, Zenon DEF Restore
    <3> QED
      BY <3>1
  <2>1. /\ UNCHANGED <<conf, revs, available, version, strayed>>
        /\ call[t].pc = "idle"
        /\ \/ call' = [call EXCEPT ![t] =
                   [Idle EXCEPT !.op = "restoring", !.pc = "enter", !.target = revs[i].values]]
           \/ call' = call
    BY <1>5 DEF Restore, At, store, ghosts
  <2>2. CASE call' = call
    BY <2>0, <2>1, <2>2 DEF Quiet
  <2>3. CASE call' = [call EXCEPT ![t] =
                 [Idle EXCEPT !.op = "restoring", !.pc = "enter", !.target = revs[i].values]]
    <3>1. call'[t].pc = "enter" /\ \A u \in Thread : u # t => call'[u] = call[u]
      BY <1>0, <2>3 DEF Idle
    <3> QED
      BY <2>0, <2>1, <3>1 DEF Quiet, Awaits
  <2> QED
    BY <2>1, <2>2, <2>3
<1> QED
  BY <1>1, <1>2, <1>3, <1>4, <1>5

(* The snapshot is of the latest version.                                  *)
LEMMA SnapshotAgrees ==
    ASSUME HInv, NEW t \in Thread, TakeSnapshot(t)
    PROVE  Agree'
<1>0. /\ call \in [Thread -> CallState] /\ call[t].pc = "snapshot" /\ version \in Nat
      /\ UNCHANGED <<conf, revs, lastError, available, version, strayed>>
      /\ call' = [call EXCEPT ![t].pc = "commit", ![t].values = conf, ![t].at = version]
  BY DEF HInv, IInv, TypeOK, TakeSnapshot, At, store, git, ghosts
<1>1. /\ \A u \in Thread : u # t => call'[u] = call[u]
      /\ call'[t].pc = "commit" /\ call'[t].values = conf /\ call'[t].at = version
      /\ call'[t].wrote = call[t].wrote
  BY <1>0 DEF CallState
<1>2. Same'
  BY <1>0, <1>1 DEF HInv, Agree, Same, At
<1>3. Refusal'
  BY <1>0, <1>1 DEF HInv, Agree, Refusal, At
<1>4. Checked'
  BY <1>0, <1>1 DEF HInv, Agree, Checked, At
<1>5. ASSUME NEW n, Accounted(n) PROVE Accounted(n)'
  BY <1>0, <1>1, <1>5 DEF Accounted, Awaits
<1>6. Accounted(version)'
  BY <1>0 DEF Accounted
<1>7. Known'
  BY <1>0, <1>1, <1>5, <1>6 DEF HInv, Agree, Known, At
<1> QED
  BY <1>2, <1>3, <1>4, <1>7 DEF Agree

(* What comes out of the repository was there before, or is the snapshot   *)
(* that t had in hand.                                                     *)
LEMMA AppendedIs ==
    ASSUME NEW r \in Seq(Revision), NEW e \in Revision, NEW i \in DOMAIN Append(r, e)
    PROVE  \/ i \in DOMAIN r /\ Append(r, e)[i] = r[i]
           \/ i = Len(r) + 1 /\ Append(r, e)[i] = e
BY AppendType

(* A commit that succeeds is the head, and accounts for what its snapshot  *)
(* did; after one that fails lastError says so.                            *)
LEMMA CommitAgrees ==
    ASSUME HInv, NEW t \in Thread, Commit(t)
    PROVE  Agree'
<1> DEFINE e == RevisionOf(t)
<1>0. /\ TypeOK /\ call \in [Thread -> CallState] /\ At(t, "commit")
      /\ revs \in Seq(Revision) /\ version \in Nat /\ e \in Revision
      /\ UNCHANGED <<conf, available, version, strayed>>
  BY RevisionType DEF HInv, IInv, TypeOK, Commit, store, ghosts
<1>1. e.at = call[t].at /\ e.values = call[t].values
  BY DEF RevisionOf
<1>2. \/ /\ revs' = Append(revs, e) /\ call' = [call EXCEPT ![t] = ReturnTo(t, TRUE)]
      \/ /\ revs' = revs \/ revs' = Append(revs, e)
         /\ lastError' = TRUE /\ call' = [call EXCEPT ![t] = ReturnTo(t, FALSE)]
  BY DEF Commit
<1>3. /\ ReturnTo(t, TRUE).pc \in {"apply", "sync", "idle"}
      /\ ReturnTo(t, TRUE).pc = "apply" => ReturnTo(t, TRUE).at = call[t].at
      /\ ReturnTo(t, FALSE).pc \in {"sync", "idle"}
  <2>1. call[t] \in CallState
    BY <1>0
  <2>2. /\ [call[t] EXCEPT !.pc = "apply"].pc = "apply"
        /\ [call[t] EXCEPT !.pc = "apply"].at = call[t].at
        /\ [call[t] EXCEPT !.pc = "sync"].pc = "sync"
        /\ Idle.pc = "idle"
    BY <2>1 DEF CallState, Idle
  <2> QED
    BY <2>2 DEF ReturnTo
<1>4. \A u \in Thread : u # t => call'[u] = call[u] /\ call[u].pc \notin {"snapshot", "commit"}
  BY <1>0, <1>2 DEF HInv, IInv, Exclusive, At
<1>5. call'[t].pc \in {"apply", "sync", "idle"}
  BY <1>0, <1>2, <1>3
<1>6. available /\ Refusal'
  BY <1>0 DEF HInv, Agree, Refusal
<1>7. revs' = revs \/ revs' = Append(revs, e)
  BY <1>2
<1> HIDE DEF e
<1>8. Same'
  <2>1. \A i \in DOMAIN revs : revs[i].at = version => revs[i].values = conf
    BY DEF HInv, Agree, Same
  <2>2. e.at = version => e.values = conf
    BY <1>0, <1>1 DEF HInv, Agree, Same
  <2>3. ASSUME NEW i \in DOMAIN revs', revs'[i].at = version PROVE revs'[i].values = conf
    <3>1. (i \in DOMAIN revs /\ revs'[i] = revs[i]) \/ revs'[i] = e
      BY <1>0, <1>7, AppendedIs
    <3> QED
      BY <2>1, <2>2, <2>3, <3>1
  <2>4. \A u \in Thread : call'[u].pc # "commit"
    BY <1>4, <1>5
  <2> QED
    BY <1>0, <2>3, <2>4 DEF Same, At
<1>9. Checked'
  <2>1. /\ DOMAIN revs \subseteq DOMAIN revs'
        /\ \A i \in DOMAIN revs : revs'[i] = revs[i]
    BY <1>0, <1>7, AppendType
  <2>2. ASSUME NEW u \in Thread, u # t, call'[u].pc = "apply"
        PROVE  \E i \in DOMAIN revs' : revs'[i].at = call'[u].at
    BY <1>4, <2>1, <2>2 DEF HInv, Agree, Checked, At
  <2>3. ASSUME call'[t].pc = "apply"
        PROVE  \E i \in DOMAIN revs' : revs'[i].at = call'[t].at
    <3>1. revs' = Append(revs, e) /\ call'[t] = ReturnTo(t, TRUE)
      BY <1>0, <1>2, <1>3, <2>3
    <3>2. call'[t].at = e.at
      BY <1>1, <1>3, <2>3, <3>1
    <3>3. Len(revs) + 1 \in DOMAIN revs' /\ revs'[Len(revs) + 1] = e
      BY <1>0, <3>1, AppendType
    <3> QED
      BY <3>2, <3>3
  <2> QED
    BY <2>2, <2>3 DEF Checked, At
<1>10. Known'
  <2>1. Accounted(call[t].at) /\ call[t].wrote <= call[t].at
    BY <1>0 DEF HInv, IInv, Ages, Agree, Known
  <2>2. \/ call[t].at >= version \/ strayed > call[t].at
        \/ \E u \in Thread : Awaits(u)'
    <3>1. ASSUME NEW u \in Thread, Awaits(u), u # t PROVE Awaits(u)'
      BY <1>0, <1>4, <3>1 DEF Awaits
    <3>2. ASSUME Awaits(t) PROVE call[t].at >= version
      BY <1>0, <2>1, <3>2 DEF Awaits
    <3> QED
      BY <2>1, <3>1, <3>2 DEF Accounted
  <2>3. ASSUME ~ lastError' PROVE Accounted(revs[Len(revs)].at)'
    <3>1. revs' = Append(revs, e)
      BY <1>2, <2>3
    <3>2. revs'[Len(revs')].at = call[t].at
      BY <1>0, <1>1, <3>1, AppendType
    <3> QED
      BY <1>0, <2>2, <3>2 DEF Accounted
  <2>4. \A u \in Thread : ~ At(u, "commit")'
    BY <1>4, <1>5 DEF At
  <2> QED
    BY <2>3, <2>4 DEF Known
<1> QED
  BY <1>6, <1>8, <1>9, <1>10 DEF Agree

(* After a restart no commit is of the version it made, but a first one    *)
(* of what is in the file.                                                 *)
LEMMA RestartAgrees ==
    ASSUME HInv, Restart
    PROVE  Agree'
<1> DEFINE first == [values |-> ini, at |-> version', key |-> NoKey]
           Old(r) == \A i \in DOMAIN r : r[i].at \in Nat /\ r[i].at <= version
<1>0. /\ TypeOK /\ revs \in Seq(Revision) /\ version \in Nat /\ strayed' = version'
      /\ version' = version + 1 /\ conf' = ini /\ ini \in Snapshot
  BY DEF HInv, IInv, TypeOK, Restart
<1>1. \A t \in Thread : call'[t].pc = "idle"
  BY DEF Restart, Idle
<1>2. PICK late \in {revs} \cup {Append(revs, RevisionOf(t)) : t \in {u \in Thread : At(u, "commit")}} :
          \/ revs' = late /\ (~ available' => lastError')
          \/ revs' = Append(late, first) /\ available'
  BY DEF Restart
<1>3. first \in Revision /\ first.at = version + 1 /\ first.values = conf'
  BY <1>0 DEF Revision
<1> HIDE DEF first
<1>4. late \in Seq(Revision) /\ Old(late)
  <2>1. Old(revs)
    BY AgeTypes DEF HInv, IInv, Ages
  <2>2. ASSUME NEW t \in Thread, At(t, "commit"), late = Append(revs, RevisionOf(t))
        PROVE  late \in Seq(Revision) /\ Old(late)
    <3>1. RevisionOf(t) \in Revision /\ RevisionOf(t).at = call[t].at
      BY <1>0, RevisionType DEF RevisionOf
    <3>2. call[t].at \in Nat /\ call[t].at <= version
      BY <2>2, AgeTypes DEF HInv, IInv, Ages
    <3>3. ASSUME NEW i \in DOMAIN late PROVE late[i] = RevisionOf(t) \/ (i \in DOMAIN revs /\ late[i] = revs[i])
      BY <1>0, <2>2, <3>1, AppendedIs
    <3>4. late \in Seq(Revision)
      BY <1>0, <2>2, <3>1, AppendType
    <3> QED
      BY <2>1, <3>1, <3>2, <3>3, <3>4
  <2> QED
    BY <1>0, <1>2, <2>1, <2>2
<1>5. ASSUME NEW i \in DOMAIN revs'
      PROVE  revs'[i].at \in Nat /\ (revs'[i].at <= version \/ revs'[i] = first)
  <2>1. CASE revs' = late
    BY <1>4, <2>1
  <2>2. CASE revs' = Append(late, first)
    <3>1. (i \in DOMAIN late /\ revs'[i] = late[i]) \/ revs'[i] = first
      BY <1>3, <1>4, <2>2, AppendedIs
    <3> QED
      BY <1>0, <1>3, <1>4, <3>1
  <2> QED
    BY <1>2, <2>1, <2>2
<1>6. Same'
  BY <1>0, <1>1, <1>3, <1>5 DEF Same, At
<1>7. Refusal'
  BY <1>1, <1>2, Zenon DEF Refusal, At
<1>8. Checked'
  BY <1>1 DEF Checked, At
<1>9. Known'
  <2>1. ASSUME revs' # << >> PROVE Len(revs') \in DOMAIN revs'
    <3>1. revs' \in Seq(Revision)
      BY <1>2, <1>3, <1>4, AppendType
    <3> QED
      BY <2>1, <3>1
  <2>2. ASSUME revs' # << >>
        PROVE  revs'[Len(revs')].at >= version' \/ strayed' > revs'[Len(revs')].at
    BY <1>0, <1>3, <1>5, <2>1, <2>2
  <2>3. \A t \in Thread : ~ At(t, "commit")'
    BY <1>1 DEF At
  <2> QED
    BY <2>2, <2>3 DEF Known, Accounted
<1> QED
  BY <1>6, <1>7, <1>8, <1>9 DEF Agree

-----------------------------------------------------------------------------
(* The invariant, and what follows from it                                 *)

LEMMA InitAgrees == Init => HInv
<1> SUFFICES ASSUME Init PROVE HInv
  OBVIOUS
<1>1. \A t \in Thread : call[t].pc = "idle"
  BY DEF Init, Idle
<1>2. version = 0 /\ conf = Empty
  BY DEF Init
<1>3. \A i \in DOMAIN revs : revs[i].at = 0 /\ revs[i].values = Empty
  <2>1. revs = <<[values |-> Empty, at |-> 0, key |-> NoKey]>> \/ revs = << >>
    BY DEF Init
  <2> QED
    BY <2>1
<1>4. Same
  BY <1>1, <1>2, <1>3 DEF Same, At
<1>5. Known
  <2>1. revs # << >> => Len(revs) \in DOMAIN revs
    BY InitIInv DEF IInv, TypeOK
  <2> QED
    BY <1>1, <1>2, <1>3, <2>1 DEF Known, Accounted, At
<1>6. Refusal
  BY <1>1 DEF Refusal, At, Init
<1>7. Checked
  BY <1>1 DEF Checked, At
<1> QED
  BY <1>4, <1>5, <1>6, <1>7, InitIInv DEF HInv, Agree

LEMMA NextAgrees == HInv /\ [Next]_vars => HInv'
<1> SUFFICES ASSUME HInv, [Next]_vars PROVE Agree'
  BY NextIInv DEF HInv
<1>1. ASSUME NEW t \in Thread, Step(t) PROVE Agree'
  BY <1>1, QuietEffect, QuietStep, SnapshotAgrees, CommitAgrees, ApplyEffect, FreshStep DEF Step
<1>2. ASSUME NEW t \in Thread,
             \/ \E k \in Key, v \in Setting : Change(t, k, v)
             \/ Checkpoint(t)
             \/ \E i \in entries : Restore(t, i)
      PROVE  Agree'
  BY <1>2, ChangeEffect, QuietEffect, QuietStep, FreshStep
<1>3. ASSUME UNCHANGED <<conf, git, call, ghosts>> PROVE Agree'
  BY <1>3, QuietStep DEF Quiet, git, ghosts
<1>4. ASSUME NEW r \in Reader, Insert(r) \/ \E k \in Key : Miss(r, k)
      PROVE  UNCHANGED <<conf, git, call, ghosts>>
  BY <1>4 DEF Insert, Miss, store
<1>5. Flush \/ UNCHANGED vars => UNCHANGED <<conf, git, call, ghosts>>
  BY DEF Flush, vars, git, ghosts
<1> QED
  BY <1>1, <1>2, <1>3, <1>4, <1>5, RestartAgrees DEF Next

LEMMA Agreed == Spec => []HInv
<1> QED
  BY InitAgrees, NextAgrees, PTL DEF Spec

(* When no call is under way and the latest one reported no failure, the   *)
(* newest commit holds the settings the program works with, unless they    *)
(* strayed since: LocalSettingsHistory records every change it reports.    *)
THEOREM HeadHoldsTheSettings == Spec => []HeadIsLive
<1>1. HInv => HeadIsLive
  <2> SUFFICES ASSUME HInv, \A t \in Thread : At(t, "idle"), ~ lastError, Len(revs) > 0,
                      revs[Len(revs)].at >= strayed
               PROVE  conf = revs[Len(revs)].values
    BY DEF HeadIsLive
  <2>1. /\ revs # << >> /\ Len(revs) \in DOMAIN revs
        /\ version \in Nat /\ strayed \in Nat /\ revs[Len(revs)].at \in Nat
    BY AgeTypes DEF HInv, IInv, TypeOK
  <2>2. \A t \in Thread : ~ Awaits(t)
    BY DEF Awaits, At
  <2>3. Accounted(revs[Len(revs)].at)
    BY <2>1 DEF HInv, Agree, Known
  <2>4. revs[Len(revs)].at >= version /\ revs[Len(revs)].at <= version
    BY <2>1, <2>2, <2>3 DEF Accounted, HInv, IInv, Ages
  <2> QED
    BY <2>1, <2>4 DEF HInv, Agree, Same
<1> QED
  BY <1>1, Agreed, PTL

(* What a restore overwrites is in the repository, but for changes that    *)
(* are made after its checkpoint and are still on their way, failed or     *)
(* strayed.                                                                *)
THEOREM RestoresCanBeUndone == Spec => Undoable
<1> DEFINE Kept == \A t \in Thread :
          At(t, "apply") /\ call'[t].pc # "apply" /\ calls' = calls =>
              \/ \E i \in DOMAIN revs : revs[i].values = conf
              \/ \E u \in Thread : call[u].wrote > call[t].at
              \/ lastError /\ version > call[t].at
              \/ strayed > call[t].at
<1>1. HInv => Kept
  <2> SUFFICES ASSUME HInv, NEW t \in Thread, At(t, "apply"),
                      ~ \E i \in DOMAIN revs : revs[i].values = conf
               PROVE  \/ \E u \in Thread : call[u].wrote > call[t].at
                      \/ lastError /\ version > call[t].at
                      \/ strayed > call[t].at
    OBVIOUS
  <2>0. /\ version \in Nat /\ strayed \in Nat /\ revs \in Seq(Revision)
        /\ call[t].at \in Nat /\ \A i \in DOMAIN revs : revs[i].at \in Nat
        /\ lastError \in BOOLEAN
    BY AgeTypes DEF HInv, IInv, TypeOK
  <2>1. PICK i \in DOMAIN revs : revs[i].at = call[t].at
    BY DEF HInv, Agree, Checked
  <2>2. \A j \in DOMAIN revs : revs[j].at < version
    <3>1. \A j \in DOMAIN revs : revs[j].at <= version /\ revs[j].at # version
      BY DEF HInv, IInv, Ages, Agree, Same
    <3> QED
      BY <2>0, <3>1
  <2>3. version > call[t].at
    BY <2>0, <2>1, <2>2
  <2>4. CASE ~ lastError
    <3>1. /\ revs # << >> /\ Len(revs) \in DOMAIN revs
          /\ i = Len(revs) \/ i < Len(revs)
      BY <2>0, <2>1
    <3>2. revs[Len(revs)].at >= call[t].at
      BY <2>0, <2>1, <3>1 DEF HInv, IInv, NewestLast
    <3>3. Accounted(revs[Len(revs)].at)
      BY <2>4, <3>1 DEF HInv, Agree, Known
    <3>4. strayed > revs[Len(revs)].at \/ \E u \in Thread : call[u].wrote = version
      BY <2>0, <2>2, <3>1, <3>3 DEF Accounted, Awaits
    <3> QED
      BY <2>0, <2>3, <3>1, <3>2, <3>4
  <2> QED
    BY <2>3, <2>4
<1>2. HInv /\ [Next]_vars => [Kept]_vars
  BY <1>1
<1> QED
  BY <1>2, Agreed, PTL DEF Spec, Undoable

-----------------------------------------------------------------------------
(* Rules and states                                                        *)

LEMMA RuleType ==
    ASSUME NEW rs \in RuleSet, NEW i \in Id, rs[i] # NoRule
    PROVE  rs[i] \in Rule /\ (rs[i].source = Local <=> rs[i].ref = NoRef)
BY ScheduleAssumption DEF RuleSet

LEMMA KeyType ==
    ASSUME NEW rs \in RuleSet, NEW i \in Id, External(rs[i])
    PROVE  KeyOf(rs, i) \in StateKey /\ rs[i].source \in Source
<1>1. rs[i] \in Rule /\ rs[i].ref # NoRef
  BY RuleType DEF External
<1> QED
  BY <1>1 DEF External, KeyOf, StateKey, Rule

LEMMA StoreType ==
    ASSUME NEW rs \in RuleSet, NEW i \in Id, NEW r \in Offered[i] \cup {NoRule}
    PROVE  [rs EXCEPT ![i] = r] \in RuleSet
BY DEF RuleSet

LEMMA RefreshedType ==
    ASSUME NEW ext \in [StateKey -> ExternalState], NEW ask, NEW found
    PROVE  Refreshed(ext, ask, found) \in [StateKey -> ExternalState]
<1>1. ASSUME NEW k \in StateKey
      PROVE  /\ ext[k] \in ExternalState
             /\ [ext[k] EXCEPT !.active = FALSE, !.inFlight = TRUE,
                               !.status = "refreshing"] \in ExternalState
             /\ [ext[k] EXCEPT !.active = FALSE, !.due = FALSE,
                               !.status = "missing"] \in ExternalState
  BY DEF ExternalState, ExternalStatus
<1> QED
  BY <1>1 DEF Refreshed

LEMMA RequestsType ==
    ASSUME NEW rs \in RuleSet, NEW ext, NEW ask \in SUBSET ToAsk(rs, ext, TRUE),
           NEW found, NEW asker \in Window \cup {NoWindow}
    PROVE  Requests(rs, ask, found, asker) \subseteq Reply
<1>1. ASSUME NEW k \in ask
      PROVE  [key |-> k, source |-> rs[k[1]].source, asker |-> asker] \in Reply
  <2>1. k \in StateKey /\ k[1] \in Id /\ External(rs[k[1]])
    BY DEF ToAsk, StateKey
  <2> QED
    BY <2>1, KeyType DEF Reply
<1> QED
  BY <1>1 DEF Requests

LEMMA AskedOnce ==
    ASSUME NEW rs, NEW ext
    PROVE  ToAsk(rs, ext, FALSE) \subseteq ToAsk(rs, ext, TRUE)
BY DEF ToAsk

LEMMA OverlayType ==
    ASSUME NEW r \in Rule, settings \in [RuleKey -> RuleValue]
    PROVE  Overlay(r) \in [RuleKey -> RuleValue]
BY DEF Overlay, Rule

LEMMA InForceType ==
    ASSUME NEW rs \in RuleSet, NEW ext, NEW i \in InForce(rs, ext)
    PROVE  i \in Id /\ i \in Effective(rs) /\ rs[i] # NoRule /\ rs[i] \in Rule
<1>1. i \in Effective(rs) /\ i \in Id /\ rs[i] # NoRule
  BY DEF InForce, Effective, Matching
<1> QED
  BY <1>1, RuleType

LEMMA RulesApplied ==
    ASSUME ScheduleTypeOK, NEW rs \in RuleSet,
           NEW ext \in [StateKey -> ExternalState], NEW rep \in SUBSET Reply,
           Apply(rs, ext, rep)
    PROVE  /\ external' \in [StateKey -> ExternalState]
           /\ replies' \in SUBSET Reply
           /\ settings' \in [RuleKey -> RuleValue]
           /\ moved' \in SUBSET StateKey
<1>1. PICK found \in SUBSET Ref, ask \in SUBSET ToAsk(rs, ext, TRUE) :
         /\ external' = Refreshed(ext, ask, found)
         /\ replies' = rep \cup Requests(rs, ask, found, NoWindow)
         /\ moved' = moved \ ask
         /\ settings' = IF InForce(rs, external') = {} THEN settings
                        ELSE Overlay(rs[CHOOSE i \in InForce(rs, external') : TRUE])
  BY AskedOnce DEF Apply
<1>2. external' \in [StateKey -> ExternalState] /\ replies' \in SUBSET Reply
  BY <1>1, RefreshedType, RequestsType
<1>3. settings' \in [RuleKey -> RuleValue]
  <2>1. CASE InForce(rs, external') = {}
    BY <1>1, <2>1 DEF ScheduleTypeOK
  <2>2. CASE InForce(rs, external') # {}
    <3>1. (CHOOSE i \in InForce(rs, external') : TRUE) \in InForce(rs, external')
      BY <2>2
    <3> QED
      BY <1>1, <2>2, <3>1, InForceType, OverlayType DEF ScheduleTypeOK
  <2> QED
    BY <2>1, <2>2
<1> QED
  BY <1>1, <1>2, <1>3 DEF ScheduleTypeOK

-----------------------------------------------------------------------------
(* Type correctness                                                        *)

LEMMA ScheduleStart == ScheduleInit => ScheduleTypeOK
<1> SUFFICES ASSUME ScheduleInit PROVE ScheduleTypeOK
  OBVIOUS
<1>1. Untouched \in ExternalState
  BY DEF Untouched, ExternalState, ExternalStatus
<1> QED
  BY <1>1 DEF ScheduleInit, ScheduleTypeOK

LEMMA FinishedType ==
    ASSUME ScheduleTypeOK, NEW reply \in replies, NEW outcome \in Outcome
    PROVE  [external EXCEPT ![reply.key] =
               [active |-> outcome = "active", inFlight |-> FALSE, due |-> FALSE,
                status |-> outcome]] \in [StateKey -> ExternalState]
<1>1. (outcome = "active") \in BOOLEAN
  OBVIOUS
<1>2. outcome \in ExternalStatus
  BY DEF Outcome, ExternalStatus
<1>3. [active |-> outcome = "active", inFlight |-> FALSE, due |-> FALSE,
       status |-> outcome] \in ExternalState
  BY <1>1, <1>2 DEF ExternalState
<1> QED
  BY <1>3 DEF ScheduleTypeOK

LEMMA ScheduleKeepsType == ScheduleTypeOK /\ [ScheduleNext]_scheduleVars => ScheduleTypeOK'
<1> SUFFICES ASSUME ScheduleTypeOK, [ScheduleNext]_scheduleVars PROVE ScheduleTypeOK'
  OBVIOUS
<1>0. /\ rules \in RuleSet /\ external \in [StateKey -> ExternalState]
      /\ replies \in SUBSET Reply
  BY DEF ScheduleTypeOK
<1>1. ASSUME NEW w \in Window, OpenWindow(w) \/ Timer(w) PROVE ScheduleTypeOK'
  <2>1. Apply(rules, external, replies)
    BY <1>1 DEF OpenWindow, Timer
  <2>2. /\ external' \in [StateKey -> ExternalState]
        /\ replies' \in SUBSET Reply
        /\ settings' \in [RuleKey -> RuleValue]
        /\ moved' \in SUBSET StateKey
    BY <1>0, <2>1, RulesApplied
  <2> QED
    BY <1>1, <2>2 DEF OpenWindow, Timer, ScheduleTypeOK
<1>2. ASSUME NEW w \in Window, NEW i \in Id, NEW r \in Offered[i] \cup {NoRule},
             Save(w, i, r)
      PROVE  ScheduleTypeOK'
  <2>1. rules' \in RuleSet /\ Apply(rules', external, replies)
    BY <1>0, <1>2, StoreType DEF Save
  <2>2. /\ external' \in [StateKey -> ExternalState]
        /\ replies' \in SUBSET Reply
        /\ settings' \in [RuleKey -> RuleValue]
        /\ moved' \in SUBSET StateKey
    BY <1>0, <2>1, RulesApplied
  <2> QED
    BY <1>2, <2>1, <2>2 DEF Save, ScheduleTypeOK
<1>3. ASSUME NEW w \in Window, RefreshButton(w) PROVE ScheduleTypeOK'
  <2>1. PICK found \in SUBSET Ref :
           /\ external' = Refreshed(external, ToAsk(rules, external, TRUE), found)
           /\ replies' = replies \cup Requests(rules, ToAsk(rules, external, TRUE), found, w)
           /\ moved' = moved \ ToAsk(rules, external, TRUE)
    BY <1>3 DEF RefreshButton
  <2>2. external' \in [StateKey -> ExternalState] /\ replies' \in SUBSET Reply
    BY <1>0, <2>1, RefreshedType, RequestsType
  <2> QED
    BY <1>3, <2>1, <2>2 DEF RefreshButton, ScheduleTypeOK
<1>4. ASSUME NEW i \in Id, NEW r \in Offered[i] \cup {NoRule}, StoreRules(i, r)
      PROVE  ScheduleTypeOK'
  <2>1. rules' \in RuleSet
    BY <1>0, <1>4, StoreType DEF StoreRules
  <2>2. moved' \in SUBSET StateKey
    <3>1. CASE ~ External(r)
      BY <1>4, <3>1 DEF StoreRules, ScheduleTypeOK
    <3>2. CASE External(r)
      <4>1. rules'[i] = r
        BY <1>0, <1>4 DEF StoreRules, RuleSet
      <4>2. <<i, r.ref>> \in StateKey
        BY <2>1, <3>2, <4>1, KeyType DEF KeyOf
      <4> QED
        BY <1>4, <4>2 DEF StoreRules, ScheduleTypeOK
    <3> QED
      BY <3>1, <3>2
  <2> QED
    BY <1>4, <2>1, <2>2 DEF StoreRules, ScheduleTypeOK
<1>5. ASSUME NEW reply \in replies, NEW outcome \in Outcome, Finish(reply, outcome)
      PROVE  ScheduleTypeOK'
  <2> DEFINE ext == [external EXCEPT ![reply.key] =
                       [active |-> outcome = "active", inFlight |-> FALSE,
                        due |-> FALSE, status |-> outcome]]
  <2>1. /\ Apply(rules, ext, replies \ {reply})
        /\ heard' = [heard EXCEPT ![reply.key] =
                       IF outcome = "active" THEN reply.source ELSE Local]
        /\ dangling' \in BOOLEAN
        /\ UNCHANGED <<rules, school, window, now>>
    BY <1>5 DEF Finish
  <2>2. ext \in [StateKey -> ExternalState]
    BY FinishedType
  <2>3. /\ external' \in [StateKey -> ExternalState]
        /\ replies' \in SUBSET Reply
        /\ settings' \in [RuleKey -> RuleValue]
        /\ moved' \in SUBSET StateKey
    <3> HIDE DEF ext
    <3> QED
      BY <1>0, <2>1, <2>2, RulesApplied
  <2>4. heard' \in [StateKey -> Source \cup {Local}]
    BY <1>0, <2>1 DEF ScheduleTypeOK, Reply
  <2> QED
    BY <2>1, <2>3, <2>4 DEF ScheduleTypeOK
<1>6. ASSUME NEW k \in StateKey, Expire(k) PROVE ScheduleTypeOK'
  <2>1. [external[k] EXCEPT !.due = TRUE] \in ExternalState
    BY <1>0 DEF ExternalState
  <2> QED
    BY <1>6, <2>1 DEF Expire, ScheduleTypeOK
<1>7. ASSUME NEW w \in Window,
             \/ CloseWindow(w) \/ SetSchool(w)
             \/ \E s \in RuleKey, v \in RuleValue : UserSets(w, s, v)
      PROVE  ScheduleTypeOK'
  BY <1>7 DEF CloseWindow, SetSchool, UserSets, ScheduleTypeOK
<1>8. CASE Tick
  <2>1. DayLength * Days \in Nat /\ DayLength * Days > 0
    BY ScheduleAssumption
  <2>2. now \in 0 .. DayLength * Days - 1
    BY DEF ScheduleTypeOK, Instant
  <2>3. (now + 1) % (DayLength * Days) \in 0 .. DayLength * Days - 1
    <3> DEFINE n == DayLength * Days
    <3> HIDE DEF n
    <3>1. n \in Nat /\ n > 0 /\ now \in 0 .. n - 1
      BY <2>1, <2>2 DEF n
    <3>2. (now + 1) % n \in 0 .. n - 1
      BY <3>1
    <3> QED
      BY <3>2 DEF n
  <2> QED
    BY <1>8, <2>3 DEF Tick, ScheduleTypeOK, Instant
<1>9. CASE UNCHANGED scheduleVars
  BY <1>9 DEF scheduleVars, ScheduleTypeOK
<1> QED
  BY <1>1, <1>2, <1>3, <1>4, <1>5, <1>6, <1>7, <1>8, <1>9
  DEF ScheduleNext, WindowStep, FinishAny

(* The rules, what is known of their sources, the requests and the settings *)
(* keep their types, whatever is clicked, answered or stored in any order   *)
(* (ScheduledSettings.cpp).                                                 *)
THEOREM ScheduleTypeCorrect == ScheduleSpec => []ScheduleTypeOK
BY ScheduleStart, ScheduleKeepsType, PTL DEF ScheduleSpec

-----------------------------------------------------------------------------
(* What is known of the sources                                            *)

(* Asking keeps what is known true: the answer that was there counts no    *)
(* longer, and the request goes to the rule's own source.                  *)
LEMMA AskTruthful ==
    ASSUME NEW rs \in RuleSet, NEW ext \in [StateKey -> ExternalState],
           NEW rep \in SUBSET Reply, NEW hd, NEW mv,
           Truthful(rs, ext, rep, hd, mv),
           NEW ask \in SUBSET ToAsk(rs, ext, TRUE), NEW found \in SUBSET Ref,
           NEW asker
    PROVE  Truthful(rs, Refreshed(ext, ask, found),
                    rep \cup Requests(rs, ask, found, asker), hd, mv \ ask)
<1> DEFINE ext1 == Refreshed(ext, ask, found)
           sent == Requests(rs, ask, found, asker)
<1>1. ASSUME NEW k \in ask
      PROVE  /\ k \in StateKey /\ k[1] \in Id /\ ~ ext[k].inFlight
             /\ External(rs[k[1]]) /\ KeyOf(rs, k[1]) = k
  BY DEF ToAsk, StateKey, KeyOf
<1>2. ASSUME NEW a \in sent
      PROVE  a.key \in ask /\ a.key[2] \in found /\ a.source = rs[a.key[1]].source
  BY DEF Requests
<1>3. ASSUME NEW a \in sent, NEW b \in sent, a.key = b.key PROVE a = b
  BY <1>3 DEF Requests
<1>4. ASSUME NEW k \in ask, k[2] \in found PROVE \E a \in sent : a.key = k
  <2>1. [key |-> k, source |-> rs[k[1]].source, asker |-> asker] \in sent
    BY <1>4 DEF Requests
  <2> QED
    BY <2>1
<1>5. ASSUME NEW k \in StateKey
      PROVE  /\ k \notin ask => ext1[k] = ext[k]
             /\ k \in ask /\ k[2] \in found =>
                  /\ ext1[k].inFlight /\ ~ ext1[k].active
                  /\ ext1[k].status = "refreshing"
             /\ k \in ask /\ k[2] \notin found =>
                  /\ ext1[k].inFlight = ext[k].inFlight /\ ~ ext1[k].active
                  /\ ext1[k].status = "missing"
  BY DEF Refreshed, ExternalState
<1> HIDE DEF ext1, sent
<1>6. ASSUME NEW k \in StateKey
      PROVE  /\ ext1[k].inFlight <=> \E a \in rep \cup sent : a.key = k
             /\ ext1[k].inFlight <=> ext1[k].status = "refreshing"
             /\ ext1[k].active <=> ext1[k].status = "active"
             /\ ext1[k].active => hd[k] # Local
  <2>1. CASE k \notin ask
    <3>1. \A a \in sent : a.key # k
      BY <1>2, <2>1
    <3> QED
      BY <1>5, <2>1, <3>1 DEF Truthful
  <2>2. CASE k \in ask /\ k[2] \in found
    BY <1>4, <1>5, <2>2
  <2>3. CASE k \in ask /\ k[2] \notin found
    <3>1. \A a \in sent : a.key # k
      BY <1>2, <2>3
    <3>2. ~ ext[k].inFlight
      BY <1>1, <2>3
    <3> QED
      BY <1>5, <2>3, <3>1, <3>2 DEF Truthful
  <2> QED
    BY <2>1, <2>2, <2>3
<1>7. ASSUME NEW a \in rep \cup sent, NEW b \in rep \cup sent, a.key = b.key
      PROVE  a = b
  <2>1. \A c \in rep : c.key \notin ask
    BY <1>1 DEF Truthful, Reply
  <2> QED
    BY <1>2, <1>3, <1>7, <2>1 DEF Truthful
<1>8. ASSUME NEW i \in Id, External(rs[i]), KeyOf(rs, i) \notin mv \ ask
      PROVE  /\ ext1[KeyOf(rs, i)].active => hd[KeyOf(rs, i)] = rs[i].source
             /\ \A a \in rep \cup sent :
                  a.key = KeyOf(rs, i) => a.source = rs[i].source
  <2> DEFINE k == KeyOf(rs, i)
  <2>1. k \in StateKey /\ k[1] = i
    BY <1>8, KeyType DEF KeyOf
  <2>2. CASE k \in ask
    <3>1. \A a \in rep : a.key # k
      BY <1>1, <2>1, <2>2 DEF Truthful
    <3>2. ~ ext1[k].active
      BY <1>5, <2>1, <2>2
    <3> QED
      BY <1>2, <2>1, <3>1, <3>2
  <2>3. CASE k \notin ask
    <3>1. k \notin mv
      BY <1>8, <2>3
    <3>2. ext1[k] = ext[k]
      BY <1>5, <2>1, <2>3
    <3>3. \A a \in sent : a.key # k
      BY <1>2, <2>3
    <3> QED
      BY <1>8, <3>1, <3>2, <3>3 DEF Truthful
  <2> QED
    BY <2>2, <2>3
<1> QED
  BY <1>6, <1>7, <1>8 DEF Truthful, ext1, sent

LEMMA ApplyTruthful ==
    ASSUME NEW rs \in RuleSet, NEW ext \in [StateKey -> ExternalState],
           NEW rep \in SUBSET Reply, NEW hd,
           Truthful(rs, ext, rep, hd, moved), Apply(rs, ext, rep)
    PROVE  Truthful(rs, external', replies', hd, moved')
<1>1. PICK found \in SUBSET Ref, ask \in SUBSET ToAsk(rs, ext, TRUE) :
         /\ external' = Refreshed(ext, ask, found)
         /\ replies' = rep \cup Requests(rs, ask, found, NoWindow)
         /\ moved' = moved \ ask
  BY AskedOnce DEF Apply
<1> QED
  BY <1>1, AskTruthful

(* An answer counts for the source that was asked.                         *)
LEMMA FinishTruthful ==
    ASSUME ScheduleTypeOK, LastAnswerDecides,
           NEW reply \in replies, NEW outcome \in Outcome
    PROVE  Truthful(rules,
               [external EXCEPT ![reply.key] =
                   [active |-> outcome = "active", inFlight |-> FALSE,
                    due |-> FALSE, status |-> outcome]],
               replies \ {reply},
               [heard EXCEPT ![reply.key] =
                   IF outcome = "active" THEN reply.source ELSE Local],
               moved)
<1> DEFINE ext == [external EXCEPT ![reply.key] =
                     [active |-> outcome = "active", inFlight |-> FALSE,
                      due |-> FALSE, status |-> outcome]]
           hd == [heard EXCEPT ![reply.key] =
                    IF outcome = "active" THEN reply.source ELSE Local]
<1>1. /\ reply.key \in StateKey /\ reply.source \in Source /\ reply.source # Local
      /\ external \in [StateKey -> ExternalState]
      /\ heard \in [StateKey -> Source \cup {Local}]
  BY ScheduleAssumption DEF ScheduleTypeOK, Reply
<1>2. /\ Truthful(rules, external, replies, heard, moved)
      /\ outcome \in {"active", "off", "failed"}
  BY DEF LastAnswerDecides, Outcome
<1>3. ASSUME NEW k \in StateKey, k # reply.key
      PROVE  ext[k] = external[k] /\ hd[k] = heard[k]
  BY <1>1, <1>3
<1>4. /\ ~ ext[reply.key].inFlight
      /\ ext[reply.key].status = outcome
      /\ ext[reply.key].active <=> outcome = "active"
      /\ hd[reply.key] = IF outcome = "active" THEN reply.source ELSE Local
  BY <1>1
<1> HIDE DEF ext, hd
<1>5. \A a \in replies \ {reply} : a.key # reply.key
  BY <1>2 DEF Truthful
<1>6. ASSUME NEW k \in StateKey
      PROVE  /\ ext[k].inFlight <=> \E a \in replies \ {reply} : a.key = k
             /\ ext[k].inFlight <=> ext[k].status = "refreshing"
             /\ ext[k].active <=> ext[k].status = "active"
             /\ ext[k].active => hd[k] # Local
  <2>1. CASE k = reply.key
    BY <1>1, <1>2, <1>4, <1>5, <2>1
  <2>2. CASE k # reply.key
    BY <1>2, <1>3, <2>2 DEF Truthful
  <2> QED
    BY <2>1, <2>2
<1>7. \A a, b \in replies \ {reply} : a.key = b.key => a = b
  BY <1>2 DEF Truthful
<1>8. ASSUME NEW i \in Id, External(rules[i]), KeyOf(rules, i) \notin moved
      PROVE  /\ ext[KeyOf(rules, i)].active => hd[KeyOf(rules, i)] = rules[i].source
             /\ \A a \in replies \ {reply} :
                  a.key = KeyOf(rules, i) => a.source = rules[i].source
  <2>1. KeyOf(rules, i) \in StateKey
    BY <1>8, KeyType DEF ScheduleTypeOK
  <2>2. \A a \in replies : a.key = KeyOf(rules, i) => a.source = rules[i].source
    BY <1>2, <1>8 DEF Truthful
  <2>3. CASE KeyOf(rules, i) = reply.key
    BY <1>4, <2>2, <2>3
  <2>4. CASE KeyOf(rules, i) # reply.key
    BY <1>2, <1>3, <1>8, <2>1, <2>2, <2>4 DEF Truthful
  <2> QED
    BY <2>2, <2>3, <2>4
<1> QED
  BY <1>6, <1>7, <1>8 DEF Truthful, ext, hd

(* Other rules: a key keeps its source, or is counted among the moved.     *)
LEMMA StoreTruthful ==
    ASSUME ScheduleTypeOK, LastAnswerDecides,
           NEW i \in Id, NEW r \in Offered[i] \cup {NoRule}, NEW mv,
           moved \subseteq mv,
           \/ ~ External(r)
           \/ <<i, r.ref>> \in mv
           \/ /\ External(rules[i])
              /\ r.source = rules[i].source /\ r.ref = rules[i].ref
    PROVE  Truthful([rules EXCEPT ![i] = r], external, replies, heard, mv)
<1> DEFINE rs == [rules EXCEPT ![i] = r]
<1>1. rs[i] = r /\ \A j \in Id \ {i} : rs[j] = rules[j]
  BY DEF ScheduleTypeOK, RuleSet
<1>2. Truthful(rules, external, replies, heard, moved)
  BY DEF LastAnswerDecides
<1> HIDE DEF rs
<1>3. ASSUME NEW j \in Id, External(rs[j]), KeyOf(rs, j) \notin mv
      PROVE  /\ external[KeyOf(rs, j)].active => heard[KeyOf(rs, j)] = rs[j].source
             /\ \A a \in replies : a.key = KeyOf(rs, j) => a.source = rs[j].source
  <2>1. /\ External(rules[j]) /\ rs[j].source = rules[j].source
        /\ KeyOf(rs, j) = KeyOf(rules, j)
    <3>1. CASE j = i
      BY <1>1, <1>3, <3>1 DEF KeyOf
    <3>2. CASE j # i
      BY <1>1, <1>3, <3>2 DEF KeyOf
    <3> QED
      BY <3>1, <3>2
  <2>2. KeyOf(rules, j) \notin moved
    BY <1>3, <2>1
  <2> QED
    BY <1>2, <2>1, <2>2 DEF Truthful
<1> QED
  BY <1>2, <1>3 DEF Truthful, rs

LEMMA InitTruthful == ScheduleInit => LastAnswerDecides
<1> SUFFICES ASSUME ScheduleInit PROVE LastAnswerDecides
  OBVIOUS
<1>1. \A k \in StateKey : external[k] = Untouched
  BY DEF ScheduleInit
<1>2. \A i \in Id : External(rules[i]) => KeyOf(rules, i) \in StateKey
  BY KeyType DEF ScheduleInit
<1> QED
  BY <1>1, <1>2 DEF ScheduleInit, LastAnswerDecides, Truthful, Untouched

LEMMA NextTruthful ==
    ScheduleTypeOK /\ LastAnswerDecides /\ [ScheduleNext]_scheduleVars => LastAnswerDecides'
<1> SUFFICES ASSUME ScheduleTypeOK, LastAnswerDecides, [ScheduleNext]_scheduleVars
             PROVE  Truthful(rules', external', replies', heard', moved')
  BY DEF LastAnswerDecides
<1>0. /\ rules \in RuleSet /\ external \in [StateKey -> ExternalState]
      /\ replies \in SUBSET Reply
      /\ Truthful(rules, external, replies, heard, moved)
  BY DEF ScheduleTypeOK, LastAnswerDecides
<1>1. ASSUME NEW w \in Window, OpenWindow(w) \/ Timer(w)
      PROVE  Truthful(rules', external', replies', heard', moved')
  <2>1. Apply(rules, external, replies) /\ UNCHANGED <<rules, heard>>
    BY <1>1 DEF OpenWindow, Timer
  <2>2. Truthful(rules, external', replies', heard, moved')
    BY <1>0, <2>1, ApplyTruthful
  <2> QED
    BY <2>1, <2>2
<1>2. ASSUME NEW w \in Window, NEW i \in Id, NEW r \in Offered[i] \cup {NoRule},
             Save(w, i, r)
      PROVE  Truthful(rules', external', replies', heard', moved')
  <2>1. /\ rules' = [rules EXCEPT ![i] = r] /\ rules' \in RuleSet
        /\ Apply(rules', external, replies) /\ heard' = heard
    BY <1>0, <1>2, StoreType DEF Save
  <2>2. \/ ~ External(r)
        \/ /\ External(rules[i])
           /\ r.source = rules[i].source /\ r.ref = rules[i].ref
    BY <1>2 DEF Save, External
  <2>3. Truthful([rules EXCEPT ![i] = r], external, replies, heard, moved)
    BY <2>2, StoreTruthful
  <2>4. Truthful(rules', external, replies, heard, moved)
    BY <2>1, <2>3
  <2>5. Truthful(rules', external', replies', heard, moved')
    BY <1>0, <2>1, <2>4, ApplyTruthful
  <2> QED
    BY <2>1, <2>5
<1>3. ASSUME NEW w \in Window, RefreshButton(w)
      PROVE  Truthful(rules', external', replies', heard', moved')
  <2>1. PICK found \in SUBSET Ref :
           /\ external' = Refreshed(external, ToAsk(rules, external, TRUE), found)
           /\ replies' = replies \cup Requests(rules, ToAsk(rules, external, TRUE), found, w)
           /\ moved' = moved \ ToAsk(rules, external, TRUE)
           /\ UNCHANGED <<rules, heard>>
    BY <1>3 DEF RefreshButton
  <2>2. Truthful(rules, external', replies', heard, moved')
    BY <1>0, <2>1, AskTruthful
  <2> QED
    BY <2>1, <2>2
<1>4. ASSUME NEW i \in Id, NEW r \in Offered[i] \cup {NoRule}, StoreRules(i, r)
      PROVE  Truthful(rules', external', replies', heard', moved')
  <2>1. /\ moved \subseteq moved'
        /\ \/ ~ External(r)
           \/ <<i, r.ref>> \in moved'
           \/ /\ External(rules[i])
              /\ r.source = rules[i].source /\ r.ref = rules[i].ref
    BY <1>4 DEF StoreRules
  <2>2. Truthful([rules EXCEPT ![i] = r], external, replies, heard, moved')
    BY <2>1, StoreTruthful
  <2> QED
    BY <1>4, <2>2 DEF StoreRules
<1>5. ASSUME NEW reply \in replies, NEW outcome \in Outcome, Finish(reply, outcome)
      PROVE  Truthful(rules', external', replies', heard', moved')
  <2> DEFINE ext == [external EXCEPT ![reply.key] =
                       [active |-> outcome = "active", inFlight |-> FALSE,
                        due |-> FALSE, status |-> outcome]]
  <2>1. /\ Apply(rules, ext, replies \ {reply})
        /\ heard' = [heard EXCEPT ![reply.key] =
                       IF outcome = "active" THEN reply.source ELSE Local]
        /\ rules' = rules
    BY <1>5 DEF Finish
  <2>2. ext \in [StateKey -> ExternalState]
    BY FinishedType
  <2>3. Truthful(rules, ext, replies \ {reply}, heard', moved)
    BY <2>1, FinishTruthful
  <2> HIDE DEF ext
  <2>4. Truthful(rules, external', replies', heard', moved')
    BY <1>0, <2>1, <2>2, <2>3, ApplyTruthful
  <2> QED
    BY <2>1, <2>4
<1>6. ASSUME NEW k \in StateKey, Expire(k)
      PROVE  Truthful(rules', external', replies', heard', moved')
  <2>1. UNCHANGED <<rules, replies, heard, moved>>
    BY <1>6 DEF Expire
  <2>2. \A q \in StateKey : /\ external'[q].inFlight = external[q].inFlight
                            /\ external'[q].active = external[q].active
                            /\ external'[q].status = external[q].status
    BY <1>0, <1>6 DEF Expire, ExternalState
  <2>3. \A i \in Id : External(rules[i]) => KeyOf(rules, i) \in StateKey
    BY <1>0, KeyType
  <2> QED
    BY <1>0, <2>1, <2>2, <2>3 DEF Truthful
<1>7. CASE UNCHANGED <<rules, external, replies, heard, moved>>
  BY <1>0, <1>7
<1>8. ASSUME NEW w \in Window,
             \/ CloseWindow(w) \/ SetSchool(w)
             \/ \E s \in RuleKey, v \in RuleValue : UserSets(w, s, v)
      PROVE  UNCHANGED <<rules, external, replies, heard, moved>>
  BY <1>8 DEF CloseWindow, SetSchool, UserSets
<1>9. Tick \/ UNCHANGED scheduleVars => UNCHANGED <<rules, external, replies, heard, moved>>
  BY DEF Tick, scheduleVars
<1> QED
  BY <1>1, <1>2, <1>3, <1>4, <1>5, <1>6, <1>7, <1>8, <1>9
  DEF ScheduleNext, WindowStep, FinishAny

(* For every set of rules and windows, in every order of clicks, timers,   *)
(* answers and stored rules: at most one request is out per key, the state *)
(* that decides for a key is active only if the last answer to it was "on" *)
(* and no request has followed, and that answer is of the rule's own       *)
(* source unless another one was stored under the key                      *)
(* (refreshExternalSources, apply).                                        *)
THEOREM AnswersDecide == ScheduleSpec => []LastAnswerDecides
<1>1. ScheduleInit => ScheduleTypeOK /\ LastAnswerDecides
  BY ScheduleStart, InitTruthful
<1>2. ScheduleTypeOK /\ LastAnswerDecides /\ [ScheduleNext]_scheduleVars
         => ScheduleTypeOK' /\ LastAnswerDecides'
  BY ScheduleKeepsType, NextTruthful
<1> QED
  BY <1>1, <1>2, PTL DEF ScheduleSpec

-----------------------------------------------------------------------------
(* What changes a setting                                                  *)

LEMMA ApplyWrites ==
    ASSUME ScheduleTypeOK, NEW rs \in RuleSet,
           NEW ext, NEW rep, Apply(rs, ext, rep),
           NEW s \in RuleKey, settings'[s] # settings[s]
    PROVE  \E i \in Id :
              /\ i \in Effective(rs) /\ rs[i].values[s] = settings'[s]
              /\ s = Language => ~ school
              /\ External(rs[i]) => external'[KeyOf(rs, i)].active
<1>1. settings' = IF InForce(rs, external') = {} THEN settings
                  ELSE Overlay(rs[CHOOSE i \in InForce(rs, external') : TRUE])
  BY DEF Apply
<1>2. PICK i \in InForce(rs, external') : settings' = Overlay(rs[i])
  BY <1>1
<1>3. i \in Id /\ i \in Effective(rs)
  BY InForceType
<1>4. settings'[s] = IF rs[i].values[s] = Unset \/ (s = Language /\ school)
                     THEN settings[s] ELSE rs[i].values[s]
  BY <1>2 DEF Overlay
<1> QED
  BY <1>2, <1>3, <1>4 DEF InForce

LEMMA EffectiveOutranks ==
    ASSUME NEW rs, NEW i \in Effective(rs)
    PROVE  /\ i \in Id /\ rs[i] # NoRule /\ Matches(rs[i], now)
           /\ \A j \in Id \ {i} :
                 rs[j] # NoRule /\ Matches(rs[j], now) => Precedes(rs, i, j)
BY DEF Effective, Matching

(* In every run only the user changes a setting, or the highest matching   *)
(* rule; the language never in School mode; an external rule only after    *)
(* "on" was the last answer heard for its key and nothing was asked since  *)
(* (apply, effectiveRule).                                                 *)
THEOREM OnlyGatedRules == ScheduleSpec => Gated
<1> DEFINE Ruled(s) ==
       \E i \in Id :
          /\ rules'[i] # NoRule /\ Matches(rules'[i], now)
          /\ \A j \in Id \ {i} :
                rules'[j] # NoRule /\ Matches(rules'[j], now)
                    => Precedes(rules', i, j)
          /\ rules'[i].values[s] = settings'[s]
          /\ s = Language => ~ school
          /\ External(rules'[i]) =>
                LET k == KeyOf(rules', i)
                IN  /\ heard'[k] # Local
                    /\ heard'[k] = rules'[i].source \/ k \in moved'
                    /\ \A a \in replies' : a.key # k
<1>1. ASSUME ScheduleTypeOK, LastAnswerDecides', rules' \in RuleSet,
             NEW ext, NEW rep, Apply(rules', ext, rep),
             NEW s \in RuleKey, settings'[s] # settings[s]
      PROVE  Ruled(s)
  <2>1. PICK i \in Id :
           /\ i \in Effective(rules') /\ rules'[i].values[s] = settings'[s]
           /\ s = Language => ~ school
           /\ External(rules'[i]) => external'[KeyOf(rules', i)].active
    BY <1>1, ApplyWrites
  <2>2. /\ rules'[i] # NoRule /\ Matches(rules'[i], now)
        /\ \A j \in Id \ {i} :
              rules'[j] # NoRule /\ Matches(rules'[j], now) => Precedes(rules', i, j)
    BY <2>1, EffectiveOutranks
  <2>3. ASSUME External(rules'[i])
        PROVE  /\ heard'[KeyOf(rules', i)] # Local
               /\ heard'[KeyOf(rules', i)] = rules'[i].source
                     \/ KeyOf(rules', i) \in moved'
               /\ \A a \in replies' : a.key # KeyOf(rules', i)
    <3>1. KeyOf(rules', i) \in StateKey
      BY <1>1, <2>3, KeyType
    <3>2. Truthful(rules', external', replies', heard', moved')
      BY <1>1 DEF LastAnswerDecides
    <3>3. external'[KeyOf(rules', i)].active
      BY <2>1, <2>3
    <3>4. /\ external'[KeyOf(rules', i)].status = "active"
          /\ ~ external'[KeyOf(rules', i)].inFlight
      BY <3>1, <3>2, <3>3 DEF Truthful
    <3> QED
      BY <2>3, <3>1, <3>2, <3>3, <3>4 DEF Truthful
  <2> QED
    BY <2>1, <2>2, <2>3
<1>2. ASSUME ScheduleTypeOK, LastAnswerDecides', [ScheduleNext]_scheduleVars,
             NEW s \in RuleKey, settings'[s] # settings[s]
      PROVE  (\E w \in Window : UserSets(w, s, settings'[s])) \/ Ruled(s)
  <2>0. rules \in RuleSet
    BY <1>2 DEF ScheduleTypeOK
  <2>1. ASSUME NEW w \in Window, OpenWindow(w) \/ Timer(w) PROVE Ruled(s)
    <3>1. rules' = rules /\ Apply(rules', external, replies)
      BY <2>1 DEF OpenWindow, Timer
    <3> QED
      BY <1>1, <1>2, <2>0, <3>1
  <2>2. ASSUME NEW w \in Window, NEW i \in Id, NEW r \in Offered[i] \cup {NoRule},
               Save(w, i, r)
        PROVE  Ruled(s)
    <3>1. rules' \in RuleSet /\ Apply(rules', external, replies)
      BY <2>0, <2>2, StoreType DEF Save
    <3> QED
      BY <1>1, <1>2, <3>1
  <2>3. ASSUME NEW reply \in replies, NEW outcome \in Outcome, Finish(reply, outcome)
        PROVE  Ruled(s)
    <3>1. rules' = rules /\ \E ext, rep : Apply(rules', ext, rep)
      BY <2>3 DEF Finish
    <3> QED
      BY <1>1, <1>2, <2>0, <3>1
  <2>4. ASSUME NEW w \in Window, NEW t \in RuleKey, NEW v \in RuleValue, UserSets(w, t, v)
        PROVE  \E u \in Window : UserSets(u, s, settings'[s])
    <3>1. t = s /\ v = settings'[s]
      BY <1>2, <2>4 DEF UserSets, ScheduleTypeOK
    <3> QED
      BY <2>4, <3>1
  <2>5. /\ \A w \in Window : ~ CloseWindow(w) /\ ~ SetSchool(w) /\ ~ RefreshButton(w)
        /\ \A i \in Id : \A r \in Offered[i] \cup {NoRule} : ~ StoreRules(i, r)
        /\ \A k \in StateKey : ~ Expire(k)
        /\ ~ Tick /\ ~ UNCHANGED scheduleVars
    <3>1. settings' # settings
      BY <1>2
    <3> QED
      BY <3>1 DEF CloseWindow, SetSchool, RefreshButton, StoreRules, Expire, Tick, scheduleVars
  <2> HIDE DEF Ruled
  <2>6. ASSUME NEW w \in Window, WindowStep(w)
        PROVE  (\E u \in Window : UserSets(u, s, settings'[s])) \/ Ruled(s)
    <3>1. ~ (CloseWindow(w) \/ SetSchool(w) \/ RefreshButton(w))
      BY <2>5
    <3>2. CASE OpenWindow(w) \/ Timer(w)
      BY <2>1, <3>2
    <3>3. CASE \E i \in Id : \E r \in Offered[i] \cup {NoRule} : Save(w, i, r)
      BY <2>2, <3>3
    <3>4. CASE \E t \in RuleKey, v \in RuleValue : UserSets(w, t, v)
      BY <2>4, <3>4
    <3> QED
      BY <2>6, <3>1, <3>2, <3>3, <3>4 DEF WindowStep
  <2>7. ASSUME NEW k \in StateKey, FinishAny(k) PROVE Ruled(s)
    BY <2>3, <2>7 DEF FinishAny
  <2>8. \/ \E w \in Window : WindowStep(w)
        \/ \E i \in Id : \E r \in Offered[i] \cup {NoRule} : StoreRules(i, r)
        \/ \E k \in StateKey : FinishAny(k) \/ Expire(k)
        \/ Tick \/ UNCHANGED scheduleVars
    BY <1>2 DEF ScheduleNext
  <2>9. \/ \E w \in Window : WindowStep(w)
        \/ \E k \in StateKey : FinishAny(k)
    BY <2>5, <2>8
  <2> QED
    BY <2>6, <2>7, <2>9
<1>3. ScheduleTypeOK /\ LastAnswerDecides' /\ [ScheduleNext]_scheduleVars =>
        [ \A s \in RuleKey : settings'[s] # settings[s] =>
            \/ \E w \in Window : UserSets(w, s, settings'[s])
            \/ Ruled(s) ]_scheduleVars
  BY <1>2
<1> QED
  BY <1>3, ScheduleTypeCorrect, AnswersDecide, PTL DEF ScheduleSpec, Gated

-----------------------------------------------------------------------------
(* The clock                                                               *)

(* Instants of a later day come later.                                     *)
LEMMA LaterDay ==
    ASSUME NEW n \in Nat, NEW a \in Int, NEW b \in Int, a < b
    PROVE  a * n + n <= b * n
<1>1. (b - a - 1) \in Nat
  OBVIOUS
<1>2. (b - a - 1) * n >= 0
  BY <1>1
<1>3. (b - a - 1) * n = b * n - a * n - n
  OBVIOUS
<1>4. a * n \in Int /\ b * n \in Int
  OBVIOUS
<1> QED
  BY <1>2, <1>3, <1>4

(* An instant is known by its day and its hour.                            *)
LEMMA DayAndHour ==
    ASSUME NEW t \in Instant
    PROVE  /\ Day(t) \in 0 .. Days - 1 /\ Hour(t) \in 0 .. DayLength - 1
           /\ t = Day(t) * DayLength + Hour(t)
           /\ t \in Int
<1>1. DayLength \in Nat /\ DayLength > 0 /\ Days \in Nat /\ Days > 0
  BY ScheduleAssumption
<1>2. t \in Int /\ 0 <= t /\ t < Days * DayLength
  BY <1>1 DEF Instant
<1>3. /\ Day(t) \in Int /\ Hour(t) \in 0 .. DayLength - 1
      /\ t = Day(t) * DayLength + Hour(t)
  BY <1>1, <1>2 DEF Day, Hour
<1>4. Day(t) >= 0
  <2>1. CASE Day(t) < 0
    <3>1. Day(t) * DayLength + DayLength <= 0 * DayLength
      BY <1>1, <1>3, <2>1, LaterDay
    <3> QED
      BY <1>1, <1>2, <1>3, <3>1
  <2> QED
    BY <1>3, <2>1
<1>5. Day(t) < Days
  <2>1. CASE Day(t) >= Days
    <3>1. CASE Day(t) = Days
      BY <1>1, <1>2, <1>3, <3>1
    <3>2. CASE Days < Day(t)
      <4>1. Days * DayLength + DayLength <= Day(t) * DayLength
        BY <1>1, <1>3, <3>2, LaterDay
      <4>2. Days * DayLength \in Int /\ Day(t) * DayLength \in Int
        BY <1>1, <1>3
      <4> QED
        BY <1>1, <1>2, <1>3, <4>1, <4>2
    <3> QED
      BY <1>1, <1>3, <2>1, <3>1, <3>2
  <2> QED
    BY <1>1, <1>3, <2>1
<1> QED
  BY <1>1, <1>2, <1>3, <1>4, <1>5

LEMMA OneDay ==
    ASSUME NEW a \in Int, NEW b \in Int, NEW g \in 0 .. DayLength - 1,
           NEW h \in 0 .. DayLength - 1,
           a * DayLength + g = b * DayLength + h
    PROVE  a = b /\ g = h
<1>1. DayLength \in Nat /\ DayLength > 0
  BY ScheduleAssumption
<1>2. a * DayLength \in Int /\ b * DayLength \in Int
  BY <1>1
<1>3. ~ (a < b)
  BY <1>1, <1>2, LaterDay
<1>4. ~ (b < a)
  BY <1>1, <1>2, LaterDay
<1> QED
  BY <1>1, <1>2, <1>3, <1>4

(* The calendar starts anew behind its last day.                           *)
LEMMA Anew ==
    ASSUME NEW n \in Nat \ {0}, NEW u \in 0 .. 2 * n - 1
    PROVE  u % n = IF u < n THEN u ELSE u - n
<1>1. CASE u < n
  BY <1>1
<1>2. CASE u >= n
  BY <1>2
<1> QED
  BY <1>1, <1>2

(* The window of a day on which a rule of that day holds.                  *)
LEMMA DayWindow ==
    ASSUME NEW r \in Rule, NEW d \in r.days, NEW t \in Instant, r.start <= r.end
    PROVE  t \in WindowOf(r, d) <=>
               Day(t) = d /\ Hour(t) >= r.start /\ Hour(t) <= r.end
<1>1. /\ DayLength \in Nat /\ DayLength > 0 /\ Days \in Nat /\ Days > 0
      /\ r.start \in 0 .. DayLength - 1 /\ r.end \in 0 .. DayLength - 1
      /\ d \in 0 .. Days - 1
  BY ScheduleAssumption DEF Rule
<1> DEFINE n == DayLength * Days
           first == d * DayLength
<1>2. n \in Nat \ {0} /\ first \in Nat /\ first + DayLength <= n
  <2>1. d * DayLength + DayLength <= Days * DayLength
    BY <1>1, LaterDay
  <2>2. d * DayLength >= 0 /\ d * DayLength \in Int /\ Days * DayLength = n
    BY <1>1
  <2> QED
    BY <1>1, <2>1, <2>2
<1>3. /\ Day(t) \in 0 .. Days - 1 /\ Hour(t) \in 0 .. DayLength - 1
      /\ t = Day(t) * DayLength + Hour(t) /\ t \in Int
  BY DayAndHour
<1>4. WindowOf(r, d) = {u % n : u \in first + r.start .. first + r.end}
  <2>1. ~ (r.start > r.end)
    BY <1>1
  <2>2. first + r.end + 0 = first + r.end
    BY <1>1, <1>2
  <2> QED
    BY <2>1, <2>2 DEF WindowOf
<1>5. \A u \in first + r.start .. first + r.end : u % n = u
  <2> HIDE DEF n, first
  <2>1. \A u \in first + r.start .. first + r.end : u \in 0 .. 2 * n - 1 /\ u < n
    BY <1>1, <1>2
  <2> QED
    BY <1>2, <2>1, Anew
<1>6. t \in WindowOf(r, d) <=> t \in first + r.start .. first + r.end
  <2> HIDE DEF n, first
  <2> QED
    BY <1>4, <1>5
<1>7. ASSUME t \in first + r.start .. first + r.end
      PROVE  Day(t) = d /\ Hour(t) >= r.start /\ Hour(t) <= r.end
  <2>1. t - first \in 0 .. DayLength - 1 /\ t = first + (t - first)
    BY <1>1, <1>2, <1>3, <1>7
  <2>2. Day(t) = d /\ Hour(t) = t - first
    BY <1>1, <1>3, <2>1, OneDay
  <2> QED
    BY <1>1, <1>2, <1>3, <1>7, <2>2
<1>8. ASSUME Day(t) = d, Hour(t) >= r.start, Hour(t) <= r.end
      PROVE  t \in first + r.start .. first + r.end
  <2>1. t = first + Hour(t)
    BY <1>3, <1>8
  <2> HIDE DEF first
  <2> QED
    BY <1>1, <1>2, <1>3, <1>8, <2>1
<1> QED
  BY <1>6, <1>7, <1>8

DayBefore(t) == (Day(t) - 1) % Days

(* The window of a rule that runs past midnight: the rest of its day, and  *)
(* the beginning of the one after it, which may be the first of all.       *)
LEMMA NightWindow ==
    ASSUME NEW r \in Rule, NEW d \in r.days, NEW t \in Instant, r.start > r.end
    PROVE  t \in WindowOf(r, d) <=>
               \/ Day(t) = d /\ Hour(t) >= r.start
               \/ DayBefore(t) = d /\ Hour(t) <= r.end
<1>1. /\ DayLength \in Nat /\ DayLength > 0 /\ Days \in Nat /\ Days > 0
      /\ r.start \in 0 .. DayLength - 1 /\ r.end \in 0 .. DayLength - 1
      /\ d \in 0 .. Days - 1
  BY ScheduleAssumption DEF Rule
<1> DEFINE n == DayLength * Days
           first == d * DayLength
<1>2. n \in Nat \ {0} /\ first \in Nat /\ first + DayLength <= n
  <2>1. d * DayLength + DayLength <= Days * DayLength
    BY <1>1, LaterDay
  <2>2. d * DayLength >= 0 /\ d * DayLength \in Int /\ Days * DayLength = n
    BY <1>1
  <2> QED
    BY <1>1, <2>1, <2>2
<1>3. /\ Day(t) \in 0 .. Days - 1 /\ Hour(t) \in 0 .. DayLength - 1
      /\ t = Day(t) * DayLength + Hour(t) /\ t \in Int /\ 0 <= t /\ t < n
  <2>1. t \in 0 .. n - 1
    BY DEF Instant
  <2> HIDE DEF n
  <2> QED
    BY <1>2, <2>1, DayAndHour
<1>4. DayBefore(t) = IF Day(t) = 0 THEN Days - 1 ELSE Day(t) - 1
  <2>1. CASE Day(t) = 0
    <3>1. (0 - 1) % Days = Days - 1
      BY <1>1
    <3> QED
      BY <2>1, <3>1 DEF DayBefore
  <2>2. CASE Day(t) # 0
    <3>1. Day(t) - 1 \in 0 .. 2 * Days - 1 /\ Day(t) - 1 < Days
      BY <1>1, <1>3, <2>2
    <3> QED
      BY <1>1, <2>2, <3>1, Anew DEF DayBefore
  <2> QED
    BY <2>1, <2>2
<1>5. WindowOf(r, d) = {u % n : u \in first + r.start .. first + r.end + DayLength}
  BY DEF WindowOf
<1>6. \A u \in first + r.start .. first + r.end + DayLength :
         u % n = IF u < n THEN u ELSE u - n
  <2> HIDE DEF n, first
  <2>1. \A u \in first + r.start .. first + r.end + DayLength : u \in 0 .. 2 * n - 1
    BY <1>1, <1>2
  <2> QED
    BY <1>2, <2>1, Anew
<1>7. t \in WindowOf(r, d) <=>
        \/ t \in first + r.start .. first + r.end + DayLength
        \/ t + n \in first + r.start .. first + r.end + DayLength
  <2> HIDE DEF n, first
  <2>1. ASSUME t \in WindowOf(r, d)
        PROVE  \/ t \in first + r.start .. first + r.end + DayLength
               \/ t + n \in first + r.start .. first + r.end + DayLength
    <3>1. PICK u \in first + r.start .. first + r.end + DayLength : t = u % n
      BY <1>5, <2>1
    <3>2. u \in Int /\ (t = u \/ u = t + n)
      BY <1>1, <1>2, <1>6, <3>1
    <3> QED
      BY <3>1, <3>2
  <2>2. ASSUME t \in first + r.start .. first + r.end + DayLength
        PROVE  t \in WindowOf(r, d)
    <3>1. t % n = t
      BY <1>3, <1>6, <2>2
    <3> QED
      BY <1>5, <2>2, <3>1
  <2>3. ASSUME t + n \in first + r.start .. first + r.end + DayLength
        PROVE  t \in WindowOf(r, d)
    <3>1. (t + n) % n = t
      BY <1>2, <1>3
    <3> QED
      BY <1>5, <2>3, <3>1
  <2> QED
    BY <2>1, <2>2, <2>3
(* The rest of the day.                                                    *)
<1>8. t \in first + r.start .. first + DayLength - 1 <=>
        Day(t) = d /\ Hour(t) >= r.start
  <2>1. ASSUME t \in first + r.start .. first + DayLength - 1
        PROVE  Day(t) = d /\ Hour(t) >= r.start
    <3>1. t - first \in 0 .. DayLength - 1 /\ t = first + (t - first)
      BY <1>1, <1>2, <1>3, <2>1
    <3>2. /\ Day(t) \in Int /\ d \in Int
          /\ Day(t) * DayLength + Hour(t) = d * DayLength + (t - first)
      BY <1>1, <1>3, <3>1
    <3>3. Day(t) = d /\ Hour(t) = t - first
      BY <1>3, <3>1, <3>2, OneDay
    <3> QED
      BY <1>1, <1>2, <1>3, <2>1, <3>3
  <2>2. ASSUME Day(t) = d, Hour(t) >= r.start
        PROVE  t \in first + r.start .. first + DayLength - 1
    <3>1. t = first + Hour(t)
      BY <1>3, <2>2
    <3> HIDE DEF first
    <3> QED
      BY <1>1, <1>2, <1>3, <2>2, <3>1
  <2> QED
    BY <2>1, <2>2
(* The beginning of the next day, when there is one.                       *)
<1>9. t \in first + DayLength .. first + DayLength + r.end <=>
        Day(t) = d + 1 /\ Hour(t) <= r.end
  <2>0. (d + 1) * DayLength = first + DayLength
    BY <1>1
  <2>1. ASSUME t \in first + DayLength .. first + DayLength + r.end
        PROVE  Day(t) = d + 1 /\ Hour(t) <= r.end
    <3>1. /\ t - first - DayLength \in 0 .. DayLength - 1
          /\ t = (d + 1) * DayLength + (t - first - DayLength)
      BY <1>1, <1>2, <1>3, <2>0, <2>1
    <3>2. d + 1 \in Int
      BY <1>1
    <3>3. Day(t) = d + 1 /\ Hour(t) = t - first - DayLength
      BY <1>1, <1>3, <3>1, <3>2, OneDay
    <3> QED
      BY <1>1, <1>2, <1>3, <2>1, <3>3
  <2>2. ASSUME Day(t) = d + 1, Hour(t) <= r.end
        PROVE  t \in first + DayLength .. first + DayLength + r.end
    <3>1. t = first + DayLength + Hour(t)
      BY <1>3, <2>0, <2>2
    <3> HIDE DEF first
    <3> QED
      BY <1>1, <1>2, <1>3, <2>2, <3>1
  <2> QED
    BY <2>1, <2>2
(* The beginning of the first day, behind the last one.                    *)
<1>10. t + n \in first + r.start .. first + r.end + DayLength <=>
         d = Days - 1 /\ Day(t) = 0 /\ Hour(t) <= r.end
  <2>1. ASSUME t + n \in first + r.start .. first + r.end + DayLength
        PROVE  d = Days - 1 /\ Day(t) = 0 /\ Hour(t) <= r.end
    <3>1. first + DayLength = n
      <4>1. CASE d + 1 < Days
        <5>1. (d + 1) * DayLength + DayLength <= Days * DayLength
          BY <1>1, <4>1, LaterDay
        <5>2. first + DayLength + DayLength <= n
          BY <1>1, <5>1
        <5> HIDE DEF first, n
        <5> QED
          BY <1>1, <1>2, <1>3, <2>1, <5>2
      <4>2. CASE d + 1 = Days
        BY <1>1, <4>2
      <4> QED
        BY <1>1, <4>1, <4>2
    <3>2. d = Days - 1
      <4>1. CASE d + 1 < Days
        <5>1. (d + 1) * DayLength + DayLength <= Days * DayLength
          BY <1>1, <4>1, LaterDay
        <5>2. first + DayLength + DayLength <= n
          BY <1>1, <5>1
        <5> QED
          BY <1>1, <1>2, <3>1, <5>2
      <4> QED
        BY <1>1, <4>1
    <3>3. t <= r.end /\ t \in 0 .. DayLength - 1
      <4> HIDE DEF first, n
      <4> QED
        BY <1>1, <1>2, <1>3, <2>1, <3>1
    <3>4. t = 0 * DayLength + t
      BY <1>1, <1>3
    <3>5. Day(t) = 0 /\ Hour(t) = t
      BY <1>1, <1>3, <3>3, <3>4, OneDay
    <3> QED
      BY <3>2, <3>3, <3>5
  <2>2. ASSUME d = Days - 1, Day(t) = 0, Hour(t) <= r.end
        PROVE  t + n \in first + r.start .. first + r.end + DayLength
    <3>1. first + DayLength = n
      BY <1>1, <2>2
    <3>2. t = Hour(t)
      BY <1>1, <1>3, <2>2
    <3> HIDE DEF first, n
    <3> QED
      BY <1>1, <1>2, <1>3, <2>2, <3>1, <3>2
  <2> QED
    BY <2>1, <2>2
<1>11. t \in first + r.start .. first + r.end + DayLength <=>
         \/ t \in first + r.start .. first + DayLength - 1
         \/ t \in first + DayLength .. first + DayLength + r.end
  <2> HIDE DEF first, n
  <2> QED
    BY <1>1, <1>2, <1>3
<1>12. DayBefore(t) = d <=> Day(t) = d + 1 \/ (d = Days - 1 /\ Day(t) = 0)
  BY <1>1, <1>3, <1>4
<1> HIDE DEF first, n
<1> QED
  BY <1>7, <1>8, <1>9, <1>10, <1>11, <1>12

(* Whatever days, hours and midnight a rule is about, it matches an        *)
(* instant exactly when the instant lies in one of its windows             *)
(* (Rule::matches).                                                        *)
LEMMA MatchesWindows ==
    ASSUME NEW r \in Rule, NEW t \in Instant
    PROVE  Matches(r, t) <=> /\ r.enabled
                             /\ \E d \in r.days : t \in WindowOf(r, d)
<1>1. /\ r.start \in Int /\ r.end \in Int /\ Hour(t) \in Int
  BY ScheduleAssumption, DayAndHour DEF Rule
<1>2. CASE r.start <= r.end
  <2>1. Matches(r, t) <=> /\ r.enabled /\ Day(t) \in r.days
                          /\ Hour(t) >= r.start /\ Hour(t) <= r.end
    BY <1>1, <1>2 DEF Matches
  <2> QED
    BY <1>2, <2>1, DayWindow
<1>3. CASE r.start > r.end
  <2>1. Matches(r, t) <=>
          /\ r.enabled
          /\ \/ Hour(t) >= r.start /\ Day(t) \in r.days
             \/ Hour(t) <= r.end /\ DayBefore(t) \in r.days
    <3>1. CASE Hour(t) < r.start
      BY <1>1, <1>3, <3>1 DEF Matches, DayBefore
    <3>2. CASE Hour(t) >= r.start
      BY <1>1, <1>3, <3>2 DEF Matches, DayBefore
    <3> QED
      BY <1>1, <3>1, <3>2
  <2> QED
    BY <1>3, <2>1, NightWindow
<1> QED
  BY <1>1, <1>2, <1>3

(* A rule matches exactly in the windows of its days, for every calendar   *)
(* and every rule that passes validate (Rule::matches).                    *)
THEOREM MatchesInWindows == ScheduleSpec => []MatchesItsWindows
<1>1. ScheduleTypeOK => MatchesItsWindows
  BY RuleType, MatchesWindows DEF ScheduleTypeOK, MatchesItsWindows
<1> QED
  BY <1>1, ScheduleTypeCorrect, PTL
=============================================================================
