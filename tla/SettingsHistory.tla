-------------------------- MODULE SettingsHistory --------------------------
(***************************************************************************)
(* The settings of SandMan and their history.  CSettings (Settings.cpp)    *)
(* keeps the settings of the profile behind a mutex, with a cache for      *)
(* typed reads.  Every change is recorded by CLocalSettingsHistory         *)
(* (LocalSettingsHistory.cpp), which commits a snapshot of all settings to *)
(* a git repository of its own; a snapshot can be restored.                *)
(*                                                                         *)
(* The window and the threads of the script engine change settings at the  *)
(* same time.  The mutex of the settings is held for single reads and      *)
(* writes, that of the history while git runs.  A git command may fail or  *)
(* be killed at its time limit, and SandMan may end at any time.           *)
(***************************************************************************)
EXTENDS Naturals, Sequences

CONSTANTS
    Thread,     (* threads that change, record and restore settings        *)
    Reader,     (* threads that read settings through the cache            *)
    Key, Value,
    Absent,     (* a key without a value                                   *)
    NotCached,  (* in place of a value in the cache                        *)
    NoThread, NoKey,
    MaxEntries, (* m_maxEntries, how much of the history is listed         *)
    MaxCalls    (* bound: calls, and starts of the program                 *)

ASSUME SettingsAssumption ==
    /\ Absent \notin Value /\ NotCached \notin Value \cup {Absent}
    /\ NoThread \notin Thread /\ NoKey \notin Key
    /\ MaxEntries \in Nat \ {0} /\ MaxCalls \in Nat

VARIABLES
    conf,       (* m_pConf, as the program sees it                         *)
    ini,        (* the file behind it, which QSettings writes now and then *)
    cache,      (* m_ValueCache                                            *)
    reader,     (* the reads that missed the cache                         *)
    revs,       (* the commits of the repository, oldest first             *)
    entries,    (* m_entries: the commits that are listed                  *)
    lastError,  (* whether m_lastError says something                      *)
    available,  (* m_available                                             *)
    mutex,      (* the owner of the mutex of the history                   *)
    call,       (* where each thread is                                    *)
    calls,      (* how many calls were made                                *)
    version,    (* history: how often conf changed                         *)
    strayed,    (* history: the version of the latest change that is not   *)
                (* recorded by whoever made it                             *)
    raced       (* history: keys that were changed while they were read    *)

store   == <<conf, ini>>
reading == <<cache, reader, raced>>
git     == <<revs, entries, lastError, available>>
ghosts  == <<version, strayed>>
vars    == <<conf, ini, cache, reader, revs, entries, lastError, available, mutex, call,
             calls, version, strayed, raced>>

-----------------------------------------------------------------------------
(* Types                                                                   *)

Setting  == Value \cup {Absent}
Snapshot == [Key -> Setting]
Revision == [values : Snapshot, at : Nat, key : Key \cup {NoKey}]

(* key is what a change is about; wrote the version it made; values and at *)
(* are the snapshot on its way into the repository; target is what to      *)
(* restore.                                                                *)
CallState ==
    [op : {"none", "change", "checkpoint", "restoring", "restored"},
     pc : {"idle", "enter", "snapshot", "commit", "apply", "sync"},
     key : Key \cup {NoKey}, wrote : Nat, values : Snapshot, at : Nat, target : Snapshot]

Empty == [k \in Key |-> Absent]

Idle == [op |-> "none", pc |-> "idle", key |-> NoKey, wrote |-> 0,
         values |-> Empty, at |-> 0, target |-> Empty]

NoRead == [key |-> NoKey, value |-> Absent]

TypeOK ==
    /\ conf \in Snapshot /\ ini \in Snapshot
    /\ cache \in [Key -> Setting \cup {NotCached}]
    /\ reader \in [Reader -> [key : Key \cup {NoKey}, value : Setting]]
    /\ revs \in Seq(Revision)
    /\ entries \subseteq DOMAIN revs
    /\ lastError \in BOOLEAN /\ available \in BOOLEAN
    /\ mutex \in Thread \cup {NoThread}
    /\ call \in [Thread -> CallState]
    /\ calls \in 0 .. MaxCalls
    /\ version \in Nat /\ strayed \in Nat
    /\ raced \subseteq Key

At(t, pc) == call[t].pc = pc

Begin == calls < MaxCalls /\ calls' = calls + 1

Goto(t, pc) == call' = [call EXCEPT ![t].pc = pc]

-----------------------------------------------------------------------------
(* Reading                                                                 *)

NoCache == [k \in Key |-> NotCached]

(* Reads that are under way when their key changes. *)
Overtaken(changed) == raced \cup {k \in changed : \E r \in Reader : reader[r].key = k}

(* Get##y: a miss reads the value, and the mutex is let go before and      *)
(* after that ...                                                          *)
Miss(r, k) ==
    /\ reader[r] = NoRead
    /\ cache[k] = NotCached
    /\ reader' = [reader EXCEPT ![r] = [key |-> k, value |-> conf[k]]]
    /\ UNCHANGED <<store, cache, raced, git, mutex, call, calls, ghosts>>

(* ... and the value that was read goes into the cache.                    *)
Insert(r) ==
    LET k == reader[r].key IN
    /\ reader[r] # NoRead
    /\ cache' = [cache EXCEPT ![k] = reader[r].value]
    /\ reader' = [reader EXCEPT ![r] = NoRead]
    /\ UNCHANGED <<store, raced, git, mutex, call, calls, ghosts>>

-----------------------------------------------------------------------------
(* Changing                                                                *)

BugChange(t, k, v) ==
    /\ At(t, "idle")
    /\ Begin
    /\ conf' = [conf EXCEPT ![k] = v]
    /\ version' = version + 1
    /\ call' = [call EXCEPT ![t] =
           [Idle EXCEPT !.op = "change", !.pc = "enter", !.key = k, !.wrote = version + 1]]
    /\ UNCHANGED <<ini, reading, git, mutex, strayed>>

(* SetValue, and DelValue with v = Absent; then record, which returns at   *)
(* once when nothing changed.                                              *)
Change(t, k, v) ==
    /\ At(t, "idle")
    /\ Begin
    /\ conf' = [conf EXCEPT ![k] = v]
    /\ cache' = NoCache
    /\ IF conf[k] = v
       THEN UNCHANGED <<version, raced, call>>
       ELSE /\ version' = version + 1
            /\ raced' = Overtaken({k})
            /\ call' = [call EXCEPT ![t] =
                   [Idle EXCEPT !.op = "change", !.pc = "enter", !.key = k, !.wrote = version + 1]]
    /\ UNCHANGED <<ini, reader, git, mutex, strayed>>

(* QSettings writes the file from the event loop, and at CSettings::Sync. *)
Flush ==
    /\ ini # conf
    /\ ini' = conf
    /\ UNCHANGED <<conf, reading, git, mutex, call, calls, ghosts>>

-----------------------------------------------------------------------------
(* Recording: commitCurrentSnapshot                                        *)

BugEnter(t) ==
    /\ At(t, "enter")
    /\ Goto(t, "snapshot")
    /\ UNCHANGED <<store, reading, git, mutex, calls, ghosts>>

(* Without a repository the call fails (see Refuse).                       *)
Enter(t) ==
    /\ At(t, "enter")
    /\ available
    /\ mutex = NoThread
    /\ mutex' = t
    /\ Goto(t, "snapshot")
    /\ UNCHANGED <<store, reading, git, calls, ghosts>>

(* SnapshotValues, under the mutex of the history.                         *)
TakeSnapshot(t) ==
    /\ At(t, "snapshot")
    /\ call' = [call EXCEPT ![t].pc = "commit", ![t].values = conf, ![t].at = version]
    /\ UNCHANGED <<store, reading, git, mutex, calls, ghosts>>

RevisionOf(t) == [values |-> call[t].values, at |-> call[t].at, key |-> call[t].key]

(* loadEntries: the newest commits. *)
Listed(r) == {i \in DOMAIN r : i + MaxEntries > Len(r)}

(* What the caller does when commitCurrentSnapshot returns: record and     *)
(* checkpoint return; restore gives up, goes on to apply, or is done.      *)
BugReturnTo(t, ok) ==
    CASE call[t].op = "restoring" -> [call[t] EXCEPT !.pc = "apply"]
      [] call[t].op = "restored"  -> [call[t] EXCEPT !.pc = "sync"]
      [] OTHER -> Idle

ReturnTo(t, ok) ==
    CASE call[t].op = "restoring" /\ ok -> [call[t] EXCEPT !.pc = "apply"]
      [] call[t].op = "restored" -> [call[t] EXCEPT !.pc = "sync"]
      [] OTHER -> Idle

BugCommit(t) ==
    /\ At(t, "commit")
    /\ entries' = Listed(revs)
    /\ lastError' = FALSE
    /\ call' = [call EXCEPT ![t] = ReturnTo(t, TRUE)]
    /\ mutex' = NoThread
    /\ UNCHANGED <<store, reading, revs, available, calls, ghosts>>

(* The snapshot is written, added and committed, the commit looked up and  *)
(* the list read.  Each of these may fail or be killed: before the commit, *)
(* or after it, when the commit is there and its caller is told otherwise. *)
Commit(t) ==
    /\ At(t, "commit")
    /\ \/ /\ revs' = Append(revs, RevisionOf(t))
          /\ entries' = Listed(revs')
          /\ lastError' = FALSE
          /\ call' = [call EXCEPT ![t] = ReturnTo(t, TRUE)]
       \/ /\ revs' \in {revs, Append(revs, RevisionOf(t))}
          /\ UNCHANGED entries
          /\ lastError' = TRUE
          /\ call' = [call EXCEPT ![t] = ReturnTo(t, FALSE)]
    /\ mutex' = NoThread
    /\ UNCHANGED <<store, reading, available, calls, ghosts>>

Refuse(t) ==
    /\ At(t, "enter")
    /\ ~ available
    /\ mutex = NoThread
    /\ call' = [call EXCEPT ![t] = ReturnTo(t, FALSE)]
    /\ UNCHANGED <<store, reading, git, mutex, calls, ghosts>>

Checkpoint(t) ==
    /\ At(t, "idle")
    /\ Begin
    /\ call' = [call EXCEPT ![t] = [Idle EXCEPT !.op = "checkpoint", !.pc = "enter"]]
    /\ UNCHANGED <<store, reading, git, mutex, ghosts>>

-----------------------------------------------------------------------------
(* Restoring                                                               *)

BugRestore(t, i) ==
    /\ At(t, "idle")
    /\ Begin
    /\ available /\ mutex = NoThread
    /\ i \in entries
    /\ mutex' = t
    /\ call' = [call EXCEPT ![t] =
           [Idle EXCEPT !.op = "restoring", !.pc = "enter", !.target = revs[i].values]]
    /\ UNCHANGED <<store, reading, git, ghosts>>

(* The mutex is held while the snapshot is read, and let go before         *)
(* checkpoint takes it again.  Reading may fail.                           *)
Restore(t, i) ==
    /\ At(t, "idle")
    /\ Begin
    /\ available /\ mutex = NoThread
    /\ i \in entries
    /\ \/ /\ call' = [call EXCEPT ![t] =
               [Idle EXCEPT !.op = "restoring", !.pc = "enter", !.target = revs[i].values]]
          /\ UNCHANGED lastError
       \/ lastError' = TRUE /\ UNCHANGED call
    /\ UNCHANGED <<store, reading, revs, entries, available, mutex, ghosts>>

BugApplySnapshot(t) ==
    /\ At(t, "apply")
    /\ conf' = call[t].target
    /\ ini' = conf'
    /\ cache' = NoCache
    /\ raced' = Overtaken({k \in Key : conf[k] # conf'[k]})
    /\ version' = version + 1
    /\ call' = [call EXCEPT ![t] = Idle]
    /\ UNCHANGED <<reader, git, mutex, calls, strayed>>

(* All settings are replaced under the mutex of the settings.  When the    *)
(* file cannot be written restore ends there, and nobody records what      *)
(* the program works with from now on.                                     *)
ApplySnapshot(t) ==
    /\ At(t, "apply")
    /\ conf' = call[t].target
    /\ cache' = NoCache
    /\ raced' = Overtaken({k \in Key : conf[k] # conf'[k]})
    /\ version' = version + 1
    /\ \/ /\ ini' = conf'
          /\ call' = [call EXCEPT ![t].op = "restored", ![t].pc = "enter",
                                     ![t].wrote = version']
          /\ UNCHANGED strayed
       \/ /\ call' = [call EXCEPT ![t] = Idle]
          /\ strayed' = version'
          /\ UNCHANGED ini
    /\ UNCHANGED <<reader, git, mutex, calls>>

(* The window calls Sync after a restore, whether or not its result could  *)
(* be committed.                                                           *)
Sync(t) ==
    /\ At(t, "sync")
    /\ cache' = NoCache
    /\ ini' \in {ini, conf}
    /\ call' = [call EXCEPT ![t] = Idle]
    /\ UNCHANGED <<conf, reader, raced, git, mutex, calls, ghosts>>

-----------------------------------------------------------------------------
(* The program ends at any time, and starts again with what is in the      *)
(* file.  A git that is running may still finish.  initialize lists what   *)
(* there is, or commits a first snapshot when git shows no commit.         *)
Restart ==
    /\ Begin
    /\ conf' = ini
    /\ version' = version + 1
    /\ strayed' = version'
    /\ cache' = NoCache
    /\ reader' = [r \in Reader |-> NoRead]
    /\ raced' = {}
    /\ mutex' = NoThread
    /\ call' = [t \in Thread |-> Idle]
    /\ available' \in BOOLEAN
    /\ \E late \in {revs} \cup {Append(revs, RevisionOf(t)) : t \in {u \in Thread : At(u, "commit")}} :
          \/ /\ revs' = late
             /\ entries' \in {{}, Listed(late)}
             /\ lastError' = (entries' = {})
             /\ ~ available' => lastError'
          \/ /\ available'
             /\ revs' = Append(late, [values |-> ini, at |-> version', key |-> NoKey])
             /\ \/ entries' = Listed(revs') /\ lastError' \in BOOLEAN
                \/ entries' = {} /\ lastError' = TRUE
    /\ UNCHANGED ini

-----------------------------------------------------------------------------
(* The first start, with a profile that has no history yet.                *)
Init ==
    /\ conf = Empty /\ ini = Empty
    /\ cache = NoCache
    /\ reader = [r \in Reader |-> NoRead]
    /\ \/ /\ available = TRUE
          /\ revs = <<[values |-> Empty, at |-> 0, key |-> NoKey]>>
          /\ \/ entries = {1} /\ lastError \in BOOLEAN
             \/ entries = {} /\ lastError = TRUE
       \/ /\ available \in BOOLEAN
          /\ revs = << >> /\ entries = {} /\ lastError = TRUE
    /\ mutex = NoThread
    /\ call = [t \in Thread |-> Idle]
    /\ calls = 0
    /\ version = 0 /\ strayed = 0
    /\ raced = {}

Step(t) ==
    \/ Enter(t)
    \/ TakeSnapshot(t)
    \/ Commit(t)
    \/ Refuse(t)
    \/ ApplySnapshot(t)
    \/ Sync(t)

Next ==
    \/ \E t \in Thread :
          \/ \E k \in Key, v \in Setting : Change(t, k, v)
          \/ Checkpoint(t)
          \/ \E i \in entries : Restore(t, i)
          \/ Step(t)
    \/ \E r \in Reader :
          \/ \E k \in Key : Miss(r, k)
          \/ Insert(r)
    \/ Flush
    \/ Restart

Spec == Init /\ [][Next]_vars

(* Threads are scheduled, git is stopped at its time limit, and a thread   *)
(* that waits for a mutex gets it some time.                               *)
FairSpec == Spec /\ \A t \in Thread : WF_vars(Step(t)) /\ SF_vars(Enter(t))

-----------------------------------------------------------------------------
(* Properties                                                              *)

(* "two concurrent setting writes can capture A then A+B, commit A+B       *)
(* first, and finally append the stale A snapshot as the newest revision"  *)
(* (LocalSettingsHistory.cpp:348): they cannot.  Later commits hold later  *)
(* states of the settings, across threads, failures and restarts.          *)
NewestLast ==
    \A i, j \in DOMAIN revs : i < j => revs[i].at <= revs[j].at

(* When no call is under way and the latest one reported no failure, the   *)
(* newest commit is what the program works with, unless the settings have  *)
(* changed since in a way that nobody records: a restore that could not    *)
(* write the file, or a restart that finds another file.                   *)
HeadIsLive ==
    (\A t \in Thread : At(t, "idle")) /\ ~ lastError /\ Len(revs) > 0 =>
        LET head == revs[Len(revs)] IN
        head.at >= strayed => conf = head.values

(* "reports that failure without claiming a revision exists"               *)
(* (settings-history.md): a change whose recording reports no failure is   *)
(* in the repository, with its key and in a snapshot that is not older.    *)
NoFalseClaim ==
    [][\A t \in Thread :
          call[t].op = "change" /\ At(t, "commit") /\ calls' = calls /\ call'[t].pc = "idle" /\ ~ lastError' =>
              \E i \in DOMAIN revs' : revs'[i].key = call[t].key /\ revs'[i].at >= call[t].wrote]_vars

(* "so the restore can itself be undone later" (settings-history.md): what *)
(* ApplySnapshot overwrites is in the repository.  The exception are        *)
(* changes made since the checkpoint of the restore, while their recording *)
(* is under way, failed, or does not take place.                           *)
Undoable ==
    [][\A t \in Thread :
          At(t, "apply") /\ call'[t].pc # "apply" /\ calls' = calls =>
              \/ \E i \in DOMAIN revs : revs[i].values = conf
              \/ \E u \in Thread : call[u].wrote > call[t].at
              \/ lastError /\ version > call[t].at
              \/ strayed > call[t].at]_vars

(* A cached value is the value of its setting, except where a read was     *)
(* overtaken by a change of its key: Get##y puts what it read into the     *)
(* cache after the change has emptied it.                                  *)
CacheFresh ==
    \A k \in Key : cache[k] \notin {NotCached, conf[k]} => k \in raced

(* The inductive invariant behind NewestLast, NoFalseClaim and CacheFresh: *)
(* whoever holds a snapshot holds the mutex, the snapshot is not older     *)
(* than any commit, nor than the change it is taken for; and a read that   *)
(* was not overtaken holds the value of its setting.                       *)
Exclusive ==
    \A t \in Thread : At(t, "snapshot") \/ At(t, "commit") => mutex = t

Ages ==
    /\ \A i \in DOMAIN revs : revs[i].at <= version
    /\ \A t \in Thread :
          /\ call[t].wrote <= version
          /\ At(t, "commit") =>
                /\ call[t].at <= version
                /\ call[t].wrote <= call[t].at
                /\ \A i \in DOMAIN revs : revs[i].at <= call[t].at

Reads ==
    \A r \in Reader :
        reader[r] # NoRead =>
            /\ reader[r].key \in Key
            /\ reader[r].value = conf[reader[r].key] \/ reader[r].key \in raced

IInv ==
    /\ TypeOK
    /\ Exclusive
    /\ Ages
    /\ Reads
    /\ NewestLast
    /\ CacheFresh

(* Every call returns: the mutex of the history is never taken twice.      *)
CallsReturn ==
    \A t \in Thread : ~ At(t, "idle") ~> At(t, "idle")
=============================================================================
