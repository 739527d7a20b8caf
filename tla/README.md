# A TLA+ model of Sandboxie's services, driver logs and settings

This directory holds TLA+ modules of the concurrent and stateful core of the
repository, the TLC configurations that check them on small instances, and proofs,
checked by TLAPS, of what matters most for every instance. Paths below are relative to
the repository. `PROJECT.json` lists the components, the runs, the hazards, the theorems,
and for every definition the lines it models.

    tlc -workers 2 -config ProxyCall.cfg MCProxyCall    # one run
    tlapm SettingsProofs.tla                            # one module of proofs

Contents: 1 the system, 2 the modules and the code, 3 the runs, 4 bounds and
abstractions, 5 fairness, 6 the proofs, 7 where the code and its comments disagree,
8 what is not modelled, 9 the plan.

## 1. The system

Sandboxie runs programs in boxes. A **driver** (`Sandboxie/core/drv`) watches their system
calls, a **library** injected into every boxed program (`core/dll`) redirects what they do,
a **service** (`core/svc`, SbieSvc) does on their behalf what they may not do themselves,
and **SandMan** (`SandboxiePlus/SandMan`, over `QSbieAPI`) is the user's window. This fork
adds settings with a local history, scheduled settings, a confirmation dialog, themes and
a notification centre (`SandboxiePlus/MiscHelpers/Common`, `SandMan/Windows`).

### 1.1 Inventory

| Part | State it keeps | Operations | Hard because |
|---|---|---|---|
| Queue service, `svc/queueserver.cpp` | named queues, their requests, the id counter | create, put/get request, put/get reply, startup, "process ended" | servers and clients end at any time, pids are reused, requests survive neither |
| Port server, `svc/PipeServer.cpp`, and its clients, `dll/callsvc.c` | a structure per client thread, by pid and thread id, with the message being collected or sent | connect, request, reply, thread died, port closed | several service threads, ends announced late, reconnects, `in_use` spins under the lock |
| User proxy, `svc/UserServer.cpp` | the list of worker processes; in the worker: its queue | StartWorker on a thread per request, the queue callback | the list has no lock; callbacks overlap; three time limits |
| Gui proxy, `svc/GuiServer.cpp` | the list of slaves, one event, a lock | InitProcess, SendMessageToSlave, StartSlave, the queue callback | one event for all threads, the lock is not taken by everybody |
| Callers of the proxies, `dll/callsvc.c` | per call: an event, an id | call, start the proxy, wait, collect | retries after a start, a proxy that ends half-way |
| Process server, `svc/ProcessServer.cpp` | none | KillAll, run in a box | shares the event of the gui proxy |
| Log ring, `drv/log_buff.c` | bytes in a ring | push, pop, walk both ways | sizes and texts lie across the end |
| Message log, `drv/api.c` | one ring, a number per reader | Api_AddMessage, Api_GetMessage | readers lag behind a ring that drops |
| Sessions and monitor, `drv/session.c` | sessions with leader, a ring each, a global count | leader, cancel, MonitorControl, Put, GetEx, Get2 | three ways to end a monitor, two readers, a count |
| Settings, `MiscHelpers/Common/Settings.cpp` | QSettings, a cache, its file | typed reads, changes, snapshots, sync | reads have two halves; file is written late |
| Settings history, `MiscHelpers/Common/LocalSettingsHistory.cpp` | a git repository, the list shown | record, checkpoint, restore, initialize | git fails, hangs or outlives the program |
| Scheduled settings, `MiscHelpers/Common/ScheduledSettings.cpp`, `Windows/SettingsWindow.cpp` | rules in the settings, a state per remote source in memory, requests on their way | match, refresh, answer, apply; edit, timer, button | answers come when rule, window or time have changed |
| Documentation site, `docs/assets/app.js`, `docs/regex-worker.js` | search boxes, two maps of jobs, cached results | render, type, answer, time limit, reset | one worker for all boxes, which may hang |
| other servers of SbieSvc, ini server, mounts, driver assistant | tables of handles, the ini file | forward one call each | see section 8 |
| driver proper, injected hooks, low-level code | per-process blocks | decisions about single calls | callbacks ordered by Windows |
| SandMan's windows, jobs, updater, add-ons | models of what is shown | user interface | see section 8 |

### 1.2 How the parts interact

Programs call the service over an LPC port, whose messages are short: requests and replies go in
parts, and the service's threads share a table of client threads. When the last thread of a
process is gone every server of the service is told that it ended.

A boxed program that needs its proxy puts a request into the queue `*USERPROXY_<session>`
or `*GUIPROXY_<session>` of the queue service, waits for an event that the service
duplicated from it, and collects the reply. If no queue of that name exists it sends a
*startup* request to the service and waits up to ten seconds for a second event; the
service starts a proxy process on a thread of its own. The proxy creates the queue and
then says that it is there. Requests are run by thread-pool callbacks in the proxy. The
service itself also sends messages to the gui proxy: InitProcess for every new boxed process
(which waits for it, in the driver), and KillAllHelper.

The driver writes messages into one ring and monitor entries into one ring per session;
SandMan and the service read both. SandMan's settings are changed by its window and by
script-engine threads; every change is recorded by a commit to a private git repository. While a
settings window is open, its timer lets scheduled rules write the appearance and the language;
a rule may depend on a remote source, which is asked over HTTPS with a time limit.

### 1.3 What makes each part correct

- *Queue service*: a request is handed to the creator of its queue only, in order, at most
  once; it is answered only after that; nothing outlives its owner for good; boxes do not mix.
- *Port server*: a handler never works with a structure that was freed or given to
  another connection; a call is done at most once and its reply is its own and complete; the end
  of a thread is noticed.
- *Proxies*: there is one per session; none sleeps while its queue holds a request; every
  call is done at most once and its answer is its own; a caller that waits is answered unless
  the proxy that had the request ended.
- *Gui messages*: success is reported only for what was done; a message is done once, and sent again only
  when nobody has it any more; whoever asks comes back, because a boxed process waits for it.
- *Logs*: a reader comes to every entry that was not dropped, in order, once, and gets it unless his buffer is too small or
  unusable; a text is returned as it was written; what finds no room in a monitor is noted.
- *Monitor count*: it is the number of monitors, as it decides whether anything is recorded.
- *Settings history*: its newest commit is what the program works with; a stale snapshot never
  comes behind a newer one; no success is reported for what is not recorded; what a restore
  replaced can be restored; nobody waits for ever.
- *Scheduled settings*: only the rule in force writes, and a rule with a remote source only after an
  answer "on" of that source that nothing has overtaken; the rule in force prevails.
- *Regex previews*: no answer is shown for a text it does not belong to; the two maps of jobs agree; a
  preview that keeps its job ends although the worker hangs.

The hazards, one by one with their lines, are in `PROJECT.json`. Those with a `note` and no
property are recorded there with the reason.

## 2. The modules and the code

    RequestLife ......... what the queues promise of one request
       ^ LifeSpec
    QueueServer ......... svc/queueserver.cpp, and of PipeServer.cpp the callers
       ^ EXTENDS
    QueueWorker ......... the proxy process: UserServer.cpp / GuiServer.cpp, worker side
       ^ EXTENDS
    ProxyStart .......... StartWorker / StartSlave, service side
       ^ EXTENDS                       ^ EXTENDS
    ProxyCall ........... callsvc.c    GuiSlave ....... GuiServer.cpp, ProcessServer.cpp
       v RemoteSpec
    RemoteCall .......... what a caller may rely on
       ^ RemoteSpec
    PortServer .......... PipeServer.cpp, and SbieDll_CallServer of callsvc.c

    LogBuffer <- MessageLog -> MessageWindow      drv/log_buff.c, drv/api.c
    LogBuffer <- Session    -> MonitorQueue       drv/session.c
    SettingsHistory                               Settings.cpp, LocalSettingsHistory.cpp
    ScheduledSettings                             ScheduledSettings.cpp, SettingsWindow.cpp
    RegexPreview                                  docs/assets/app.js, docs/regex-worker.js

    QueueServerProofs <- ProxyStartProofs <- ProxyCallProofs, GuiSlaveProofs
    PortServerProofs
    LogProofs           MessageLog and Session
    SettingsProofs      SettingsHistory and ScheduledSettings
    RegexPreviewProofs

**QueueServer.** `queues` and `requests` are `m_queues` and the request lists, `requestId` is
`m_RequestId`, `signalled` the event objects. Every handler runs under `m_lock` and is one
action: `CreateHandler`, `GetReqHandler`, `PutRplHandler`, `PutReqHandler`, `GetRplHandler`,
`StartupHandler`, `NotifyHandler`. A handler's parameters are the caller, the message and the
reply; the failures of the code are alternatives of the action, with what they leave behind.
`StartProcess`, `ExitProcess`, `Connect`, `Disconnect` are the environment: processes with reused pids, the connection that makes
PipeServer know a process, and the notification, maybe late, that it is gone. A pid with its
create time (`born`) is a process.

**RequestLife** numbers requests in the order they were accepted and gives each a life: waiting,
taken, answered, gone. `QueueServer` keeps this number beside the id of the code as `turn`, by which `LifeOf` finds the request.

**QueueWorker.** `boot` follows a proxy process through create event, create queue, announce,
RegisterWait; `job` holds its callbacks, several at a time because the wait is registered
with WT_EXECUTEDEFAULT. A callback is `get`, `run`, `reply`, in a loop until the queue is empty.
**ProxyStart** has StartWorker with each access of its unlocked list as a step: take the first element, read
the next one, terminate, unlink and free, create, wait, insert. If a thread uses an element that
another one freed, `corrupt` becomes TRUE and the model says nothing of what follows.
**ProxyCall** adds the caller: put, start-up, retry, wait, collect. **GuiSlave** adds InitProcess,
SendMessageToSlave and KillAllHelper. `Return` is what InitProcess makes of the status of SendMessageToSlave: wherever "name not
found" comes from, PutReq or GetRpl, it starts a proxy and sends again (`try` 2, a message of its own in `ran`). The status
in a reply is `answer`; the two functions of the proxy that make it never return "name not found". In the code the slave and its start have the text
of the user proxy, so both compositions share the two modules below them.

**PortServer** has both sides of the port. `user` is where a client thread is in
SbieDll_ConnectPort and SbieDll_CallServer (`BeginCall`, `Register`, `Send`, `Abandon`, `Understand`),
`inbox` the message queue of the port, `worker` where each service thread is in
`PipeServer::Thread`. `process` and `client` are `m_client_map` and the thread maps; a structure has the
fields of CLIENT_THREAD. Everything that other threads can come between is a step: finding the structure,
PortRequest, the handler, PortReply with the release of `in_use`, sending; PortConnect and the three
disconnecting functions wait under `lock` (`m_lock`) for `in_use` in a second step (`Evict`, `Discard`).
For QueueServer all this is the delivery of one call, and the notification when a process leaves
`process`; both modules implement what RemoteCall promises a caller, one for the port and the other
for the proxies.

**LogBuffer** keeps the ring cell by cell. Sizes and sequence numbers are two cells wide and may
themselves wrap, and pointers are compared as in the code, where they may be one round off. A loop over
entries is `Iterate`: the rounds of the loop, one after the other, of which the first one that
meets the condition of the code is taken. `MostEntries`, how many of the smallest entries a ring has
room for, is as many rounds as it tabulates; that a loop never needs more is proved (section 6).
**MessageLog** has Api_AddMessage and Api_GetMessage over it; **MessageWindow** is a sequence of
messages with a mark per reader, which moves over a message for which the reader has no room. **Session** has the sessions, both readers, and the count;
**MonitorQueue** is a bounded queue that can be switched on and off. The three calls that read write to memory of their
caller, and each has its `__except`: an exception may come at every write, in MonitorGet2 behind any number of entries that have been copied and dropped.

**SettingsHistory** splits the code where another thread may come between: a typed
read is `Miss` and `Insert`; a `Change` writes the setting, then its recording enters the history
mutex (`Enter`), takes a snapshot (`TakeSnapshot`) and commits it (`Commit`, or `Refuse`); a
`Restore` records a checkpoint the same way, applies (`ApplySnapshot`), writes the file (`Sync`)
and records again. Between each two the program may end (`Restart`). Every git command has a failing
alternative, with or without an effect, because it may be killed at its time limit.

**ScheduledSettings** runs on one thread; the steps are the events of its loop. `rules` is what
`load` returns, `external` the hash `s_externalStates` with `nextRefresh` reduced to whether it has
passed, `replies` the requests that have not finished, each with the rule's source and the window
whose callback it will call. `Apply` is the whole function, the refresh it starts included, and
ends `OpenWindow`, `Timer`, `Save` and `Finish` as it does in the code. The editor adds local rules and
keeps the source of the others; a rule with another source gets in through the settings
history or the ini file (`StoreRules`). `heard` and `moved` are what the properties need to know of
the past. A restart of SandMan empties `s_externalStates`: it is `Init`.

**RegexPreview** has one action per event of the page: what re-renders a view (`Type`, `Toggle`,
`Show`), the worker (`Work`, `WorkerFails`), its messages (`Deliver`) and the timers (`Timeout`). `Render`
calls `Queue` for the boxes of the view one after the other, any of which may throw and so take the jobs of all (`Thrown`); on
a page without a Worker nobody gets a job; `jobs` keeps the order of the
map because the timers, which all have the same length, run out in that order. `Posted` are the ids that
the worker has or has answered, `queued` the page after each box of a rendering.

## 3. The runs

| Run | What is checked, and what it shows |
|---|---|
| `queue_server` | `HandedToCreator`, `FirstComeFirstServed`, `NoOrphans`, `BoxIsolation`, and the refinement `LifeSpec`. Two pids, each used by two processes; every order of handlers, ends and late notifications. |
| `port_server` | Two threads of one process, two service threads; ends, reconnects, reused ids, failures anywhere, requests and replies of one or two parts: `InUse` (the structure under a handler is that of its connection, stays there, and holds one whole request), `RemoteSpec`, and `EndNoticed` under fairness. |
| `proxy_call` | Two programs, two proxies, two callbacks per proxy, ends and failures anywhere: `OneProxy`, `NoSilentStall` (no proxy that serves sleeps while a request waits), `OneCallbackEach`, and `RemoteSpec`: done at most once, answered with its own answer. |
| `proxy_live` | One program that calls twice while starts are slow and waits time out, so retries overlap with late answers: `RemoteSpec`, and `Answered` under fairness. |
| `gui_slave` | InitProcess, KillAllHelper and a start asked for by a program: `SuccessMeansDone`, and `DoneOnce`: each message is carried out once at most, and InitProcess sends its second one only when the first is in no queue and with no callback. They hold although the shared event misleads threads (section 7). |
| `gui_locked` | Only InitProcess, on two threads: `WokenInTurn` (the lock does make the shared event safe, until a wait times out) and `InitReturns`. |
| `message_log` | `WindowSpec`: readers of one session and of all of them come to what was not dropped, in order, once; each gets the text in full, unless he has too little room for it (then he has passed it and never gets it) or the call fails (then he is where he was). `TextOwn`: up to the end of the ring, a text is that of the message whose number is returned (what is copied from behind the ring: section 7). |
| `session_monitor` | `QueueSpec` of MonitorQueue: a call hands out what it takes, oldest first, so nothing comes twice or out of order, unless it fails: then what it took is lost, and not noted. What found no room is noted. `CountExact`: `Session_MonitorCount` under every way a monitor ends, pool failures included. |
| `settings_history` | `NewestLast`, `HeadIsLive`, `CacheFresh`, `NoFalseClaim`, `Undoable`, `CallsReturn`. Two threads and a reader; git may fail and SandMan restart at every step. |
| `scheduled` | Two rules, one of them with one of two remote sources or a window across midnight, a settings window, School mode, three instants on each of two days: `LastAnswerDecides`, `MatchesItsWindows`, `Gated` (what may change a setting), and `Prevails` under fairness. |
| `pages_regex` | Two search boxes, texts without a preview, with a quick one and with one the worker hangs on; calls that throw, and a page without a Worker: `JobsAgree`, `StatusFits`, and `CheckingEnds` under fairness. |
| `session_reply` | Checks what a comment of the code says and ends with a counterexample, see section 7. |

For every property of every passing run, `PROJECT.json` has a *mutant*: a plausible mistake in a
modelled definition with which TLC finds the property violated. Operators named `Bug...` are these
mistakes; no specification uses them.

The type invariants of PortServer, GuiSlave, Session, MessageLog and RegexPreview are conjuncts of
`InUse`, `SuccessMeansDone`, `CountExact`, `TextOwn` and `JobsAgree`; that of the calls is `CallTypeOK`. `TypeOK` of
QueueServer and SettingsHistory and `ScheduleTypeOK` are proved (section 6); on the instances of their runs TLC
confirms them too.

Some properties need a word on how they are stated.

- `Answered` excuses a call whose request is gone because the proxy that had it ended: the
  service deletes the queue with its requests and tells no client, so such a call ends by
  its time limit only. It also stops where `corrupt` does.
- `EndNoticed` excuses a thread that ended while it was connecting (`lost`):
  NtAcceptConnectPort fails, PortConnect ignores it, and the structure stays without a port; no message will name it
  (an LPC_PORT_CLOSED of the process may clear it, if one comes).
  It also stops where `Astray` does, and so do `InUse` and `RemoteSpec` (section 4).
- `HeadIsLive` compares the newest commit with the live settings when no call is under way and
  the latest recording reported no failure. It excuses changes that nobody records: `strayed` is
  the version of the latest one (a restore that could not write the file, a restart that
  finds another file).
- `Undoable` says what the settings were before a restore is in the repository when the restore
  reports success, unless another thread changed them between the checkpoint and the restore:
  that window exists in the code (`LocalSettingsHistory.cpp`, restore).
- `LastAnswerDecides` is about the state that `apply` consults, the one under the rule's own key, and not about what the
  list of rules shows (`sourceStatus`, section 7).
- `LastAnswerDecides` and `Gated` excuse a key whose rule got another source since it was asked
  (`moved`): an answer is filed under the rule's id and credential, so the answer of the old source counts
  for the new one until the next request. `moved` is set by `StoreRules` only.
- `Prevails` assumes that from some time on the rule is the effective one with a window open, its
  credential is found and its source never answers anything but "on". It stops where
  `dangling` does (section 4).
- `StatusFits` excuses a time limit, and `CheckingEnds` a box that was left without a job (`dropped`, until its view is
  rendered again): its job went with a reset that another box caused, a call of its own threw (`new Worker` or `postMessage`; the catch resets the
  worker), or the browser has no Worker (`supported`). All of it happens in the code, see section 7.

## 4. Bounds and abstractions

| Constant | Bound | Why it is enough |
|---|---|---|
| `MaxStarts` | processes per pid | 2 in `queue_server`: a pid that is reused is the case that matters, and its second owner meets what the first left. 1 in the compositions, which have two server pids: there a pid is not reused before the service knows of the end. |
| `MaxRequests`, `IdMod` | ids given out in a behaviour, and their width | `MaxRequests <= IdMod - 2` says that the stretch of time that is modelled is shorter than one round of the 32-bit ids, and excludes a request that stays for four billion others; ids still wrap past 0 and -1, which the code skips. |
| `MaxStarts`, `MaxConns`, `MaxCalls` of PortServer | threads started, connections, calls, all told | Two of each: a thread that starts again with the ids of an ended one, a connection that replaces another, a call that follows one that broke off. It also holds for three starts, with messages of two parts only (1.2 million states). One byte of sequence numbers never repeats within these calls. |
| `Slot` | callbacks of one process | Two: the wait of WT_EXECUTEDEFAULT is armed again at once, and two callbacks are the smallest race between them. |
| `MaxCalls` | calls per program; in SettingsHistory all calls and restarts | Two calls per program make late answers of the first one meet the second. Three calls on settings give a change, a restore and a change or restart between; all safety properties also hold for four (5.1 million states). |
| `BufferSize`, `Base` | cells of a ring and values per cell | A ring of 16 to 19 cells holds two of the shortest entries (8 cells), so the third meets a full ring, and entries of two lengths bring the end of the ring to every place within an entry, inside sizes and sequence numbers too. Sequence numbers wrap at `Base * Base`. |
| `DayLength`, `Days` of ScheduledSettings | instants of a day, days of the calendar | Three and two: before, in and after a window, and a window across midnight from either day, the end of the calendar included. The safety properties also hold with two windows (126 thousand states). |
| `Offered` | rules that may be stored per id | Two per id: the external rule at another source and with another window, a local one of equal priority (the id decides) and one that outranks it for an instant. |
| `MaxPosted` of RegexPreview | messages between page and worker | Four, for two boxes: an abandoned message and a live one of each. |
| `MaxEntries` | commits listed | Two, so that the oldest commits fall out of the list while they are still restored from. |

What is abstracted: payloads are model values, a call is its own payload and its own reply; one
Windows session and one proxy name per composition; boxes matter in `queue_server` only; a commit
holds a function from keys to values; the text of git's output is its outcome; message texts
are recognisable digits. The time limits are nondeterministic choices: the model never
measures time, so a start of 15 seconds may outlast a wait of 10 (`Slow`, `Impatient`).

`queue_server` has no events (`Event = {}`), since signalling them changes nothing in the service;
the compositions have all of them.

Some choices deserve a remark. Linked-list operations are atomic, and the model stops
with `corrupt` where the code would use freed memory. PortServer finds structures by thread id, as the
code does, and stops with `crossed` where a message of one connection has met the structure of
another: from there on two service threads may change one structure. It stops as well where a later part
of a request finds no buffer and is believed to be the header of a new one (`misled`; the bytes decide, so both
outcomes are possible): what is collected from there on, and handed to a target, is no request that
a client made, and what becomes of it depends on bytes that are not modelled. `Astray` is either of the two. Windows takes back
the messages of an ended thread that no service thread has received. In ScheduledSettings the order of the ids is that of the
integers, a rule's dates and weekdays are one set of days, a calendar of `Days` days starts anew, and everything
that ends a request without an "on" or "off" is the outcome "failed"; `sourceStatus`, which only the list of rules reads, is left out; the model stops with `dangling` where the callback of the refresh button
works on the list of a settings window that is deleted. In RegexPreview pattern, flags and sample are
one text, ids of jobs are used again when nothing refers to them any more, and
the messages of a worker that was terminated are gone with it, as browsers have it. A git that outlives the program is
modelled as finishing before the next start. Cells behind a ring are one special value. Session_MonitorPutEx
is modelled with strings that can be read: if they cannot, the exception leaves it with the list of sessions locked, and nothing said here of sessions
holds from there on.

Deadlock is checked for `MessageLog`, `Session` and `RegexPreview`. `ScheduledSettings` stops at
`dangling` only. The other configurations switch it
off because their bounded callers stop when they have made all their calls; `Answered`,
`InitReturns` and `CallsReturn` show in its place that nobody stops half-way. Symmetry is
used in runs without liveness only.

## 5. Fairness

- `FairCallSpec`: weak fairness of each proxy's steps (thread pool), of each starting thread, of
  each caller's next step, and of the notification that a port is closed (Windows sends it).
  No fairness makes a wait time out, a process end or a call fail.
- `FairSpec` of PortServer: weak fairness of each service thread: they are scheduled, and handlers
  return. Nothing is assumed of the clients.
- `FairGuiSpec`: the same as `FairCallSpec`, and the time limit of a wait is part of a sender's fair step, because
  the code waits ten seconds, not for ever. Without it `InitReturns` would fail, as a proxy
  may end with the message.
- `FairSpec` of SettingsHistory: weak fairness of each thread's next step, and strong fairness
  of `Enter`: the mutex of the history is a QMutex held while git runs; git has a
  time limit, and a thread that waits while others come and go gets it at some time.

- `LiveSpec` of ScheduledSettings: weak fairness of the timer of an open window (QTimer, 60 s), of the end of
  every request (its time limit of ten seconds aborts it) and of the passing of `nextRefresh`.
- `Spec` of RegexPreview: weak fairness of the worker, unless the text is one it hangs on, of the delivery of its answers, and of
  the time limit of a job.

## 6. The proofs

The eight modules of proofs show, for every value of the constants that meets the named assumptions, what the
runs check on small sets. Every invariant, every action property and every refinement of a passing run is a
theorem; what is left to TLC stands at the end of this section. The assumptions of a module are the `ASSUME`s of
the module it proves about, and nothing else.

**The queue service** (`QueueServerProofs`). Assumptions: `IdAssumption` (section 4) and `SentinelAssumption` (null values are
not values). `TypeCorrect` comes first. The safety properties are not
inductive: whether requests are handed out in order depends on what the id counter will give next,
and whether the creator is served on how old his pid is. `IInv` adds
`Turns` (no two requests have one turn), `Counting` (`requestId` and the ids of the requests follow from
the number of ids given out before) and `Ages` (no queue, reader or client is
younger than the present owner of his pid). The proof first shows of every handler
which *effect* it has on the lists (none, sweep a dead queue, open, take, reply, remove, use up an id,
accept), and then that each effect preserves `IInv`: handlers with the same effect share the argument.
`OnlyTheCreatorIsServed`, `InOrder`, `NothingLeaks` and `Isolation` follow.

`Implements` says that the queue service implements `RequestLife` (`LifeSpec`). The life of a
request is read from the store by its turn (`LifeIn`), which is well defined as `IInv` makes turns unique. A step that only
takes requests away is one `End` of all of them; a lost id is `Skip`, and accept, take and the first reply are `Submit`,
`HandOut` and `Answer`; a second reply to a request, which the code allows, is no step at all.

**The proxies and their starts** (`ProxyStartProofs`, lemmas only). Further assumptions: `ServerAssumption` and
`SlowAssumption`. Programs and the threads of SbieSvc use the same proxies, so everything about proxies is proved once, for
steps of two kinds: those of the proxies and of the starting threads (`Machine`), and those of anybody else, of whom
it is only said what the proxies see of them (`Outside`): they start or end another process (`Aside`), put a request with its event
(`Arrival`), or leave a wait (`Woken`). With that come `OneProxy`; `Stalls`, which is `NoSilentStall` with `OwnEvent` (a queue
holds the event of the very process that created it); `InHand` and `Apart` (a request some callback has is
not waiting any more, and no other callback has it); `Parents` (a process is in the list of proxies once, and
only one starting thread waits for it), however many threads use the unlocked list, as long as it is not `corrupt`; and
`Tasks`, what becomes of what was asked for: it is in one request only (`OnePlace`), a waiting request was never run
(`Undone`), a reply is that of its own request, which was run (`Answers`), and a callback that runs a request is its first (`AtWork`,
`RunOnce`). `Kept` is what a step of the machine leaves alone of a caller's business.

**The calls of programs** (`ProxyCallProofs`). Further assumption: `ClientAssumption` (callers and proxies
are different pids, calls and proxies have event objects of their own). `CallsUseTheQueue` says that each step of
the composition is a step of the queue service or none, so all of the above holds while programs call and
proxies start and crash. It needs `Shape`s: what the programs, callbacks and starting threads remember is what they may hand to the
queue service. `ProxyOwnsQueue`, `WakeUpIsKept` and `OneCallbackForEach` put the callers in for `Outside`. `CallsProxyOnce` is
the refinement of RemoteCall. It needs to know of every caller that the calls it has yet to make are unknown to the
proxy (`Future`) and where the present one stands: not put yet, in a request with the caller's id and event, or in the caller's hands
with an answer that was made for it (`Present`). The interesting steps are the retries: a caller puts a call a second time only when the
service refused the first request, so the proxy has nothing of it. `CallsTypeCorrect` is `CallTypeOK`, the list of proxies included.

**The messages of the service** (`GuiSlaveProofs`). Further assumption: `SenderAssumption`. `MessagesUseTheQueue` and `ProxiesOfTheService` put the
threads of SbieSvc in for `Outside`. `SuccessIsDone` and `NothingDoneTwice` need `Sent`: until a thread has put its request the
proxy knows nothing of it, then the request is the one with the thread's id, and a status the thread has is that of its own reply. The
shared event plays no part in it, which is why they hold although it misleads threads. A second attempt begins only after a handler
found the queue missing, which deletes its requests, and then no callback works either, since a proxy that works owns the queue (`NothingLeft`). `LockedSendersInTurn` is about the event: while nobody was late and nobody
sends without the lock (`Calm`) there is one thread between `Enter` and `End` (`Locked`), and the event is signalled
only when the reply to its request is there (`InTurn`).

**The port server** (`PortServerProofs`). Assumptions: `PortAssumption` and `SentinelAssumption`. `PortInv` relates three views of
one call: the client thread, the structure, and the request on its way. `Wired`: both ends of a connection agree on
the thread it belongs to. `Alone`: no two requests on their way came over one connection. `Users`, `Links`: a thread that waits has its request on its way, or in a structure. `Spoken`, `Arrived`, `Served`: what a structure holds (nothing, the first
parts of a request, the rest of a reply) fits where its client thread is, when the next part arrives, and while a service
thread works on it. `Held`, `Locked`: a structure a thread works with has `in_use` set, and whoever waits for that has
`m_lock`. `Kept`, `Shapes`: the tables. Everything here speaks of behaviours up to `Astray` only (section 4), the theorems too: they do not say that a target
never gets what is no request, only that it takes one of the two ways described there to make it so. `WorksInUse` is `InUse`.
`CallsServerOnce` is the refinement of RemoteCall, and adds `CallInv`: the requests of one call came over one connection (`Names`), a handler has run at most
once for each call that was made (`Once`) and not before it has the last part (`Unbegun`), a structure that holds a reply has run it (`Made`), and a
call that goes on has no outcome (`Open`).

**The rings** (`LogProofs`). Assumptions: `RingAssumption`, for each of the two logs `MessageAssumption` (sizes are ULONGs, the
ring has room for fewer entries than there are numbers), `SessionAssumption` and `NullAssumption`. The loops of the
code are recursive functions here, and what they compute is shown by induction over the rounds, written with a least
counterexample (`UpTo`). `Holds` says that the ring is a sequence of entries: `Laid` gives where each of them
ends, and counts distances from the beginning of the oldest one, so that the end of the ring matters in the lemmas on pointers
only. Pushing, popping and walking either way are shown to do to the sequence what one expects of a list; that the loops
stop within `MostEntries` rounds is part of it.

`MessageInv` says that the ring holds messages, numbered one after the other up to the last number (`Numbers`), and that what was returned is
the text of the number returned, up to the end of the ring (`OwnText`): `MessagesUnmixed`. `WindowKept` is the refinement of MessageWindow: a push drops the oldest
messages until there is room and no more, and a reader gets the first message for him behind the one he had, or, when that was dropped, of those that are left; he gets its text, or is told that it is too long for him.
`SessionInv` says that the monitors are rings of entries with a time and ids, finitely many, and as many as `monitorCount`. Every call
changes one session (`Changes`), so `CountsMonitors` is a matter of how it changes; `MonitorsAreQueues` shows the change to be
a switch, a put, a get or a loss of MonitorQueue, of which MonitorGet2 with its loop over the entries that fit the buffer is the hard one.

**The settings history** (`SettingsProofs`). Assumption: `SettingsAssumption`. `NewestLast` needs `Exclusive` (a thread between
its snapshot and its commit holds the mutex) and `Ages` (no commit is newer than the snapshot in
hand, which is not older than the change it is for, nor newer than the settings). `CacheFresh` needs `Reads` (a
read that was not overtaken holds the value its key still has). With `TypeOK` and the two
properties they are `IInv`. `NewestIsLast`, `CacheIsFresh` and `ReportsAreTrue` follow; the last is the
action property `NoFalseClaim`, which only `Commit` can endanger.

`HeadHoldsTheSettings` (`HeadIsLive`) and `RestoresCanBeUndone` (`Undoable`) need to
know what became of the latest version of the settings: it is in the head of the repository, or some
thread is about to record it, or it strayed (`Known`), unless the last error says that something failed. The same
holds of a snapshot on its way into the repository, so that a commit that succeeds may clear the
error of one that failed before. `HInv` adds that snapshots of one version agree (`Same`), that nothing is committed without a
repository (`Refusal`) and that a restore goes on only after its checkpoint (`Checked`). Steps that
change nothing of this (`Quiet`) and steps that make a version (`Fresh`) share an argument each.

**Scheduled settings** (`SettingsProofs`). Assumption: `ScheduleAssumption`, which says of the rules that may be stored only what
`validate` does: any number of rules, sources, windows and days. `ScheduleTypeCorrect` is `ScheduleTypeOK`.
`LastAnswerDecides` is inductive together with it; it is written as `Truthful` of the five things it
relates, so that one lemma about refreshing the sources serves every action that ends in `Apply`, with the
states and requests the action hands to it. `OnlyGatedRules` is `Gated`, from the
truth of the states after the step: the effective rule is in force only with an
active state, which is an answer "on" of its own source. `MatchesInWindows` is arithmetic on the clock: for every length of
the day and of the calendar, the comparison the code makes within one day, with windows across midnight looked up at the day before, finds exactly the instants of a window.

**The regex previews** (`RegexPreviewProofs`). Assumption: `PreviewAssumption`. `JobsAgree` alone is not
inductive: `Without` removes one job, so the removal leaves the maps in agreement only if no two jobs have one id. `PreviewInv` adds that. It is
kept because a new id is one nobody refers to (`FreshIs`; there is one while there is `Room`, by counting), and because a job's id is
still posted or answered; a call that throws leaves no jobs to agree about (`ThrownIs`). A rendering is the induction over the boxes that ask (`TurnsAreTidy`). `StatusesFit`: an answer is displayed only if
its job, the only one with its id, still has the text of its box.

Only model-checked is liveness under fairness (`Answered`, `InitReturns`, `EndNoticed`, `CallsReturn`, `Prevails`, `CheckingEnds`), which is
beyond the prover, as it needs ENABLED; and `ReplyFits`, which is false (section 7).

## 7. Where the code and its comments disagree

`session_reply` has a counterexample: MonitorGet2 writes the terminator behind a buffer that entries
have filled, although its comment promises the total used length of the buffer.

Observed while modelling, without a run:

- `GuiServer.cpp:216`: "if the message could not be sent on the queue, start a new slave and send another message". InitProcess
  does so too when the message was sent and the queue is missing when the reply is collected (325): a proxy that handled the message and ended, or
  one whose place was taken by another start. Then InitProcess is carried out by two proxies, one after the other. `DoneOnce`
  says that the first has nothing of it any more.
- `GuiServer.cpp:321`: KillAllHelper waits on the same auto-reset event as InitProcess without
  `m_SlavesLock`. One may be woken by the reply to the other ("wait for a reply", 316), finds no reply of its own, and fails although
  its message is handled. `WokenInTurn` says that this is the only way until a wait times out.
- `api.c:800`: Api_GetMessage copies a text with one memcpy ("we return all strings in one", 795); of a text that
  lies across the end of the ring the reader gets the first part and then what lies behind the ring. `TextOwn` says
  that nothing else goes wrong with a text.
- `queueserver.cpp`: a start-up request for which a start is refused as already existing leaves the
  caller waiting ten seconds; a PutReq whose reply cannot be allocated (546) keeps the
  duplicated event handle.
- `UserServer.cpp`: StartWorker terminates every listed proxy of the session; its comment (134)
  says one "that stopped functioning". When two programs find no queue at the same time the
  second start ends the proxy of the first, which works, with the requests it had.
- `UserServer.cpp`: the time limit of a start (15 s) is longer than that of the caller (10 s). The
  start-up event is signalled whatever became of the start (339) and its handle is not closed. A worker
  announces itself (485) before it registers its wait (509).
- `ProcessServer.cpp:370`: the kill loop counts to `count` inclusive.
- `PipeServer.cpp`: `in_use` is reset (400) before the reply is sent, so the port may be closed in
  between. The spins on `in_use` (559, 601) hold `m_lock` for the length of a handler, so
  every other message of the port waits. The status of NtAcceptConnectPort is ignored (578): a
  thread that ends while it connects leaves a structure that no message names. Unless an
  LPC_PORT_CLOSED of its process happens to clear it, the targets are never told that the process
  ended. Structures are found by ids, not by connection, so a message of an ended
  thread in the hands of one service thread may meet the structure of a new connection with the same ids
  (`crossed`); a late LPC_CLIENT_DIED drops such a new connection. The code under
  `USE_NEW_LPC_IMPL`, which is not compiled, finds them by port. When the buffer of a request cannot be
  allocated (804), the empty reply is taken for an acknowledgement by a client that is still sending (callsvc.c:268), and its
  next part is read as the header of a request (791-801): if its bytes name a length that fits, they are collected, or handed to a
  target, as a request of their own (`misled`). The targets are notified when the last *connected* thread ends; the
  process may live on.
- `api.c:807`: the number of a reader is written "when everything went fine", says the comment, but also after
  BUFFER_TOO_SMALL, so the message is lost to him. `MessageWindow` says so: it is an outcome of its own there.
- `session.c`: Session_Unload cancels one session only; MonitorControl does not reset the overflow
  flag, so a new monitor may report an old loss; the count is read without the lock (793, 1001).
- `Settings.cpp`: a read that is overtaken by a change leaves an old value in the cache until the
  next change of that key. `CacheFresh` says that this is the only way.
- `LocalSettingsHistory.cpp`: changes made between the checkpoint of a restore and its apply are
  overwritten unrecorded, against `settings-history.md`; a restore whose sync fails leaves the
  settings changed. A killed git may leave `.git/index.lock` behind.
- `session.c`: MonitorGetEx (1146) has read 20 bytes of an entry but subtracts 12; entries that MonitorGet2 has dropped from the
  ring are lost when a later write to the caller's buffer faults, that of the terminator (1243) included, and the caller is told of
  a length of zero (1250). It is `Lose` of MonitorQueue: the loss is not noted. Session_MonitorPutEx reads
  the strings of MonitorPut2 and MonitorPutEx from memory of the caller (635) after the entry has been pushed and with the list locked, and has no
  handler; that of the dispatcher (`api.c:535`) leaves the lock and the IRQL as they are.
- `ScheduledSettings.cpp`: apply writes a rule's values into the settings for good. Nothing brings the
  earlier values back when the window of the rule is over or its source says "off", against the header ("every error, timeout ... fails closed to the base
  settings") and `docs/features/scheduled-settings.md` ("temporarily gates"). The header also says that
  external sources "are not fetched/applied until a credential-vault integration exists"; they are, and also without the
  refresh button, from apply. States are kept by rule id and credential reference, so the answer of a
  source that was replaced counts for the new one, and `sourceStatus` (259), which the list of rules
  shows, takes the state of any rule with the same reference, in the order of a hash, of a rule that was deleted too: the list may
  call a source active whose own state is not.
  The callback of the refresh button (SettingsWindow.cpp:681) may run when its window is deleted.
- `docs/assets/app.js`: a time limit that runs out for a text that was retyped without a new job (the box left regex mode, or
  its new text has no preview) stores and shows "timed out" (330) without comparing the text, as the answer of the worker does
  (321). A time limit or an error of the worker, or a `new Worker` or `postMessage` that throws (335), drops the jobs of all boxes (302), which show
  "Checking" until they are rendered again. Without a Worker (312) they show it for good.

## 8. What is not modelled

- *KillAllHelper's loop*; *the confirmation dialog*; *QSbieAPI's readers*: see the plan.
- *The rest of the documentation site*: opening articles, where an answer may come after the reader has gone
  on, tabs and School mode of the page are a candidate; layout, colours and texts are not.
- *The other servers of SbieSvc, token calls, installers, command line tools*: each call is forwarded
  to Windows after a check, one after another.
- *Driver callbacks, object filters, configuration; injected hooks; low-level code*: decisions about one
  call, or states whose order Windows alone decides.
- *Ini server, mount manager, driver assistant, box jobs*: have state of their own and are candidates.
- *What a proxy does with a request* (OpenDocument, windows, clipboard, DDE): one step, `run`.
- *Windows, themes, tabs, translations, third-party tools*: no shared state of their own. The translation files
  (`sandman_*.ts`) are XML data of Qt and hold no code.

## 9. The plan

1. Done: the queue service with its abstraction; the port server and its clients; both
   proxies with their callers; the two logs; settings and history; scheduled settings; the regex previews; and for each of them
   the proofs of its safety properties and refinements.
2. Next, models: the kill loop of KillAllHelper, the confirmation dialog, the monitor's reader in QSbieAPI over
   `Session`, box jobs, the articles of the documentation site.
3. Then, proofs: the safety properties of those models; that PortServer delivers each notification that a process ended at most
   once for each time it was known; what a reader of `MessageLog` misses when numbers wrap.
