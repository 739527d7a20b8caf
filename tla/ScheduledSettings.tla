------------------------- MODULE ScheduledSettings -------------------------
(***************************************************************************)
(* Rules that change appearance and language by the clock, some of them    *)
(* only while a remote source says "on" (ScheduledSettings.cpp, and its    *)
(* callers in SettingsWindow.cpp).  Everything runs on the thread of the   *)
(* user interface; what is interleaved are timers, answers and clicks.     *)
(***************************************************************************)
EXTENDS Integers

CONSTANTS
    Id,         (* ids of rules; the order of Int is that of the strings   *)
    Source,     (* remote sources: kind, url and entity                    *)
    Local,
    Ref,        (* credential references                                   *)
    NoRef,
    RuleKey,    (* the allowlisted keys, kKeys                             *)
    Language,   (* the one that School mode overrides                      *)
    RuleValue,
    Unset,      (* the rule has no value for the key                       *)
    Offered,    (* per id, the valid rules that may be stored              *)
    NoRule,
    Window,     (* settings windows that get opened; each has its timer    *)
    NoWindow,
    DayLength,  (* instants of a day                                       *)
    Days        (* days until the calendar starts anew                     *)

Instant  == 0 .. DayLength * Days - 1
StateKey == Id \X Ref

Rule == [enabled : BOOLEAN, priority : Int, start : 0 .. DayLength - 1,
         end : 0 .. DayLength - 1, days : SUBSET (0 .. Days - 1),
         source : Source \cup {Local}, ref : Ref \cup {NoRef},
         values : [RuleKey -> RuleValue \cup {Unset}]]

(* validate: external rules have a reference, local ones have none.        *)
ASSUME ScheduleAssumption ==
    /\ Id \subseteq Int /\ Language \in RuleKey
    /\ DayLength \in Nat \ {0} /\ Days \in Nat \ {0}
    /\ Local \notin Source /\ NoRef \notin Ref /\ Unset \notin RuleValue
    /\ NoWindow \notin Window
    /\ Offered \in [Id -> SUBSET Rule] /\ NoRule \notin Rule
    /\ \A i \in Id : \A r \in Offered[i] : r.source = Local <=> r.ref = NoRef

RuleSet == {rs \in [Id -> (UNION {Offered[i] : i \in Id}) \cup {NoRule}] :
               \A i \in Id : rs[i] \in Offered[i] \cup {NoRule}}

VARIABLES
    rules,      (* UIConfig/ScheduledRules                                 *)
    external,   (* s_externalStates, of which apply reads active           *)
    replies,    (* the requests that have not finished                     *)
    settings,   (* the allowlisted keys in theConf                         *)
    school,     (* Options/SchoolModeEnabled                               *)
    window,     (* "new", "open" or "closed"                               *)
    now,
    dangling,   (* a callback has used a settings window that is deleted   *)
    heard,      (* per key, the source whose last answer was "on"; Local   *)
    moved       (* keys whose rule got another source since it was asked   *)

scheduleVars ==
    <<rules, external, replies, settings, school, window, now, dangling, heard, moved>>

ExternalStatus ==
    {"not-activated", "missing", "refreshing", "active", "off", "failed"}

(* due: nextRefresh is unset or has passed.  An absent entry is Untouched. *)
ExternalState == [active : BOOLEAN, inFlight : BOOLEAN, due : BOOLEAN,
                  status : ExternalStatus]
Untouched == [active |-> FALSE, inFlight |-> FALSE, due |-> TRUE,
              status |-> "not-activated"]

Reply == [key : StateKey, source : Source, asker : Window \cup {NoWindow}]

ScheduleTypeOK ==
    /\ rules \in RuleSet
    /\ external \in [StateKey -> ExternalState]
    /\ replies \in SUBSET Reply
    /\ settings \in [RuleKey -> RuleValue]
    /\ school \in BOOLEAN
    /\ window \in [Window -> {"new", "open", "closed"}]
    /\ now \in Instant
    /\ dangling \in BOOLEAN
    /\ heard \in [StateKey -> Source \cup {Local}]
    /\ moved \in SUBSET StateKey

-----------------------------------------------------------------------------
(* Rules                                                                   *)

Day(t)  == t \div DayLength
Hour(t) == t % DayLength

BugOwnDate(r, t) ==
    /\ r.enabled
    /\ Day(t) \in r.days
    /\ IF r.start > r.end
       THEN Hour(t) >= r.start \/ Hour(t) <= r.end
       ELSE Hour(t) >= r.start /\ Hour(t) <= r.end

(* Rule::matches.  days stands for the dates that pass the date bounds and *)
(* the weekdays.                                                           *)
Matches(r, t) ==
    LET crossesMidnight == r.start > r.end
        date == IF crossesMidnight /\ Hour(t) < r.start
                THEN (Day(t) - 1) % Days ELSE Day(t)
    IN  /\ r.enabled
        /\ date \in r.days
        /\ IF crossesMidnight
           THEN Hour(t) >= r.start \/ Hour(t) <= r.end
           ELSE Hour(t) >= r.start /\ Hour(t) <= r.end

Matching(rs) == {i \in Id : rs[i] # NoRule /\ Matches(rs[i], now)}

(* effectiveRule: the highest priority, then the smallest id.              *)
Precedes(rs, i, j) ==
    \/ rs[i].priority > rs[j].priority
    \/ rs[i].priority = rs[j].priority /\ i < j

Effective(rs) ==
    {i \in Matching(rs) : \A j \in Matching(rs) \ {i} : Precedes(rs, i, j)}

External(r) == r # NoRule /\ r.source # Local

KeyOf(rs, i) == <<i, rs[i].ref>>

-----------------------------------------------------------------------------
(* refreshExternalSources and apply                                        *)

BugAsksInFlight(rs, ext, force) ==
    {k \in StateKey :
        /\ External(rs[k[1]]) /\ rs[k[1]].ref = k[2]
        /\ Matches(rs[k[1]], now)
        /\ force \/ ext[k].due}

(* The keys of the rules that are to be asked about.                       *)
ToAsk(rs, ext, force) ==
    {k \in StateKey :
        /\ External(rs[k[1]]) /\ rs[k[1]].ref = k[2]
        /\ Matches(rs[k[1]], now)
        /\ ~ ext[k].inFlight
        /\ force \/ ext[k].due}

(* What becomes of the keys to ask; readVaultCredential finds the          *)
(* references in found only.                                               *)
Refreshed(ext, ask, found) ==
    [k \in StateKey |->
        IF k \notin ask THEN ext[k]
        ELSE IF k[2] \in found
        THEN [ext[k] EXCEPT !.active = FALSE, !.inFlight = TRUE, !.status = "refreshing"]
        ELSE [ext[k] EXCEPT !.active = FALSE, !.due = FALSE, !.status = "missing"]]

Requests(rs, ask, found, asker) ==
    {[key |-> k, source |-> rs[k[1]].source, asker |-> asker] :
        k \in {q \in ask : q[2] \in found}}

(* What the end of apply writes.                                           *)
Overlay(r) ==
    [s \in RuleKey |->
        IF r.values[s] = Unset \/ (s = Language /\ school)
        THEN settings[s] ELSE r.values[s]]

BugInForceWhileAsked(rs, ext) ==
    {i \in Effective(rs) :
        External(rs[i]) => ext[KeyOf(rs, i)].active \/ ext[KeyOf(rs, i)].status = "refreshing"}

(* The effective rule, when it is local or its source said "on".           *)
InForce(rs, ext) ==
    {i \in Effective(rs) : External(rs[i]) => ext[KeyOf(rs, i)].active}

BugApplyWithoutAsking(rs, ext, rep) ==
    /\ external' = ext /\ replies' = rep /\ moved' = moved
    /\ settings' = IF InForce(rs, ext) = {} THEN settings
                   ELSE Overlay(rs[CHOOSE i \in InForce(rs, ext) : TRUE])

(* apply, when the rules are rs, the states ext, the requests rep.         *)
Apply(rs, ext, rep) ==
    \E found \in SUBSET Ref :
        LET ask == IF \E i \in Effective(rs) : External(rs[i])
                   THEN ToAsk(rs, ext, FALSE) ELSE {}
        IN  /\ external' = Refreshed(ext, ask, found)
            /\ replies' = rep \cup Requests(rs, ask, found, NoWindow)
            /\ moved' = moved \ ask
            /\ settings' = IF InForce(rs, external') = {} THEN settings
                           ELSE Overlay(rs[CHOOSE i \in InForce(rs, external') : TRUE])

-----------------------------------------------------------------------------
(* The settings window                                                     *)

OpenWindow(w) ==
    /\ window[w] = "new"
    /\ window' = [window EXCEPT ![w] = "open"]
    /\ Apply(rules, external, replies)
    /\ UNCHANGED <<rules, school, now, dangling, heard>>

(* closeEvent deletes the window, and its timer with it.                   *)
CloseWindow(w) ==
    /\ window[w] = "open"
    /\ window' = [window EXCEPT ![w] = "closed"]
    /\ UNCHANGED <<rules, external, replies, settings, school, now, dangling,
                   heard, moved>>

(* scheduledRefresh, every 60 seconds.                                     *)
Timer(w) ==
    /\ window[w] = "open"
    /\ Apply(rules, external, replies)
    /\ UNCHANGED <<rules, school, window, now, dangling, heard>>

(* Add stores a local rule; Edit keeps the rule's source; Delete.          *)
Save(w, i, r) ==
    /\ window[w] = "open"
    /\ r # rules[i]
    /\ r # NoRule => IF rules[i] = NoRule THEN r.source = Local
                     ELSE r.source = rules[i].source /\ r.ref = rules[i].ref
    /\ rules' = [rules EXCEPT ![i] = r]
    /\ Apply(rules', external, replies)
    /\ UNCHANGED <<school, window, now, dangling, heard>>

(* The button that refreshes the external sources.                         *)
RefreshButton(w) ==
    /\ window[w] = "open"
    /\ \E found \in SUBSET Ref :
          LET ask == ToAsk(rules, external, TRUE)
          IN  /\ external' = Refreshed(external, ask, found)
              /\ replies' = replies \cup Requests(rules, ask, found, w)
              /\ moved' = moved \ ask
    /\ UNCHANGED <<rules, settings, school, window, now, dangling, heard>>

UserSets(w, s, v) ==
    /\ window[w] = "open"
    /\ settings' = [settings EXCEPT ![s] = v]
    /\ UNCHANGED <<rules, external, replies, school, window, now, dangling,
                   heard, moved>>

SetSchool(w) ==
    /\ window[w] = "open"
    /\ school' = ~ school
    /\ UNCHANGED <<rules, external, replies, settings, window, now, dangling,
                   heard, moved>>

(* The settings history, or a hand on the ini file, stores other rules.    *)
StoreRules(i, r) ==
    LET kept == /\ External(r) /\ External(rules[i])
                /\ r.source = rules[i].source /\ r.ref = rules[i].ref
    IN  /\ r # rules[i]
        /\ rules' = [rules EXCEPT ![i] = r]
        /\ moved' = IF External(r) /\ ~ kept THEN moved \cup {<<i, r.ref>>} ELSE moved
        /\ UNCHANGED <<external, replies, settings, school, window, now,
                       dangling, heard>>

-----------------------------------------------------------------------------
(* Answers and time                                                        *)

Outcome == {"active", "off", "failed"}

(* finished; "failed" is also what aborts, the timeout and a bad answer    *)
(* end in.  Then apply, and the callback of the button: refreshScheduledRules *)
(* works on the list of the window that asked.                             *)
Finish(reply, outcome) ==
    LET done == [active |-> outcome = "active", inFlight |-> FALSE,
                 due |-> FALSE, status |-> outcome]
    IN  /\ reply \in replies
        /\ heard' = [heard EXCEPT ![reply.key] =
                        IF outcome = "active" THEN reply.source ELSE Local]
        /\ Apply(rules, [external EXCEPT ![reply.key] = done], replies \ {reply})
        /\ dangling' = (/\ reply.asker # NoWindow
                        /\ window[reply.asker] = "closed")
        /\ UNCHANGED <<rules, school, window, now>>

(* nextRefresh passes.                                                     *)
Expire(k) ==
    /\ ~ external[k].due
    /\ external' = [external EXCEPT ![k].due = TRUE]
    /\ UNCHANGED <<rules, replies, settings, school, window, now, dangling,
                   heard, moved>>

Tick ==
    /\ now' = (now + 1) % (DayLength * Days)
    /\ UNCHANGED <<rules, external, replies, settings, school, window, dangling,
                   heard, moved>>

ScheduleInit ==
    /\ rules \in RuleSet
    /\ external = [k \in StateKey |-> Untouched]
    /\ replies = {}
    /\ settings \in [RuleKey -> RuleValue]
    /\ school \in BOOLEAN
    /\ window = [w \in Window |-> "new"]
    /\ now \in Instant
    /\ dangling = FALSE
    /\ heard = [k \in StateKey |-> Local]
    /\ moved = {}

WindowStep(w) ==
    \/ OpenWindow(w)
    \/ CloseWindow(w)
    \/ Timer(w)
    \/ \E i \in Id : \E r \in Offered[i] \cup {NoRule} : Save(w, i, r)
    \/ RefreshButton(w)
    \/ \E s \in RuleKey, v \in RuleValue : UserSets(w, s, v)
    \/ SetSchool(w)

FinishAny(k) ==
    \E reply \in replies, outcome \in Outcome : reply.key = k /\ Finish(reply, outcome)

(* A callback on a deleted window is undefined: the model stops there.     *)
ScheduleNext ==
    /\ ~ dangling
    /\ \/ \E w \in Window : WindowStep(w)
       \/ \E i \in Id : \E r \in Offered[i] \cup {NoRule} : StoreRules(i, r)
       \/ \E k \in StateKey : FinishAny(k) \/ Expire(k)
       \/ Tick

Fairness ==
    /\ \A w \in Window : WF_scheduleVars(~ dangling /\ Timer(w))
    /\ \A k \in StateKey : /\ WF_scheduleVars(~ dangling /\ FinishAny(k))
                          /\ WF_scheduleVars(~ dangling /\ Expire(k))

ScheduleSpec == ScheduleInit /\ [][ScheduleNext]_scheduleVars

LiveSpec == ScheduleSpec /\ Fairness

-----------------------------------------------------------------------------
(* Properties                                                              *)

(* The state kept under a rule's key, which decides whether its rule is in *)
(* force, follows the requests and answers of that key, in whatever order  *)
(* they come: it is in flight exactly while a request is out, a second     *)
(* request is never sent meanwhile, and it is active only when the last    *)
(* answer was "on" and no request has followed.  That answer came from the *)
(* source the rule has now, unless another one was stored under the key    *)
(* since (refreshExternalSources, finished, apply).  What the list of      *)
(* rules shows (sourceStatus) is a summary over the states of all rules    *)
(* with one credential reference, and no part of this.                     *)
Truthful(rs, ext, rep, hd, mv) ==
    /\ \A k \in StateKey :
          /\ ext[k].inFlight <=> \E a \in rep : a.key = k
          /\ ext[k].inFlight <=> ext[k].status = "refreshing"
          /\ ext[k].active <=> ext[k].status = "active"
          /\ ext[k].active => hd[k] # Local
    /\ \A a, b \in rep : a.key = b.key => a = b
    /\ \A i \in Id : External(rs[i]) /\ KeyOf(rs, i) \notin mv =>
          /\ ext[KeyOf(rs, i)].active => hd[KeyOf(rs, i)] = rs[i].source
          /\ \A a \in rep : a.key = KeyOf(rs, i) => a.source = rs[i].source

LastAnswerDecides == Truthful(rules, external, replies, heard, moved)

(* A rule matches exactly in the windows of its days, each of which starts *)
(* on a day of the rule and may run past midnight (Rule::matches).         *)
WindowOf(r, d) ==
    LET from == d * DayLength + r.start
        to   == d * DayLength + r.end + (IF r.start > r.end THEN DayLength ELSE 0)
    IN  {t % (DayLength * Days) : t \in from .. to}

MatchesItsWindows ==
    \A i \in Id : rules[i] # NoRule =>
        (Matches(rules[i], now) <=>
            /\ rules[i].enabled
            /\ \E d \in rules[i].days : now \in WindowOf(rules[i], d))

(* Only the user changes a setting, or a rule that matches now and that no *)
(* matching rule outranks, and never the language in School mode; an       *)
(* external rule does so only when the last answer for its key was "on",   *)
(* no request has followed, and the answer came from the rule's own source *)
(* unless another source was stored under its key since (apply).           *)
Gated ==
    [][ \A s \in RuleKey : settings'[s] # settings[s] =>
          \/ \E w \in Window : UserSets(w, s, settings'[s])
          \/ \E i \in Id :
                /\ rules'[i] # NoRule /\ Matches(rules'[i], now)
                /\ \A j \in Id \ {i} :
                      rules'[j] # NoRule /\ Matches(rules'[j], now)
                          => Precedes(rules', i, j)
                /\ rules'[i].values[s] = settings'[s]
                /\ s = Language => ~ school
                /\ External(rules'[i]) =>
                      LET k == KeyOf(rules', i)
                      IN  /\ heard'[k] # Local
                          /\ heard'[k] = rules'[i].source \/ k \in moved'
                          /\ \A a \in replies' : a.key # k
      ]_scheduleVars

(* A rule that stays the effective one while a window stays open has its   *)
(* values in force again and again, whatever the user sets meanwhile; an   *)
(* external one, when its credential is there and its source, whenever it  *)
(* is asked, says "on" (the timer, nextRefresh and apply).                 *)
NotOn(k) == \E reply \in replies : reply.key = k /\ reply \notin replies' /\ ~ external'[k].active
Missing(k) == external'[k].status = "missing"

Prevails ==
    \A i \in Id, s \in RuleKey :
        (/\ <>[](/\ i \in Effective(rules) /\ rules[i].values[s] # Unset
                 /\ s = Language => ~ school
                 /\ ~ dangling
                 /\ \E w \in Window : window[w] = "open")
         /\ <>[][External(rules[i]) =>
                    ~ NotOn(KeyOf(rules, i)) /\ ~ Missing(KeyOf(rules, i))]_scheduleVars)
        => []<>(i \in Effective(rules) => settings[s] = rules[i].values[s])
=============================================================================
