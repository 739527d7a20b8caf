---------------------------- MODULE RegexPreview ----------------------------
(***************************************************************************)
(* The regex previews of the documentation site.  All search boxes share   *)
(* one worker, which may hang on a pattern; a job that takes too long      *)
(* costs every box its job (docs/assets/app.js, docs/regex-worker.js).     *)
(***************************************************************************)
EXTENDS Naturals, Sequences, FiniteSets, SequencesExt

CONSTANTS
    Search,     (* search boxes                                            *)
    Text,       (* what a box can hold: pattern, flags and sample, the key *)
    Plain,      (* texts without a sample or with a pattern that is refused *)
    Slow,       (* texts that keep the worker busy for good                *)
    NoJob, NoResult, Matcher, Checking,
    MaxPosted   (* bound on the messages between page and worker           *)

Id     == 1 .. MaxPosted
Result == [key : Text, outcome : {"answer", "timeout"}]

ASSUME PreviewAssumption ==
    /\ IsFiniteSet(Search)
    /\ Plain \subseteq Text /\ Slow \subseteq Text \ Plain
    /\ MaxPosted \in Nat /\ NoJob \notin Id
    /\ NoResult \notin Result /\ Matcher \notin Result
    /\ Checking \notin Result \cup {Matcher}

VARIABLES
    box,        (* state.searches                                          *)
    onScreen,   (* the boxes of the view that is rendered                  *)
    jobs,       (* regexPreviewJobs, in the order of insertion             *)
    jobOf,      (* regexPreviewJobBySearch                                 *)
    results,    (* regexPreviewResults                                     *)
    shown,      (* the status elements                                     *)
    inbox,      (* posted to the worker, which works on the first          *)
    outbox,     (* ids of its answers on their way back                    *)
    dropped,    (* boxes left without a job since they were last rendered  *)
    supported   (* whether the browser has a Worker at all                 *)

vars == <<box, onScreen, jobs, jobOf, results, shown, inbox, outbox, dropped, supported>>

Box     == [text : Text, regex : BOOLEAN]
Job     == [id : Id, search : Search, key : Text]
Message == [id : Id, key : Text]

PreviewTypeOK ==
    /\ box \in [Search -> Box]
    /\ onScreen \in SUBSET Search
    /\ jobs \in Seq(Job)
    /\ jobOf \in [Search -> Id \cup {NoJob}]
    /\ results \in [Search -> Result \cup {NoResult}]
    /\ shown \in [Search -> Result \cup {Matcher, Checking}]
    /\ inbox \in Seq(Message)
    /\ outbox \in Seq(Id)
    /\ dropped \in SUBSET Search
    /\ supported \in BOOLEAN

-----------------------------------------------------------------------------
(* Rendering                                                               *)

(* An operator named Bug... is a plausible mistake in the definition that  *)
(* follows it, to try the properties on; nothing uses it.                  *)

(* regexPreviewStatus asks the worker about these only.                    *)
Previews(b) == b.regex /\ b.text \notin Plain

Cached(s, text) == results[s] # NoResult /\ results[s].key = text

JobWith(js, id) == {j \in Range(js) : j.id = id}

Without(js, id) ==
    LET at == {i \in DOMAIN js : js[i].id = id}
    IN  IF at = {} THEN js ELSE RemoveAt(js, CHOOSE i \in at : TRUE)

(* The ids that the worker has, or has answered.                           *)
Posted(messages, answers) == {m.id : m \in Range(messages)} \cup Range(answers)

(* regexWorkerSequence: an id nothing refers to any more.                  *)
Fresh(p) ==
    CHOOSE id \in Id :
        /\ JobWith(p.jobs, id) = {}
        /\ id \notin Posted(p.inbox, p.outbox)

Owners(js) == {j.search : j \in Range(js)}

(* A page in a rendering is a record p of jobs, jobOf, inbox, outbox and   *)
(* dropped.  The catch of queueRegexPreview, when new Worker or            *)
(* postMessage throws for box s: nobody has a job any more.                *)
Thrown(p, s) ==
    [jobs    |-> << >>,
     jobOf   |-> [r \in Search |-> NoJob],
     inbox   |-> << >>,
     outbox  |-> << >>,
     dropped |-> p.dropped \cup Owners(p.jobs) \cup {s}]

(* A new job of box s, js being the jobs that stay.                        *)
Post(p, js, s, text) ==
    LET id == Fresh(p)
    IN  [jobs    |-> Append(js, [id |-> id, search |-> s, key |-> text]),
         jobOf   |-> [p.jobOf EXCEPT ![s] = id],
         inbox   |-> Append(p.inbox, [id |-> id, key |-> text]),
         outbox  |-> p.outbox,
         dropped |-> p.dropped]

Asked(p, s, text) ==
    Cached(s, text) \/ \E j \in JobWith(p.jobs, p.jobOf[s]) : j.key = text

BugQueueLeavesJob(p, s, text, throws) ==
    IF ~ supported THEN [p EXCEPT !.dropped = @ \cup {s}]
    ELSE IF Asked(p, s, text) THEN p
    ELSE IF throws THEN Thrown(p, s)
    ELSE Post(p, p.jobs, s, text)

BugQueueOnce(p, s, text, throws) ==
    IF ~ supported THEN [p EXCEPT !.dropped = @ \cup {s}]
    ELSE IF Cached(s, text) \/ p.jobOf[s] # NoJob THEN p
    ELSE IF throws THEN Thrown(p, s)
    ELSE Post(p, Without(p.jobs, p.jobOf[s]), s, text)

(* queueRegexPreview for box s, which holds text.                          *)
Queue(p, s, text, throws) ==
    IF ~ supported THEN [p EXCEPT !.dropped = @ \cup {s}]
    ELSE IF Asked(p, s, text) THEN p
    ELSE IF throws THEN Thrown(p, s)
    ELSE Post(p, Without(p.jobs, p.jobOf[s]), s, text)

(* renderApp: the boxes of the view, one after the other; the calls of any *)
(* of them may throw.                                                      *)
Render(bx, screen) ==
    \E throwing \in SUBSET screen :
    LET asking == SetToSeq({s \in screen : Previews(bx[s])})
        start == [jobs |-> jobs, jobOf |-> jobOf, inbox |-> inbox, outbox |-> outbox,
                  dropped |-> dropped \ screen]
        queued[k \in 0 .. Len(asking)] ==
            IF k = 0 THEN start
            ELSE Queue(queued[k - 1], asking[k], bx[asking[k]].text, asking[k] \in throwing)
        p == queued[Len(asking)]
    IN  /\ box' = bx
        /\ onScreen' = screen
        /\ jobs' = p.jobs /\ jobOf' = p.jobOf
        /\ inbox' = p.inbox /\ outbox' = p.outbox
        /\ dropped' = p.dropped
        /\ shown' = [s \in Search |->
              IF s \notin screen \/ ~ Previews(bx[s]) THEN Matcher
              ELSE IF Cached(s, bx[s].text) THEN results[s] ELSE Checking]
        /\ UNCHANGED <<results, supported>>

(* Room for a message per box; the browser's queues have no such bound.    *)
Room == Len(inbox) + Len(outbox) + Cardinality(Search) <= MaxPosted

(* updateSearch: what is typed makes the box a regex.                      *)
Type(s, text) ==
    /\ s \in onScreen /\ Room
    /\ Render([box EXCEPT ![s] = [text |-> text, regex |-> TRUE]], onScreen)

(* toggle-regex                                                            *)
Toggle(s) ==
    /\ s \in onScreen /\ Room
    /\ Render([box EXCEPT ![s].regex = ~ @], onScreen)

(* Any other action renders a view, often the one that is there.           *)
Show(screen) ==
    /\ Room
    /\ Render(box, screen)

-----------------------------------------------------------------------------
(* The worker and the timers                                               *)

Work ==
    /\ inbox # << >> /\ Head(inbox).key \notin Slow
    /\ inbox' = Tail(inbox)
    /\ outbox' = Append(outbox, Head(inbox).id)
    /\ UNCHANGED <<box, onScreen, jobs, jobOf, results, shown, dropped, supported>>

Display(s, result) ==
    shown' = IF s \in onScreen THEN [shown EXCEPT ![s] = result] ELSE shown

BugDeliverUnchecked ==
    /\ outbox # << >>
    /\ outbox' = Tail(outbox)
    /\ jobs' = Without(jobs, Head(outbox))
    /\ jobOf' = [s \in Search |-> IF jobOf[s] = Head(outbox) THEN NoJob ELSE jobOf[s]]
    /\ IF JobWith(jobs, Head(outbox)) # {}
       THEN \E j \in JobWith(jobs, Head(outbox)) :
               LET result == [key |-> j.key, outcome |-> "answer"]
               IN  /\ results' = [results EXCEPT ![j.search] = result]
                   /\ Display(j.search, result)
       ELSE UNCHANGED <<results, shown>>
    /\ UNCHANGED <<box, onScreen, inbox, dropped, supported>>

(* The worker's "message".                                                 *)
Deliver ==
    /\ outbox # << >>
    /\ outbox' = Tail(outbox)
    /\ jobs' = Without(jobs, Head(outbox))
    /\ jobOf' = [s \in Search |-> IF jobOf[s] = Head(outbox) THEN NoJob ELSE jobOf[s]]
    /\ IF \E j \in JobWith(jobs, Head(outbox)) : j.key = box[j.search].text
       THEN \E j \in JobWith(jobs, Head(outbox)) :
               LET result == [key |-> j.key, outcome |-> "answer"]
               IN  /\ results' = [results EXCEPT ![j.search] = result]
                   /\ Display(j.search, result)
       ELSE UNCHANGED <<results, shown>>
    /\ UNCHANGED <<box, onScreen, inbox, dropped, supported>>

(* resetRegexWorker: the worker and all that is posted are gone.           *)
Reset(but) ==
    /\ jobs' = << >> /\ jobOf' = [s \in Search |-> NoJob]
    /\ inbox' = << >> /\ outbox' = << >>
    /\ dropped' = dropped \cup (Owners(jobs) \ but)

(* REGEX_WORKER_TIMEOUT of the oldest job.                                 *)
Timeout ==
    /\ jobs # << >>
    /\ LET j == Head(jobs)
           result == [key |-> j.key, outcome |-> "timeout"]
       IN  /\ results' = [results EXCEPT ![j.search] = result]
           /\ Display(j.search, result)
           /\ Reset({j.search})
    /\ UNCHANGED <<box, onScreen, supported>>

(* The worker's "error".                                                   *)
WorkerFails ==
    /\ inbox # << >>
    /\ Reset({})
    /\ UNCHANGED <<box, onScreen, results, shown, supported>>

Init ==
    /\ box \in [Search -> [text : Plain, regex : BOOLEAN]]
    /\ onScreen = {}
    /\ jobs = << >> /\ jobOf = [s \in Search |-> NoJob]
    /\ results = [s \in Search |-> NoResult]
    /\ shown = [s \in Search |-> Matcher]
    /\ inbox = << >> /\ outbox = << >>
    /\ dropped = {}
    /\ supported \in BOOLEAN

Next ==
    \/ \E s \in Search, text \in Text : Type(s, text)
    \/ \E s \in Search : Toggle(s)
    \/ \E screen \in SUBSET Search : Show(screen)
    \/ Work \/ Deliver \/ Timeout \/ WorkerFails

(* Timers fire and messages arrive; the worker works unless it hangs.      *)
Spec == Init /\ [][Next]_vars /\ WF_vars(Work) /\ WF_vars(Deliver) /\ WF_vars(Timeout)

-----------------------------------------------------------------------------
(* Properties                                                              *)

(* The two maps of jobs agree: a box has at most one job, no job is left   *)
(* behind by a retyped box, a late answer or a reset, and each live job is *)
(* still with the worker or in its answers (queueRegexPreview,             *)
(* resetRegexWorker).                                                      *)
JobsAgree ==
    /\ PreviewTypeOK
    /\ \A s \in Search :
          jobOf[s] # NoJob <=> \E j \in Range(jobs) : j.search = s
    /\ \A j \in Range(jobs) : jobOf[j.search] = j.id
    /\ \A m, n \in DOMAIN jobs : jobs[m].search = jobs[n].search => m = n
    /\ \A j \in Range(jobs) : j.id \in Posted(inbox, outbox)

(* A status never shows the answer for another text than the box holds,    *)
(* whatever was typed while it was out; only a time limit that runs out    *)
(* late may be shown on another text, since the timer does not compare the *)
(* key ("message" and timeout in queueRegexPreview).                       *)
StatusFits ==
    \A s \in onScreen :
        /\ shown[s] \notin {Matcher, Checking} /\ shown[s].key # box[s].text
              => shown[s].outcome = "timeout"
        /\ shown[s] = Checking => Previews(box[s])

(* "Checking" ends for a box, with a result or a new text, unless the box  *)
(* was left without a job: by a reset, which drops the jobs of all boxes   *)
(* (resetRegexWorker), by a call of its own that threw, or because the     *)
(* browser has no Worker (queueRegexPreview); then nothing but a new       *)
(* rendering asks again.                                                   *)
Waiting(s) == s \in onScreen /\ shown[s] = Checking /\ s \notin dropped

CheckingEnds == \A s \in Search : Waiting(s) ~> ~ Waiting(s)
=============================================================================
