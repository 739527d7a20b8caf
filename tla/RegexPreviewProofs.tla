------------------------- MODULE RegexPreviewProofs -------------------------
(***************************************************************************)
(* What TLAPS proves of the regex previews of the documentation site, for  *)
(* any number of search boxes and texts and every bound on the messages.   *)
(***************************************************************************)
EXTENDS RegexPreview, FiniteSetTheorems, FunctionTheorems, SequenceTheorems,
        WellFoundedInduction, TLAPS

-----------------------------------------------------------------------------
(* Induction, for sets of numbers                                          *)

(* What holds of 0 and passes on from each number to the next holds up to n. *)
LEMMA UpTo ==
    ASSUME NEW n \in Nat, NEW S, 0 \in S,
           \A k \in 0 .. n - 1 : k \in S => k + 1 \in S
    PROVE  \A k \in 0 .. n : k \in S
<1> SUFFICES ASSUME (0 .. n) \ S # {} PROVE FALSE
  OBVIOUS
<1> DEFINE T == (0 .. n) \ S
<1>1. T \in SUBSET Nat /\ T # {}
  OBVIOUS
<1>2. PICK m \in T : \A k \in T : <<k, m>> \notin OpToRel(<, Nat)
  BY <1>1, WFMin, NatLessThanWellFounded, Zenon
<1>3. \A k \in T : ~ (k < m)
  BY <1>1, <1>2, Zenon DEF OpToRel
<1>4. m # 0 /\ m - 1 \in 0 .. n - 1 /\ m - 1 \in S
  BY <1>3
<1> QED
  BY <1>4

-----------------------------------------------------------------------------
(* The two maps of jobs                                                    *)

Jobs(js, of) ==
    /\ js \in Seq(Job) /\ of \in [Search -> Id \cup {NoJob}]
    /\ \A s \in Search : of[s] # NoJob => \E i \in 1 .. Len(js) : js[i].search = s
    /\ \A i \in 1 .. Len(js) : of[js[i].search] = js[i].id
    /\ \A m, n \in 1 .. Len(js) : js[m].search = js[n].search => m = n
    /\ \A m, n \in 1 .. Len(js) : js[m].id = js[n].id => m = n

(* Every job is with the worker or answered.                               *)
Agree(js, of, messages, answers) ==
    /\ Jobs(js, of) /\ messages \in Seq(Message) /\ answers \in Seq(Id)
    /\ \A i \in 1 .. Len(js) : js[i].id \in Posted(messages, answers)

PreviewInv == PreviewTypeOK /\ Agree(jobs, jobOf, inbox, outbox) /\ StatusFits

LEMMA RangeIs ==
    ASSUME NEW S, NEW seq \in Seq(S)
    PROVE  \A x : x \in Range(seq) <=> \E i \in 1 .. Len(seq) : x = seq[i]
BY DEF Range

LEMMA JobIs ==
    ASSUME NEW js \in Seq(Job), NEW i \in 1 .. Len(js)
    PROVE  js[i] \in Job /\ js[i].id \in Id /\ js[i].search \in Search /\ js[i].key \in Text
           /\ js[i].id # NoJob
<1>1. js[i] \in Job
  OBVIOUS
<1> QED
  BY <1>1, PreviewAssumption DEF Job

LEMMA AgreeIs ==
    ASSUME PreviewTypeOK, Agree(jobs, jobOf, inbox, outbox)
    PROVE  JobsAgree
<1>1. \A j : j \in Range(jobs) <=> \E i \in 1 .. Len(jobs) : j = jobs[i]
  BY RangeIs DEF PreviewTypeOK
<1>2. jobs \in Seq(Job) /\ DOMAIN jobs = 1 .. Len(jobs)
  BY DEF PreviewTypeOK
<1>3. \A i \in 1 .. Len(jobs) : jobOf[jobs[i].search] = jobs[i].id /\ jobs[i].id # NoJob
  BY <1>2, JobIs DEF Agree, Jobs
<1>4. \A s \in Search : jobOf[s] # NoJob <=> \E j \in Range(jobs) : j.search = s
  <2>1. ASSUME NEW s \in Search, jobOf[s] # NoJob PROVE \E j \in Range(jobs) : j.search = s
    <3>1. PICK i \in 1 .. Len(jobs) : jobs[i].search = s
      BY <2>1 DEF Agree, Jobs
    <3>2. jobs[i] \in Range(jobs)
      BY <1>1
    <3> QED
      BY <3>1, <3>2
  <2>2. ASSUME NEW s \in Search, NEW j \in Range(jobs), j.search = s PROVE jobOf[s] # NoJob
    <3>1. PICK i \in 1 .. Len(jobs) : j = jobs[i]
      BY <1>1
    <3> QED
      BY <1>3, <2>2, <3>1
  <2> QED
    BY <2>1, <2>2
<1> QED
  BY <1>1, <1>2, <1>3, <1>4 DEF JobsAgree, Agree, Jobs

(* What RemoveAt leaves of a sequence.                                     *)
Removed(S, seq, k, out) ==
    /\ out \in Seq(S) /\ Len(out) = Len(seq) - 1
    /\ \A i \in 1 .. Len(out) : out[i] = seq[IF i < k THEN i ELSE i + 1]

LEMMA RemoveIs ==
    ASSUME NEW S, NEW seq \in Seq(S), NEW k \in 1 .. Len(seq),
           NEW out, out = RemoveAt(seq, k)
    PROVE  Removed(S, seq, k, out)
<1>1. PICK a, b : a = SubSeq(seq, 1, k - 1) /\ b = SubSeq(seq, k + 1, Len(seq))
  OBVIOUS
<1>2. a \in Seq(S) /\ Len(a) = k - 1 /\ \A i \in 1 .. k - 1 : a[i] = seq[i]
  BY <1>1
<1>3. b \in Seq(S) /\ Len(b) = Len(seq) - k /\ \A i \in 1 .. Len(seq) - k : b[i] = seq[k + i]
  BY <1>1
<1>4. out = a \o b
  BY <1>1 DEF RemoveAt
<1>5. /\ out \in Seq(S) /\ Len(out) = Len(a) + Len(b)
      /\ \A i \in 1 .. Len(a) + Len(b) : out[i] = IF i <= Len(a) THEN a[i] ELSE b[i - Len(a)]
  BY <1>2, <1>3, <1>4
<1>6. ASSUME NEW i \in 1 .. Len(seq) - 1
      PROVE  out[i] = seq[IF i < k THEN i ELSE i + 1]
  <2>0. Len(a) + Len(b) = Len(seq) - 1 /\ i \in 1 .. Len(a) + Len(b)
    BY <1>2, <1>3
  <2>1. ASSUME i < k PROVE out[i] = seq[i]
    <3>1. i <= Len(a) /\ i \in 1 .. k - 1
      BY <1>2, <2>1
    <3>2. out[i] = a[i]
      BY <1>5, <2>0, <3>1
    <3> QED
      BY <1>2, <3>1, <3>2
  <2>2. ASSUME ~ (i < k) PROVE out[i] = seq[i + 1]
    <3>1. PICK j : j = i - Len(a)
      OBVIOUS
    <3>2. j \in 1 .. Len(seq) - k /\ k + j = i + 1 /\ ~ (i <= Len(a))
      BY <1>2, <2>2, <3>1
    <3>3. out[i] = b[j]
      BY <1>5, <2>0, <3>1, <3>2
    <3> QED
      BY <1>3, <3>2, <3>3
  <2> QED
    BY <2>1, <2>2
<1> QED
  BY <1>2, <1>3, <1>5, <1>6 DEF Removed

(* What Without leaves: the other jobs, each of them once.                 *)
Kept(js, id, out) ==
    /\ out \in Seq(Job)
    /\ \A i \in 1 .. Len(out) : \E m \in 1 .. Len(js) : out[i] = js[m] /\ js[m].id # id
    /\ \A m \in 1 .. Len(js) : js[m].id # id => \E i \in 1 .. Len(out) : out[i] = js[m]
    /\ \A m, n \in 1 .. Len(out) : out[m].search = out[n].search => m = n
    /\ \A m, n \in 1 .. Len(out) : out[m].id = out[n].id => m = n

LEMMA WithoutIs ==
    ASSUME NEW js, NEW of, Jobs(js, of), NEW id, NEW out, out = Without(js, id)
    PROVE  Kept(js, id, out)
<1> DEFINE at == {i \in DOMAIN js : js[i].id = id}
<1>0. js \in Seq(Job) /\ Len(js) \in Nat /\ DOMAIN js = 1 .. Len(js)
  BY DEF Jobs
<1>1. ASSUME at = {} PROVE Kept(js, id, out)
  <2>1. out = js
    BY <1>1 DEF Without
  <2>2. \A m \in 1 .. Len(js) : js[m].id # id
    BY <1>0, <1>1
  <2> QED
    BY <1>0, <2>1, <2>2 DEF Kept, Jobs
<1>2. ASSUME at # {} PROVE Kept(js, id, out)
  <2>1. PICK k : k = CHOOSE i \in at : TRUE
    OBVIOUS
  <2>2. out = RemoveAt(js, k)
    BY <1>2, <2>1, Zenon DEF Without
  <2>3. k \in at
    BY <1>2, <2>1
  <2>4. k \in 1 .. Len(js) /\ js[k].id = id
    BY <1>0, <2>3
  <2>5. /\ out \in Seq(Job) /\ Len(out) = Len(js) - 1
        /\ \A i \in 1 .. Len(out) : out[i] = js[IF i < k THEN i ELSE i + 1]
    <3>1. Removed(Job, js, k, out)
      BY <1>0, <2>2, <2>4, RemoveIs, Zenon
    <3> QED
      BY <3>1 DEF Removed
  <2>6. \A m \in 1 .. Len(js) : js[m].id = id => m = k
    BY <2>4 DEF Jobs
  <2> DEFINE from(i) == IF i < k THEN i ELSE i + 1
  <2>7. \A i \in 1 .. Len(out) : from(i) \in 1 .. Len(js) /\ from(i) # k /\ out[i] = js[from(i)]
    BY <1>0, <2>4, <2>5
  <2>8. \A m, n \in 1 .. Len(out) : from(m) = from(n) => m = n
    BY <1>0, <2>4, <2>5
  <2>9. \A m \in 1 .. Len(js) : m # k => \E i \in 1 .. Len(out) : from(i) = m
    <3>1. SUFFICES ASSUME NEW m \in 1 .. Len(js), m # k
                   PROVE  \E i \in 1 .. Len(out) : from(i) = m
      OBVIOUS
    <3>2. CASE m < k
      <4>1. m \in 1 .. Len(out) /\ from(m) = m
        BY <1>0, <2>4, <2>5, <3>1, <3>2
      <4> QED
        BY <4>1
    <3>3. CASE ~ (m < k)
      <4>1. m - 1 \in 1 .. Len(out) /\ from(m - 1) = m
        BY <1>0, <2>4, <2>5, <3>1, <3>3
      <4> QED
        BY <4>1
    <3> QED
      BY <3>2, <3>3
  <2> HIDE DEF from, at
  <2>10. \A i \in 1 .. Len(out) : \E m \in 1 .. Len(js) : out[i] = js[m] /\ js[m].id # id
    BY <2>6, <2>7
  <2>11. \A m \in 1 .. Len(js) : js[m].id # id => \E i \in 1 .. Len(out) : out[i] = js[m]
    BY <2>4, <2>7, <2>9
  <2>12. \A m, n \in 1 .. Len(js) :
            /\ js[m].search = js[n].search => m = n
            /\ js[m].id = js[n].id => m = n
    BY DEF Jobs
  <2>13. \A m, n \in 1 .. Len(out) : out[m].search = out[n].search => m = n
    BY <2>7, <2>8, <2>12
  <2>14. \A m, n \in 1 .. Len(out) : out[m].id = out[n].id => m = n
    BY <2>7, <2>8, <2>12
  <2> QED
    BY <2>5, <2>10, <2>11, <2>13, <2>14 DEF Kept
<1> QED
  BY <1>1, <1>2

-----------------------------------------------------------------------------
(* A fresh id                                                              *)

(* n things have at most n values: some number of 1 .. m is not among them *)
(* when n < m.                                                             *)
Left(f, n, m) == \E x \in 1 .. m : \A i \in 1 .. n : f[i] # x

LEMMA OneIsLeft ==
    ASSUME NEW n \in Nat, NEW m \in Nat, n < m, NEW f
    PROVE  Left(f, n, m)
<1> SUFFICES ASSUME \A x \in 1 .. m : \E i \in 1 .. n : f[i] = x PROVE FALSE
  BY DEF Left
<1> DEFINE A == {i \in 1 .. n : f[i] \in 1 .. m}
           g == [i \in A |-> f[i]]
<1>1. IsFiniteSet(1 .. n) /\ Cardinality(1 .. n) = n
  BY FS_Interval
<1>2. IsFiniteSet(1 .. m) /\ Cardinality(1 .. m) = m
  <2>1. 1 \in Int /\ m \in Int /\ ~ (1 > m) /\ m - 1 + 1 = m
    OBVIOUS
  <2> QED
    BY <2>1, FS_Interval
<1>3. IsFiniteSet(A) /\ Cardinality(A) <= n /\ Cardinality(A) \in Nat
  BY <1>1, FS_Subset, FS_CardinalityType
<1>4. g \in [A -> 1 .. m]
  OBVIOUS
<1>7. \A x \in 1 .. m : \E i \in A : g[i] = x
  OBVIOUS
<1>5. g \in Surjection(A, 1 .. m)
  BY <1>4, <1>7, Zenon DEF Surjection
<1> HIDE DEF A, g
<1>6. Cardinality(1 .. m) <= Cardinality(A)
  BY <1>2, <1>3, <1>5, FS_Surjection
<1> QED
  BY <1>2, <1>3, <1>6

(* While there is room, regexWorkerSequence has an id to give.             *)
LEMMA FreshIs ==
    ASSUME NEW p, NEW js, NEW of, NEW messages, NEW answers,
           p.jobs = js, p.inbox = messages, p.outbox = answers,
           Agree(js, of, messages, answers),
           Len(messages) + Len(answers) < MaxPosted,
           NEW id, id = Fresh(p)
    PROVE  id \in Id /\ id \notin Posted(messages, answers)
<1>0. messages \in Seq(Message) /\ Len(messages) \in Nat /\ Len(answers) \in Nat
      /\ MaxPosted \in Nat /\ js \in Seq(Job) /\ answers \in Seq(Id)
  BY PreviewAssumption DEF Agree, Jobs
<1> DEFINE n == Len(messages) + Len(answers)
           f == [i \in 1 .. n |-> IF i <= Len(messages) THEN messages[i].id
                                  ELSE answers[i - Len(messages)]]
<1>1. n \in Nat /\ n < MaxPosted
  BY <1>0
<1>2. /\ \A i \in 1 .. Len(messages) : i \in 1 .. n /\ f[i] = messages[i].id
      /\ \A i \in 1 .. Len(answers) :
            Len(messages) + i \in 1 .. n /\ f[Len(messages) + i] = answers[i]
  BY <1>0
<1> HIDE DEF n, f
<1>3. Left(f, n, MaxPosted)
  BY <1>0, <1>1, OneIsLeft, Zenon
<1>4. PICK x \in 1 .. MaxPosted : \A i \in 1 .. n : f[i] # x
  BY <1>3 DEF Left
<1>5. \A m : m \in Range(messages) <=> \E i \in 1 .. Len(messages) : m = messages[i]
  BY <1>0, RangeIs
<1>6. \A m : m \in Range(answers) <=> \E i \in 1 .. Len(answers) : m = answers[i]
  BY <1>0, RangeIs
<1>7. x \in Id /\ x \notin Posted(messages, answers)
  BY <1>2, <1>4, <1>5, <1>6 DEF Posted, Id
<1>8. \A j : j \in Range(js) <=> \E i \in 1 .. Len(js) : j = js[i]
  BY <1>0, RangeIs
<1>9. JobWith(js, x) = {}
  BY <1>7, <1>8 DEF JobWith, Agree
<1> QED
  BY <1>7, <1>9 DEF Fresh

-----------------------------------------------------------------------------
(* Asking the worker                                                       *)

(* The page in a rendering.                                                *)
Page == [jobs : Seq(Job), jobOf : [Search -> Id \cup {NoJob}], inbox : Seq(Message),
         outbox : Seq(Id), dropped : SUBSET Search]

Tidy(p) == Agree(p.jobs, p.jobOf, p.inbox, p.outbox)

Load(p) == Len(p.inbox) + Len(p.outbox)

(* One box asks: at most one message more.                                 *)
Asks(p, q) == q \in Page /\ Tidy(q) /\ Load(q) <= Load(p) + 1

LEMMA PageIs ==
    ASSUME NEW p \in Page
    PROVE  /\ p.jobs \in Seq(Job) /\ p.jobOf \in [Search -> Id \cup {NoJob}]
           /\ p.inbox \in Seq(Message) /\ p.outbox \in Seq(Id) /\ p.dropped \in SUBSET Search
           /\ Len(p.inbox) \in Nat /\ Len(p.outbox) \in Nat /\ Load(p) \in Nat
<1>1. /\ p.jobs \in Seq(Job) /\ p.jobOf \in [Search -> Id \cup {NoJob}]
      /\ p.inbox \in Seq(Message) /\ p.outbox \in Seq(Id) /\ p.dropped \in SUBSET Search
  BY DEF Page
<1>2. Len(p.inbox) \in Nat /\ Len(p.outbox) \in Nat
  <2>1. PICK a, b : a = p.inbox /\ b = p.outbox
    OBVIOUS
  <2>2. a \in Seq(Message) /\ b \in Seq(Id)
    BY <1>1, <2>1, Zenon
  <2>3. Len(a) \in Nat /\ Len(b) \in Nat
    BY <2>2
  <2> QED
    BY <2>1, <2>3, Zenon
<1>3. Load(p) \in Nat
  <2>1. PICK m, n : m = Len(p.inbox) /\ n = Len(p.outbox)
    OBVIOUS
  <2>2. m \in Nat /\ n \in Nat /\ Load(p) = m + n
    BY <1>2, <2>1, Zenon DEF Load
  <2> QED
    BY <2>2
<1> QED
  BY <1>1, <1>2, <1>3, Zenon

LEMMA PostedIs ==
    ASSUME NEW messages \in Seq(Message), NEW answers \in Seq(Id)
    PROVE  \A x : x \in Posted(messages, answers) <=>
              \/ \E i \in 1 .. Len(messages) : x = messages[i].id
              \/ \E i \in 1 .. Len(answers) : x = answers[i]
<1>1. \A m : m \in Range(messages) <=> \E i \in 1 .. Len(messages) : m = messages[i]
  BY RangeIs
<1>2. \A m : m \in Range(answers) <=> \E i \in 1 .. Len(answers) : m = answers[i]
  BY RangeIs
<1> QED
  BY <1>1, <1>2 DEF Posted

(* The new job of a box in the place of its old one.                       *)
LEMMA NewJob ==
    ASSUME NEW js, NEW of, Jobs(js, of), NEW s \in Search, NEW text \in Text, NEW id \in Id,
           \A i \in 1 .. Len(js) : js[i].id # id,
           NEW out, out = Without(js, of[s]),
           NEW j, j = [id |-> id, search |-> s, key |-> text]
    PROVE  Jobs(Append(out, j), [of EXCEPT ![s] = id])
<1>0. js \in Seq(Job) /\ of \in [Search -> Id \cup {NoJob}] /\ id # NoJob /\ j \in Job
      /\ j.id = id /\ j.search = s /\ of[s] \in Id \cup {NoJob}
  BY PreviewAssumption DEF Jobs, Job
<1>1. Kept(js, of[s], out)
  BY WithoutIs, Zenon
<1>2. PICK new : new = Append(out, j)
  OBVIOUS
<1>3. PICK to : to = [of EXCEPT ![s] = id]
  OBVIOUS
<1>4. out \in Seq(Job) /\ Len(out) \in Nat
  BY <1>1 DEF Kept
<1>5. /\ new \in Seq(Job) /\ Len(new) = Len(out) + 1
      /\ \A i \in 1 .. Len(out) : new[i] = out[i]
      /\ new[Len(out) + 1] = j
  BY <1>0, <1>2, <1>4
<1>6. \A i \in 1 .. Len(new) : i \in 1 .. Len(out) \/ i = Len(out) + 1
  BY <1>4, <1>5
<1>7. /\ to \in [Search -> Id \cup {NoJob}] /\ to[s] = id
      /\ \A r \in Search : r # s => to[r] = of[r]
  BY <1>0, <1>3
<1>8. \A i \in 1 .. Len(out) :
         /\ out[i].search \in Search /\ out[i].search # s /\ out[i].id # id
         /\ out[i].id = of[out[i].search]
  <2>1. SUFFICES ASSUME NEW i \in 1 .. Len(out)
                 PROVE  /\ out[i].search \in Search /\ out[i].search # s /\ out[i].id # id
                        /\ out[i].id = of[out[i].search]
    OBVIOUS
  <2>2. PICK m \in 1 .. Len(js) : out[i] = js[m] /\ js[m].id # of[s]
    BY <1>1 DEF Kept
  <2>3. js[m].search \in Search /\ of[js[m].search] = js[m].id
    BY <1>0, JobIs DEF Jobs
  <2> QED
    BY <2>2, <2>3
<1>9. \A r \in Search : to[r] # NoJob => \E i \in 1 .. Len(new) : new[i].search = r
  <2>1. SUFFICES ASSUME NEW r \in Search, to[r] # NoJob
                 PROVE  \E i \in 1 .. Len(new) : new[i].search = r
    OBVIOUS
  <2>2. CASE r = s
    <3>1. Len(out) + 1 \in 1 .. Len(new)
      BY <1>4, <1>5
    <3> QED
      BY <1>0, <1>5, <2>2, <3>1
  <2>3. CASE r # s
    <3>1. PICK m \in 1 .. Len(js) : js[m].search = r
      BY <1>7, <2>1, <2>3 DEF Jobs
    <3>2. js[m].id # of[s]
      <4>1. SUFFICES ASSUME js[m].id = of[s] PROVE FALSE
        OBVIOUS
      <4>2. of[s] # NoJob
        BY <1>0, <4>1, JobIs
      <4>3. PICK n \in 1 .. Len(js) : js[n].search = s
        BY <4>2 DEF Jobs
      <4>4. js[n].id = js[m].id
        BY <4>1, <4>3 DEF Jobs
      <4>5. n = m
        BY <4>4 DEF Jobs
      <4> QED
        BY <2>3, <3>1, <4>3, <4>5
    <3>3. PICK i \in 1 .. Len(out) : out[i] = js[m]
      BY <1>1, <3>2 DEF Kept
    <3>4. i \in 1 .. Len(new) /\ new[i] = js[m]
      BY <1>4, <1>5, <3>3
    <3> QED
      BY <3>1, <3>4
  <2> QED
    BY <2>2, <2>3
<1>10. \A i \in 1 .. Len(new) : to[new[i].search] = new[i].id
  BY <1>0, <1>5, <1>6, <1>7, <1>8
<1>11. \A m, n \in 1 .. Len(new) : new[m].search = new[n].search => m = n
  <2>1. \A m, n \in 1 .. Len(out) : out[m].search = out[n].search => m = n
    BY <1>1 DEF Kept
  <2> QED
    BY <1>0, <1>5, <1>6, <1>8, <2>1
<1>12. \A m, n \in 1 .. Len(new) : new[m].id = new[n].id => m = n
  <2>1. \A m, n \in 1 .. Len(out) : out[m].id = out[n].id => m = n
    BY <1>1 DEF Kept
  <2> QED
    BY <1>0, <1>5, <1>6, <1>8, <2>1
<1> QED
  BY <1>2, <1>3, <1>5, <1>7, <1>9, <1>10, <1>11, <1>12 DEF Jobs

LEMMA PostIs ==
    ASSUME NEW p \in Page, Tidy(p), Load(p) < MaxPosted,
           NEW s \in Search, NEW text \in Text,
           NEW q, q = Post(p, Without(p.jobs, p.jobOf[s]), s, text)
    PROVE  Asks(p, q)
<1>a. PICK answers : answers = p.outbox
  OBVIOUS
<1>0. /\ p.jobs \in Seq(Job) /\ p.jobOf \in [Search -> Id \cup {NoJob}]
      /\ p.inbox \in Seq(Message) /\ answers \in Seq(Id) /\ answers = p.outbox
      /\ Len(p.inbox) \in Nat /\ Len(answers) \in Nat /\ p.dropped \in SUBSET Search
      /\ Agree(p.jobs, p.jobOf, p.inbox, answers) /\ Len(p.inbox) + Len(answers) < MaxPosted
  BY <1>a, PageIs DEF Tidy, Load
<1>1. PICK id : id = Fresh(p)
  OBVIOUS
<1>2. id \in Id /\ id \notin Posted(p.inbox, answers)
  BY <1>0, <1>1, FreshIs, Zenon
<1>3. PICK out : out = Without(p.jobs, p.jobOf[s])
  OBVIOUS
<1>4. PICK j : j = [id |-> id, search |-> s, key |-> text]
  OBVIOUS
<1>5. PICK message : message = [id |-> id, key |-> text]
  OBVIOUS
<1>6. PICK new : new = Append(out, j)
  OBVIOUS
<1>7. PICK to : to = [p.jobOf EXCEPT ![s] = id]
  OBVIOUS
<1>8. PICK messages : messages = Append(p.inbox, message)
  OBVIOUS
<1>9. q = [jobs |-> new, jobOf |-> to, inbox |-> messages, outbox |-> answers,
           dropped |-> p.dropped]
  BY <1>0, <1>1, <1>3, <1>4, <1>5, <1>6, <1>7, <1>8, Zenon DEF Post
<1>10. q.jobs = new /\ q.jobOf = to /\ q.inbox = messages /\ q.outbox = answers
  BY <1>9
<1>11. message \in Message /\ message.id = id
  BY <1>2, <1>5 DEF Message
<1>12. /\ messages \in Seq(Message) /\ Len(messages) = Len(p.inbox) + 1
       /\ \A i \in 1 .. Len(p.inbox) : messages[i] = p.inbox[i]
       /\ messages[Len(p.inbox) + 1] = message
  BY <1>0, <1>8, <1>11
<1>13. \A x : x \in Posted(p.inbox, answers) => x \in Posted(messages, answers)
  <2>1. \A i \in 1 .. Len(p.inbox) : i \in 1 .. Len(messages)
    BY <1>0, <1>12
  <2>2. \A x : x \in Posted(p.inbox, answers) =>
           \/ \E i \in 1 .. Len(p.inbox) : x = p.inbox[i].id
           \/ \E i \in 1 .. Len(answers) : x = answers[i]
    <3>1. PICK old : old = p.inbox
      OBVIOUS
    <3>2. old \in Seq(Message) /\ answers \in Seq(Id)
      BY <1>0, <3>1, Zenon
    <3>3. \A x : x \in Posted(old, answers) =>
             \/ \E i \in 1 .. Len(old) : x = old[i].id
             \/ \E i \in 1 .. Len(answers) : x = answers[i]
      BY <3>2, PostedIs
    <3> QED
      BY <3>1, <3>3, Zenon
  <2>3. \A x :
           \/ \E i \in 1 .. Len(messages) : x = messages[i].id
           \/ \E i \in 1 .. Len(answers) : x = answers[i]
           => x \in Posted(messages, answers)
    BY <1>0, <1>12, PostedIs, Zenon
  <2>4. \A x : (\E i \in 1 .. Len(p.inbox) : x = p.inbox[i].id)
                => \E i \in 1 .. Len(messages) : x = messages[i].id
    BY <1>12, <2>1
  <2> QED
    BY <2>2, <2>3, <2>4
<1>14. id \in Posted(messages, answers)
  <2>1. Len(p.inbox) + 1 \in 1 .. Len(messages)
    BY <1>0, <1>12
  <2> QED
    BY <1>0, <1>11, <1>12, <2>1, PostedIs
<1>15. Jobs(p.jobs, p.jobOf) /\ \A i \in 1 .. Len(p.jobs) : p.jobs[i].id # id
  BY <1>0, <1>2 DEF Agree
<1>16. Jobs(new, to)
  BY <1>2, <1>3, <1>4, <1>6, <1>7, <1>15, NewJob, Zenon
<1>17. Kept(p.jobs, p.jobOf[s], out)
  BY <1>3, <1>15, WithoutIs, Zenon
<1>18. \A i \in 1 .. Len(new) : new[i].id \in Posted(messages, answers)
  <2>1. SUFFICES ASSUME NEW i \in 1 .. Len(new) PROVE new[i].id \in Posted(messages, answers)
    OBVIOUS
  <2>2. out \in Seq(Job)
    BY <1>17 DEF Kept
  <2>3. CASE i \in 1 .. Len(out)
    <3>1. new[i] = out[i]
      BY <1>6, <2>2, <2>3
    <3>2. PICK m \in 1 .. Len(p.jobs) : out[i] = p.jobs[m]
      BY <1>17, <2>3 DEF Kept
    <3> QED
      BY <1>0, <1>13, <3>1, <3>2 DEF Agree
  <2>4. CASE i = Len(out) + 1
    <3>1. new[i] = j
      BY <1>6, <2>2, <2>4
    <3> QED
      BY <1>4, <1>14, <3>1
  <2> QED
    BY <1>6, <2>1, <2>2, <2>3, <2>4
<1>19. new \in Seq(Job) /\ to \in [Search -> Id \cup {NoJob}]
  BY <1>16 DEF Jobs
<1>20. q \in Page
  BY <1>0, <1>9, <1>12, <1>19 DEF Page
<1>21. Tidy(q)
  <2>1. Agree(new, to, messages, answers)
    BY <1>0, <1>12, <1>16, <1>18, Zenon DEF Agree
  <2> QED
    BY <1>10, <2>1, Zenon DEF Tidy
<1>22. Load(q) = Load(p) + 1 /\ Load(p) \in Nat
  <2>1. PICK m, n : m = Len(p.inbox) /\ n = Len(answers)
    OBVIOUS
  <2>2. m \in Nat /\ n \in Nat /\ Len(messages) = m + 1
    BY <1>0, <1>12, <2>1, Zenon
  <2>3. Load(q) = (m + 1) + n /\ Load(p) = m + n
    BY <1>0, <1>10, <2>1, <2>2, Zenon DEF Load
  <2> QED
    BY <2>2, <2>3
<1> QED
  BY <1>20, <1>21, <1>22 DEF Asks

(* After a call that threw there is nothing to agree about.                *)
LEMMA ThrownIs ==
    ASSUME NEW p \in Page, NEW s \in Search, NEW q, q = Thrown(p, s)
    PROVE  Asks(p, q)
<1>0. p.jobs \in Seq(Job) /\ p.dropped \in SUBSET Search /\ Load(p) \in Nat
  BY PageIs
<1>1. Owners(p.jobs) \in SUBSET Search
  <2>1. \A j \in Range(p.jobs) : j.search \in Search
    BY <1>0, RangeIs, JobIs
  <2> QED
    BY <2>1 DEF Owners
<1>2. PICK lost : lost = p.dropped \cup Owners(p.jobs) \cup {s}
  OBVIOUS
<1>3. q = [jobs |-> << >>, jobOf |-> [r \in Search |-> NoJob], inbox |-> << >>,
           outbox |-> << >>, dropped |-> lost]
  BY <1>2, Zenon DEF Thrown
<1>4. lost \in SUBSET Search
  BY <1>0, <1>1, <1>2
<1>5. q \in Page
  BY <1>3, <1>4 DEF Page
<1>6. /\ q.jobs = << >> /\ q.jobOf = [r \in Search |-> NoJob]
      /\ q.inbox = << >> /\ q.outbox = << >>
  BY <1>3
<1>7. Tidy(q)
  BY <1>6 DEF Tidy, Agree, Jobs
<1>8. Load(q) = 0
  BY <1>6 DEF Load
<1> QED
  BY <1>0, <1>5, <1>7, <1>8 DEF Asks

LEMMA QueueIs ==
    ASSUME NEW p \in Page, Tidy(p), Load(p) < MaxPosted,
           NEW s \in Search, NEW text \in Text, NEW throws, NEW q,
           q = Queue(p, s, text, throws)
    PROVE  Asks(p, q)
<1>0. Load(p) \in Nat
  BY PageIs
<1>1. ASSUME ~ supported PROVE Asks(p, q)
  <2>1. q = [p EXCEPT !.dropped = @ \cup {s}]
    BY <1>1, Zenon DEF Queue
  <2>2. q \in Page
    BY <2>1 DEF Page
  <2>3. q.jobs = p.jobs /\ q.jobOf = p.jobOf /\ q.inbox = p.inbox /\ q.outbox = p.outbox
    BY <2>1 DEF Page
  <2>4. Tidy(q) /\ Load(q) = Load(p)
    BY <2>3, Zenon DEF Tidy, Load
  <2> QED
    BY <1>0, <2>2, <2>4 DEF Asks
<1>2. ASSUME supported, Asked(p, s, text) PROVE Asks(p, q)
  <2>1. q = p
    BY <1>2, Zenon DEF Queue
  <2> QED
    BY <1>0, <2>1 DEF Asks
<1>3. ASSUME supported, ~ Asked(p, s, text), throws PROVE Asks(p, q)
  <2>1. q = Thrown(p, s)
    BY <1>3, Zenon DEF Queue
  <2> QED
    BY <2>1, ThrownIs, Zenon
<1>4. ASSUME supported, ~ Asked(p, s, text), ~ throws PROVE Asks(p, q)
  <2>1. q = Post(p, Without(p.jobs, p.jobOf[s]), s, text)
    BY <1>4, Zenon DEF Queue
  <2> QED
    BY <2>1, PostIs, Zenon
<1> QED
  BY <1>1, <1>2, <1>3, <1>4, Zenon

-----------------------------------------------------------------------------
(* The boxes ask one after the other                                       *)

LEMMA SeqOfSet ==
    ASSUME NEW S \in SUBSET Search, NEW seq, seq = SetToSeq(S)
    PROVE  seq \in Seq(Search) /\ Len(seq) <= Cardinality(Search)
           /\ \A k \in 1 .. Len(seq) : seq[k] \in S
<1>1. IsFiniteSet(S) /\ Cardinality(S) <= Cardinality(Search)
  BY FS_Subset, PreviewAssumption
<1>2. Cardinality(S) \in Nat /\ ExistsBijection(1 .. Cardinality(S), S)
  BY <1>1, FS_CardinalityType
<1>3. PICK f : f \in Bijection(1 .. Cardinality(S), S)
  BY <1>2, Zenon DEF ExistsBijection
<1>4. f \in [1 .. Cardinality(S) -> S] /\ IsInjective(f)
  BY <1>3 DEF Bijection, Injection, IsInjective
<1>5. seq \in [1 .. Cardinality(S) -> S]
  BY <1>4, Zenon DEF SetToSeq
<1>6. seq \in Seq(S) /\ Len(seq) = Cardinality(S)
  BY <1>2, <1>5
<1>7. seq \in Seq(Search)
  BY <1>2, <1>5
<1> QED
  BY <1>1, <1>2, <1>5, <1>6, <1>7

Turns(f, start, asking, bx, throwing, n) ==
    f = [k \in 0 .. n |-> IF k = 0 THEN start
                          ELSE Queue(f[k - 1], asking[k], bx[asking[k]].text,
                                     asking[k] \in throwing)]

LEMMA SomeTurns ==
    ASSUME NEW start, NEW asking, NEW bx, NEW throwing, NEW n \in Nat
    PROVE  \E f : Turns(f, start, asking, bx, throwing, n)
<1> DEFINE T == {m \in Nat : \E f : Turns(f, start, asking, bx, throwing, m)}
<1>1. 0 \in T
  <2>1. PICK f : f = [k \in 0 .. 0 |-> start]
    OBVIOUS
  <2>2. f = [k \in 0 .. 0 |-> IF k = 0 THEN start
                              ELSE Queue(f[k - 1], asking[k], bx[asking[k]].text,
                                         asking[k] \in throwing)]
    BY <2>1
  <2>3. Turns(f, start, asking, bx, throwing, 0)
    BY <2>2, Zenon DEF Turns
  <2> QED
    BY <2>3
<1>2. ASSUME NEW k \in 0 .. n - 1, k \in T PROVE k + 1 \in T
  <2>1. PICK f : Turns(f, start, asking, bx, throwing, k)
    BY <1>2
  <2>2. f = [j \in 0 .. k |-> IF j = 0 THEN start
                              ELSE Queue(f[j - 1], asking[j], bx[asking[j]].text,
                                         asking[j] \in throwing)]
    BY <2>1, Zenon DEF Turns
  <2>3. PICK q : q = Queue(f[k], asking[k + 1], bx[asking[k + 1]].text,
                           asking[k + 1] \in throwing)
    OBVIOUS
  <2>4. PICK g : g = [j \in 0 .. k + 1 |-> IF j = k + 1 THEN q ELSE f[j]]
    OBVIOUS
  <2>5. \A j \in 0 .. k : g[j] = f[j]
    BY <2>4
  <2>6. g[k + 1] = q
    BY <2>4
  <2>7. ASSUME NEW j \in 0 .. k + 1
        PROVE  g[j] = IF j = 0 THEN start
                      ELSE Queue(g[j - 1], asking[j], bx[asking[j]].text,
                                 asking[j] \in throwing)
    <3>1. CASE j = 0
      <4>1. f[0] = start
        BY <2>2
      <4> QED
        BY <2>5, <3>1, <4>1
    <3>2. CASE j \in 1 .. k
      <4>1. f[j] = Queue(f[j - 1], asking[j], bx[asking[j]].text,
                         asking[j] \in throwing)
        BY <2>2, <3>2
      <4>2. g[j] = f[j] /\ g[j - 1] = f[j - 1] /\ j # 0
        BY <2>5, <3>2
      <4> QED
        BY <4>1, <4>2, Zenon
    <3>3. CASE j = k + 1
      <4>1. g[j - 1] = f[k] /\ j # 0
        BY <2>5, <3>3
      <4> QED
        BY <2>3, <2>6, <3>3, <4>1, Zenon
    <3> QED
      BY <3>1, <3>2, <3>3
  <2>8. g = [j \in 0 .. k + 1 |-> g[j]]
    BY <2>4
  <2>9. g = [j \in 0 .. k + 1 |-> IF j = 0 THEN start
                                  ELSE Queue(g[j - 1], asking[j], bx[asking[j]].text,
                                             asking[j] \in throwing)]
    BY <2>7, <2>8
  <2>10. Turns(g, start, asking, bx, throwing, k + 1)
    BY <2>9, Zenon DEF Turns
  <2> QED
    BY <2>10
<1> HIDE DEF T
<1>3. n \in T
  BY <1>1, <1>2, UpTo
<1> QED
  BY <1>3 DEF T

(* Each of them finds the maps as they should be, and an id that is fresh. *)
LEMMA TurnsAreTidy ==
    ASSUME NEW start \in Page, Tidy(start),
           NEW asking \in Seq(Search), NEW bx \in [Search -> Box], NEW throwing,
           Load(start) + Len(asking) <= MaxPosted,
           NEW f, Turns(f, start, asking, bx, throwing, Len(asking))
    PROVE  f[Len(asking)] \in Page /\ Tidy(f[Len(asking)])
<1> DEFINE n == Len(asking)
           Good(q, k) == q \in Page /\ Tidy(q) /\ Load(q) <= Load(start) + k
           T == {k \in 0 .. n : Good(f[k], k)}
<1>0. n \in Nat /\ MaxPosted \in Nat /\ Load(start) \in Nat
  BY PreviewAssumption, PageIs
<1>1. \A q \in Page : Load(q) \in Nat
  BY PageIs
<1>2. f = [k \in 0 .. n |-> IF k = 0 THEN start
                            ELSE Queue(f[k - 1], asking[k], bx[asking[k]].text,
                                       asking[k] \in throwing)]
  BY Zenon DEF Turns
<1>3. 0 \in T
  <2>1. f[0] = start
    BY <1>0, <1>2
  <2>2. Load(start) <= Load(start) + 0
    BY <1>0
  <2>3. Good(f[0], 0)
    BY <2>1, <2>2, Zenon
  <2> HIDE DEF Good
  <2> QED
    BY <1>0, <2>3
<1>4. ASSUME NEW k \in 0 .. n - 1, k \in T PROVE k + 1 \in T
  <2>1. Good(f[k], k)
    BY <1>4, Zenon
  <2>2. k + 1 \in 0 .. n /\ k + 1 # 0 /\ k + 1 - 1 = k /\ k + 1 \in 1 .. n /\ k \in Nat
    BY <1>0
  <2>3. PICK p : p = f[k]
    OBVIOUS
  <2>4. PICK q : q = f[k + 1]
    OBVIOUS
  <2>5. asking[k + 1] \in Search
    BY <2>2
  <2>6. bx[asking[k + 1]].text \in Text
    BY <2>5 DEF Box
  <2>a. PICK j : j = k + 1
    OBVIOUS
  <2>c. j \in 0 .. n /\ j # 0 /\ j - 1 = k
    BY <2>2, <2>a
  <2>b. f[j] = Queue(f[j - 1], asking[j], bx[asking[j]].text, asking[j] \in throwing)
    <3>1. f[j] = IF j = 0 THEN start
                 ELSE Queue(f[j - 1], asking[j], bx[asking[j]].text, asking[j] \in throwing)
      BY <1>2, <2>c, Zenon
    <3> QED
      BY <2>c, <3>1, Zenon
  <2>7. q = Queue(p, asking[k + 1], bx[asking[k + 1]].text, asking[k + 1] \in throwing)
    BY <2>3, <2>4, <2>a, <2>b, <2>c, Zenon
  <2>8. p \in Page /\ Tidy(p) /\ Load(p) <= Load(start) + k
    BY <2>1, <2>3, Zenon
  <2>9. Load(p) < MaxPosted
    <3>1. Load(p) \in Nat
      BY <1>1, <2>8
    <3> QED
      BY <1>0, <2>2, <2>8, <3>1
  <2>10. Asks(p, q)
    BY <2>5, <2>6, <2>7, <2>8, <2>9, QueueIs, Zenon
  <2>11. q \in Page /\ Tidy(q) /\ Load(q) <= Load(p) + 1
    BY <2>10 DEF Asks
  <2>12. Load(q) <= Load(start) + (k + 1)
    <3>1. PICK a, b, c : a = Load(p) /\ b = Load(q) /\ c = Load(start)
      OBVIOUS
    <3>2. a \in Nat /\ b \in Nat /\ c \in Nat /\ a <= c + k /\ b <= a + 1
      BY <1>0, <1>1, <2>8, <2>11, <3>1, Zenon
    <3>3. b <= c + (k + 1)
      BY <2>2, <3>2
    <3> QED
      BY <3>1, <3>3, Zenon
  <2>13. Good(f[k + 1], k + 1)
    BY <2>4, <2>11, <2>12, Zenon
  <2> HIDE DEF Good
  <2> QED
    BY <2>2, <2>13
<1>5. n \in T
  <2> HIDE DEF T, n
  <2>1. \A k \in 0 .. n : k \in T
    BY <1>0, <1>3, <1>4, UpTo
  <2> QED
    BY <1>0, <2>1
<1> QED
  BY <1>5, Zenon

(* renderApp leaves the maps as they should be.                            *)
LEMMA RenderJobs ==
    ASSUME PreviewTypeOK, Agree(jobs, jobOf, inbox, outbox), Room,
           NEW bx \in [Search -> Box], NEW screen \in SUBSET Search, Render(bx, screen)
    PROVE  Agree(jobs', jobOf', inbox', outbox') /\ dropped' \in SUBSET Search
<1> DEFINE asking == SetToSeq({s \in screen : Previews(bx[s])})
           start == [jobs |-> jobs, jobOf |-> jobOf, inbox |-> inbox, outbox |-> outbox,
                     dropped |-> dropped \ screen]
           queued(throwing) == CHOOSE f : f = [k \in 0 .. Len(asking) |->
                        IF k = 0 THEN start
                        ELSE Queue(f[k - 1], asking[k], bx[asking[k]].text,
                                   asking[k] \in throwing)]
<1>1. {s \in screen : Previews(bx[s])} \in SUBSET Search
  OBVIOUS
<1>2. asking \in Seq(Search) /\ Len(asking) <= Cardinality(Search)
  BY <1>1, SeqOfSet, Zenon
<1>3. Len(asking) \in Nat
  <2> HIDE DEF asking
  <2> QED
    BY <1>2
<1>4. PICK throwing \in SUBSET screen :
         /\ jobs' = queued(throwing)[Len(asking)].jobs
         /\ jobOf' = queued(throwing)[Len(asking)].jobOf
         /\ inbox' = queued(throwing)[Len(asking)].inbox
         /\ outbox' = queued(throwing)[Len(asking)].outbox
         /\ dropped' = queued(throwing)[Len(asking)].dropped
  BY Zenon DEF Render
<1>5. \E f : Turns(f, start, asking, bx, throwing, Len(asking))
  BY <1>3, SomeTurns, Zenon
<1>6. Turns(queued(throwing), start, asking, bx, throwing, Len(asking))
  BY <1>5, Zenon DEF Turns
<1>7. PICK f : f = queued(throwing)
  OBVIOUS
<1>8. PICK p : p = f[Len(asking)]
  OBVIOUS
<1>9. /\ jobs' = p.jobs /\ jobOf' = p.jobOf /\ inbox' = p.inbox
      /\ outbox' = p.outbox /\ dropped' = p.dropped
  BY <1>4, <1>7, <1>8, Zenon
<1>10. Turns(f, start, asking, bx, throwing, Len(asking))
  BY <1>6, <1>7, Zenon
<1> HIDE DEF asking, queued
<1>11. start \in Page /\ Tidy(start) /\ Load(start) = Len(inbox) + Len(outbox)
  BY DEF Page, Tidy, Load, PreviewTypeOK
<1>12. Load(start) + Len(asking) <= MaxPosted
  <2>1. /\ Len(inbox) \in Nat /\ Len(outbox) \in Nat /\ MaxPosted \in Nat
        /\ Cardinality(Search) \in Nat
    BY PreviewAssumption, FS_CardinalityType DEF PreviewTypeOK
  <2>2. Len(inbox) + Len(outbox) + Len(asking) <= MaxPosted
    BY <1>2, <1>3, <2>1 DEF Room
  <2> HIDE DEF start
  <2> QED
    BY <1>11, <2>2
<1> HIDE DEF start
<1>13. p \in Page /\ Tidy(p)
  BY <1>2, <1>8, <1>10, <1>11, <1>12, TurnsAreTidy, Zenon
<1>14. p.dropped \in SUBSET Search
  BY <1>13, PageIs
<1> QED
  BY <1>9, <1>13, <1>14, Zenon DEF Tidy

LEMMA RenderKeeps ==
    ASSUME PreviewInv, Room, NEW bx \in [Search -> Box], NEW screen \in SUBSET Search,
           Render(bx, screen)
    PROVE  PreviewInv'
<1>1. PreviewTypeOK /\ Agree(jobs, jobOf, inbox, outbox)
  BY DEF PreviewInv
<1>2. Agree(jobs', jobOf', inbox', outbox') /\ dropped' \in SUBSET Search
  BY <1>1, RenderJobs
<1>3. /\ box' = bx /\ onScreen' = screen /\ results' = results /\ supported' = supported
      /\ shown' = [s \in Search |->
            IF s \notin screen \/ ~ Previews(bx[s]) THEN Matcher
            ELSE IF Cached(s, bx[s].text) THEN results[s] ELSE Checking]
  BY DEF Render
<1>4. \A s \in Search : Cached(s, bx[s].text) =>
         results[s] \in Result /\ results[s].key = bx[s].text /\ results[s] # Checking
  BY <1>1, PreviewAssumption DEF PreviewTypeOK, Cached
<1>5. shown' \in [Search -> Result \cup {Matcher, Checking}]
  BY <1>3, <1>4
<1>6. PreviewTypeOK'
  BY <1>1, <1>2, <1>3, <1>5 DEF PreviewTypeOK, Agree, Jobs
<1>7. StatusFits'
  <2>1. ASSUME NEW s \in screen
        PROVE  /\ shown'[s] \notin {Matcher, Checking} /\ shown'[s].key # bx[s].text
                     => shown'[s].outcome = "timeout"
               /\ shown'[s] = Checking => Previews(bx[s])
    <3>1. CASE ~ Previews(bx[s])
      BY <1>3, <3>1, PreviewAssumption
    <3>2. CASE Previews(bx[s]) /\ Cached(s, bx[s].text)
      BY <1>3, <1>4, <3>2
    <3>3. CASE Previews(bx[s]) /\ ~ Cached(s, bx[s].text)
      BY <1>3, <3>3
    <3> QED
      BY <3>1, <3>2, <3>3
  <2>2. \A s \in onScreen' :
           /\ shown'[s] \notin {Matcher, Checking} /\ shown'[s].key # (box')[s].text
                 => shown'[s].outcome = "timeout"
           /\ shown'[s] = Checking => Previews((box')[s])
    BY <1>3, <2>1
  <2> QED
    BY <2>2 DEF StatusFits, Previews
<1> QED
  BY <1>2, <1>6, <1>7 DEF PreviewInv, Agree, Jobs, Posted

-----------------------------------------------------------------------------
(* What is displayed                                                       *)

ShownOK ==
    shown' \in [Search -> Result \cup {Matcher, Checking}] /\ StatusFits'

LEMMA DisplayFits ==
    ASSUME PreviewTypeOK, StatusFits, box' = box, onScreen' = onScreen,
           NEW s \in Search, NEW result \in Result,
           result.key = box[s].text \/ result.outcome = "timeout",
           Display(s, result)
    PROVE  ShownOK
<1>1. shown \in [Search -> Result \cup {Matcher, Checking}] /\ result # Checking
  BY PreviewAssumption DEF PreviewTypeOK
<1>2. shown' = IF s \in onScreen THEN [shown EXCEPT ![s] = result] ELSE shown
  BY DEF Display
<1>3. shown' \in [Search -> Result \cup {Matcher, Checking}]
  BY <1>1, <1>2
<1>4. onScreen \in SUBSET Search
  BY DEF PreviewTypeOK
<1>5. ASSUME NEW r \in onScreen
      PROVE  /\ shown'[r] \notin {Matcher, Checking} /\ shown'[r].key # box[r].text
                   => shown'[r].outcome = "timeout"
             /\ shown'[r] = Checking => Previews(box[r])
  <2>1. CASE r = s
    <3>1. shown'[r] = result
      BY <1>1, <1>2, <1>4, <2>1
    <3> QED
      BY <1>1, <2>1, <3>1
  <2>2. CASE r # s
    <3>1. shown'[r] = shown[r]
      BY <1>1, <1>2, <1>4, <2>2
    <3> QED
      BY <3>1 DEF StatusFits
  <2> QED
    BY <2>1, <2>2
<1>6. StatusFits'
  BY <1>5 DEF StatusFits, Previews
<1> QED
  BY <1>3, <1>6 DEF ShownOK

LEMMA SameFits ==
    ASSUME PreviewTypeOK, StatusFits,
           box' = box, onScreen' = onScreen, shown' = shown
    PROVE  ShownOK
BY DEF ShownOK, PreviewTypeOK, StatusFits, Previews

-----------------------------------------------------------------------------
(* The steps of the worker and of the timers                               *)

LEMMA WorkKeeps == ASSUME PreviewInv, Work PROVE PreviewInv'
<1>1. PreviewTypeOK /\ Agree(jobs, jobOf, inbox, outbox) /\ StatusFits
  BY DEF PreviewInv
<1>2. inbox \in Seq(Message) /\ inbox # << >> /\ outbox \in Seq(Id)
  BY <1>1 DEF PreviewTypeOK, Work
<1>3. PICK m : m = Head(inbox)
  OBVIOUS
<1>4. inbox' = Tail(inbox) /\ outbox' = Append(outbox, m.id)
  BY <1>3 DEF Work
<1>5. m \in Message /\ m.id \in Id
  <2>1. m \in Message
    BY <1>2, <1>3
  <2> QED
    BY <2>1 DEF Message
<1>6. /\ inbox' \in Seq(Message) /\ Len(inbox') = Len(inbox) - 1
      /\ \A i \in 1 .. Len(inbox') : inbox'[i] = inbox[i + 1]
      /\ inbox[1] = m
  BY <1>2, <1>3, <1>4
<1>7. /\ outbox' \in Seq(Id) /\ Len(outbox') = Len(outbox) + 1
      /\ \A i \in 1 .. Len(outbox) : outbox'[i] = outbox[i]
      /\ outbox'[Len(outbox) + 1] = m.id
  BY <1>2, <1>4, <1>5
<1>8. \A x : x \in Posted(inbox, outbox) => x \in Posted(inbox', outbox')
  <2>1. \A i \in 1 .. Len(inbox) :
           \/ inbox[i].id = m.id
           \/ \E k \in 1 .. Len(inbox') : inbox[i].id = inbox'[k].id
    <3>1. SUFFICES ASSUME NEW i \in 1 .. Len(inbox), i # 1
                   PROVE  \E k \in 1 .. Len(inbox') : inbox[i].id = inbox'[k].id
      BY <1>6
    <3>2. i - 1 \in 1 .. Len(inbox') /\ inbox'[i - 1] = inbox[i]
      BY <1>2, <1>6, <3>1
    <3> QED
      BY <3>2
  <2>2. /\ \E k \in 1 .. Len(outbox') : m.id = outbox'[k]
        /\ \A i \in 1 .. Len(outbox) : \E k \in 1 .. Len(outbox') : outbox[i] = outbox'[k]
    <3>1. Len(outbox) + 1 \in 1 .. Len(outbox')
          /\ \A i \in 1 .. Len(outbox) : i \in 1 .. Len(outbox')
      BY <1>2, <1>7
    <3> QED
      BY <1>7, <3>1
  <2>3. \A x : x \in Posted(inbox, outbox) =>
           \/ \E i \in 1 .. Len(inbox) : x = inbox[i].id
           \/ \E i \in 1 .. Len(outbox) : x = outbox[i]
    BY <1>2, PostedIs
  <2>4. \A x :
           \/ \E i \in 1 .. Len(inbox') : x = inbox'[i].id
           \/ \E i \in 1 .. Len(outbox') : x = outbox'[i]
           => x \in Posted(inbox', outbox')
    BY <1>6, <1>7, PostedIs
  <2>5. SUFFICES ASSUME NEW x, x \in Posted(inbox, outbox)
                 PROVE  x \in Posted(inbox', outbox')
    OBVIOUS
  <2>6. m.id \in Posted(inbox', outbox')
    BY <2>2, <2>4, Zenon
  <2>7. CASE \E i \in 1 .. Len(inbox) : x = inbox[i].id
    <3>1. PICK i \in 1 .. Len(inbox) : x = inbox[i].id
      BY <2>7
    <3>2. x = m.id \/ \E k \in 1 .. Len(inbox') : x = inbox'[k].id
      BY <2>1, <3>1, Zenon
    <3> QED
      BY <2>4, <2>6, <3>2, Zenon
  <2>8. CASE \E i \in 1 .. Len(outbox) : x = outbox[i]
    <3>1. PICK i \in 1 .. Len(outbox) : x = outbox[i]
      BY <2>8
    <3>2. \E k \in 1 .. Len(outbox') : x = outbox'[k]
      BY <2>2, <3>1, Zenon
    <3> QED
      BY <2>4, <3>2, Zenon
  <2> QED
    BY <2>3, <2>5, <2>7, <2>8, Zenon
<1>9. /\ jobs' = jobs /\ jobOf' = jobOf /\ box' = box /\ onScreen' = onScreen
      /\ results' = results /\ shown' = shown /\ dropped' = dropped /\ supported' = supported
  BY DEF Work
<1>10. Agree(jobs', jobOf', inbox', outbox')
  BY <1>1, <1>6, <1>7, <1>8, <1>9 DEF Agree
<1>11. ShownOK
  BY <1>1, <1>9, SameFits
<1>12. PreviewTypeOK'
  BY <1>1, <1>6, <1>7, <1>9 DEF PreviewTypeOK
<1> QED
  BY <1>10, <1>11, <1>12 DEF PreviewInv, ShownOK, Agree, Jobs, Posted

LEMMA DeliverJobs ==
    ASSUME PreviewTypeOK, Agree(jobs, jobOf, inbox, outbox), Deliver
    PROVE  Agree(jobs', jobOf', inbox', outbox')
<1>1. outbox \in Seq(Id) /\ outbox # << >> /\ inbox \in Seq(Message) /\ inbox' = inbox
  BY DEF PreviewTypeOK, Deliver
<1>2. PICK id : id = Head(outbox)
  OBVIOUS
<1>3. /\ jobs' = Without(jobs, id) /\ outbox' = Tail(outbox)
      /\ jobOf' = [s \in Search |-> IF jobOf[s] = id THEN NoJob ELSE jobOf[s]]
  BY <1>2, Zenon DEF Deliver
<1>4. /\ outbox' \in Seq(Id) /\ Len(outbox') = Len(outbox) - 1
      /\ \A i \in 1 .. Len(outbox') : outbox'[i] = outbox[i + 1]
      /\ outbox[1] = id
  BY <1>1, <1>2, <1>3
<1>5. Jobs(jobs, jobOf)
  BY DEF Agree
<1>6. Kept(jobs, id, jobs')
  BY <1>3, <1>5, WithoutIs, Zenon
<1>7. jobOf' \in [Search -> Id \cup {NoJob}]
      /\ \A s \in Search : jobOf'[s] = IF jobOf[s] = id THEN NoJob ELSE jobOf[s]
  BY <1>3, <1>5 DEF Jobs
<1>8. \A i \in 1 .. Len(jobs) : jobs[i].search \in Search /\ jobOf[jobs[i].search] = jobs[i].id
  BY <1>5, JobIs DEF Jobs
<1>9. \A s \in Search : jobOf'[s] # NoJob => \E i \in 1 .. Len(jobs') : jobs'[i].search = s
  <2>1. SUFFICES ASSUME NEW s \in Search, jobOf'[s] # NoJob
                 PROVE  \E i \in 1 .. Len(jobs') : jobs'[i].search = s
    OBVIOUS
  <2>2. jobOf[s] # NoJob /\ jobOf[s] # id
    BY <1>7, <2>1
  <2>3. PICK m \in 1 .. Len(jobs) : jobs[m].search = s
    BY <1>5, <2>2 DEF Jobs
  <2>4. jobs[m].id # id
    BY <1>8, <2>2, <2>3
  <2> QED
    BY <1>6, <2>3, <2>4 DEF Kept
<1>10. \A i \in 1 .. Len(jobs') :
          /\ jobOf'[jobs'[i].search] = jobs'[i].id
          /\ jobs'[i].id \in Posted(inbox, outbox) /\ jobs'[i].id # id
  <2>1. SUFFICES ASSUME NEW i \in 1 .. Len(jobs')
                 PROVE  /\ jobOf'[jobs'[i].search] = jobs'[i].id
                        /\ jobs'[i].id \in Posted(inbox, outbox) /\ jobs'[i].id # id
    OBVIOUS
  <2>2. PICK m \in 1 .. Len(jobs) : jobs'[i] = jobs[m] /\ jobs[m].id # id
    BY <1>6 DEF Kept
  <2>3. jobs[m].id \in Posted(inbox, outbox)
    BY DEF Agree
  <2> QED
    BY <1>7, <1>8, <2>2, <2>3
<1>11. \A x : x \in Posted(inbox, outbox) /\ x # id => x \in Posted(inbox', outbox')
  <2>1. \A i \in 1 .. Len(outbox) :
           outbox[i] = id \/ \E k \in 1 .. Len(outbox') : outbox[i] = outbox'[k]
    <3>1. SUFFICES ASSUME NEW i \in 1 .. Len(outbox), i # 1
                   PROVE  \E k \in 1 .. Len(outbox') : outbox[i] = outbox'[k]
      BY <1>4
    <3>2. i - 1 \in 1 .. Len(outbox') /\ outbox'[i - 1] = outbox[i]
      BY <1>1, <1>4, <3>1
    <3> QED
      BY <3>2
  <2>2. \A x : x \in Posted(inbox, outbox) =>
           \/ \E i \in 1 .. Len(inbox) : x = inbox[i].id
           \/ \E i \in 1 .. Len(outbox) : x = outbox[i]
    BY <1>1, PostedIs
  <2>3. \A x :
           \/ \E i \in 1 .. Len(inbox) : x = inbox[i].id
           \/ \E i \in 1 .. Len(outbox') : x = outbox'[i]
           => x \in Posted(inbox, outbox')
    BY <1>1, <1>4, PostedIs
  <2> QED
    BY <1>1, <2>1, <2>2, <2>3
<1>12. Jobs(jobs', jobOf')
  BY <1>6, <1>7, <1>9, <1>10 DEF Jobs, Kept
<1> QED
  BY <1>1, <1>4, <1>10, <1>11, <1>12 DEF Agree

LEMMA DeliverKeeps == ASSUME PreviewInv, Deliver PROVE PreviewInv'
<1>1. PreviewTypeOK /\ Agree(jobs, jobOf, inbox, outbox) /\ StatusFits
  BY DEF PreviewInv
<1>2. Agree(jobs', jobOf', inbox', outbox')
  BY <1>1, DeliverJobs
<1>3. /\ box' = box /\ onScreen' = onScreen /\ inbox' = inbox /\ dropped' = dropped
      /\ supported' = supported
  BY DEF Deliver
<1> DEFINE found == JobWith(jobs, Head(outbox))
<1>4. /\ results' \in [Search -> Result \cup {NoResult}]
      /\ ShownOK
  <2>1. CASE \E j \in found : j.key = box[j.search].text
    <3>1. PICK j \in found :
             /\ results' = [results EXCEPT ![j.search] = [key |-> j.key, outcome |-> "answer"]]
             /\ Display(j.search, [key |-> j.key, outcome |-> "answer"])
      BY <2>1, Zenon DEF Deliver
    <3>2. PICK k \in found : k.key = box[k.search].text
      BY <2>1
    <3>3. \A x : x \in Range(jobs) <=> \E i \in 1 .. Len(jobs) : x = jobs[i]
      BY <1>1, RangeIs DEF PreviewTypeOK
    <3>4. PICK m \in 1 .. Len(jobs) : j = jobs[m] /\ jobs[m].id = Head(outbox)
      BY <3>3 DEF JobWith
    <3>5. PICK n \in 1 .. Len(jobs) : k = jobs[n] /\ jobs[n].id = Head(outbox)
      BY <3>2, <3>3 DEF JobWith
    <3>6. m = n
      BY <1>1, <3>4, <3>5 DEF Agree, Jobs
    <3>7. j.key = box[j.search].text /\ j.search \in Search /\ j.key \in Text
      BY <1>1, <3>2, <3>4, <3>5, <3>6, JobIs DEF PreviewTypeOK
    <3>8. PICK result : result = [key |-> j.key, outcome |-> "answer"]
      OBVIOUS
    <3>9. result \in Result /\ result.key = box[j.search].text
      BY <3>7, <3>8 DEF Result
    <3>10. Display(j.search, result)
      BY <3>1, <3>8, Zenon
    <3>11. ShownOK
      BY <1>1, <1>3, <3>7, <3>9, <3>10, DisplayFits
    <3>12. results' = [results EXCEPT ![j.search] = result]
      BY <3>1, <3>8, Zenon
    <3>13. results' \in [Search -> Result \cup {NoResult}]
      BY <1>1, <3>7, <3>9, <3>12 DEF PreviewTypeOK
    <3> QED
      BY <3>11, <3>13
  <2>2. CASE ~ \E j \in found : j.key = box[j.search].text
    <3>1. results' = results /\ shown' = shown
      BY <2>2, Zenon DEF Deliver
    <3>2. ShownOK
      BY <1>1, <1>3, <3>1, SameFits
    <3> QED
      BY <1>1, <3>1, <3>2 DEF PreviewTypeOK
  <2> QED
    BY <2>1, <2>2
<1>5. PreviewTypeOK'
  BY <1>1, <1>2, <1>3, <1>4 DEF PreviewTypeOK, Agree, Jobs, ShownOK
<1> QED
  BY <1>2, <1>4, <1>5 DEF PreviewInv, ShownOK, Agree, Jobs, Posted

LEMMA ResetJobs ==
    ASSUME PreviewTypeOK, NEW but, Reset(but)
    PROVE  Agree(jobs', jobOf', inbox', outbox') /\ dropped' \in SUBSET Search
<1>1. /\ jobs' = << >> /\ inbox' = << >> /\ outbox' = << >>
      /\ jobOf' = [s \in Search |-> NoJob]
  BY DEF Reset
<1>2. Agree(jobs', jobOf', inbox', outbox')
  BY <1>1 DEF Agree, Jobs
<1>3. \A j \in Range(jobs) : j.search \in Search
  BY RangeIs, JobIs DEF PreviewTypeOK
<1>4. dropped' \in SUBSET Search
  BY <1>3 DEF Reset, Owners, PreviewTypeOK
<1> QED
  BY <1>2, <1>4

LEMMA TimeoutKeeps == ASSUME PreviewInv, Timeout PROVE PreviewInv'
<1>1. PreviewTypeOK /\ StatusFits
  BY DEF PreviewInv
<1>2. PICK j : j = Head(jobs)
  OBVIOUS
<1>3. PICK result : result = [key |-> j.key, outcome |-> "timeout"]
  OBVIOUS
<1>4. /\ results' = [results EXCEPT ![j.search] = result]
      /\ Display(j.search, result)
      /\ Reset({j.search})
      /\ box' = box /\ onScreen' = onScreen /\ supported' = supported
  BY <1>2, <1>3, Zenon DEF Timeout
<1>5. j.search \in Search /\ j.key \in Text
  <2>1. jobs \in Seq(Job) /\ jobs # << >>
    BY <1>1 DEF Timeout, PreviewTypeOK
  <2>2. 1 \in 1 .. Len(jobs) /\ j = jobs[1]
    BY <1>2, <2>1
  <2> QED
    BY <2>1, <2>2, JobIs
<1>6. result \in Result /\ result.outcome = "timeout"
  BY <1>3, <1>5 DEF Result
<1>7. ShownOK
  BY <1>1, <1>4, <1>5, <1>6, DisplayFits
<1>8. Agree(jobs', jobOf', inbox', outbox') /\ dropped' \in SUBSET Search
  BY <1>1, <1>4, ResetJobs
<1>9. results' \in [Search -> Result \cup {NoResult}]
  BY <1>1, <1>4, <1>5, <1>6 DEF PreviewTypeOK
<1>10. PreviewTypeOK'
  BY <1>1, <1>4, <1>7, <1>8, <1>9 DEF PreviewTypeOK, Agree, Jobs, ShownOK
<1> QED
  BY <1>7, <1>8, <1>10 DEF PreviewInv, ShownOK, Agree, Jobs, Posted

LEMMA WorkerFailsKeeps == ASSUME PreviewInv, WorkerFails PROVE PreviewInv'
<1>1. PreviewTypeOK /\ StatusFits
  BY DEF PreviewInv
<1>2. /\ Reset({}) /\ box' = box /\ onScreen' = onScreen
      /\ results' = results /\ shown' = shown /\ supported' = supported
  BY DEF WorkerFails
<1>3. Agree(jobs', jobOf', inbox', outbox') /\ dropped' \in SUBSET Search
  BY <1>1, <1>2, ResetJobs
<1>4. ShownOK
  BY <1>1, <1>2, SameFits
<1>5. PreviewTypeOK'
  BY <1>1, <1>2, <1>3, <1>4 DEF PreviewTypeOK, Agree, Jobs, ShownOK
<1> QED
  BY <1>3, <1>4, <1>5 DEF PreviewInv, ShownOK, Agree, Jobs, Posted

-----------------------------------------------------------------------------
(* The theorems                                                            *)

LEMMA InitPreview == ASSUME Init PROVE PreviewInv
<1>1. box \in [Search -> Box]
  BY PreviewAssumption DEF Init, Box
<1>2. PreviewTypeOK
  BY <1>1, PreviewAssumption DEF Init, PreviewTypeOK
<1>3. Agree(jobs, jobOf, inbox, outbox)
  BY DEF Init, Agree, Jobs
<1>4. StatusFits
  BY DEF Init, StatusFits
<1> QED
  BY <1>2, <1>3, <1>4 DEF PreviewInv

LEMMA NextPreview == ASSUME PreviewInv, [Next]_vars PROVE PreviewInv'
<1>0. box \in [Search -> Box] /\ onScreen \in SUBSET Search
  BY DEF PreviewInv, PreviewTypeOK
<1>1. ASSUME NEW s \in Search, NEW text \in Text, Type(s, text) PROVE PreviewInv'
  <2>1. PICK bx : bx = [box EXCEPT ![s] = [text |-> text, regex |-> TRUE]]
    OBVIOUS
  <2>2. bx \in [Search -> Box]
    BY <1>0, <2>1 DEF Box
  <2>3. Room /\ Render(bx, onScreen)
    BY <1>1, <2>1, Zenon DEF Type
  <2> QED
    BY <1>0, <2>2, <2>3, RenderKeeps
<1>2. ASSUME NEW s \in Search, Toggle(s) PROVE PreviewInv'
  <2>1. PICK bx : bx = [box EXCEPT ![s].regex = ~ @]
    OBVIOUS
  <2>2. PICK regex : regex = ~ box[s].regex
    OBVIOUS
  <2>3. regex \in BOOLEAN
    BY <2>2
  <2>4. bx = [box EXCEPT ![s].regex = regex]
    BY <2>1, <2>2, Zenon
  <2>5. bx \in [Search -> Box]
    BY <1>0, <2>3, <2>4 DEF Box
  <2>6. Room /\ Render(bx, onScreen)
    BY <1>2, <2>1, Zenon DEF Toggle
  <2> QED
    BY <1>0, <2>5, <2>6, RenderKeeps
<1>3. ASSUME NEW screen \in SUBSET Search, Show(screen) PROVE PreviewInv'
  BY <1>0, <1>3, RenderKeeps DEF Show
<1>4. ASSUME UNCHANGED vars PROVE PreviewInv'
  BY <1>4 DEF vars, PreviewInv, PreviewTypeOK, Agree, Jobs, StatusFits, Posted, Previews
<1> QED
  BY <1>1, <1>2, <1>3, <1>4, WorkKeeps, DeliverKeeps, TimeoutKeeps, WorkerFailsKeeps
     DEF Next

(* The inductive invariant: types, the two maps of jobs with their ids all *)
(* different, and statuses that fit.                                       *)
THEOREM PreviewInductive == Spec => []PreviewInv
<1>1. Init => PreviewInv
  BY InitPreview
<1>2. PreviewInv /\ [Next]_vars => PreviewInv'
  BY NextPreview
<1> QED
  BY <1>1, <1>2, PTL DEF Spec

(* A box has at most one job, both maps name it, and each live job is with *)
(* the worker or answered, whatever is typed, answered late or reset       *)
(* (queueRegexPreview, resetRegexWorker).                                  *)
THEOREM JobsStayTogether == Spec => []JobsAgree
<1>1. PreviewInv => JobsAgree
  BY AgreeIs DEF PreviewInv
<1> QED
  BY <1>1, PreviewInductive, PTL

(* A status never shows an answer for another text than the box holds;     *)
(* only a time limit that runs out late may ("message" and the timeout of  *)
(* queueRegexPreview).                                                     *)
THEOREM StatusesFit == Spec => []StatusFits
<1>1. PreviewInv => StatusFits
  BY DEF PreviewInv
<1> QED
  BY <1>1, PreviewInductive, PTL
=============================================================================
