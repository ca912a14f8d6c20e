--------------------------- MODULE GeocodingProofs ---------------------------
(***************************************************************************)
(* Theorems about the geocoding worker.                                    *)
(***************************************************************************)
EXTENDS Geocoding, TLAPS

LEMMA InitType == Init => TypeOK
<1> SUFFICES ASSUME Init PROVE TypeOK
  OBVIOUS
<1>1. Idle \in Progress
  BY DEF Idle, Progress, Step
<1>2. \A w \in Worker : worker[w].at = {}
  BY DEF Init, Idle
<1>3. faults \in 0 .. MaxFaults
  BY GeocodingAssumption DEF Init
<1>4. QED
  BY <1>1, <1>2, <1>3 DEF Init, TypeOK, JobRow

(* A step of one worker leaves the others alone and keeps the type.        *)
LEMMA WorkerUpdate ==
  ASSUME TypeOK, NEW w \in Worker, NEW x \in Progress, \A p, q \in x.at : p = q,
         worker' = [worker EXCEPT ![w] = x]
  PROVE  /\ worker' \in [Worker -> Progress]
         /\ \A v \in Worker : \A p, q \in worker'[v].at : p = q
BY DEF TypeOK

LEMMA RunType == ASSUME TypeOK, NEW w \in Worker, Run(w) PROVE TypeOK'
<1> USE DEF TypeOK
<1>0. worker[w] \in Progress
  OBVIOUS
<1>1. CASE Select(w)
  <2> DEFINE due == {p \in Post : job[p].status \in {"pending", "processing"} /\ job[p].due}
             x == [pc |-> "batch", rest |-> due, at |-> {},
                   read |-> [p \in Post |-> IF p \in due THEN job[p].attempts ELSE 0]]
  <2>1. x \in Progress
    BY DEF Progress, Step, JobRow
  <2>2. worker' = [worker EXCEPT ![w] = x]
    BY <1>1 DEF Select
  <2> HIDE DEF x
  <2>3. x.at = {}
    BY DEF x
  <2>4. QED
    BY <2>1, <2>2, <2>3, <1>1, WorkerUpdate DEF Select, author
<1>2. CASE Finish(w)
  <2>1. Idle \in Progress /\ Idle.at = {}
    BY DEF Idle, Progress, Step
  <2>2. QED
    BY <2>1, <1>2, WorkerUpdate DEF Finish, author
<1>3. ASSUME NEW p \in Post, Handle(w, p) PROVE TypeOK'
  <2>1. CASE Start(w, p)
    <3>1. [worker[w] EXCEPT !.pc = "lookup", !.rest = worker[w].rest \ {p}, !.at = {p}] \in Progress
      BY <1>0 DEF Progress, Step
    <3>2. job' \in [Post -> JobRow]
      BY <2>1 DEF Start, JobRow
    <3> DEFINE x == [worker[w] EXCEPT !.pc = "lookup", !.rest = worker[w].rest \ {p}, !.at = {p}]
    <3>3. x.at = {p}
      BY <1>0 DEF Progress
    <3>4. worker' = [worker EXCEPT ![w] = x]
      BY <2>1 DEF Start
    <3> HIDE DEF x
    <3>5. /\ worker' \in [Worker -> Progress]
          /\ \A v \in Worker : \A q, s \in worker'[v].at : q = s
      BY <3>1, <3>3, <3>4, WorkerUpdate DEF x
    <3>6. QED
      BY <3>2, <3>5, <2>1 DEF Start, author
  <2>2. ASSUME NEW pc \in Step, GoTo(w, pc)
        PROVE  /\ worker' \in [Worker -> Progress]
               /\ \A v \in Worker : \A q, s \in worker'[v].at : q = s
    <3> DEFINE x == [worker[w] EXCEPT !.pc = pc]
    <3>1. x \in Progress /\ x.at = worker[w].at
      BY <1>0, <2>2 DEF Progress
    <3>2. worker' = [worker EXCEPT ![w] = x]
      BY <2>2 DEF GoTo
    <3> HIDE DEF x
    <3>3. \A q, s \in x.at : q = s
      BY <3>1
    <3>4. QED
      BY <3>1, <3>2, <3>3, WorkerUpdate
  <2>3. ASSUME NextJob(w)
        PROVE  /\ worker' \in [Worker -> Progress]
               /\ \A v \in Worker : \A q, s \in worker'[v].at : q = s
    <3> DEFINE x == [worker[w] EXCEPT !.pc = "batch", !.at = {}]
    <3>1. x \in Progress /\ x.at = {}
      BY <1>0 DEF Progress, Step
    <3>2. worker' = [worker EXCEPT ![w] = x]
      BY <2>3 DEF NextJob
    <3> HIDE DEF x
    <3>3. QED
      BY <3>1, <3>2, WorkerUpdate
  <2>4. CASE LookUp(w, p)
    BY <2>4, <2>2 DEF LookUp, Step, author
  <2>5. CASE Confirm(w, p)
    BY <2>5, <2>2 DEF Confirm, Step, author
  <2>6. CASE Complete(w, p)
    <3>1. /\ worker' \in [Worker -> Progress]
          /\ \A v \in Worker : \A q, s \in worker'[v].at : q = s
      BY <2>6, <2>2, <2>3 DEF Complete, Step
    <3>2. job' \in [Post -> JobRow]
      BY <2>6 DEF Complete, JobRow
    <3>3. QED
      BY <3>1, <3>2, <2>6 DEF Complete, author
  <2>7. CASE Activate(w, p)
    BY <2>7, <2>2 DEF Activate, Step, author
  <2>8. CASE Enqueue(w, p)
    BY <2>8, <2>3 DEF Enqueue, author
  <2>9. CASE Reschedule(w, p)
    <3>1. /\ worker' \in [Worker -> Progress]
          /\ \A v \in Worker : \A q, s \in worker'[v].at : q = s
      BY <2>9, <2>3 DEF Reschedule
    <3>2. job' \in [Post -> JobRow]
      BY <2>9 DEF Reschedule, JobRow
    <3>3. QED
      BY <3>1, <3>2, <2>9 DEF Reschedule, author
  <2>10. CASE FailJob(w, p)
    BY <2>10, <2>2 DEF FailJob, Step, author, JobRow
  <2>11. CASE FailPost(w, p)
    BY <2>11, <2>3 DEF FailPost, author
  <2>12. QED
    BY <1>3, <2>1, <2>4, <2>5, <2>6, <2>7, <2>8, <2>9, <2>10, <2>11 DEF Handle
<1>4. QED
  BY <1>1, <1>2, <1>3 DEF Run

LEMMA NextType == TypeOK /\ [Next]_vars => TypeOK'
<1> SUFFICES ASSUME TypeOK, [Next]_vars PROVE TypeOK'
  OBVIOUS
<1>1. ASSUME NEW w \in Worker, Run(w) PROVE TypeOK'
  BY <1>1, RunType
<1>2. ASSUME NEW w \in Worker, Abort(w) PROVE TypeOK'
  <2>1. Idle \in Progress /\ Idle.at = {}
    BY DEF Idle, Progress, Step
  <2>2. faults' \in 0 .. MaxFaults
    BY <1>2, GeocodingAssumption DEF Abort, TypeOK
  <2>3. QED
    BY <2>1, <2>2, <1>2, WorkerUpdate DEF Abort, TypeOK, author
<1>3. ASSUME NEW p \in Post, TimePasses(p) PROVE TypeOK'
  BY <1>3 DEF TimePasses, TypeOK, author, JobRow
<1>4. ASSUME NEW p \in Post, Trigger(p) \/ TriggerEnqueue(p) \/ End(p) PROVE TypeOK'
  BY <1>4 DEF Trigger, TriggerEnqueue, End, TypeOK
<1>5. CASE UNCHANGED vars
  BY <1>5 DEF vars, TypeOK
<1>6. QED
  BY <1>1, <1>2, <1>3, <1>4, <1>5 DEF Next

(* The jobs, posts and workers keep their types, with any number of them.  *)
THEOREM GeocodingTypeCorrect == Spec => []TypeOK
<1>1. QED
  BY InitType, NextType, PTL DEF Spec

(***************************************************************************)
(* One replica: what it has read of the jobs of its batch stays true until *)
(* it comes to them.                                                       *)
(***************************************************************************)
TidyPost(r, p) ==
  /\ job[p].status = "completed" => geo[p] = "confirmed"
  /\ job[p].status = "pending" => job[p].attempts < MaxAttempts
  /\ worker[r].pc = "idle" => p \notin worker[r].rest
  /\ worker[r].pc \in {"idle", "batch"} => p \notin worker[r].at
  /\ p \in worker[r].rest =>
       /\ p \notin worker[r].at
       /\ job[p].status \in {"pending", "processing"}
       /\ worker[r].read[p] = job[p].attempts
  /\ p \in worker[r].at =>
       /\ worker[r].pc \in {"lookup", "confirm", "complete", "miss"} =>
            /\ job[p].status = "processing"
            /\ job[p].attempts = worker[r].read[p] + 1
       /\ worker[r].pc = "complete" => geo[p] = "confirmed"
       /\ worker[r].pc = "fail post" => job[p].status = "failed"

Tidy(r) == \A p \in Post : TidyPost(r, p)

(* What is left of a worker's record when it goes on.                      *)
LEMMA GoToFields ==
  ASSUME TypeOK, NEW w \in Worker, NEW pc, GoTo(w, pc)
  PROVE  /\ worker'[w].pc = pc
         /\ worker'[w].rest = worker[w].rest
         /\ worker'[w].at = worker[w].at
         /\ worker'[w].read = worker[w].read
         /\ \A v \in Worker \ {w} : worker'[v] = worker[v]
BY DEF TypeOK, Progress, GoTo

LEMMA NextJobFields ==
  ASSUME TypeOK, NEW w \in Worker, NextJob(w)
  PROVE  /\ worker'[w].pc = "batch"
         /\ worker'[w].rest = worker[w].rest
         /\ worker'[w].at = {}
         /\ worker'[w].read = worker[w].read
         /\ \A v \in Worker \ {w} : worker'[v] = worker[v]
BY DEF TypeOK, Progress, NextJob

LEMMA StartFields ==
  ASSUME TypeOK, NEW w \in Worker, NEW p \in Post, Start(w, p)
  PROVE  /\ worker'[w].pc = "lookup"
         /\ worker'[w].rest = worker[w].rest \ {p}
         /\ worker'[w].at = {p}
         /\ worker'[w].read = worker[w].read
         /\ \A v \in Worker \ {w} : worker'[v] = worker[v]
         /\ job'[p].status = "processing"
         /\ job'[p].attempts = job[p].attempts + 1
         /\ \A q \in Post \ {p} : job'[q] = job[q]
BY DEF TypeOK, Progress, JobRow, Start

LEMMA HandleTidy ==
  ASSUME NEW r \in Worker, TypeOK, Tidy(r), NEW p \in Post, Handle(r, p)
  PROVE  Tidy(r)'
<1> SUFFICES ASSUME NEW q \in Post PROVE TidyPost(r, q)'
  BY DEF Tidy
<1>0. /\ TidyPost(r, q) /\ TidyPost(r, p)
      /\ job[q] \in JobRow /\ job[p] \in JobRow
      /\ job \in [Post -> JobRow] /\ geo \in [Post -> {"pending", "confirmed", "failed"}]
      /\ worker[r].read \in [Post -> Nat]
      /\ worker[r].rest \in SUBSET Post
      /\ MaxAttempts \in Nat
  BY GeocodingAssumption DEF Tidy, TypeOK, Progress
<1>1. CASE Start(r, p)
  <2>1. /\ p \in worker[r].rest /\ worker[r].pc = "batch" /\ geo' = geo
        /\ q \notin worker[r].at
        /\ job[p].attempts = worker[r].read[p]
    BY <1>0, <1>1 DEF Start, TidyPost
  <2>2. CASE q = p
    <3>1. /\ worker'[r].pc = "lookup" /\ worker'[r].at = {q}
          /\ q \notin worker'[r].rest /\ worker'[r].read = worker[r].read
          /\ job'[q].status = "processing"
          /\ job'[q].attempts = worker[r].read[q] + 1
      BY <1>1, <2>1, <2>2, StartFields
    <3>2. QED
      BY <3>1 DEF TidyPost
  <2>3. CASE q # p
    <3>1. /\ job'[q] = job[q] /\ q \notin worker'[r].at
          /\ q \in worker'[r].rest <=> q \in worker[r].rest
          /\ worker'[r].pc = "lookup" /\ worker'[r].read = worker[r].read
      BY <1>1, <2>3, StartFields
    <3>2. QED
      BY <1>0, <2>1, <3>1 DEF TidyPost
  <2>4. QED
    BY <2>2, <2>3
<1>2. CASE LookUp(r, p)
  <2>1. job' = job /\ geo' = geo /\ worker[r].pc = "lookup"
    BY <1>2 DEF LookUp, Has
  <2>2. ASSUME NEW pc \in {"confirm", "miss"}, GoTo(r, pc) PROVE TidyPost(r, q)'
    BY <1>0, <2>1, <2>2, GoToFields DEF TidyPost
  <2>3. QED
    BY <1>2, <2>2 DEF LookUp
<1>3. CASE Confirm(r, p)
  <2>1. /\ job' = job /\ worker[r].pc = "confirm" /\ worker[r].at = {p}
        /\ geo'[p] = "confirmed"
        /\ q # p => geo'[q] = geo[q]
    BY <1>0, <1>3 DEF Confirm, Has
  <2>2. GoTo(r, "complete")
    BY <1>3 DEF Confirm
  <2>3. q \in worker[r].at => geo'[q] = "confirmed"
    BY <2>1
  <2>4. job[q].status = "completed" => geo'[q] = "confirmed"
    BY <1>0, <2>1 DEF TidyPost
  <2>5. /\ worker'[r].pc = "complete" /\ worker'[r].at = worker[r].at
        /\ worker'[r].rest = worker[r].rest /\ worker'[r].read = worker[r].read
    BY <2>2, GoToFields
  <2>6. QED
    BY <1>0, <2>1, <2>3, <2>4, <2>5 DEF TidyPost
<1>4. CASE Complete(r, p)
  <2>1. /\ job'[p].status = "completed" /\ geo'[p] = "confirmed"
        /\ p \notin worker[r].rest
        /\ q # p => job'[q] = job[q] /\ q \notin worker[r].at
        /\ geo' = geo
    BY <1>0, <1>4 DEF Complete, Has, TidyPost, JobRow
  <2>2. \/ GoTo(r, "activate")
        \/ NextJob(r)
    BY <1>4 DEF Complete
  <2>3. /\ worker'[r].rest = worker[r].rest /\ worker'[r].read = worker[r].read
        /\ \/ worker'[r].pc = "activate" /\ worker'[r].at = worker[r].at
           \/ worker'[r].pc = "batch" /\ worker'[r].at = {}
    BY <2>2, GoToFields, NextJobFields
  <2>4. CASE q = p
    <3>1. /\ job'[q].status = "completed" /\ geo'[q] = "confirmed"
          /\ q \notin worker'[r].rest
          /\ worker'[r].pc \in {"activate", "batch"}
          /\ worker'[r].pc = "batch" => q \notin worker'[r].at
      BY <2>1, <2>3, <2>4
    <3>2. QED
      BY ONLY <3>1 DEF TidyPost
  <2>5. CASE q # p
    BY <1>0, <2>1, <2>3, <2>5 DEF TidyPost
  <2>6. QED
    BY <2>4, <2>5
<1>5. CASE Activate(r, p)
  BY <1>0, <1>5, GoToFields DEF Activate, Has, TidyPost
<1>6. CASE Enqueue(r, p)
  BY <1>0, <1>6, NextJobFields DEF Enqueue, Has, TidyPost
<1>7. CASE Reschedule(r, p)
  <2>1. /\ job'[p].status = "pending" /\ job'[p].attempts < MaxAttempts
        /\ p \notin worker[r].rest
        /\ q # p => job'[q] = job[q] /\ q \notin worker[r].at
        /\ geo' = geo
    BY <1>0, <1>7 DEF Reschedule, Has, TidyPost, JobRow
  <2>2. NextJob(r)
    BY <1>7 DEF Reschedule
  <2>3. QED
    BY <1>0, <2>1, <2>2, NextJobFields DEF TidyPost
<1>8. CASE FailJob(r, p)
  <2>1. /\ job'[p].status = "failed"
        /\ p \notin worker[r].rest
        /\ q # p => job'[q] = job[q] /\ q \notin worker[r].at
        /\ geo' = geo
    BY <1>0, <1>8 DEF FailJob, Has, TidyPost, JobRow
  <2>2. GoTo(r, "fail post")
    BY <1>8 DEF FailJob
  <2>3. /\ worker'[r].rest = worker[r].rest /\ worker'[r].read = worker[r].read
        /\ worker'[r].pc = "fail post" /\ worker'[r].at = worker[r].at
    BY <2>2, GoToFields
  <2>4. CASE q = p
    <3>1. job'[q].status = "failed" /\ q \notin worker'[r].rest
      BY <2>1, <2>3, <2>4
    <3>2. QED
      BY <2>3, <3>1 DEF TidyPost
  <2>5. CASE q # p
    BY <1>0, <2>1, <2>3, <2>5 DEF TidyPost
  <2>6. QED
    BY <2>4, <2>5
<1>9. CASE FailPost(r, p)
  BY <1>0, <1>9, NextJobFields DEF FailPost, Has, TidyPost
<1>10. QED
  BY <1>1, <1>2, <1>3, <1>4, <1>5, <1>6, <1>7, <1>8, <1>9 DEF Handle

LEMMA NextTidy ==
  ASSUME NEW r, Worker = {r}
  PROVE  TypeOK /\ Tidy(r) /\ [Next]_vars => Tidy(r)'
<1> SUFFICES ASSUME TypeOK, Tidy(r), [Next]_vars PROVE Tidy(r)'
  OBVIOUS
<1>1. ASSUME NEW p \in Post, Handle(r, p) PROVE Tidy(r)'
  BY <1>1, HandleTidy
<1>2. CASE Select(r)
  <2> SUFFICES ASSUME NEW q \in Post PROVE TidyPost(r, q)'
    BY DEF Tidy
  <2>1. /\ worker'[r].pc = "batch"
        /\ worker'[r].at = {}
        /\ q \in worker'[r].rest =>
             /\ job[q].status \in {"pending", "processing"}
             /\ worker'[r].read[q] = job[q].attempts
        /\ job' = job /\ geo' = geo
    BY <1>2 DEF Select, TypeOK
  <2>2. QED
    BY <2>1 DEF Tidy, TidyPost
<1>3. CASE Finish(r) \/ Abort(r)
  <2> SUFFICES ASSUME NEW q \in Post PROVE TidyPost(r, q)'
    BY DEF Tidy
  <2>1. /\ worker'[r].pc = "idle" /\ worker'[r].rest = {} /\ worker'[r].at = {}
        /\ job' = job /\ geo' = geo
    BY <1>3 DEF Finish, Abort, Idle, TypeOK
  <2>2. QED
    BY <2>1 DEF Tidy, TidyPost
<1>4. ASSUME NEW p \in Post, TimePasses(p) PROVE Tidy(r)'
  <2> SUFFICES ASSUME NEW q \in Post PROVE TidyPost(r, q)'
    BY DEF Tidy
  <2>1. /\ job'[q].status = job[q].status /\ job'[q].attempts = job[q].attempts
        /\ worker' = worker /\ geo' = geo
    BY <1>4 DEF TimePasses, TypeOK, JobRow
  <2>2. QED
    BY <2>1 DEF Tidy, TidyPost
<1>5. ASSUME NEW p \in Post, Trigger(p) \/ TriggerEnqueue(p) \/ End(p)
      PROVE  Tidy(r)'
  BY <1>5 DEF Trigger, TriggerEnqueue, End, Tidy, TidyPost
<1>6. CASE UNCHANGED vars
  BY <1>6 DEF vars, Tidy, TidyPost
<1>7. QED
  BY <1>1, <1>2, <1>3, <1>4, <1>5, <1>6 DEF Next, Run

LEMMA TidyInvariant ==
  ASSUME NEW r, Worker = {r}
  PROVE  Spec => []Tidy(r)
<1>1. Init => Tidy(r)
  <2> SUFFICES ASSUME Init, NEW q \in Post PROVE TidyPost(r, q)
    BY DEF Tidy
  <2>1. worker[r] = Idle /\ job[q].status = "pending" /\ job[q].attempts = 0
    BY DEF Init
  <2>2. QED
    BY <2>1, GeocodingAssumption DEF Idle, TidyPost
<1>2. TypeOK /\ Tidy(r) /\ [Next]_vars => Tidy(r)'
  BY NextTidy
<1>3. QED
  BY <1>1, <1>2, GeocodingTypeCorrect, PTL DEF Spec

(* With a single replica a job is completed only for a post whose location *)
(* is confirmed, whatever was aborted before.                              *)
THEOREM SoleReplicaLocates ==
  ASSUME NEW r, Worker = {r}
  PROVE  Spec => []CompletedIsLocated
<1>1. Tidy(r) => CompletedIsLocated
  BY DEF Tidy, TidyPost, CompletedIsLocated
<1>2. QED
  BY <1>1, TidyInvariant, PTL

(* And a job that waits has an attempt left.                               *)
THEOREM SoleReplicaKeepsTries ==
  ASSUME NEW r, Worker = {r}
  PROVE  Spec => []PendingHasTries
<1>1. Tidy(r) => PendingHasTries
  BY DEF Tidy, TidyPost, PendingHasTries
<1>2. QED
  BY <1>1, TidyInvariant, PTL

(***************************************************************************)
(* Any number of replicas: a completed case that is not dispatched yet is  *)
(* in the hands of one of them.                                            *)
(***************************************************************************)
Handed(p) ==
  \/ rescue[p] # "open" /\ p \in queued
  \/ \E w \in Worker : Has(w, p, "activate")
  \/ rescue[p] # "open" /\ \E w \in Worker : Has(w, p, "enqueue")

CompletedIsHanded ==
  \A p \in Urgent : faults = 0 /\ job[p].status = "completed" => Handed(p)

(* A case stays handed when nothing is undone and only a worker that is    *)
(* not about to dispatch it goes on.                                       *)
LEMMA HandedKept ==
  ASSUME NEW q \in Post, Handed(q),
         rescue[q] # "open" => rescue'[q] # "open",
         queued \subseteq queued',
         NEW w \in Worker, \A v \in Worker \ {w} : worker'[v] = worker[v],
         ~Has(w, q, "activate"), ~Has(w, q, "enqueue")
  PROVE  Handed(q)'
<1>1. ASSUME NEW v \in Worker, NEW pc \in {"activate", "enqueue"}, Has(v, q, pc)
      PROVE  worker'[v].pc = pc /\ worker'[v].at = {q}
  <2>1. v # w
    BY <1>1
  <2>2. QED
    BY <1>1, <2>1 DEF Has
<1>2. CASE rescue[q] # "open" /\ q \in queued
  BY <1>2 DEF Handed
<1>3. CASE \E v \in Worker : Has(v, q, "activate")
  <2>1. PICK v \in Worker : Has(v, q, "activate")
    BY <1>3
  <2>2. Has(v, q, "activate")'
    BY <2>1, <1>1 DEF Has
  <2>3. QED
    BY <2>2 DEF Handed
<1>4. CASE rescue[q] # "open" /\ \E v \in Worker : Has(v, q, "enqueue")
  <2>1. PICK v \in Worker : Has(v, q, "enqueue")
    BY <1>4
  <2>2. Has(v, q, "enqueue")'
    BY <2>1, <1>1 DEF Has
  <2>3. QED
    BY <1>4, <2>2 DEF Handed
<1>5. QED
  BY <1>2, <1>3, <1>4 DEF Handed

LEMMA HandleHanded ==
  ASSUME TypeOK, CompletedIsHanded, NEW w \in Worker, NEW p \in Post, Handle(w, p)
  PROVE  CompletedIsHanded'
<1> SUFFICES ASSUME NEW q \in Urgent, faults' = 0, job'[q].status = "completed"
             PROVE  Handed(q)'
  BY DEF CompletedIsHanded
<1>0. /\ q \in Post /\ job[q] \in JobRow /\ job \in [Post -> JobRow]
      /\ rescue \in [Post -> {"open", "active", "resolved"}]
      /\ faults = 0
  BY GeocodingAssumption DEF TypeOK, Handle, Start, LookUp, Confirm, Complete,
     Activate, Enqueue, Reschedule, FailJob, FailPost
<1>1. /\ \A v \in Worker \ {w} : worker'[v] = worker[v]
      /\ \A pc \in {"activate", "enqueue"} : Has(w, q, pc) => q = p
      /\ job[q].status = "completed" => Handed(q)
  <2>1. \A v \in Worker \ {w} : worker'[v] = worker[v]
    BY DEF TypeOK, Handle, Start, LookUp, Confirm, Complete, Activate, Enqueue,
       Reschedule, FailJob, FailPost, GoTo, NextJob
  <2>2. \A pc \in {"activate", "enqueue"} : Has(w, q, pc) => q = p
    BY DEF Handle, Start, LookUp, Confirm, Complete, Activate, Enqueue,
       Reschedule, FailJob, FailPost, Has
  <2>3. QED
    BY <1>0, <2>1, <2>2 DEF CompletedIsHanded
<1>2. CASE Start(w, p) \/ LookUp(w, p) \/ Confirm(w, p) \/ Reschedule(w, p)
           \/ FailJob(w, p) \/ FailPost(w, p)
  <2>1. /\ job[q].status = "completed"
        /\ ~Has(w, q, "activate") /\ ~Has(w, q, "enqueue")
        /\ rescue' = rescue /\ queued' = queued
    <3>1. job'[q] = job[q] \/ job'[q].status \in {"processing", "pending", "failed"}
      <4>1. CASE Start(w, p)
        BY <4>1, <1>0, StartFields
      <4>2. CASE Reschedule(w, p)
        BY <4>2, <1>0 DEF Reschedule, JobRow
      <4>3. CASE FailJob(w, p)
        BY <4>3, <1>0 DEF FailJob, JobRow
      <4>4. QED
        BY <1>2, <4>1, <4>2, <4>3 DEF LookUp, Confirm, FailPost
    <3>2. job[q].status = "completed"
      BY <3>1
    <3>3. QED
      BY <3>2, <1>2 DEF Start, LookUp, Confirm, Reschedule, FailJob, FailPost, Has
  <2>2. QED
    BY <1>0, <1>1, <2>1, HandedKept
<1>3. CASE Complete(w, p)
  <2>1. CASE q = p
    <3>1. GoTo(w, "activate") /\ worker[w].at = {q}
      BY <1>3, <2>1 DEF Complete, Has
    <3>2. worker'[w].pc = "activate" /\ worker'[w].at = {q}
      BY <3>1, GoToFields
    <3>3. QED
      BY <3>2 DEF Handed, Has
  <2>2. CASE q # p
    <3>1. /\ job[q].status = "completed"
          /\ rescue' = rescue /\ queued' = queued
      BY <1>0, <1>3, <2>2 DEF Complete
    <3>2. QED
      BY <1>0, <1>1, <2>2, <3>1, HandedKept
  <2>3. QED
    BY <2>1, <2>2
<1>4. CASE Activate(w, p)
  <2>0. /\ job[q].status = "completed" /\ queued' = queued
        /\ rescue[q] # "open" => rescue'[q] # "open"
    BY <1>0, <1>4 DEF Activate
  <2>1. CASE q = p
    <3>1. GoTo(w, "enqueue") /\ worker[w].at = {q} /\ rescue'[q] # "open"
      BY <1>0, <1>4, <2>1 DEF Activate, Has
    <3>2. worker'[w].pc = "enqueue" /\ worker'[w].at = {q}
      BY <3>1, GoToFields
    <3>3. QED
      BY <3>1, <3>2 DEF Handed, Has
  <2>2. QED
    BY <1>0, <1>1, <2>0, <2>1, HandedKept
<1>5. CASE Enqueue(w, p)
  <2>0. /\ job[q].status = "completed" /\ queued' = queued \cup {p}
        /\ rescue' = rescue /\ Handed(q)
    BY <1>0, <1>1, <1>5 DEF Enqueue
  <2>1. CASE q = p
    <3>1. CASE rescue[q] # "open"
      BY <2>0, <2>1, <3>1 DEF Handed
    <3>2. CASE rescue[q] = "open"
      <4>1. PICK v \in Worker : Has(v, q, "activate")
        BY <2>0, <3>2 DEF Handed
      <4>2. v # w
        BY <4>1, <1>5 DEF Enqueue, Has
      <4>3. worker'[v] = worker[v]
        BY <4>2, <1>1
      <4>4. QED
        BY <4>1, <4>3 DEF Handed, Has
    <3>3. QED
      BY <3>1, <3>2
  <2>2. CASE q # p
    BY <1>0, <1>1, <2>0, <2>2, HandedKept
  <2>3. QED
    BY <2>1, <2>2
<1>6. QED
  BY <1>2, <1>3, <1>4, <1>5 DEF Handle

LEMMA NextHanded == TypeOK /\ CompletedIsHanded /\ [Next]_vars => CompletedIsHanded'
<1> SUFFICES ASSUME TypeOK, CompletedIsHanded, [Next]_vars PROVE CompletedIsHanded'
  OBVIOUS
<1>1. ASSUME NEW w \in Worker, NEW p \in Post, Handle(w, p)
      PROVE  CompletedIsHanded'
  BY <1>1, HandleHanded
<1>2. ASSUME NEW w \in Worker, Select(w) \/ Finish(w)
      PROVE  CompletedIsHanded'
  <2> SUFFICES ASSUME NEW q \in Urgent, faults' = 0, job'[q].status = "completed"
               PROVE  Handed(q)'
    BY DEF CompletedIsHanded
  <2>1. /\ \A v \in Worker \ {w} : worker'[v] = worker[v]
        /\ ~Has(w, q, "activate") /\ ~Has(w, q, "enqueue")
        /\ rescue' = rescue /\ queued' = queued /\ job' = job /\ faults' = faults
    BY <1>2 DEF Select, Finish, Has, TypeOK
  <2>2. q \in Post /\ Handed(q)
    BY <2>1, GeocodingAssumption DEF CompletedIsHanded
  <2>3. QED
    BY <2>1, <2>2, HandedKept
<1>3. ASSUME NEW w \in Worker, Abort(w) PROVE CompletedIsHanded'
  <2>1. faults' # 0
    BY <1>3, GeocodingAssumption DEF Abort, TypeOK
  <2>2. QED
    BY <2>1 DEF CompletedIsHanded
<1>4. ASSUME NEW p \in Post,
             TimePasses(p) \/ Trigger(p) \/ TriggerEnqueue(p) \/ End(p)
      PROVE  CompletedIsHanded'
  <2> SUFFICES ASSUME NEW q \in Urgent, faults' = 0, job'[q].status = "completed"
               PROVE  Handed(q)'
    BY DEF CompletedIsHanded
  <2>1. /\ job[q].status = "completed" /\ faults = 0 /\ worker' = worker
        /\ rescue[q] # "open" => rescue'[q] # "open"
        /\ queued \subseteq queued'
    BY <1>4, GeocodingAssumption
       DEF TimePasses, Trigger, TriggerEnqueue, End, TypeOK, JobRow
  <2>2. Handed(q)
    BY <2>1 DEF CompletedIsHanded
  <2>3. QED
    BY <2>1, <2>2 DEF Handed, Has
<1>5. CASE UNCHANGED vars
  BY <1>5 DEF vars, CompletedIsHanded, Handed, Has
<1>6. QED
  BY <1>1, <1>2, <1>3, <1>4, <1>5 DEF Next, Run

(* As long as no batch was aborted, an urgent case whose job is completed  *)
(* and that no replica is at any more is dispatched, with any number of    *)
(* replicas.                                                               *)
THEOREM LocatedCasesAreDispatched == Spec => []LocatedIsDispatched
<1>1. Init => CompletedIsHanded
  BY GeocodingAssumption DEF Init, CompletedIsHanded
<1>2. TypeOK /\ CompletedIsHanded /\ [Next]_vars => CompletedIsHanded'
  BY NextHanded
<1>3. CompletedIsHanded => LocatedIsDispatched
  <2> SUFFICES ASSUME CompletedIsHanded, NEW p \in Urgent,
                      faults = 0, job[p].status = "completed",
                      \A w \in Worker : p \notin worker[w].at
               PROVE  rescue[p] # "open" /\ p \in queued
    BY DEF LocatedIsDispatched
  <2>1. Handed(p)
    BY DEF CompletedIsHanded
  <2>2. QED
    BY <2>1 DEF Handed, Has
<1>4. QED
  BY <1>1, <1>2, <1>3, GeocodingTypeCorrect, PTL DEF Spec

(* A case that its author ended stays resolved, with any number of         *)
(* replicas and whatever was aborted: none that comes late to make the     *)
(* post active reopens it (resolve_post, end).                             *)
THEOREM EndedCasesStayResolved == Spec => []EndedStaysResolved
<1>1. Init => EndedStaysResolved
  BY DEF Init, EndedStaysResolved
<1>2. TypeOK /\ EndedStaysResolved /\ [Next]_vars => EndedStaysResolved'
  <2> SUFFICES ASSUME TypeOK, EndedStaysResolved, [Next]_vars,
                      NEW q \in Post, session'[q] = "ended"
               PROVE  rescue'[q] = "resolved"
    BY DEF EndedStaysResolved
  <2>0. /\ rescue \in [Post -> {"open", "active", "resolved"}]
        /\ session \in [Post -> {"none", "active", "ended"}]
        /\ session[q] = "ended" => rescue[q] = "resolved"
    BY DEF TypeOK, EndedStaysResolved
  <2>1. ASSUME NEW p \in Post, Trigger(p) \/ End(p)
        PROVE  rescue'[q] = "resolved"
    BY <2>0, <2>1 DEF Trigger, End
  <2>2. ASSUME NEW w \in Worker, NEW p \in Post, Activate(w, p)
        PROVE  rescue'[q] = "resolved"
    BY <2>0, <2>2 DEF Activate, author
  <2>3. CASE UNCHANGED <<rescue, session>>
    BY <2>0, <2>3
  <2>4. QED
    BY <2>1, <2>2, <2>3
    DEF Next, Run, Handle, Select, Finish, Start, LookUp, Confirm, Complete, Enqueue,
        Reschedule, FailJob, FailPost, Abort, TimePasses, TriggerEnqueue, author, vars
<1>3. QED
  BY <1>1, <1>2, GeocodingTypeCorrect, PTL DEF Spec
=============================================================================
