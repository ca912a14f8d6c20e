------------------------------ MODULE Geocoding ------------------------------
(***************************************************************************)
(* The geocoding worker: it looks up the addresses of the posts published  *)
(* without coordinates, and makes the urgent ones among them active cases  *)
(* with a fan-out row.                                                     *)
(*                                                                         *)
(* A worker takes a batch of due jobs, without a lease, and handles them   *)
(* one after another.  Every statement commits by itself; the first that   *)
(* fails ends the batch.                                                   *)
(***************************************************************************)
EXTENDS Naturals

CONSTANTS
  Post,         \* posts published with an address
  Urgent,       \* those that are urgent or emergencies
  Worker,       \* replicas of the geocoding worker
  MaxAttempts,  \* MAX_ATTEMPTS
  MaxFaults     \* bound: failures of a statement, deaths of a worker

ASSUME GeocodingAssumption ==
  /\ Urgent \subseteq Post
  /\ MaxAttempts \in Nat \ {0}
  /\ MaxFaults \in Nat

VARIABLES
  job,       \* post_geocode_jobs, one row per post
  geo,       \* posts.geo_status
  rescue,    \* posts.rescue_status
  queued,    \* posts with a row in rescue_fanout_states
  session,   \* rescue_sessions: the last one of each post
  starting,  \* posts whose trigger handler has not yet enqueued them
  worker,    \* where each worker is in its batch
  faults

author == <<session, starting>>
vars == <<job, geo, rescue, queued, session, starting, worker, faults>>
-----------------------------------------------------------------------------
JobRow == [status : {"pending", "processing", "completed", "failed"},
           attempts : Nat, due : BOOLEAN]

(* batch: between two jobs; the others name the next step about the job.   *)
(* rest: jobs of the batch still to do; at: the one being done; read: the  *)
(* attempts the SELECT returned with each.                                 *)
Step == {"idle", "batch", "lookup", "confirm", "complete", "activate",
         "enqueue", "miss", "fail post"}
Progress == [pc : Step, rest : SUBSET Post, at : SUBSET Post, read : [Post -> Nat]]
Idle == [pc |-> "idle", rest |-> {}, at |-> {}, read |-> [p \in Post |-> 0]]

TypeOK ==
  /\ job \in [Post -> JobRow]
  /\ geo \in [Post -> {"pending", "confirmed", "failed"}]
  /\ rescue \in [Post -> {"open", "active", "resolved"}]
  /\ queued \in SUBSET Post
  /\ session \in [Post -> {"none", "active", "ended"}]
  /\ starting \in SUBSET Post
  /\ worker \in [Worker -> Progress]
  /\ \A w \in Worker : \A p, q \in worker[w].at : p = q
  /\ faults \in 0 .. MaxFaults

(* create_post with an address: the post is open and its job pending.      *)
Init ==
  /\ job = [p \in Post |-> [status |-> "pending", attempts |-> 0, due |-> TRUE]]
  /\ geo = [p \in Post |-> "pending"]
  /\ rescue = [p \in Post |-> "open"]
  /\ queued = {}
  /\ session = [p \in Post |-> "none"]
  /\ starting = {}
  /\ worker = [w \in Worker |-> Idle]
  /\ faults = 0

-----------------------------------------------------------------------------
Has(w, p, pc) == worker[w].pc = pc /\ worker[w].at = {p}
GoTo(w, pc) == worker' = [worker EXCEPT ![w].pc = pc]
NextJob(w) == worker' = [worker EXCEPT ![w].pc = "batch", ![w].at = {}]

(* Defect: a job left processing by a dead worker is not taken up again.   *)
SelectPending(w) ==
  LET due == {p \in Post : job[p].status = "pending" /\ job[p].due} IN
  /\ worker[w].pc = "idle"
  /\ worker' = [worker EXCEPT ![w] =
       [pc |-> "batch", rest |-> due, at |-> {},
        read |-> [p \in Post |-> IF p \in due THEN job[p].attempts ELSE 0]]]
  /\ UNCHANGED <<job, geo, rescue, queued, author, faults>>

(* process_due_jobs: the SELECT, which locks nothing.  There are fewer     *)
(* posts than BATCH_SIZE; their order is left open.                        *)
Select(w) ==
  LET due == {p \in Post : job[p].status \in {"pending", "processing"} /\ job[p].due} IN
  /\ worker[w].pc = "idle"
  /\ worker' = [worker EXCEPT ![w] =
       [pc |-> "batch", rest |-> due, at |-> {},
        read |-> [p \in Post |-> IF p \in due THEN job[p].attempts ELSE 0]]]
  /\ UNCHANGED <<job, geo, rescue, queued, author, faults>>

(* The next job is marked processing, whatever it has become meanwhile.    *)
Start(w, p) ==
  /\ worker[w].pc = "batch"
  /\ p \in worker[w].rest
  /\ job' = [job EXCEPT ![p].status = "processing", ![p].attempts = @ + 1]
  /\ worker' = [worker EXCEPT ![w] =
                  [@ EXCEPT !.pc = "lookup", !.rest = worker[w].rest \ {p}, !.at = {p}]]
  /\ UNCHANGED <<geo, rescue, queued, author, faults>>

Finish(w) ==
  /\ worker[w].pc = "batch"
  /\ worker[w].rest = {}
  /\ worker' = [worker EXCEPT ![w] = Idle]
  /\ UNCHANGED <<job, geo, rescue, queued, author, faults>>

(* geocode_address: coordinates, or nothing, or an error of the provider.  *)
LookUp(w, p) ==
  /\ Has(w, p, "lookup")
  /\ GoTo(w, "confirm") \/ GoTo(w, "miss")
  /\ UNCHANGED <<job, geo, rescue, queued, author, faults>>

(* Defect: the first two statements are swapped.                           *)
ConfirmLater(w, p) ==
  /\ Has(w, p, "confirm")
  /\ job' = [job EXCEPT ![p].status = "completed"]
  /\ GoTo(w, "complete")
  /\ UNCHANGED <<geo, rescue, queued, author, faults>>

(* resolve_post, statement by statement: the post has its coordinates ...  *)
Confirm(w, p) ==
  /\ Has(w, p, "confirm")
  /\ geo' = [geo EXCEPT ![p] = "confirmed"]
  /\ GoTo(w, "complete")
  /\ UNCHANGED <<job, rescue, queued, author, faults>>

(* ... the job is completed ...                                            *)
Complete(w, p) ==
  /\ Has(w, p, "complete")
  /\ job' = [job EXCEPT ![p].status = "completed"]
  /\ IF p \in Urgent THEN GoTo(w, "activate") ELSE NextJob(w)
  /\ UNCHANGED <<geo, rescue, queued, author, faults>>

(* Defect: a post that is not open any more is left alone.                 *)
ActivateOpenOnly(w, p) ==
  /\ Has(w, p, "activate")
  /\ IF rescue[p] = "open"
     THEN rescue' = [rescue EXCEPT ![p] = "active"] /\ GoTo(w, "enqueue")
     ELSE UNCHANGED rescue /\ NextJob(w)
  /\ UNCHANGED <<job, geo, queued, author, faults>>

(* Defect: the post becomes active whatever its author made of it.         *)
ActivateAlways(w, p) ==
  /\ Has(w, p, "activate")
  /\ rescue' = [rescue EXCEPT ![p] = "active"]
  /\ GoTo(w, "enqueue")
  /\ UNCHANGED <<job, geo, queued, author, faults>>

(* ... an open post becomes active ...                                     *)
Activate(w, p) ==
  /\ Has(w, p, "activate")
  /\ rescue' = IF rescue[p] = "open"
               THEN [rescue EXCEPT ![p] = "active"] ELSE rescue
  /\ GoTo(w, "enqueue")
  /\ UNCHANGED <<job, geo, queued, author, faults>>

(* ... and the case is enqueued, active or not.                            *)
Enqueue(w, p) ==
  /\ Has(w, p, "enqueue")
  /\ queued' = queued \cup {p}
  /\ NextJob(w)
  /\ UNCHANGED <<job, geo, rescue, author, faults>>

(* Defect: one attempt too many.                                           *)
RescheduleLate(w, p) ==
  /\ Has(w, p, "miss")
  /\ worker[w].read[p] + 1 <= MaxAttempts
  /\ job' = [job EXCEPT ![p].status = "pending", ![p].due = FALSE]
  /\ NextJob(w)
  /\ UNCHANGED <<geo, rescue, queued, author, faults>>

(* Defect: the status the push queue has for a job that waits.             *)
RescheduleQueued(w, p) ==
  /\ Has(w, p, "miss")
  /\ worker[w].read[p] + 1 < MaxAttempts
  /\ job' = [job EXCEPT ![p].status = "queued", ![p].due = FALSE]
  /\ NextJob(w)
  /\ UNCHANGED <<geo, rescue, queued, author, faults>>

(* fail_or_retry, by the attempts the SELECT read: later ...               *)
Reschedule(w, p) ==
  /\ Has(w, p, "miss")
  /\ worker[w].read[p] + 1 < MaxAttempts
  /\ job' = [job EXCEPT ![p].status = "pending", ![p].due = FALSE]
  /\ NextJob(w)
  /\ UNCHANGED <<geo, rescue, queued, author, faults>>

(* ... or never: the job has failed, and after it the post.                *)
FailJob(w, p) ==
  /\ Has(w, p, "miss")
  /\ worker[w].read[p] + 1 >= MaxAttempts
  /\ job' = [job EXCEPT ![p].status = "failed"]
  /\ GoTo(w, "fail post")
  /\ UNCHANGED <<geo, rescue, queued, author, faults>>

FailPost(w, p) ==
  /\ Has(w, p, "fail post")
  /\ geo' = [geo EXCEPT ![p] = "failed"]
  /\ NextJob(w)
  /\ UNCHANGED <<job, rescue, queued, author, faults>>

(* A statement fails, and with it the batch, or the worker dies.           *)
Abort(w) ==
  /\ worker[w].pc # "idle"
  /\ faults < MaxFaults
  /\ faults' = faults + 1
  /\ worker' = [worker EXCEPT ![w] = Idle]
  /\ UNCHANGED <<job, geo, rescue, queued, author>>

TimePasses(p) ==
  /\ ~job[p].due
  /\ job' = [job EXCEPT ![p].due = TRUE]
  /\ UNCHANGED <<geo, rescue, queued, author, worker, faults>>

-----------------------------------------------------------------------------
(* What the author does as soon as the location is confirmed; RescueFanout *)
(* has the sessions in detail.  trigger: the post is active again, ...     *)
Trigger(p) ==
  /\ p \in Urgent
  /\ geo[p] = "confirmed"
  /\ session[p] # "active"
  /\ session' = [session EXCEPT ![p] = "active"]
  /\ rescue' = [rescue EXCEPT ![p] = "active"]
  /\ starting' = starting \cup {p}
  /\ UNCHANGED <<job, geo, queued, worker, faults>>

(* ... then it is enqueued, unless the handler dies before.                *)
TriggerEnqueue(p) ==
  /\ p \in starting
  /\ queued' = queued \cup {p} \/ UNCHANGED queued
  /\ starting' = starting \ {p}
  /\ UNCHANGED <<job, geo, rescue, session, worker, faults>>

End(p) ==
  /\ session[p] # "none"
  /\ session' = [session EXCEPT ![p] = "ended"]
  /\ rescue' = [rescue EXCEPT ![p] = "resolved"]
  /\ UNCHANGED <<job, geo, queued, starting, worker, faults>>

-----------------------------------------------------------------------------
Handle(w, p) ==
  \/ Start(w, p)
  \/ LookUp(w, p)
  \/ Confirm(w, p)
  \/ Complete(w, p)
  \/ Activate(w, p)
  \/ Enqueue(w, p)
  \/ Reschedule(w, p)
  \/ FailJob(w, p)
  \/ FailPost(w, p)

Run(w) == Select(w) \/ Finish(w) \/ \E p \in Post : Handle(w, p)

Next ==
  \/ \E w \in Worker : Run(w) \/ Abort(w)
  \/ \E p \in Post : TimePasses(p) \/ Trigger(p) \/ TriggerEnqueue(p) \/ End(p)

Spec == Init /\ [][Next]_vars

(* The loop ticks every 10 seconds, a request to the provider ends, and    *)
(* the clock goes on.                                                      *)
Fairness ==
  /\ \A w \in Worker : WF_vars(Run(w))
  /\ \A p \in Post : WF_vars(TimePasses(p))

FairSpec == Spec /\ Fairness
-----------------------------------------------------------------------------
(* Properties.                                                             *)

(* A job is completed only for a post whose location is confirmed, and the *)
(* location stays confirmed, in spite of batches that die half-way and are *)
(* taken up again.  This needs a single replica: the late failure of a     *)
(* second one (fail_or_retry) overwrites what the first one found.         *)
CompletedIsLocated ==
  \A p \in Post : job[p].status = "completed" => geo[p] = "confirmed"

(* A job that waits for another attempt has one left, although the worker  *)
(* decides by the attempts it read before it counted this one.             *)
PendingHasTries ==
  \A p \in Post : job[p].status = "pending" => job[p].attempts < MaxAttempts

(* Once the job of an urgent post is completed and no worker is at it, the *)
(* post has left the state open and has a fan-out row, also when its       *)
(* author started or ended the rescue while resolve_post was running --    *)
(* unless a batch was aborted, for nobody takes up a completed job.        *)
LocatedIsDispatched ==
  \A p \in Urgent :
    /\ faults = 0
    /\ job[p].status = "completed"
    /\ \A w \in Worker : p \notin worker[w].at
    => rescue[p] # "open" /\ p \in queued

(* A case that its author ended stays resolved, although a worker that has *)
(* confirmed the location, by which the author could start and end the     *)
(* rescue, comes to make the post active only then (resolve_post, end).    *)
EndedStaysResolved ==
  \A p \in Post : session[p] = "ended" => rescue[p] = "resolved"

(* Every job comes to an end for good, whatever is aborted on the way.     *)
JobsSettle == \A p \in Post : <>[](job[p].status \in {"completed", "failed"})
=============================================================================
