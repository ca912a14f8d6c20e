---------------------------- MODULE RescueFanout ----------------------------
(***************************************************************************)
(* Dispatch of one rescue case: the fan-out row, the replicas of the       *)
(* worker that run its phases, the request handlers that record what the   *)
(* helpers answer, the notification events and push jobs a phase leaves,   *)
(* and the rescue sessions by which the author starts and ends the case.   *)
(*                                                                         *)
(* Every SQL statement (or transaction) is one step; what a task does      *)
(* between two statements, it does on values it read before.               *)
(*                                                                         *)
(* Time is abstract: TimePasses makes the next run due, Expire makes the   *)
(* row older than MAX_FANOUT_LIFETIME_HOURS.                               *)
(***************************************************************************)
EXTENDS FanoutRow, FiniteSets

CONSTANTS
  User,        \* helpers: they receive alerts and answer them
  Device,      \* push subscriptions
  Owner,       \* the user of each device
  Handler,     \* requests in flight that record a helper's answer
  Worker,      \* tasks that may run process_one_fanout: replicas and wakes
  MaxSession,  \* bound: how many sessions the author may start
  MaxReplay    \* bound: overlapping duplicates of the create request

ASSUME FanoutAssumption ==
  /\ IsFiniteSet(User)
  /\ Owner \in [Device -> User]
  /\ MaxSession \in Nat
  /\ MaxReplay \in Nat

VARIABLES
  post,        \* posts.rescue_status of the case
  session,     \* rescue_sessions of the case, by order of creation
  starting,    \* sessions whose trigger handler has not yet enqueued the case
  replays,     \* duplicates of the create request that have not answered yet
  row,         \* rescue_fanout_states
  expired,     \* the row is MAX_FANOUT_LIFETIME_HOURS old
  response,    \* rescue_responses of action 'going', by user
  handler,     \* respond handlers: where each is and what it holds
  worker,      \* worker tasks: where each is inside its transaction
  events,      \* notification_events: pairs <<dedupe key, user>>
  jobs,        \* push_delivery_jobs inserted, by dedupe key and device
  attempts     \* rescue_fanout_attempts of the phases before the soft one

caseVars == <<post, session, starting, replays>>
alertVars == <<events, jobs, attempts>>
vars == <<post, session, starting, replays, row, expired, response, handler,
          worker, events, jobs, attempts>>

-----------------------------------------------------------------------------
Session == 1 .. MaxSession
Answer == {"confirmed", "arrived", "cancelled"}

(* Dedupe keys: "rescue:{post}" for every standard and soft phase, and     *)
(* "rescue-escalation:{post}:{phase}:{user}" for each escalation phase.    *)
RescueKey == 0
Key == {RescueKey} \cup EscalationPhase
KeyOf(p) == IF p \in EscalationPhase THEN p ELSE RescueKey

Going == {u \in User : response[u] = "confirmed"}
OnSite == {u \in User : response[u] = "arrived"}
Counts == [confirmed |-> Cardinality(Going), arrived |-> Cardinality(OnSite)]
CountPair == [confirmed : Nat, arrived : Nat]
ZeroCounts == [confirmed |-> 0, arrived |-> 0]

Idle == [pc |-> "idle", user |-> "none", answer |-> "none", saw |-> ZeroCounts]
Free == [pc |-> "idle", saw |-> ZeroCounts]

(* A worker task holds the row lock (FOR UPDATE) from its claim to the end *)
(* of its transaction.                                                     *)
RowLocked == \E w \in Worker : worker[w].pc # "idle"

TypeOK ==
  /\ post \in {"active", "resolved"}
  /\ session \in [Session -> {"none", "active", "ended"}]
  /\ starting \in SUBSET Session
  /\ replays \in 0 .. MaxReplay
  /\ row \in Row
  /\ expired \in BOOLEAN
  /\ response \in [User -> Answer \cup {"none"}]
  /\ handler \in [Handler ->
       [pc : {"idle", "upsert", "read", "write", "pause"},
        user : User \cup {"none"},
        answer : Answer \cup {"none"},
        saw : CountPair]]
  /\ worker \in [Worker -> [pc : {"idle", "count", "run"}, saw : CountPair]]
  /\ events \in SUBSET (Key \X User)
  /\ jobs \in [Key \X Device -> Nat]
  /\ attempts \in [StandardPhase \cup EscalationPhase -> Nat]

(* create_post with GPS coordinates: the post and its row are committed    *)
(* together.                                                               *)
Init ==
  /\ post = "active"
  /\ session = [s \in Session |-> "none"]
  /\ starting = {}
  /\ replays = MaxReplay
  /\ row = FreshRow
  /\ expired = FALSE
  /\ response = [u \in User |-> "none"]
  /\ handler = [h \in Handler |-> Idle]
  /\ worker = [w \in Worker |-> Free]
  /\ events = {}
  /\ jobs = [x \in Key \X Device |-> 0]
  /\ attempts = [p \in StandardPhase \cup EscalationPhase |-> 0]

-----------------------------------------------------------------------------
(* The author's requests.                                                  *)

(* trigger, first transaction: under the advisory lock, no other session   *)
(* of the case is active.  A retry that finds one returns it and changes   *)
(* nothing.                                                                *)
Trigger(s) ==
  /\ session[s] = "none"
  /\ \A t \in Session : (t < s => session[t] # "none") /\ session[t] # "active"
  /\ session' = [session EXCEPT ![s] = "active"]
  /\ post' = "active"
  /\ starting' = starting \cup {s}
  /\ UNCHANGED <<replays, row, expired, response, handler, worker, alertVars>>

(* trigger, second transaction: create_fanout_state_for_post.              *)
TriggerEnqueue(s) ==
  /\ s \in starting
  /\ ~RowLocked
  /\ starting' = starting \ {s}
  /\ row' = Enqueue(row)
  /\ UNCHANGED <<post, session, replays, expired, response, handler, worker,
                 alertVars>>

(* The process dies, or the connection fails, between the two.             *)
TriggerCrash(s) ==
  /\ s \in starting
  /\ starting' = starting \ {s}
  /\ UNCHANGED <<post, session, replays, row, expired, response, handler,
                 worker, alertVars>>

(* end: also when the session is already ended, the retry of a request     *)
(* whose answer was lost.  Both write the post; neither touches the row.   *)
End(s) ==
  /\ session[s] \in {"active", "ended"}
  /\ session' = [session EXCEPT ![s] = "ended"]
  /\ post' = "resolved"
  /\ UNCHANGED <<starting, replays, row, expired, response, handler, worker,
                 alertVars>>

(* create_post, the loser of two overlapping requests with one idempotency *)
(* key: it saw the post active, possibly long ago, and enqueues the case.  *)
ReplayEnqueue ==
  /\ replays > 0
  /\ ~RowLocked
  /\ replays' = replays - 1
  /\ row' = Enqueue(row)
  /\ UNCHANGED <<post, session, starting, expired, response, handler, worker,
                 alertVars>>

-----------------------------------------------------------------------------
(* A helper's answer: respond (to a session) or rescue_response (to the    *)
(* post), and upsert_rescue_response, which runs its statements one by     *)
(* one, outside any transaction.                                           *)

(* respond wants an active session, rescue_response only an urgent post,   *)
(* whatever became of it: a helper may answer at any time.  Answer "none"  *)
(* stands for the actions remote_support and unavailable, which the        *)
(* counters ignore.                                                        *)
RespondCheck(h, u, a) ==
  /\ handler[h].pc = "idle"
  /\ handler' = [handler EXCEPT ![h] =
                   [Idle EXCEPT !.pc = "upsert", !.user = u, !.answer = a]]
  /\ UNCHANGED <<caseVars, row, expired, response, worker, alertVars>>

(* INSERT ... ON CONFLICT (post_id, user_id, action) DO UPDATE.            *)
RespondUpsert(h) ==
  /\ handler[h].pc = "upsert"
  /\ response' = IF handler[h].answer = "none"
                 THEN response
                 ELSE [response EXCEPT ![handler[h].user] = handler[h].answer]
  /\ handler' = [handler EXCEPT ![h] = [Idle EXCEPT !.pc = "read"]]
  /\ UNCHANGED <<caseVars, row, expired, worker, alertVars>>

(* refresh_fanout_response_counts, the SELECT ...                          *)
RespondReadCounts(h) ==
  /\ handler[h].pc = "read"
  /\ handler' = [handler EXCEPT ![h] = [Idle EXCEPT !.pc = "write", !.saw = Counts]]
  /\ UNCHANGED <<caseVars, row, expired, response, worker, alertVars>>

(* ... and the UPDATE with what the SELECT returned.                       *)
RespondWriteCounts(h) ==
  /\ handler[h].pc = "write"
  /\ ~RowLocked
  /\ row' = WithCounts(row, handler[h].saw)
  /\ handler' = [handler EXCEPT ![h] = [Idle EXCEPT !.pc = "pause"]]
  /\ UNCHANGED <<caseVars, expired, response, worker, alertVars>>

(* pause_fanout_if_confirmed.                                              *)
RespondPause(h) ==
  /\ handler[h].pc = "pause"
  /\ ~RowLocked
  /\ row' = PauseIfConfirmed(row)
  /\ handler' = [handler EXCEPT ![h] = Idle]
  /\ UNCHANGED <<caseVars, expired, response, worker, alertVars>>

(* A statement fails or the process dies: what was done stays done.        *)
RespondCrash(h) ==
  /\ handler[h].pc # "idle"
  /\ handler' = [handler EXCEPT ![h] = Idle]
  /\ UNCHANGED <<caseVars, row, expired, response, worker, alertVars>>

-----------------------------------------------------------------------------
(* process_one_fanout: one transaction, READ COMMITTED, on a row it locks. *)

(* Defect: the claim without the row lock.                                 *)
WorkerClaimUnlocked(w) ==
  /\ worker[w].pc = "idle"
  /\ row.status = "active" /\ row.due
  /\ IF post = "resolved"
     THEN row' = Finished(row, "completed") /\ UNCHANGED worker
     ELSE worker' = [worker EXCEPT ![w] = [Free EXCEPT !.pc = "count"]] /\ UNCHANGED row
  /\ UNCHANGED <<caseVars, expired, response, handler, alertVars>>

(* Defect: the claim does not look at the post.                            *)
WorkerClaimBlind(w) ==
  /\ worker[w].pc = "idle"
  /\ ~RowLocked
  /\ row.status = "active" /\ row.due
  /\ worker' = [worker EXCEPT ![w] = [Free EXCEPT !.pc = "count"]]
  /\ UNCHANGED <<caseVars, row, expired, response, handler, alertVars>>

(* Claims the due row unless another transaction has it (SKIP LOCKED) and  *)
(* reads the post; a resolved post completes the row at once.  The branch  *)
(* for a cancelled or missing post is left out: no code cancels a post,    *)
(* and deleting one deletes its row.                                       *)
WorkerClaim(w) ==
  /\ worker[w].pc = "idle"
  /\ ~RowLocked
  /\ row.status = "active" /\ row.due
  /\ IF post = "resolved"
     THEN row' = Finished(row, "completed") /\ UNCHANGED worker
     ELSE worker' = [worker EXCEPT ![w] = [Free EXCEPT !.pc = "count"]] /\ UNCHANGED row
  /\ UNCHANGED <<caseVars, expired, response, handler, alertVars>>

(* count_responses.  With a helper on the way the row is paused and the    *)
(* transaction ends; otherwise the counters it writes become visible with  *)
(* the rest of the run, if that commits.                                   *)
WorkerPause(w) ==
  /\ worker[w].pc = "count"
  /\ Counts.confirmed > 0
  /\ row' = [WithCounts(row, Counts) EXCEPT !.status = "paused"]
  /\ worker' = [worker EXCEPT ![w] = Free]
  /\ UNCHANGED <<caseVars, expired, response, handler, alertVars>>

WorkerProceed(w) ==
  /\ worker[w].pc = "count"
  /\ Counts.confirmed = 0
  /\ worker' = [worker EXCEPT ![w] = [pc |-> "run", saw |-> Counts]]
  /\ UNCHANGED <<caseVars, row, expired, response, handler, alertVars>>

(* Defect: the job is inserted also when the event was there already.      *)
PersistUnguarded(k, chosen) ==
  /\ events' = events \cup {<<k, Owner[d]>> : d \in chosen}
  /\ jobs' = [x \in Key \X Device |->
                IF x[1] = k /\ x[2] \in chosen THEN jobs[x] + 1 ELSE jobs[x]]

(* The loop over the recipients: an event per user, ON CONFLICT DO NOTHING *)
(* on (dedupe key, user), and a push job only with a new event.  Of a      *)
(* user's devices the first in rank gets the job.  Which devices are       *)
(* candidates (distance, fatigue, freshness, role) is data: any subset.    *)
Persist(k, chosen) ==
  /\ \A d \in chosen : <<k, Owner[d]>> \notin events
  /\ \A d, e \in chosen : Owner[d] = Owner[e] => d = e
  /\ events' = events \cup {<<k, Owner[d]>> : d \in chosen}
  /\ jobs' = [x \in Key \X Device |->
                IF x[1] = k /\ x[2] \in chosen THEN jobs[x] + 1 ELSE jobs[x]]

(* process_standard_phase and process_escalation_phase.                    *)
WorkerDispatch(w) ==
  /\ worker[w].pc = "run"
  /\ row.phase # SoftPhase
  /\ \E chosen \in SUBSET Device : Persist(KeyOf(row.phase), chosen)
  /\ attempts' = [attempts EXCEPT ![row.phase] = @ + 1]
  /\ row' = Rescheduled(WithCounts(row, worker[w].saw))
  /\ worker' = [worker EXCEPT ![w] = Free]
  /\ UNCHANGED <<caseVars, expired, response, handler>>

(* process_soft_fanout_phase, young enough: alerts those still not         *)
(* reached, and again in an hour.                                          *)
WorkerSoft(w) ==
  /\ worker[w].pc = "run"
  /\ row.phase = SoftPhase
  /\ ~expired
  /\ \E chosen \in SUBSET Device : Persist(RescueKey, chosen)
  /\ row' = Rescheduled(WithCounts(row, worker[w].saw))
  /\ worker' = [worker EXCEPT ![w] = Free]
  /\ UNCHANGED <<caseVars, expired, response, handler, attempts>>

(* Defect: the row that is too old is only rescheduled.                    *)
WorkerExhaustNever(w) ==
  /\ worker[w].pc = "run"
  /\ row.phase = SoftPhase
  /\ expired
  /\ row' = Rescheduled(WithCounts(row, worker[w].saw))
  /\ worker' = [worker EXCEPT ![w] = Free]
  /\ UNCHANGED <<caseVars, expired, response, handler, alertVars>>

(* process_soft_fanout_phase, too old.                                     *)
WorkerExhaust(w) ==
  /\ worker[w].pc = "run"
  /\ row.phase = SoftPhase
  /\ expired
  /\ row' = Finished(WithCounts(row, worker[w].saw), "exhausted")
  /\ worker' = [worker EXCEPT ![w] = Free]
  /\ UNCHANGED <<caseVars, expired, response, handler, alertVars>>

(* The transaction is rolled back by an error or the death of the worker:  *)
(* the row is still due and unlocked.                                      *)
WorkerAbort(w) ==
  /\ worker[w].pc # "idle"
  /\ worker' = [worker EXCEPT ![w] = Free]
  /\ UNCHANGED <<caseVars, row, expired, response, handler, alertVars>>

-----------------------------------------------------------------------------
(* Time.                                                                   *)
TimePasses ==
  /\ ~row.due
  /\ row' = [row EXCEPT !.due = TRUE]
  /\ UNCHANGED <<caseVars, expired, response, handler, worker, alertVars>>

Expire ==
  /\ ~expired
  /\ expired' = TRUE
  /\ UNCHANGED <<caseVars, row, response, handler, worker, alertVars>>

-----------------------------------------------------------------------------
AuthorStep ==
  \/ \E s \in Session :
       Trigger(s) \/ TriggerEnqueue(s) \/ TriggerCrash(s) \/ End(s)
  \/ ReplayEnqueue

HelperStep ==
  \E h \in Handler :
    \/ \E u \in User, a \in Answer \cup {"none"} : RespondCheck(h, u, a)
    \/ RespondUpsert(h)
    \/ RespondReadCounts(h)
    \/ RespondWriteCounts(h)
    \/ RespondPause(h)

HelperCrash == \E h \in Handler : RespondCrash(h)

WorkerStep ==
  \E w \in Worker :
    \/ WorkerClaim(w)
    \/ WorkerPause(w)
    \/ WorkerProceed(w)
    \/ WorkerDispatch(w)
    \/ WorkerSoft(w)
    \/ WorkerExhaust(w)
    \/ WorkerAbort(w)

Uninterrupted == AuthorStep \/ HelperStep \/ WorkerStep \/ TimePasses \/ Expire

Next == Uninterrupted \/ HelperCrash

Spec == Init /\ [][Next]_vars

(* The executions in which no request handler dies half-way.               *)
UninterruptedSpec == Init /\ [][Uninterrupted]_vars

(***************************************************************************)
(* The worker loop ticks every 15 seconds for as long as some replica      *)
(* runs, and a run that is attempted again and again is not rolled back    *)
(* every time: strong fairness for the steps an abort can disable, weak    *)
(* fairness for the claim.  Nothing obliges a person to act, or a request  *)
(* handler not to die.                                                     *)
(***************************************************************************)
Fairness ==
  /\ WF_vars(TimePasses)
  /\ WF_vars(Expire)
  /\ WF_vars(\E w \in Worker : WorkerClaim(w))
  /\ SF_vars(\E w \in Worker : WorkerPause(w) \/ WorkerProceed(w))
  /\ SF_vars(\E w \in Worker :
               WorkerDispatch(w) \/ WorkerSoft(w) \/ WorkerExhaust(w))

FairSpec == Spec /\ Fairness
-----------------------------------------------------------------------------
(* Properties.                                                             *)

(* A user gets at most one push job per dedupe key of the case, whatever   *)
(* replicas run its phases, and on one of the devices only: the event is   *)
(* the guard (persist_rescue_alert_tx, persist_specialist_notifications_tx)*)
OneAlertPerUser ==
  \A k \in Key, d, e \in Device :
    Owner[d] = Owner[e] /\ jobs[<<k, d>>] > 0 /\ jobs[<<k, e>>] > 0
      => d = e /\ jobs[<<k, d>>] = 1

(* The phases before the soft one are dispatched once each and in order:   *)
(* the attempts on record are exactly those before the current phase, in   *)
(* spite of rollbacks, resumed cases and several replicas.                 *)
PhasesInOrder ==
  \A p \in DOMAIN attempts : attempts[p] = IF p < row.phase THEN 1 ELSE 0

(* The rows, locks and handlers implement the dispatch the case is owed.   *)
Mode == CASE row.status = "active" -> "open"
          [] row.status = "paused" -> "held"
          [] row.status = "completed" -> "done"
          [] row.status = "exhausted" -> "given up"

Dispatch == INSTANCE CaseDispatch WITH
  Person <- User, Gadget <- Device, Holder <- Owner,
  LastStage <- SoftPhase, Subject <- Key, SubjectOf <- [p \in Phase |-> KeyOf(p)],
  mode <- Mode, stage <- row.phase, sent <- jobs

ImplementsCaseDispatch == Dispatch!DispatchSpec

(* What a reader of create_post expects ("an active rescue that is never   *)
(* dispatched" must not exist): no post is active with its dispatch        *)
(* completed once the handlers of trigger are done.  The code breaks it:   *)
(* a case started again after a worker completed its row stays completed.  *)
ActiveCaseIsDispatched ==
  post = "active" /\ starting = {} => row.status # "completed"

(* "Estou indo" increments the public helper count: with no answer being   *)
(* processed, the counter of a paused case is the number of helpers going. *)
(* The code breaks it: two handlers may write their counts in the reverse  *)
(* order of their reads, and a paused row is not counted again.            *)
PublicCountExact ==
  (\A h \in Handler : handler[h].pc = "idle") /\ row.status = "paused"
    => row.confirmed = Cardinality(Going)

(* The dispatch of a case does not go on for ever: sooner or later it is   *)
(* paused by a helper, completed, or exhausted.                            *)
DispatchEnds == row.status = "active" ~> row.status # "active"
=============================================================================
