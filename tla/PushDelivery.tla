---------------------------- MODULE PushDelivery ----------------------------
(***************************************************************************)
(* The push worker: replicas that claim due rows of push_delivery_jobs,    *)
(* send them to Expo, record the ticket or put the job off, and later ask  *)
(* for the receipts of the tickets.                                        *)
(*                                                                         *)
(* The claim marks a job 'failed' and counts the attempt, but leaves       *)
(* next_attempt_at alone: it is no lease.  Every later statement of a task *)
(* writes the job by its id, whatever its status is by then.               *)
(*                                                                         *)
(* A batch holds every due job: there are fewer of them than BATCH_SIZE.   *)
(***************************************************************************)
EXTENDS Naturals, Sequences, FiniteSets

CONSTANTS
  Job,          \* rows of push_delivery_jobs
  Worker,       \* replicas of the push worker
  Token,        \* push tokens (rows of push_subscriptions)
  TokenOf,      \* the token each job is for
  MaxAttempts,  \* MAX_ATTEMPTS
  MaxClaims,    \* bound: a job claimed so often is claimed no more
  MaxFaults,    \* bound: failures of a statement, deaths of a worker
  MaxRetries    \* bound: retries by an administrator

ASSUME PushAssumption ==
  /\ IsFiniteSet(Worker)
  /\ TokenOf \in [Job -> Token]
  /\ MaxAttempts \in Nat \ {0}
  /\ MaxClaims \in Nat /\ MaxFaults \in Nat /\ MaxRetries \in Nat

VARIABLES
  job,          \* push_delivery_jobs
  message,      \* messages the provider took for each job, and their fate
  flight,       \* what each worker is doing about each job
  turn,         \* what each worker's loop does next
  invalidated,  \* tokens with invalidated_at set
  faults, retries

vars == <<job, message, flight, turn, invalidated, faults, retries>>
-----------------------------------------------------------------------------
Status == {"queued", "failed", "provider_accepted", "delivered", "dead_letter"}

(* due: next_attempt_at has come or, for an accepted job, the time of the  *)
(* next look at its receipt.  ticket: the message provider_ticket_id is    *)
(* of, 0 when NULL.                                                        *)
JobRow == [status : Status, attempts : Nat, due : BOOLEAN, ticket : Nat]

(* unread: taken, the answer on its way; lost: the answer was never        *)
(* recorded; ticketed: the ticket was; ok, error: what its receipt said.   *)
Fate == {"unread", "lost", "ticketed", "ok", "error"}

(* send: the request is being made; ticket: answered with one; refused:    *)
(* failed, to be put off; unregistered: failed for the token's sake;       *)
(* check: its receipt is asked for; drop: the receipt blamed the token.    *)
Stage == {"none", "send", "ticket", "refused", "unregistered", "check", "drop"}
Flight == [stage : Stage, tries : Nat, msg : Nat]
Landed == [stage |-> "none", tries |-> 0, msg |-> 0]

TypeOK ==
  /\ job \in [Job -> JobRow]
  /\ message \in [Job -> Seq(Fate)]
  /\ flight \in [Worker -> [Job -> Flight]]
  /\ turn \in [Worker -> {"batch", "receipts"}]
  /\ invalidated \in SUBSET Token
  /\ faults \in 0 .. MaxFaults
  /\ retries \in 0 .. MaxRetries

Init ==
  /\ job = [j \in Job |->
              [status |-> "queued", attempts |-> 0, due |-> TRUE, ticket |-> 0]]
  /\ message = [j \in Job |-> <<>>]
  /\ flight = [w \in Worker |-> [j \in Job |-> Landed]]
  /\ turn = [w \in Worker |-> "batch"]
  /\ invalidated = {}
  /\ faults = 0
  /\ retries = 0

-----------------------------------------------------------------------------
InFlight(w) == {j \in Job : flight[w][j].stage # "none"}
At(w, j, stage) == flight[w][j].stage = stage

MoveTo(w, j, stage) ==
  flight' = [flight EXCEPT ![w][j] = [@ EXCEPT !.stage = stage]]
Land(w, j) == flight' = [flight EXCEPT ![w][j] = Landed]
SetFate(j, n, fate) == message' = [message EXCEPT ![j][n] = fate]

Claimable ==
  {j \in Job : /\ job[j].status \in {"queued", "failed"}
               /\ job[j].due
               /\ job[j].attempts < MaxClaims}

(* Defect: the claim does not count the attempt.                           *)
ClaimUncounted(w) ==
  /\ turn[w] = "batch"
  /\ InFlight(w) = {}
  /\ job' = [j \in Job |->
       IF j \in Claimable THEN [job[j] EXCEPT !.status = "failed"] ELSE job[j]]
  /\ flight' = [flight EXCEPT ![w] = [j \in Job |->
       IF j \in Claimable
       THEN [stage |-> "send", tries |-> job[j].attempts, msg |-> 0]
       ELSE Landed]]
  /\ turn' = [turn EXCEPT ![w] = "receipts"]
  /\ UNCHANGED <<message, invalidated, faults, retries>>

(* Defect: only jobs that have failed before are taken up.                 *)
ClaimFailedOnly(w) ==
  LET batch == {j \in Claimable : job[j].status = "failed"} IN
  /\ turn[w] = "batch"
  /\ InFlight(w) = {}
  /\ job' = [j \in Job |->
       IF j \in batch THEN [job[j] EXCEPT !.attempts = @ + 1] ELSE job[j]]
  /\ flight' = [flight EXCEPT ![w] = [j \in Job |->
       IF j \in batch
       THEN [stage |-> "send", tries |-> job[j].attempts + 1, msg |-> 0]
       ELSE Landed]]
  /\ turn' = [turn EXCEPT ![w] = "receipts"]
  /\ UNCHANGED <<message, invalidated, faults, retries>>

(* process_batch: one UPDATE ... RETURNING claims the due jobs.            *)
Claim(w) ==
  /\ turn[w] = "batch"
  /\ InFlight(w) = {}
  /\ job' = [j \in Job |->
       IF j \in Claimable
       THEN [job[j] EXCEPT !.status = "failed", !.attempts = @ + 1]
       ELSE job[j]]
  /\ flight' = [flight EXCEPT ![w] = [j \in Job |->
       IF j \in Claimable
       THEN [stage |-> "send", tries |-> job[j].attempts + 1, msg |-> 0]
       ELSE Landed]]
  /\ turn' = [turn EXCEPT ![w] = "receipts"]
  /\ UNCHANGED <<message, invalidated, faults, retries>>

(* send_expo_push.  The provider takes the message ...                     *)
Accept(w, j) ==
  /\ At(w, j, "send")
  /\ message' = [message EXCEPT ![j] = Append(@, "unread")]
  /\ flight' = [flight EXCEPT ![w][j] =
                   [@ EXCEPT !.stage = "ticket", !.msg = Len(message[j]) + 1]]
  /\ UNCHANGED <<job, turn, invalidated, faults, retries>>

(* ... but the answer times out, is not JSON or has no ticket in it.       *)
LoseAnswer(w, j) ==
  /\ At(w, j, "ticket")
  /\ SetFate(j, flight[w][j].msg, "lost")
  /\ MoveTo(w, j, "refused")
  /\ UNCHANGED <<job, turn, invalidated, faults, retries>>

(* ... or it does not: no connection, an HTTP status, an error, or         *)
(* DeviceNotRegistered or InvalidCredentials, which condemn the token.     *)
Refuse(w, j) ==
  /\ At(w, j, "send")
  /\ MoveTo(w, j, "refused") \/ MoveTo(w, j, "unregistered")
  /\ UNCHANGED <<job, message, turn, invalidated, faults, retries>>

(* Defect: the status has the name it had before receipts were read.       *)
RecordTicketSent(w, j) ==
  /\ At(w, j, "ticket")
  /\ job' = [job EXCEPT ![j].status = "sent", ![j].due = FALSE,
                        ![j].ticket = flight[w][j].msg]
  /\ SetFate(j, flight[w][j].msg, "ticketed")
  /\ Land(w, j)
  /\ UNCHANGED <<turn, invalidated, faults, retries>>

(* deliver_or_defer, accepted.                                             *)
RecordTicket(w, j) ==
  /\ At(w, j, "ticket")
  /\ job' = [job EXCEPT ![j].status = "provider_accepted", ![j].due = FALSE,
                        ![j].ticket = flight[w][j].msg]
  /\ SetFate(j, flight[w][j].msg, "ticketed")
  /\ Land(w, j)
  /\ UNCHANGED <<turn, invalidated, faults, retries>>

(* invalidate_push_token, before the job is put off ...                    *)
InvalidateOnSend(w, j) ==
  /\ At(w, j, "unregistered")
  /\ invalidated' = invalidated \cup {TokenOf[j]}
  /\ MoveTo(w, j, "refused")
  /\ UNCHANGED <<job, message, turn, faults, retries>>

(* ... and defer_delivery, by the attempts counted at the claim.           *)
Defer(w, j) ==
  /\ At(w, j, "refused")
  /\ job' = IF flight[w][j].tries >= MaxAttempts
            THEN [job EXCEPT ![j].status = "dead_letter"]
            ELSE [job EXCEPT ![j].status = "failed", ![j].due = FALSE]
  /\ Land(w, j)
  /\ UNCHANGED <<message, turn, invalidated, faults, retries>>

-----------------------------------------------------------------------------
(* process_receipts, once the batch is done: a SELECT without a lock.      *)
SelectReceipts(w) ==
  LET due == {j \in Job : /\ job[j].status = "provider_accepted"
                          /\ job[j].ticket # 0
                          /\ job[j].due} IN
  /\ turn[w] = "receipts"
  /\ InFlight(w) = {}
  /\ flight' = [flight EXCEPT ![w] = [j \in Job |->
       IF j \in due
       THEN [stage |-> "check", tries |-> 0, msg |-> job[j].ticket]
       ELSE Landed]]
  /\ turn' = [turn EXCEPT ![w] = "batch"]
  /\ UNCHANGED <<job, message, invalidated, faults, retries>>

(* Defect: a receipt that is not there yet is taken for a failure.         *)
ReceiptPendingFails(w, j) ==
  /\ At(w, j, "check")
  /\ job' = [job EXCEPT ![j].status = "failed", ![j].due = FALSE]
  /\ Land(w, j)
  /\ UNCHANGED <<message, turn, invalidated, faults, retries>>

(* check_receipt_chunk: no receipt yet; look again in a minute.            *)
ReceiptPending(w, j) ==
  /\ At(w, j, "check")
  /\ message[j][flight[w][j].msg] = "ticketed"
  /\ job' = IF job[j].status = "provider_accepted"
            THEN [job EXCEPT ![j].due = FALSE] ELSE job
  /\ Land(w, j)
  /\ UNCHANGED <<message, turn, invalidated, faults, retries>>

ReceiptOk(w, j) ==
  /\ At(w, j, "check")
  /\ message[j][flight[w][j].msg] \in {"ticketed", "ok"}
  /\ SetFate(j, flight[w][j].msg, "ok")
  /\ job' = [job EXCEPT ![j].status = "delivered"]
  /\ Land(w, j)
  /\ UNCHANGED <<turn, invalidated, faults, retries>>

(* An error: again in two minutes, however many attempts there were; the   *)
(* token is condemned by a later statement.                                *)
ReceiptError(w, j) ==
  /\ At(w, j, "check")
  /\ message[j][flight[w][j].msg] \in {"ticketed", "error"}
  /\ SetFate(j, flight[w][j].msg, "error")
  /\ job' = [job EXCEPT ![j].status = "failed", ![j].due = FALSE]
  /\ Land(w, j) \/ MoveTo(w, j, "drop")
  /\ UNCHANGED <<turn, invalidated, faults, retries>>

InvalidateOnReceipt(w, j) ==
  /\ At(w, j, "drop")
  /\ invalidated' = invalidated \cup {TokenOf[j]}
  /\ Land(w, j)
  /\ UNCHANGED <<job, message, turn, faults, retries>>

-----------------------------------------------------------------------------
(* A statement fails and its task (in process_receipts: the batch) is      *)
(* given up, or the worker dies and starts again.                          *)
Fault(w) ==
  /\ faults < MaxFaults
  /\ faults' = faults + 1
  /\ \E dropped \in SUBSET InFlight(w) \ {{}} :
       /\ flight' = [flight EXCEPT ![w] = [j \in Job |->
            IF j \in dropped THEN Landed ELSE flight[w][j]]]
       /\ message' = [j \in Job |->
            IF j \in dropped /\ At(w, j, "ticket")
            THEN [message[j] EXCEPT ![flight[w][j].msg] = "lost"]
            ELSE message[j]]
       /\ \/ UNCHANGED turn
          \/ dropped = InFlight(w) /\ turn' = [turn EXCEPT ![w] = "batch"]
  /\ UNCHANGED <<job, invalidated, retries>>

(* Defect: any job may be queued again.                                    *)
RetryAny(j) ==
  /\ retries < MaxRetries
  /\ retries' = retries + 1
  /\ job' = [job EXCEPT ![j].status = "queued", ![j].due = TRUE]
  /\ UNCHANGED <<message, flight, turn, invalidated, faults>>

(* POST /admin/queues/{queue}/jobs/{id}/retry.                             *)
Retry(j) ==
  /\ retries < MaxRetries
  /\ retries' = retries + 1
  /\ job[j].status \in {"failed", "dead_letter"}
  /\ job' = [job EXCEPT ![j].status = "queued", ![j].due = TRUE]
  /\ UNCHANGED <<message, flight, turn, invalidated, faults>>

(* The backoff, or the pause between two looks at a receipt, is over.      *)
TimePasses(j) ==
  /\ job[j].status \in {"failed", "provider_accepted"}
  /\ ~job[j].due
  /\ job' = [job EXCEPT ![j].due = TRUE]
  /\ UNCHANGED <<message, flight, turn, invalidated, faults, retries>>

-----------------------------------------------------------------------------
Deliver(w, j) ==
  \/ Accept(w, j)
  \/ LoseAnswer(w, j)
  \/ Refuse(w, j)
  \/ RecordTicket(w, j)
  \/ InvalidateOnSend(w, j)
  \/ Defer(w, j)

Check(w, j) ==
  \/ ReceiptPending(w, j)
  \/ ReceiptOk(w, j)
  \/ ReceiptError(w, j)
  \/ InvalidateOnReceipt(w, j)

Next ==
  \/ \E w \in Worker :
       \/ Claim(w)
       \/ SelectReceipts(w)
       \/ Fault(w)
       \/ \E j \in Job : Deliver(w, j) \/ Check(w, j)
  \/ \E j \in Job : Retry(j) \/ TimePasses(j)

Spec == Init /\ [][Next]_vars

(***************************************************************************)
(* A worker's loop ticks every 5 seconds, its requests time out after 15,  *)
(* and the clock goes on.                                                  *)
(***************************************************************************)
Fairness ==
  /\ \A w \in Worker :
       /\ WF_vars(Claim(w))
       /\ WF_vars(SelectReceipts(w))
       /\ \A j \in Job : WF_vars(Deliver(w, j)) /\ WF_vars(Check(w, j))
  /\ \A j \in Job : WF_vars(TimePasses(j))

FairSpec == Spec /\ Fairness
-----------------------------------------------------------------------------
(* Properties.                                                             *)

(* A device is sent a job again only after the earlier message came to     *)
(* nothing as far as the worker can know: its receipt was an error, or its *)
(* answer was lost.  One replica keeps it; two do not, because the claim   *)
(* is no lease (docs/production-readiness.md asks that queue consumers be  *)
(* horizontally safe).                                                     *)
Live == {"unread", "ticketed", "ok"}
OneLiveMessage ==
  \A j \in Job : \A m, n \in DOMAIN message[j] :
    message[j][m] \in Live /\ message[j][n] \in Live => m = n

(* Every message sent was counted as an attempt first, so a crash between  *)
(* the claim and the answer can cost an attempt but never hide one.        *)
MessagesAreCounted == \A j \in Job : Len(message[j]) <= job[j].attempts

(* What was delivered is not delivered again.                              *)
DeliveredIsFinal ==
  [][\A j \in Job : job[j].status = "delivered" => job'[j].status = "delivered"]_vars

(* A job that waits is eventually taken by the provider or given up, as    *)
(* long as it may be claimed.                                              *)
JobsAreServed ==
  \A j \in Job :
    job[j].status \in {"queued", "failed"} ~>
      \/ job[j].status \in {"provider_accepted", "delivered", "dead_letter"}
      \/ job[j].attempts = MaxClaims

(* docs/production-readiness.md: a max attempt count.  The code breaks it: *)
(* a job whose receipt is an error is tried again whatever its attempts.   *)
AttemptsBounded == \A j \in Job : job[j].attempts <= MaxAttempts
=============================================================================
