# Verification of helpin-platform-core

TLA+ models of the parts of the platform that are hard to test: the dispatch of
a rescue case to helpers, the geocoding that makes a case ready for it, the
delivery of the push notifications it leaves, the author's sessions and their
final report, the creation of posts and the reactions to them, the chat, the
credentials of an account, the verification of an ONG, and donations.
TLC checks small instances, TLAPS proves every safety property they have for all
values of the constants. Line numbers below are those of the repository
(`src/src/...` is its `src/` directory, seen from the parent of `tla/`).

## 1. The system

One Rust binary (axum, sqlx on PostgreSQL, optional Redis and NATS) runs as API
process, as worker, or as both; several replicas may run. All shared state is
in PostgreSQL; every replica talks to it at READ COMMITTED. What follows is the
inventory: state, operations, interactions, and what makes each part hard.

| Component | State | Operations | Interacts with | Hard behaviour | What makes it correct |
|---|---|---|---|---|---|
| Rescue fan-out (`services/rescue/fanout.rs`) | `rescue_fanout_states` (one row per post), `rescue_fanout_attempts`, `rescue_escalation_attempts` | enqueue, run a phase, pause, complete, exhaust | posts, responses, notification events, push jobs | replicas and wakes race; values read before they are used; rollbacks | one alert per user and key; phases in order, once each; no dispatch of a closed case; it ends |
| Rescue sessions (`routes/operations/rescue.rs`) | `rescue_sessions`, `rescue_location_points`, `rescue_events`, `rescue_final_reports` | trigger, move, end, incident, respond, reports | fan-out (direct call, second transaction), posts | retries of trigger and end, crash between two transactions, AI await between check and write | one active session; an active case is dispatched; a reviewed report is not rewritten; an end is followed up |
| Posts (`routes/content/posts.rs`) | `posts`, likes, comments, shares, reports, media | create (idempotent), like, comment, share, delete, respond | fan-out (same transaction), geocoding, media intents, NATS feed | overlapping retries, counters beside rows | one post per key; counters catch up with rows; an alertable post has a fan-out row |
| Geocoding worker (`services/workers/geocoding_worker.rs`) | `post_geocode_jobs`, `posts.geo_status` | pick, geocode, confirm, retry, fail | posts, fan-out | no lease, four statements without a transaction, aborted batch | a confirmed emergency is dispatched; a confirmed post does not become failed |
| Push worker (`services/workers/push_worker.rs`) | `push_delivery_jobs`, `push_subscriptions.invalidated_at` | claim, send, record, back off, read receipts, invalidate | Expo (HTTP), fan-out (jobs), admin (retry) | lost answers, crashes, late receipts, several replicas | no second live message; attempts counted and bounded; every job is served |
| Notifications (`services/notifications/mod.rs`, `routes/operations/notifications.rs`) | `push_subscriptions`, `notification_events` | register, acknowledge, list | fan-out, push worker | token registered again after it was invalidated | a registered device is reachable |
| Chat (`routes/operations/chat.rs`, `services/messaging/event_bus.rs`) | rooms, members, messages, blocks, WS tickets, broadcast channels | open, send, read, block, socket | NATS, local broadcast | concurrent duplicates, lag, reordering, watermark | one message per key; nothing unread is skipped; a ticket is used once |
| Accounts (`routes/identity/auth.rs`) | users, refresh, reset and verification tokens | login, refresh, reset, verify, delete | e-mail, audit | revocation against issue | a token is exchanged once; none survives a reset or works after a deletion |
| Admin and KYB (`routes/admin/mod.rs`) | ONG status, documents, moderation jobs | review, auto-approve, retry queue | push jobs, users | count read before the approval | an account is verified exactly when its profile is approved |
| Donations (`routes/commerce/donations.rs`) | donations, ledger, webhook events | intent, webhook | payment provider | redelivery, order, failure after the dedupe record | each event settles the donation once |
| Rate limit (`services/security/rate_limit.rs`) | Redis counters or local windows | check | everything | window extended by refusals | a waiting client is let in |
| ONGs, volunteers, profiles | follows, profiles | toggle, upsert | users | retry of a toggle | a retry changes nothing |
| Media, support, AI gateway | upload intents, tickets | create, consume | posts, external services | expiry, reuse | an intent is consumed once |
| Feed, search, maps, nearby, impact, health, observability | none of their own | queries | all tables | none | read-only |

## 2. Modules

| Module | What it is |
|---|---|
| `FanoutRow` | the row of `rescue_fanout_states` and the statements that write it, as functions on rows |
| `RescueFanout` | the dispatch of one case: author, helpers, worker replicas, alerts |
| `CaseDispatch` | the abstract specification: what a dispatch promises, without rows, locks or handlers |
| `LateDispatch` | `RescueFanout` with a history variable counting the phases committed too late |
| `PushDelivery` | the push worker, the provider and the administrator's retry |
| `Geocoding` | the geocoding worker, its jobs and posts, and the author's session beside it |
| `PostCreation` | overlapping creations of one author's posts: keys, uploads, follow-up |
| `Chat` | one room of two members: sending, the way of a message to the connections, the read watermark, blocks |
| `Conversation` | the abstract specification: what a room promises, without keys in flight, processes or queues |
| `Credentials` | the password and the refresh tokens of one account |
| `Verification` | the account and the profile of one ONG, its documents and those who decide |
| `Donations` | intents, the webhook of the payment provider, the ledger |
| `RescueSessions` | the sessions of one post, their end, the final report and its review |
| `Reactions` | likes, comments and shares of one post and its counters |
| `AlertFatigue` | the fan-out of several cases against the limits on recent notifications |
| `Platform` | the last six side by side (section 2, *Platform*) |
| `MCRescueFanout`, `MCLateDispatch`, `MCPushDelivery`, `MCPostCreation`, `MCChat`, `MCPlatform` | instances for TLC (`Geocoding` needs none) |
| `RescueFanoutProofs`, `LateDispatchProofs`, `PushDeliveryProofs`, `GeocodingProofs`, `PostCreationProofs`, `ChatProofs`, `CredentialsProofs`, `PlatformProofs` | theorems |

Operators whose comment begins with "Defect:" are not part of any specification:
each is a variant of the definition after it with a plausible bug, and shows that
a property would notice.

### RescueFanout

Each SQL statement outside a transaction, and each transaction whose
intermediate states nobody can see, is one action. A worker's transaction is
split where it reads something another session may change meanwhile, because at
READ COMMITTED each of its statements has its own snapshot.

| State | In the code |
|---|---|
| `post` | `posts.rescue_status` of an alertable case: active or resolved |
| `session`, `starting` | `rescue_sessions`; trigger handlers between their two transactions |
| `replays` | overlapping duplicates of `create_post` with one idempotency key that have not answered |
| `row` | the row of `rescue_fanout_states`; `due` is `next_run_at <= now()` |
| `expired` | the row is `MAX_FANOUT_LIFETIME_HOURS` old |
| `response` | `rescue_responses` with action `going`, by user |
| `handler` | `respond` or `rescue_response` requests: check, upsert, read counts, write counts, pause |
| `worker` | `process_one_fanout` of the replicas and of the task `wake_fanout_state` spawns; a non-idle one holds the row lock |
| `events`, `jobs`, `attempts` | `notification_events`, `push_delivery_jobs`, `rescue_fanout_attempts` |

Actions and code: `Trigger`, `TriggerEnqueue`, `TriggerCrash` and `End` are
`rescue.rs` 266-377 and 450-543; `ReplayEnqueue` is the healing of a replayed
creation, `posts.rs` 620-658; `Respond*` are `fanout.rs` 231-287 and the helpers
it calls; `WorkerClaim` reads the post under `FOR UPDATE SKIP LOCKED`,
`WorkerPause` and `WorkerProceed` count the responses, `WorkerDispatch`,
`WorkerSoft` and `WorkerExhaust` run the phase and commit, `WorkerAbort` rolls
back. A statement of another session that writes the row waits for the lock
(`~RowLocked`).

Which devices a phase alerts (distance, ranking, fatigue, freshness, role,
preferences) is data: any set of devices of users without an event under the
phase's dedupe key, one device per user.

Left out of it: the branch for a cancelled or missing post (no code sets
`cancelled`; deleting a post deletes its row); the profile counters of
volunteers; the events for recipients without an account; `rescue_escalation_attempts`
and the attempts of the soft phase (append-only logs); logging.

### PushDelivery

| State | In the code |
|---|---|
| `job` | `push_delivery_jobs`: status, attempts, the ticket, and `due` for both timers (`next_attempt_at`, `receipt_checked_at`) |
| `message` | what the provider took for each job, in order, and what became of it |
| `flight` | the task of a worker about a job, between two statements or HTTP calls |
| `turn` | a worker alternates `process_batch` and `process_receipts` |
| `invalidated` | tokens with `invalidated_at` |

`Claim` is the single `UPDATE ... RETURNING`. The tasks of a batch run
concurrently and the loop goes on to the receipts only when all of them are
done (`InFlight(w) = {}`). The provider is external: it may take a message and
its answer may be lost, refuse it, condemn the token, have no receipt yet, and
report success or an error. `Fault` drops any tasks of a worker between two
statements: a database error of one task, an early return of
`process_receipts`, or the death of the process.

### Geocoding

| State | In the code |
|---|---|
| `job` | `post_geocode_jobs`: status, attempts, and `due` for `next_run_at <= now()` |
| `geo`, `rescue` | `posts.geo_status`, `posts.rescue_status` |
| `queued` | posts with a row in `rescue_fanout_states` |
| `session`, `starting` | the author's rescue session; trigger handlers between their two transactions |
| `worker` | the batch in memory (`rest`, and `read`: the attempts the SELECT returned), the job at hand (`at`) and the next step about it (`pc`) |

Nothing here runs in a transaction, so every statement of `process_due_jobs`,
`resolve_post` and `fail_or_retry` is an action (`Select`, `Start`, `Confirm`,
`Complete`, `Activate`, `Enqueue`, `Reschedule`, `FailJob`, `FailPost`), and the
call of the provider is another (`LookUp`). A failed statement ends the batch
(`?`), as does the death of the process: `Abort`. `Trigger`, `TriggerEnqueue` and
`End` are the author's requests, reduced to what they do to the post and the
row. Left out: the deletion of a post, which deletes its job (`resolve_post`
then fails on the missing row, an `Abort`), and the order of a batch.

### PostCreation

| State | In the code |
|---|---|
| `req` | a `create_post` request: the statement it is at, how many of its intents its transaction has consumed, and which had not expired when it began (`now()` is fixed then) |
| `answer` | created, replayed, refused (429), invalid (400) or an error |
| `posts` | rows of `posts` with an `idempotency_key`, under the unique index on author and key |
| `consumed`, `expired` | `media_upload_intents.consumed_at`, and `expires_at` in the past |
| `fanned`, `geocode` | posts with a row in `rescue_fanout_states`, in `post_geocode_jobs` |
| `recent` | texts `check_duplicate_text` refuses |

`Lookup`, `Text`, `Consume` (once for each upload) and `Insert` are the places
where a request sees what others did. Nobody sees the rest of the transaction
before it commits, so the job, the media, the fan-out row and the commit are
one action, `Commit`. Two locks show before that: an `UPDATE` of an intent waits
for a transaction that consumed it (`WaitsFor`), and the insert waits for an
insert of the same key. When the waiting is circular PostgreSQL aborts one of
the transactions (`AbortDeadlocked`); `Abort` is any other failure. `Lookup` and
`Replay` find the post and load it in two statements; a deletion between them
has the same effect as one before.

Left out: the author's general rate limit and the validation of the payload, which
only refuse a request earlier; accounts deleted meanwhile; posts of older
versions that lack their fan-out row, which `Replay` would heal.

### Chat

| State | In the code |
|---|---|
| `room`, `blocks` | `chat_rooms` with its two members; `user_blocks` |
| `send` | a request of `send_message`: admitted, waiting for the key, holding its row, about to broadcast, done; `cut` if its client left then |
| `stamp`, `clock` | `chat_messages.created_at`: the time of the statement, not of the commit |
| `rows` | the committed rows of `chat_messages` |
| `bus`, `lost` | events on NATS for another process; what NATS dropped |
| `socket`, `queue`, `shown` | connections of `handle_socket`, their place in the broadcast channel, what they were sent |
| `mark`, `watermark` | requests of `mark_read` between their two statements; `chat_room_members.last_read_at` |
| `known` | history: how many rows there were when the watermark was last moved |
| `dropped` | history: events a connection dropped because a statement about them failed |

`Insert`, `InsertAfterWait` and `Commit` are `persist_chat_message` (lines
596-642): one statement, whose snapshot does not contain the row of a
concurrent holder of the key. After the wait the loser has neither inserted nor
found a row, so `fetch_one` fails and the request is answered with an error.
`Relay` is `broadcast_chat_message`: to the connections of this process at once,
to NATS by a task of its own; a process ignores its own events.
A connection more than `Capacity` events behind is ended. `Receive` drops an
event and keeps the connection (`chat.rs` 480-485) while somebody blocks, and
when the check for a block or the query for the message fails; for the latter, `Elusive`
bounds the messages TLC lets fail. A ticket is used
up by the statement that accepts it, hence `Connect` happens once per socket.

`KeptAndShownOnce` is the refinement of `Conversation`. `NothingSlipsBy` names
its exception: a message whose statement began before that of a row that was
committed earlier may fall below a watermark that never saw it.

### Credentials

| State | In the code |
|---|---|
| `password`, `deleted` | `users.password_hash`, named by the reset that set it; `users.deleted_at` |
| `token` | `refresh_tokens` in the order of insertion; `live` is `revoked_at IS NULL`. `parent`, `proof` and `late` are history: which token it replaced, with which password its chain began, whether a reset overtook its login |
| `mailed`, `used` | `password_reset_tokens` and their `used_at` |
| `job` | a request: what it has locked and what its statement's snapshot showed |

`LockToken`, `LockAccount` and `Rotate` are the transaction of `refresh`
(`auth.rs` 264-302): `FOR UPDATE` on a join locks both rows, one after the
other, and looks at them again once it has them. `ClaimReset`, `ChangePassword`,
`Survey`, `Seize` (one token after the other) and `CommitReset` are
`confirm_password_reset`; `DeleteUser` and `RevokeAll` the two separate
statements of `delete_account`. The rotation and the reset lock in opposite
order, and PostgreSQL ends the deadlock by aborting one of them, which is a case of
`Abort`. `Waits` says who waits for a row of whom, and `OnlyRotationsDeadlock`
that nothing else deadlocks. A statement that revokes several tokens is taken to lock
them in the order of their insertion, that of a scan of the table; with another plan
for one of them, two such statements could deadlock as well.

Left out: the expiry of tokens, which only refuses more; the e-mail
verification, as nothing issues its codes; avatar and profile fields; audit events.

### Verification

`status` and `verified` are the two rows of an ONG (`ong_profiles`, `users`),
`document` the rows of `ong_kyb_documents`, `job` a request and what it has
locked. `Decide` and `Approve` take the profile's row and `Commit` the user's;
`update_profile` (`UpdateUser`, `UpdateProfile`) takes them the other way round.
`Count` is the count before the transaction, so an administrator's decision in
between is overwritten by the approval: true of the code, and why no property says
that a decision stands. `owed` is history: the required types came to be complete by
a review and the ONG was not approved since, nor a request that might have
done it aborted.

### Donations

`status` and `purpose` are the row of a donation, found by donor and
idempotency key whatever it is for; `opened` and `entries` are the rows of
`donation_ledger_entries` an intent and an event leave; `recorded` and
`processed` are `payment_webhook_events`. `Find`, `Record` and `Settle` are the
three parts of `payment_webhook`: the lookup, the insert that decides who goes on, and
the transaction. `Abort` between the last two leaves an event recorded and not
processed, and its redelivery is a duplicate: true of the code, and why
`LedgerAgrees` speaks of processed events.

### RescueSessions

`post`, `session` and `report` are `posts.rescue_status`, `rescue_sessions` and the
row of `rescue_final_reports`; `job` is a request after its commit (`active`,
`ended`: about to broadcast) or a task that drafts a report (`check`, `draft`,
`save`). `Trigger`, `Move`, `End` are one transaction each; `Tell` the
broadcast and, after `end`, the spawn; `Check`, `Draft`, `Save`
`create_or_update_final_report` with the AI call between. `Approve` and `Reject`
look at no state, as in the code. History: `told` and `lost`. `End` accepts a
session that is ended already and resolves the post again, whatever other session
it has by then; so no property says that the post of an active session is active.

Left out: the trail of locations, incidents, the WebSockets that watch (`Chat`
has such) and the order of broadcasts that overtake each other.

### Reactions

A request writes its row (`Like`, `Unlike`, `Comment`, `Share`), recounts
(`Recount`, and `Proceed` once the post's row is free) and commits. The count is a
subquery of the update, which is not computed again after a wait: it is that of
the snapshot from before. `waited` is history and names the exception of
`CountsCatchUp`. `create_comment` names the columns of a unique index that
migration 0035 makes partial; PostgreSQL refuses such an `ON CONFLICT`, so with
that index each `Comment` ends in `Abort`. The model has both.

### AlertFatigue

A case is its phase and its lock (`Claim`: `FOR UPDATE SKIP LOCKED`);
`Choose` and `ChooseSpecialists` read the committed notifications of each
helper (`ranked_candidates`, `ranked_specialist_candidates` with its fallback),
`Commit` adds the notifications and moves the phase. `now()` is that of the
transaction's start, in the window and in `created_at`. Which of those who
may be alerted are near enough and well ranked is left open. A fallback
candidate is looked up under a key without the user's id, which no row has.

### Platform

The six modules above write disjoint rows, but for the deletion of an account,
which `Credentials` and `Verification` each have with the rows it concerns there. So
every behaviour of the whole is, seen from one of them, a behaviour of that one
(with stuttering), and every property of section 3 speaks of one of them. `Platform`
declares the variables of all six and a constant choice `focus` of the one that
runs; TLC explores each by itself in one run, and not the product, which would
show nothing more: `SafeTogether` (section 4) proves that the safety properties
hold of the product.

## 3. Runs

| Run | Configuration | Result | Shows |
|---|---|---|---|
| `fanout` | `RescueFanout.cfg` on `MCLateDispatch` | holds | types; unique alerts; phases once and in order; at most one phase after a helper is on the way, and after the case is resolved; refinement of `CaseDispatch` |
| `fanout_ends` | `RescueFanoutLive.cfg` on `MCRescueFanout` | holds | the dispatch ends |
| `fanout_reopened` | `FanoutReopened.cfg` | violated | a case triggered again after its row was completed is active and never dispatched |
| `fanout_public_count` | `FanoutPublicCount.cfg` | violated | two answers at once leave a wrong public count |
| `push` | `PushDelivery.cfg` on `MCPushDelivery` | holds | with one replica: no second live message, counted attempts, delivered is final, every job is served |
| `push_replicas` | `PushReplicas.cfg` | violated | two replicas send a job twice |
| `push_attempts` | `PushAttempts.cfg` | violated | jobs are claimed beyond `MAX_ATTEMPTS` |
| `geocoding` | `Geocoding.cfg` on `Geocoding` | holds | with one replica: a completed job has a confirmed post, a waiting one an attempt left, a located case is dispatched, one its author ended stays resolved, every job settles |
| `posts` | `PostCreation.cfg` on `MCPostCreation` | holds | one post per key; an upload goes into one post and is not lost by a request that fails; a visible post has its follow-up; every request is answered |
| `post_overtaken` | `PostOvertaken.cfg` on `MCPostCreation` | violated | a retry with media, overtaken by the first request, is refused |
| `chat` | `Chat.cfg` on `MCChat` | holds | refinement of `Conversation`; nothing passes for read unseen but what was overtaken; read stays read; messages reach open connections |
| `platform` | `Platform.cfg` on `MCPlatform` | holds | a token is exchanged once and never after the deletion, a reset ends older sessions, requests that block each other include a rotation and a reset that met (`RotatesOnce`, `ResetEndsSessions`, `OnlyRotationsDeadlock`); an account is verified exactly when its profile is approved, a complete ONG is approved (`VerifiedIsApproved`, `CompleteIsApproved`); the ledger agrees (`LedgerAgrees`); a reviewed report is not rewritten, an end is followed up (`ReviewedTextStays`, `EndIsFollowedUp`); counters catch up (`CountsCatchUp`); nobody is flooded (`NobodyIsFlooded`) |

### Bounds, and why they are enough

- `fanout`: two standard phases, one escalation phase and the soft one, so that
  every kind of transition between phases occurs (standard to standard, to
  escalation, to soft, soft to soft); two replicas (interchangeable, hence the
  symmetry), since every race over the row is between two of them; a helper with
  two devices, for "one device per user"; two sessions, so that a case is
  resolved, completed and started again; one request handler, since the races of
  two handlers only touch counters, which `fanout_public_count` covers with two
  helpers. The theorems of section 4 hold for any number of each.
- `fanout_ends`: two replicas, one session and one replayed creation, so that a
  paused case is resumed twice; one phase of each kind.
- `fanout_reopened`, `fanout_public_count`: the smallest instance with a
  counterexample. The second uses `UninterruptedSpec`, without crashes of request
  handlers, so that the wrong count is due to the interleaving alone.
- `push`: two jobs of one device (a batch with two tasks and a shared token),
  `MAX_ATTEMPTS` 2, `MaxClaims` 3 so that a job may go beyond it once, one fault
  and one retry.
- `geocoding`: an urgent post and another one, so that a batch has a rest while a
  job is handled; `MAX_ATTEMPTS` 3, so that a job waits, waits again and fails;
  two aborts, so that a job can be left processing twice.
- `posts`: a request with two uploads, a retry of it that has lost them (so that it
  reaches the insert beside the first), and another post with the uploads in the
  opposite order (so that two transactions can deadlock).
- `post_overtaken`: the retry has the uploads, and the text is too short for the
  duplicate check, or more than two minutes old.
- `chat`: a message, its retry on another process and the other member's answer,
  so that a key is contended across processes and two stamps may be out of order;
  the message's client may leave; a connection that is on the process of
  the retry, so that it is reached by either way; `Capacity` 1, so that it lags;
  one message it may fail to load;
  two requests to mark messages read, so that they overtake each other.
- `platform`: two requests at once in each part, since every race in these
  modules is between two; three in *Credentials*, so that a rotation and a reset
  may block each other while another request waits for them. *Credentials*: three tokens (one, its
  replacement and a login) and one reset. *Verification*: two required types and a
  document more than there are types, so that completeness may be lost and
  regained. *Donations*: three events about one donation (paid, refunded,
  unsupported) and a donation without any. *RescueSessions*: two sessions and two drafts, so that
  a draft is slow enough to meet a reviewed one, of another session. *Reactions*: two likes, so that
  a count can miss one, a comment and a share. *AlertFatigue*: one helper, since
  helpers do not affect each other; three cases, one more than the limit
  and the other replica allow; a phase that asks for support and the soft one, whose
  alerts are chosen as those of the standard phases; limits of 1, two ticks.

`MaxSession`, `MaxReplay`, `MaxClaims`, `MaxFaults`, `MaxRetries`, `Blocker`,
`Impatient`, `Elusive`, `MaxTokens`, `MaxSessions`, `MaxTexts` and `Horizon` are bounds of
the models, not of the code. Deadlock is
checked in every run of a worker, whose loop is always possible. The runs of
posts, chat and platform switch it off, since a finite set of requests ends; there
`RequestsAreAnswered` and `MessagesArrive` say that none is stuck, and
`OnlyRotationsDeadlock` which requests can block each other.

Some properties name an exception for what the code does not promise:
`NothingSlipsBy` a message that was stored before another and committed after it, `CountsCatchUp` a
count that had to wait, `LedgerAgrees` an event whose settlement failed,
`ResetEndsSessions` a login that overlaps the reset. The hazard behind
the exception is then not caught, and section 5 lists it. The runs of `PushDelivery`
that hold, and the run of `Geocoding`, are for one replica, with which the missing
leases do not show.

### Fairness

- `RescueFanout!Fairness`: the worker loop ticks every 15 seconds as long as one
  replica runs (weak fairness of the claim); a run that is attempted again and
  again is not rolled back every time (strong fairness of the steps an abort
  disables); the clock goes on. Nothing is assumed of helpers, authors or
  request handlers.
- `PushDelivery!Fairness`: the loop ticks every 5 seconds, requests time out
  after 15, the clock goes on.
- `Geocoding!Fairness`: the loop ticks every 10 seconds, a request to the provider
  ends, the clock goes on. The outcome of a lookup is left open: a provider that
  always fails is a behaviour of the model.
- `PostCreation!Fairness`: a request that was accepted is worked on, and the database
  ends a deadlock (PostgreSQL does, after `deadlock_timeout`). Other failures need not
  happen.
- `Chat!Fairness`: a request that was taken up, the task that publishes and
  the loop of a connection go on. NATS may lose anything.
- `Verification!Fairness`: waiters for a row are queued, so
  a request that could go on again and again does (strong fairness), and
  the database ends deadlocks.
- `RescueSessions!Fairness`: handlers and the tasks they spawn go on; nobody need
  start, end or review anything. `Credentials`, `Donations`, `Reactions` and
  `AlertFatigue` have safety properties only.

## 4. Proofs

`RescueFanoutProofs` proves, from the assumptions `PhaseAssumption` and
`FanoutAssumption` only (any finite set of users, any devices, replicas,
handlers, phases):

- `TypeCorrect`;
- `AlertsAreUnique` and `PhasesAreOrdered`, from the invariant `IInv`: `TypeOK`,
  at most one worker is inside a transaction (the row lock), a job implies its event and
  an event implies that no more than one device of the user has a job, and a worker about to
  dispatch still finds the row active and in the phase it claimed. The properties alone are not
  inductive: without the link between jobs and events a second job for a user who has one could not be
  excluded, and without the lock a second replica could run the phase again;
- `FanoutImplementsDispatch`: initial states map to initial states and each step
  to a step of `CaseDispatch` or a stutter, under the mapping `Mode`.

`LateDispatchProofs` proves the two bounds on late phases, over the history
variable: a worker past its check is the only one, and once a phase is committed
the next claim sees the helper (or the resolved post).

`PushDeliveryProofs` proves type correctness; `AttemptsPayForMessages` for any
number of replicas (each task about to send holds an attempt nobody else has
used); and, for exactly one replica, `SoleReplicaSendsOnce` and
`SoleReplicaKeepsDelivered`. With two replicas both are false, see
`push_replicas`; the hypothesis `Worker = {r}` is part of these theorems.

`GeocodingProofs` proves type correctness and, for any number of replicas,
`LocatedCasesAreDispatched`, from the invariant `CompletedIsHanded`: a completed
urgent case is dispatched, or some replica is just about to do it; and
`EndedCasesStayResolved`, which is inductive by itself, since `Activate` looks at
the state of the post in the statement that changes it. For exactly
one replica it proves `SoleReplicaLocates` and `SoleReplicaKeepsTries`, from
`Tidy`: what the worker read of the jobs it still has to do is what the table
says. With two replicas both are false, since a late failure of one overwrites
the result of the other.

`PostCreationProofs` proves type correctness, `KeysAreUnique`,
`UploadsAreUsedOnce` and `UploadsAreNotLost` for any number of requests, keys and
uploads. The invariant `IInv` adds to the properties what a request is entitled
to at its place: `KeyOK`, a request about to commit is the only one
with its key there and the key has no post; `HeldOK`, what a transaction holds
is neither consumed nor held by another; `PlaceOK`, how much it holds at each
place. Without `HeldOK` two transactions could commit the same upload.
`PostsFollowedUp` is inductive by itself: the job and the row are written by
the commit that makes the post visible, and go with it.

`ChatProofs` assumes only `ChatAssumption` (who sends, reads and listens where; a
capacity of one or more) and proves type correctness (`ChatTypes`, with the bound on the queues),
`NothingSlips`, `ReadStays` and the refinement of `Conversation`
(`KeepsPromise`). The invariant `ChatInv` has three parts besides the types:

- `KeptInv`: a key is stored once; a request that holds a key is the only one
  and the key is not stored; whoever is about to publish has stored its
  message; two messages never have one time stamp. Without `HeldApart` the
  insert of a second retry would not be a step of `Conversation`.
- `ReadInv`: a time about to become a watermark, and each watermark, is that of
  a message that was visible when it was looked for. So a message under the
  watermark was either visible then, or stored later with an earlier stamp:
  overtaken.
- `PushInv`: what a connection was told is stored, its queue and what it has
  shown are disjoint, and what is still to be relayed or on the bus has not been
  told to those it travels to. That is what makes a second display of a message
  impossible; "shown once" alone says nothing about the bus.

`CredentialsProofs` first defines `Together`: each of the six components of
`Platform` behaves as its specification says, and a step may be one of any of
them or of several at a time. `FocusIsPart` shows that `Platform!Spec` is a special case,
and every invariant below is proved of `Together`. Its own results are
`ResetsEndSessions`, `TokensRotateOnce` and `DeadlocksAreRotations`, for any number
of requests, tokens and resets. `CredentialsInv` says who holds what: no two requests hold one
token or the account's row (`TokensApart`, `AccountApart`), who has not begun to
lock tokens holds none and a deletion has deleted the account (`InOrder`), a token about to be rotated is live
(`RotatesLive`), a replaced one is dead (`ReplacedIsDead`), and what a reset
leaves live was stored after it had read the list (`RestIsLate`). The properties
alone are not inductive: without the locks a second rotation could follow between
the check and the update of the first.

`DeadlocksAreRotations` takes a set of requests each of which waits for one of
them. If a reset that locks tokens holds the account, the request that has the token it wants is
a rotation which, being in the set, waits for that account: the two that met. Otherwise
(`ResetInCircle`, `TokenCircle`) all who wait and are waited for lock tokens in ascending
order, so by induction on the token the one that is furthest waits for nobody in the
set, and there is no such set.

`PlatformProofs` has one invariant per component, from `PlatformAssumption` only:

- verification (`VerifiedWhenApproved`): the types suffice, as each decision
  writes profile and account in one transaction;
- sessions (`ReviewedTextsStay`): a task is about a session
  that exists (`BusyAboutSession`), and the bound on drafts leaves one for a rejected
  report (`RejectedIsRedrafted`).
  A draft is written under the condition on the state of the report, so an
  analysis of any duration finds a kept report kept;
- donations (`LedgerAlwaysAgrees`): a call has found the donation of its event
  (`CallsKnowDonation`), and one that is to settle is alone with its event, which is recorded and not processed
  (`SettlesOwnEvent`);
- reactions (`CountersCatchUp`): one transaction at a time has counted and not
  committed (`OneCounts`, the lock of the post's row), and if it did not wait its
  count is the number of rows as they will be (`CountIsExact`);
- alerts (`LimitsHold`): workers are about distinct cases, and at each moment the
  notifications of a user that count then, and the workers that have chosen the
  user and not committed, are together at most the limit and one for each
  further worker (`EverybodyCalm`). A bound on the notifications alone is not
  inductive, since it does not see how many choices are pending. The proof counts: whoever
  joins has seen fewer than the limit, and there are at most as many pending choices as
  workers; a commit turns one into a notification. It uses that the set of
  workers is finite and both windows are positive; the helpers, cases, windows and
  limits are arbitrary otherwise.

`PlatformTypes` collects the types, and `SafeTogether` the eight safety
properties of the six components under `Together`, which TLC does not explore.

Every invariant and action property of a passing run, and both refinements,
are thus theorems. Only model-checked are the liveness properties
(`DispatchEnds`, `JobsAreServed`, `JobsSettle`, `RequestsAreAnswered`,
`MessagesArrive`, `CompleteIsApproved`, `EndIsFollowedUp`), since
fairness and `ENABLED` are outside what the prover handles, and the violations,
for which the counterexample is the proof.

## 5. Where the code and its documents disagree

1. *A reopened case is never dispatched* (`fanout_reopened`). A comment in `create_post`
   warns of "an active rescue that is never dispatched if the process/database
   fails between the two writes" (`posts.rs` 707-709). Here the same state is reached
   without any failure: `trigger` makes a resolved post active again, but the
   enqueue keeps a completed row completed (`fanout.rs` 206-209).
2. *The public count may be wrong* (`fanout_public_count`). Counts are read and
   written by two statements outside a transaction (`fanout.rs` 1610-1641), and
   a paused row is not counted again.
3. *A job may be sent twice* (`push_replicas`). `docs/production-readiness.md`
   60-66 wants a lease; the row locks of the claim end with its statement and
   `next_attempt_at` stays in the past (`push_worker.rs` 62-77).
4. *Attempts are not bounded* (`push_attempts`). An error receipt requeues the
   job whatever its attempts (`push_worker.rs` 284-304), against lines 82 and 93.
5. *An overtaken retry with media is refused* (`post_overtaken`). The comment at
   `posts.rs` 621-623 promises it the post; but its uploads were consumed by the
   request that overtook it, so it is answered 400 at line 546.

Observations that no document contradicts, and that are therefore not reported as
violations:

- `create_comment` (`posts.rs` 1095-1102) names the columns of its unique index
  in `ON CONFLICT` without the predicate the partial index of migration 0035
  has; PostgreSQL refuses the statement.
- A counter that was recounted after a wait stays wrong until the next
  reaction (`CountsCatchUp` says no more).
- The loser of two concurrent sends with one key is answered with an error, not
  with the message (`chat.rs` 603-642); a third try finds it.
- A donation's key is shared by both kinds of intent: an intent for maintenance
  with the key of a donation to an ONG returns that donation.
- An event recorded and not settled is not settled by a redelivery
  (`donations.rs` 271-294), as `LedgerAgrees` admits; a status replaces any other, in the order of arrival.
- An automatic approval overwrites a decision made since the documents were
  counted (`admin/mod.rs` 916-966).
- `approve_final_report` and `reject_final_report` act on a report in any state; a
  report belongs to the post, so that of an earlier session is kept for a later one.
- A login that read the old password may store its token after the reset
  (`late` in `Credentials`), which leaves that session alive.
- The end of an earlier session, sent again (a client that lost the answer), resolves
  the post while a later session is active: `end` accepts an ended session
  (`rescue.rs` 485-496) and does not ask for others (500-510).
- A message that is committed after another with a later time stamp may never
  count as unread (`chat.rs` 575-594).
- A connection that fails to load a message drops it and stays open (`chat.rs`
  480-485); the message is shown when the room is read again.
- With two replicas of the geocoding worker a late failure of one overwrites the location
  and the completed job of the other (`geocoding_worker.rs` 36-54, 150-174).
- Helpers may get one alert more than the limit for each other replica; specialists
  have no limit.

## 6. Plan

Done: all the modules above, and proofs of all their safety properties.

What could still be added, by value:

1. One module for devices and follows, so that the hazards of a token registered
   again and of a toggle that is retried get a property each.
2. The windows of the rate limiter, with Redis and with the local fallback.

Not modelled: read-only queries (feed, search, maps, impact, health); the
registration of devices, follows and volunteers, which are statements on one
row each; the windows of the rate limiter, whose refusals are aborts of the
requests here; moderation, support tickets, single inserts; the rescue
WebSockets and incidents; wiring and configuration, e-mail,
scoring functions, seeding tools, logging. They hold no state two actors compete for, or
only repeat a pattern that is modelled elsewhere.
