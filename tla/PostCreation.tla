----------------------------- MODULE PostCreation -----------------------------
(***************************************************************************)
(* The creation of posts by one author: requests that may overlap, retries *)
(* with the same idempotency key, uploads that only one post may use.      *)
(*                                                                         *)
(* A request runs one transaction.  Between its statements others see the  *)
(* locks it holds: the rows of the upload intents it has consumed and the  *)
(* key of the post it has inserted.                                        *)
(*                                                                         *)
(* A request without a key is one whose key nobody else uses.              *)
(***************************************************************************)
EXTENDS Naturals, Sequences

CONSTANTS
  Request,    \* POST /v1/posts requests
  Key,        \* idempotency keys
  KeyOf,      \* the key of each request; a retry has that of the first
  Media,      \* media_upload_intents of the author
  Uses,       \* the intents each request lists, in order
  Limited,    \* keys whose text is long enough for the duplicate check
  Alert,      \* keys of emergencies with confirmed coordinates
  Addressed   \* keys of posts with an address instead

ASSUME PostAssumption ==
  /\ KeyOf \in [Request -> Key]
  /\ Uses \in [Request -> Seq(Media)]
  /\ Limited \subseteq Key /\ Alert \subseteq Key /\ Addressed \subseteq Key

VARIABLES
  req,       \* where each request is
  answer,    \* what it was answered
  posts,     \* posts, named by the request that created them
  consumed,  \* intents with consumed_at
  expired,   \* intents with expires_at in the past
  fanned,    \* posts with a row in rescue_fanout_states
  geocode,   \* posts with a row in post_geocode_jobs
  recent     \* keys whose text was posted less than two minutes ago

vars == <<req, answer, posts, consumed, expired, fanned, geocode, recent>>
-----------------------------------------------------------------------------
(* used: how many of its intents the transaction has consumed; live: those *)
(* that had not expired when it began, which is what now() goes by.        *)
Place == {"new", "text", "media", "insert", "commit", "replay", "done"}
Progress == [pc : Place, used : Nat, live : SUBSET Media]
At(r, pc) == req[r].pc = pc
Answer == {"none", "created", "replayed", "refused", "invalid", "error"}

TypeOK ==
  /\ req \in [Request -> Progress]
  /\ \A r \in Request : req[r].used <= Len(Uses[r])
  /\ answer \in [Request -> Answer]
  /\ posts \subseteq Request
  /\ consumed \subseteq Media
  /\ expired \subseteq Media
  /\ fanned \subseteq posts
  /\ geocode \subseteq posts
  /\ recent \subseteq Limited

Init ==
  /\ req = [r \in Request |-> [pc |-> "new", used |-> 0, live |-> {}]]
  /\ answer = [r \in Request |-> "none"]
  /\ posts = {}
  /\ consumed = {}
  /\ expired = {}
  /\ fanned = {}
  /\ geocode = {}
  /\ recent = {}

-----------------------------------------------------------------------------
MediaOf(r) == {Uses[r][i] : i \in DOMAIN Uses[r]}
Held(r) == {Uses[r][i] : i \in 1 .. req[r].used}
Namesakes(r) == {s \in Request : KeyOf[s] = KeyOf[r]}
Published(r) == posts \cap Namesakes(r)

GoTo(r, pc) == req' = [req EXCEPT ![r].pc = pc]
Close(r) == req' = [req EXCEPT ![r] = [pc |-> "done", used |-> 0, live |-> {}]]
Reply(r, a) == Close(r) /\ answer' = [answer EXCEPT ![r] = a]

(* The key is looked up, then the post is loaded; a deletion between the   *)
(* two comes to the same as one before them.                               *)
Lookup(r) ==
  /\ At(r, "new")
  /\ IF Published(r) # {}
     THEN Reply(r, "replayed")
     ELSE GoTo(r, "text") /\ UNCHANGED answer
  /\ UNCHANGED <<posts, consumed, expired, fanned, geocode, recent>>

(* check_duplicate_text, which refuses a text seen in the last two minutes *)
(* (and starts them again); then the transaction begins.                   *)
Text(r) ==
  /\ At(r, "text")
  /\ IF KeyOf[r] \in recent
     THEN Reply(r, "refused")
     ELSE /\ req' = [req EXCEPT ![r] = [@ EXCEPT !.pc = "media",
                                                 !.live = Media \ expired]]
          /\ UNCHANGED answer
  /\ recent' = recent \cup ({KeyOf[r]} \cap Limited)
  /\ UNCHANGED <<posts, consumed, expired, fanned, geocode>>

(* The intent the request needs next, and the others that hold its row.    *)
Needed(r) == Uses[r][req[r].used + 1]
Needs(r) == At(r, "media") /\ req[r].used < Len(Uses[r])
WaitsFor(r, s) == r # s /\ Needs(r) /\ Needed(r) \in Held(s)

(* Defect: consumed_at is not looked at.                                   *)
ConsumeAgain(r) ==
  /\ Needs(r)
  /\ \A s \in Request : ~WaitsFor(r, s)
  /\ IF Needed(r) \in req[r].live
     THEN /\ req' = [req EXCEPT ![r].used = @ + 1]
          /\ UNCHANGED answer
     ELSE Reply(r, "invalid")
  /\ UNCHANGED <<posts, consumed, expired, fanned, geocode, recent>>

(* Defect: waits until an intent that is taken is given back.              *)
ConsumeWaits(r) ==
  /\ Needs(r)
  /\ \A s \in Request : ~WaitsFor(r, s)
  /\ Needed(r) \in req[r].live \ (consumed \cup Held(r))
  /\ req' = [req EXCEPT ![r].used = @ + 1]
  /\ UNCHANGED <<answer, posts, consumed, expired, fanned, geocode, recent>>

(* UPDATE media_upload_intents: an intent that is consumed, by this        *)
(* request or another, or has expired is refused.                          *)
Consume(r) ==
  /\ Needs(r)
  /\ \A s \in Request : ~WaitsFor(r, s)
  /\ IF Needed(r) \in req[r].live \ (consumed \cup Held(r))
     THEN /\ req' = [req EXCEPT ![r].used = @ + 1]
          /\ UNCHANGED answer
     ELSE Reply(r, "invalid")
  /\ UNCHANGED <<posts, consumed, expired, fanned, geocode, recent>>

AllConsumed(r) ==
  /\ At(r, "media")
  /\ req[r].used = Len(Uses[r])
  /\ GoTo(r, "insert")
  /\ UNCHANGED <<answer, posts, consumed, expired, fanned, geocode, recent>>

(* Defect: the replay keeps what the transaction consumed.                 *)
InsertKeeping(r) ==
  /\ At(r, "insert")
  /\ \A s \in Namesakes(r) : ~At(s, "commit")
  /\ IF Published(r) # {}
     THEN /\ req' = [req EXCEPT ![r].pc = "replay", ![r].used = 0]
          /\ consumed' = consumed \cup Held(r)
     ELSE GoTo(r, "commit") /\ UNCHANGED consumed
  /\ UNCHANGED <<answer, posts, expired, fanned, geocode, recent>>

(* Defect: the unique index does not cover the key.                        *)
InsertAlways(r) ==
  /\ At(r, "insert")
  /\ GoTo(r, "commit")
  /\ UNCHANGED <<answer, posts, consumed, expired, fanned, geocode, recent>>

(* INSERT ... ON CONFLICT DO NOTHING waits for another insert of the key;  *)
(* without a row the transaction is rolled back.                           *)
Insert(r) ==
  /\ At(r, "insert")
  /\ \A s \in Namesakes(r) : ~At(s, "commit")
  /\ IF Published(r) # {}
     THEN req' = [req EXCEPT ![r].pc = "replay", ![r].used = 0]
     ELSE GoTo(r, "commit")
  /\ UNCHANGED <<answer, posts, consumed, expired, fanned, geocode, recent>>

(* Defect: the fan-out row is left to the replay of a retry.               *)
CommitFirst(r) ==
  /\ At(r, "commit")
  /\ posts' = posts \cup {r}
  /\ consumed' = consumed \cup Held(r)
  /\ geocode' = IF KeyOf[r] \in Addressed THEN geocode \cup {r} ELSE geocode
  /\ Reply(r, "created")
  /\ UNCHANGED <<fanned, expired, recent>>

(* The geocoding job, the media, the fan-out row and the commit.           *)
Commit(r) ==
  /\ At(r, "commit")
  /\ posts' = posts \cup {r}
  /\ consumed' = consumed \cup Held(r)
  /\ fanned' = IF KeyOf[r] \in Alert THEN fanned \cup {r} ELSE fanned
  /\ geocode' = IF KeyOf[r] \in Addressed THEN geocode \cup {r} ELSE geocode
  /\ Reply(r, "created")
  /\ UNCHANGED <<expired, recent>>

(* The post of the key, unless it was deleted meanwhile; an active case is *)
(* enqueued if it had not been (RescueFanout has that transaction's races).*)
Replay(r) ==
  /\ At(r, "replay")
  /\ Reply(r, IF Published(r) # {} THEN "replayed" ELSE "error")
  /\ fanned' = IF KeyOf[r] \in Alert THEN fanned \cup Published(r) ELSE fanned
  /\ UNCHANGED <<posts, consumed, expired, geocode, recent>>

(* A statement fails or the process dies, and the transaction with it.     *)
Abort(r) ==
  /\ req[r].pc \notin {"new", "done"}
  /\ Reply(r, "error")
  /\ UNCHANGED <<posts, consumed, expired, fanned, geocode, recent>>

(* PostgreSQL aborts a transaction of a cycle of waiting ones.             *)
Deadlocked(r) ==
  /\ \E s \in Request : WaitsFor(r, s)
  /\ \E C \in SUBSET Request :
       r \in C /\ \A s \in C : \E t \in C : WaitsFor(s, t)
AbortDeadlocked(r) == Deadlocked(r) /\ Abort(r)

-----------------------------------------------------------------------------
(* Defect: the fan-out row has no ON DELETE CASCADE.                       *)
DeleteAlone(r) ==
  /\ r \in posts
  /\ posts' = posts \ {r}
  /\ geocode' = geocode \ {r}
  /\ UNCHANGED <<req, answer, consumed, expired, fanned, recent>>

(* delete_post; what refers to the post goes with it, except the intents.  *)
Delete(r) ==
  /\ r \in posts
  /\ posts' = posts \ {r}
  /\ fanned' = fanned \ {r}
  /\ geocode' = geocode \ {r}
  /\ UNCHANGED <<req, answer, consumed, expired, recent>>

Expire(m) ==
  /\ m \notin expired
  /\ expired' = expired \cup {m}
  /\ UNCHANGED <<req, answer, posts, consumed, fanned, geocode, recent>>

WindowPasses(k) ==
  /\ k \in recent
  /\ recent' = recent \ {k}
  /\ UNCHANGED <<req, answer, posts, consumed, expired, fanned, geocode>>

-----------------------------------------------------------------------------
Serve(r) ==
  \/ Text(r)
  \/ Consume(r)
  \/ AllConsumed(r)
  \/ Insert(r)
  \/ Commit(r)
  \/ Replay(r)
  \/ AbortDeadlocked(r)

Next ==
  \/ \E r \in Request : Lookup(r) \/ Serve(r) \/ Abort(r) \/ Delete(r)
  \/ \E m \in Media : Expire(m)
  \/ \E k \in Key : WindowPasses(k)

Spec == Init /\ [][Next]_vars

(* A request that was accepted is worked on; the database ends a deadlock. *)
Fairness == \A r \in Request : WF_vars(Serve(r))
FairSpec == Spec /\ Fairness
-----------------------------------------------------------------------------
(* Properties.                                                             *)

(* However its requests overlap and are retried, a key has one post.       *)
OnePostPerKey == \A r, s \in posts : KeyOf[r] = KeyOf[s] => r = s

(* An upload goes into one post, and into none after that was deleted.     *)
Created == {r \in Request : answer[r] = "created"}
MediaUsedOnce ==
  \A r, s \in Created : MediaOf(r) \cap MediaOf(s) # {} => r = s

(* Only a creation that succeeded uses up an upload: one that was refused, *)
(* replayed or aborted leaves it to the next request.                      *)
ConsumedIsShown == consumed = UNION {MediaOf(r) : r \in Created}

(* A case that must be alerted has its fan-out row, one whose address must *)
(* be looked up its job, from the moment it is visible.                    *)
PostsAreFollowedUp ==
  \A r \in posts :
    /\ KeyOf[r] \in Alert => r \in fanned
    /\ KeyOf[r] \in Addressed => r \in geocode

(* Every request is answered, whatever the others hold.                    *)
RequestsAreAnswered ==
  \A r \in Request : req[r].pc # "new" ~> req[r].pc = "done"

(* create_post (posts.rs 621-623) promises the post of the key to a        *)
(* request whose key was committed "while this request was validating      *)
(* media".  With media it never comes to that: the earlier request has     *)
(* consumed the intents, and the later one is told they are not its own.   *)
OvertakenIsReplayed ==
  \A r \in Request :
    answer[r] = "invalid" => \A m \in MediaOf(r) : m \notin expired
      => Created \cap Namesakes(r) = {}
=============================================================================
