------------------------------- MODULE Reactions -------------------------------
(***************************************************************************)
(* Likes, comments and shares of one post, and the counters of the post    *)
(* that are kept beside these rows.                                        *)
(*                                                                         *)
(* Each request is a transaction of two statements: it writes its row and  *)
(* recounts, which locks the post.  A statement counts what was committed  *)
(* when it began, and its own row, also if it has to wait for the lock.    *)
(***************************************************************************)
EXTENDS Naturals, FiniteSets

CONSTANTS
  Handler,  \* requests that may run at the same time
  Row,      \* a like is named by its user, a comment by user and key; each
            \* share has a row of its own
  KindOf    \* the kind of each: "like", "comment" or "share"

VARIABLES
  rows,     \* the committed rows
  count,    \* posts.likes_count, comments_count and shares_count
  waited,   \* history: whether who counted last had to wait for the post
  job       \* what each handler is at

vars == <<rows, count, waited, job>>
-----------------------------------------------------------------------------
Reaction == {"like", "comment", "share"}
RowsOf(kind, S) == {r \in S : KindOf[r] = kind}

Task == [pc : {"written", "waiting", "counted"}, row : Row,
         change : {"insert", "delete", "none"}, count : Nat, waited : BOOLEAN]
Idle == [pc |-> "idle"]

TypeOK ==
  /\ rows \subseteq Row
  /\ count \in [Reaction -> Nat]
  /\ waited \in [Reaction -> BOOLEAN]
  /\ job \in [Handler -> Task \cup {Idle}]

Init ==
  /\ rows = {}
  /\ count = [k \in Reaction |-> 0]
  /\ waited = [k \in Reaction |-> FALSE]
  /\ job = [h \in Handler |-> Idle]

-----------------------------------------------------------------------------
At(h, pc) == job[h].pc = pc
Become(h, task) == job' = [job EXCEPT ![h] = task]

(* Another transaction has written the row; who locks the post has counted.*)
Written(h, r) == \E g \in Handler \ {h} :
  ~At(g, "idle") /\ job[g].row = r /\ job[g].change # "none"
PostFree(h) == \A g \in Handler \ {h} : ~At(g, "counted")

Write(h, r, change) ==
  /\ At(h, "idle")
  /\ Become(h, [pc |-> "written", row |-> r, change |-> change,
                count |-> 0, waited |-> FALSE])
  /\ UNCHANGED <<rows, count, waited>>

(* INSERT ... ON CONFLICT waits for a transaction that has written the row *)
(* and then finds it or inserts it.                                        *)
WriteOnce(h, r) ==
  /\ ~Written(h, r)
  /\ Write(h, r, IF r \in rows THEN "none" ELSE "insert")

Like(h, r) == KindOf[r] = "like" /\ WriteOnce(h, r)

(* create_comment names the columns of the unique index, which migration   *)
(* 0035 makes a partial one that this does not match: PostgreSQL refuses   *)
(* the statement (Abort) until the index has no predicate.                 *)
Comment(h, r) == KindOf[r] = "comment" /\ WriteOnce(h, r)

Share(h, r) ==
  /\ KindOf[r] = "share"
  /\ r \notin rows /\ ~Written(h, r)
  /\ Write(h, r, "insert")

(* A row that is not committed is not there to be deleted.                 *)
Unlike(h, r) ==
  /\ KindOf[r] = "like"
  /\ \/ r \notin rows /\ Write(h, r, "none")
     \/ r \in rows /\ ~Written(h, r) /\ Write(h, r, "delete")

-----------------------------------------------------------------------------
Applied(h) ==
  CASE job[h].change = "insert" -> rows \cup {job[h].row}
    [] job[h].change = "delete" -> rows \ {job[h].row}
    [] OTHER -> rows

(* Defect: what the request does is added to the counter it saw.           *)
RecountByOne(h) ==
  /\ At(h, "written")
  /\ LET k == KindOf[job[h].row] IN
     Become(h, [job[h] EXCEPT
       !.pc = IF PostFree(h) THEN "counted" ELSE "waiting",
       !.count = IF job[h].change = "delete" THEN count[k] - 1 ELSE count[k] + 1,
       !.waited = ~PostFree(h)])
  /\ UNCHANGED <<rows, count, waited>>
(* UPDATE posts SET ..._count = (SELECT COUNT( * ) ...).                   *)
Recount(h) ==
  /\ At(h, "written")
  /\ Become(h, [job[h] EXCEPT
       !.pc = IF PostFree(h) THEN "counted" ELSE "waiting",
       !.count = Cardinality(RowsOf(KindOf[job[h].row], Applied(h))),
       !.waited = ~PostFree(h)])
  /\ UNCHANGED <<rows, count, waited>>

Proceed(h) ==
  /\ At(h, "waiting")
  /\ PostFree(h)
  /\ Become(h, [job[h] EXCEPT !.pc = "counted"])
  /\ UNCHANGED <<rows, count, waited>>

Commit(h) ==
  /\ At(h, "counted")
  /\ LET k == KindOf[job[h].row] IN
       /\ count' = [count EXCEPT ![k] = job[h].count]
       /\ waited' = [waited EXCEPT ![k] = job[h].waited]
  /\ rows' = Applied(h)
  /\ Become(h, Idle)

(* A statement fails or the client goes away: nothing was written.         *)
Abort(h) ==
  /\ ~At(h, "idle")
  /\ Become(h, Idle)
  /\ UNCHANGED <<rows, count, waited>>

Next == \E h \in Handler :
  \/ \E r \in Row : Like(h, r) \/ Comment(h, r) \/ Share(h, r) \/ Unlike(h, r)
  \/ Recount(h) \/ Proceed(h) \/ Commit(h) \/ Abort(h)
-----------------------------------------------------------------------------
(* like_post, unlike_post, create_comment, share_post: a counter is exact  *)
(* unless who counted last had to wait for the post behind another: each   *)
(* reaction that need not wait makes up for what was miscounted before it. *)
CountsCatchUp == \A k \in Reaction :
  ~waited[k] => count[k] = Cardinality(RowsOf(k, rows))
=============================================================================
