------------------------------ MODULE Credentials ------------------------------
(***************************************************************************)
(* The password and the refresh tokens of one account: log in, rotate a    *)
(* token, ask for and confirm a password reset, delete the account.        *)
(*                                                                         *)
(* A handler is a request of one of these kinds.  Its statements are its   *)
(* steps; between two of them others see what is committed and wait for    *)
(* the rows it has locked.  PostgreSQL looks at a row again once it has    *)
(* the lock, so a condition is evaluated when the lock is taken.           *)
(*                                                                         *)
(* Expiry is left out: an expired token is refused as a used one is.       *)
(***************************************************************************)
EXTENDS Naturals, Sequences

CONSTANTS
  Handler,     \* requests that may run at the same time
  Reset,       \* password reset tokens that may be asked for
  Original,    \* the password the account was registered with
  MaxSessions  \* refresh tokens that may be issued

CredentialsAssumption ==
  /\ Original \notin Reset
  /\ MaxSessions \in Nat \ {0}

VARIABLES
  password,  \* users.password_hash, named by the reset that set it
  deleted,   \* users.deleted_at IS NOT NULL
  token,     \* the rows of refresh_tokens, in the order of their insertion
  mailed,    \* rows of password_reset_tokens
  used,      \* those with used_at
  job        \* what each handler is at

vars == <<password, deleted, token, mailed, used, job>>
-----------------------------------------------------------------------------
Password == Reset \cup {Original}

(***************************************************************************)
(* A refresh token.  The rest is history the table does not keep: parent   *)
(* is the token it replaces (0: a login issued it), proof the password its *)
(* chain of rotations began with, late whether that login was stored only  *)
(* after a reset of the password had chosen the tokens it would revoke.    *)
(***************************************************************************)
RefreshToken ==
  [live : BOOLEAN, parent : 0 .. MaxSessions, proof : Password, late : BOOLEAN]

Step == {"idle", "issue", "lookup", "rotate",
         "claimed", "changed", "revoking", "deleted", "forgetting"}
Task == [pc : Step, token : 0 .. MaxSessions, key : Password,
         sees : SUBSET (1 .. MaxSessions)]
Resetting == {"claimed", "changed", "revoking"}
Idle == [pc |-> "idle", token |-> 0, key |-> Original, sees |-> {}]

TypeOK ==
  /\ password \in Password
  /\ deleted \in BOOLEAN
  /\ token \in Seq(RefreshToken)
  /\ Len(token) <= MaxSessions
  /\ mailed \subseteq Reset
  /\ used \subseteq mailed
  /\ job \in [Handler -> Task]
  /\ \A h \in Handler :
       /\ job[h].token \in 0 .. Len(token)
       /\ job[h].sees \subseteq DOMAIN token
       /\ job[h].pc = "lookup" => job[h].token \in DOMAIN token
       /\ job[h].pc = "rotate" => job[h].token \in DOMAIN token
       /\ job[h].pc \in Resetting => job[h].key \in mailed

(* Registered and logged in.                                               *)
FirstToken == [live |-> TRUE, parent |-> 0, proof |-> Original, late |-> FALSE]
Init ==
  /\ password = Original
  /\ deleted = FALSE
  /\ token = <<FirstToken>>
  /\ mailed = {}
  /\ used = {}
  /\ job = [h \in Handler |-> Idle]

-----------------------------------------------------------------------------
At(h, pc) == job[h].pc = pc
Become(h, task) == job' = [job EXCEPT ![h] = task]
GoTo(h, pc) == job' = [job EXCEPT ![h].pc = pc]
Finish(h) == Become(h, Idle)

(***************************************************************************)
(* Row locks.  A rotation holds the token and then the account FOR UPDATE; *)
(* a reset its own row, then the account, then one by one the tokens it    *)
(* revokes, as far as job.token; so does the second statement of a         *)
(* deletion.  A reset of a deleted account updates no user, and locks none.*)
(***************************************************************************)
HoldsToken(h, t) ==
  \/ job[h].pc \in {"lookup", "rotate"} /\ job[h].token = t
  \/ /\ job[h].pc \in {"revoking", "forgetting"}
     /\ t \in job[h].sees /\ t <= job[h].token
(* Defect: a deletion is one transaction and keeps the account.            *)
HoldsUserDeleting(h) ==
  \/ job[h].pc \in {"rotate", "deleted", "forgetting"}
  \/ job[h].pc \in {"changed", "revoking"} /\ ~deleted
HoldsUser(h) ==
  At(h, "rotate") \/ (job[h].pc \in {"changed", "revoking"} /\ ~deleted)
HoldsReset(h, r) == job[h].pc \in Resetting /\ job[h].key = r

TokenFree(h, t) == \A g \in Handler \ {h} : ~HoldsToken(g, t)
UserFree(h) == \A g \in Handler \ {h} : ~HoldsUser(g)
ResetFree(h, r) == \A g \in Handler \ {h} : ~HoldsReset(g, r)

Live == {t \in DOMAIN token : token[t].live}
Revoke(S) ==
  [t \in DOMAIN token |-> IF t \in S THEN [token[t] EXCEPT !.live = FALSE]
                                     ELSE token[t]]

-----------------------------------------------------------------------------
(* login finds the account by the e-mail it has, which a deletion replaces *)
(* by another, and verifies the password against the hash it read.         *)
Login(h) ==
  /\ At(h, "idle")
  /\ Len(token) < MaxSessions
  /\ Become(h, [Idle EXCEPT !.pc = "issue", !.key = password])
  /\ UNCHANGED <<password, deleted, token, mailed, used>>

(***************************************************************************)
(* issue_auth_response: the insert is a statement of its own.  The foreign *)
(* key makes it wait for a rotation, whose lock of the account excludes    *)
(* FOR KEY SHARE, but not for a reset, whose update does not.  The error   *)
(* is ignored.                                                             *)
(***************************************************************************)
Overtaken(h) ==
  \/ job[h].key # password
  \/ \E g \in Handler : At(g, "revoking")
Issue(h) ==
  /\ At(h, "issue")
  /\ \A g \in Handler : ~At(g, "rotate")
  /\ Len(token) < MaxSessions
  /\ token' = Append(token, [live |-> TRUE, parent |-> 0,
                             proof |-> job[h].key, late |-> Overtaken(h)])
  /\ Finish(h)
  /\ UNCHANGED <<password, deleted, mailed, used>>

-----------------------------------------------------------------------------
(* refresh.  SELECT ... JOIN users ... FOR UPDATE locks the token,         *)
LockToken(h, t) ==
  /\ At(h, "idle")
  /\ TokenFree(h, t)
  /\ Become(h, [Idle EXCEPT !.pc = "lookup", !.token = t])
  /\ UNCHANGED <<password, deleted, token, mailed, used>>

(* Defect: the row is taken as the snapshot had it, revoked since or not.  *)
LockAccountStale(h) ==
  /\ At(h, "lookup")
  /\ UserFree(h)
  /\ GoTo(h, "rotate")
  /\ UNCHANGED <<password, deleted, token, mailed, used>>
(* Defect: only the token is locked (FOR UPDATE OF rt).                    *)
LockTokenOnly(h) ==
  /\ At(h, "lookup")
  /\ IF token[job[h].token].live /\ ~deleted THEN GoTo(h, "rotate") ELSE Finish(h)
  /\ UNCHANGED <<password, deleted, token, mailed, used>>
(* then the account, and what it selects is judged with both in hand:      *)
(* Unauthorized unless the token is live and the account too.              *)
LockAccount(h) ==
  /\ At(h, "lookup")
  /\ UserFree(h)
  /\ IF token[job[h].token].live /\ ~deleted THEN GoTo(h, "rotate") ELSE Finish(h)
  /\ UNCHANGED <<password, deleted, token, mailed, used>>

(* Revoke, insert the replacement, commit; the answer may be lost.         *)
Replacement(h) ==
  LET old == token[job[h].token]
  IN  [old EXCEPT !.live = TRUE, !.parent = job[h].token]
Rotate(h) ==
  /\ At(h, "rotate")
  /\ Len(token) < MaxSessions
  /\ token' = Append(Revoke({job[h].token}), Replacement(h))
  /\ Finish(h)
  /\ UNCHANGED <<password, deleted, mailed, used>>

-----------------------------------------------------------------------------
(* request_password_reset: the account is found by its e-mail, the token   *)
(* stored.                                                                 *)
RequestReset(r) ==
  /\ r \notin mailed
  /\ mailed' = mailed \cup {r}
  /\ UNCHANGED <<password, deleted, token, used, job>>

(* Defect: any token will do that was not used.                            *)
ClaimAny(h, r) ==
  /\ At(h, "idle")
  /\ r \notin used
  /\ ResetFree(h, r)
  /\ Become(h, [Idle EXCEPT !.pc = "claimed", !.key = r])
  /\ UNCHANGED <<password, deleted, token, mailed, used>>
(* confirm_password_reset: one transaction of three updates.  First the    *)
(* reset's own row, unless it was used.                                    *)
ClaimReset(h, r) ==
  /\ At(h, "idle")
  /\ r \in mailed \ used
  /\ ResetFree(h, r)
  /\ Become(h, [Idle EXCEPT !.pc = "claimed", !.key = r])
  /\ UNCHANGED <<password, deleted, token, mailed, used>>

(* The password, if the account is not deleted; nobody sees it yet.        *)
ChangePassword(h) ==
  /\ At(h, "claimed")
  /\ deleted \/ UserFree(h)
  /\ GoTo(h, "changed")
  /\ UNCHANGED <<password, deleted, token, mailed, used>>

(* The tokens the statement's snapshot shows: the live ones for a reset,   *)
(* all for a deletion.  It locks them one after the other,                 *)
Survey(h) ==
  /\ \/ At(h, "changed") /\ Become(h, [job[h] EXCEPT !.pc = "revoking", !.sees = Live])
     \/ /\ At(h, "deleted")
        /\ Become(h, [job[h] EXCEPT !.pc = "forgetting", !.sees = DOMAIN token])
  /\ UNCHANGED <<password, deleted, token, mailed, used>>

Ahead(h) == {t \in job[h].sees : t > job[h].token}
NextIs(h, t) == t \in Ahead(h) /\ \A s \in Ahead(h) : t <= s
Seize(h) ==
  /\ job[h].pc \in {"revoking", "forgetting"}
  /\ \E t \in Ahead(h) :
       /\ NextIs(h, t)
       /\ TokenFree(h, t)
       /\ job' = [job EXCEPT ![h].token = t]
  /\ UNCHANGED <<password, deleted, token, mailed, used>>

(* and has revoked them when it has them all.                              *)
CommitReset(h) ==
  /\ At(h, "revoking")
  /\ Ahead(h) = {}
  /\ used' = used \cup {job[h].key}
  /\ password' = IF deleted THEN password ELSE job[h].key
  /\ token' = Revoke(job[h].sees)
  /\ Finish(h)
  /\ UNCHANGED <<deleted, mailed>>

-----------------------------------------------------------------------------
(* delete_account: the user's row in one statement, the tokens in another, *)
(* whose failure is ignored.                                               *)
DeleteUser(h) ==
  /\ At(h, "idle")
  /\ ~deleted
  /\ UserFree(h)
  /\ deleted' = TRUE
  /\ Become(h, [Idle EXCEPT !.pc = "deleted"])
  /\ UNCHANGED <<password, token, mailed, used>>

RevokeAll(h) ==
  /\ At(h, "forgetting")
  /\ Ahead(h) = {}
  /\ token' = Revoke(job[h].sees)
  /\ Finish(h)
  /\ UNCHANGED <<password, deleted, mailed, used>>

-----------------------------------------------------------------------------
(* A statement fails, by a deadlock too, or the process stops: the         *)
(* transaction is rolled back, and what a separate statement was to do is  *)
(* not done.                                                               *)
Abort(h) ==
  /\ ~At(h, "idle")
  /\ Finish(h)
  /\ UNCHANGED <<password, deleted, token, mailed, used>>

Serve(h) ==
  \/ Issue(h)
  \/ LockAccount(h)
  \/ Rotate(h)
  \/ ChangePassword(h)
  \/ Survey(h)
  \/ Seize(h)
  \/ CommitReset(h)
  \/ RevokeAll(h)

Next ==
  \/ \E h \in Handler :
       \/ Login(h) \/ DeleteUser(h) \/ Serve(h) \/ Abort(h)
       \/ \E t \in DOMAIN token : LockToken(h, t)
       \/ \E r \in Reset : ClaimReset(h, r)
  \/ \E r \in Reset : RequestReset(r)

Spec == Init /\ [][Next]_vars

-----------------------------------------------------------------------------
(* Properties.                                                             *)

(* refresh: "A token can be used only once, so a timeout retry returns     *)
(* Unauthorized instead of extending two independent sessions."  However   *)
(* many requests present it together, it gets one replacement, and none    *)
(* once the account is deleted, though the statement that then revokes the *)
(* tokens is separate and may fail.                                        *)
RotatesOnce ==
  [][\A t \in DOMAIN token' \ DOMAIN token : token'[t].parent # 0 =>
       /\ ~deleted
       /\ \A s \in DOMAIN token : token[s].parent # token'[t].parent]_vars

(* A reset of the password ends every session that was begun with an       *)
(* earlier one, the ones that are being rotated meanwhile included.  The   *)
(* exception is a login that read the old hash and is stored after the     *)
(* reset chose what to revoke: the login takes no lock.                    *)
ResetEndsSessions ==
  ~deleted => \A t \in Live : token[t].proof # password => token[t].late

(* Who waits for a row of whom, and a rotation that has its token and      *)
(* wants the account while the reset that has the account wants the token. *)
Waits(h, g) == g # h /\
  \/ At(h, "issue") /\ At(g, "rotate")
  \/ At(h, "lookup") /\ HoldsUser(g)
  \/ At(h, "claimed") /\ ~deleted /\ HoldsUser(g)
  \/ /\ job[h].pc \in {"revoking", "forgetting"}
     /\ \E t \in Ahead(h) : NextIs(h, t) /\ HoldsToken(g, t)
Opposed(h, g) ==
  At(h, "lookup") /\ HoldsUser(g) /\ At(g, "revoking") /\ NextIs(g, job[h].token)

(* refresh locks a token before its account, confirm_password_reset the    *)
(* account before the tokens.  Requests all of which wait for others of    *)
(* them are blocked by two of these that met, whatever else takes part:    *)
(* resets queue for the account, and deletions, which keep no lock of the  *)
(* account when they come to the tokens, never close a circle.             *)
OnlyRotationsDeadlock ==
  \A S \in SUBSET Handler :
    S # {} /\ (\A h \in S : \E g \in S : Waits(h, g)) =>
      \E h, g \in S : Opposed(h, g)
=============================================================================
