------------------------------ MODULE Verification ------------------------------
(***************************************************************************)
(* The verification of one ONG: its account and profile, the documents it  *)
(* hands in, the administrators who review them and who decide, and the    *)
(* approval that follows from the documents by itself.                     *)
(*                                                                         *)
(* A handler is a request; its statements are its steps as far as others   *)
(* can tell them apart, and a transaction shows what it wrote when it      *)
(* commits.                                                                *)
(***************************************************************************)
CONSTANTS
  Handler,   \* requests that may run at the same time
  Document,  \* rows of ong_kyb_documents that may be handed in
  Kind,      \* the three required values of document_type
  KindOf     \* the type of each document

VARIABLES
  deleted,   \* users.deleted_at IS NOT NULL
  verified,  \* users.verified
  status,    \* ong_profiles.verification_status
  document,  \* status of each document, "none" before it is handed in
  job,       \* what each handler is at
  owed       \* history: the last document was approved, the ONG not since

userVars == <<deleted, verified>>
vars == <<userVars, status, document, job, owed>>
-----------------------------------------------------------------------------
Decision == {"PENDING_MANUAL_REVIEW", "APPROVED", "REJECTED", "BLOCKED"}
Verdict == {"pending_review", "approved", "rejected"}

(* decided: holds the profile's row, having written the decision to it;    *)
(* profile: holds the user's row.                                          *)
Place == {"idle", "count", "approve", "decided", "profile"}
Task == [pc : Place, decision : Decision]
Idle == [pc |-> "idle", decision |-> "PENDING_MANUAL_REVIEW"]

TypeOK ==
  /\ deleted \in BOOLEAN
  /\ verified \in BOOLEAN
  /\ status \in Decision
  /\ document \in [Document -> Verdict \cup {"none"}]
  /\ job \in [Handler -> Task]
  /\ owed \in BOOLEAN

(* register: user and profile in one transaction, not verified.            *)
Init ==
  /\ deleted = FALSE
  /\ verified = FALSE
  /\ status = "PENDING_MANUAL_REVIEW"
  /\ document = [d \in Document |-> "none"]
  /\ job = [h \in Handler |-> Idle]
  /\ owed = FALSE

-----------------------------------------------------------------------------
At(h, pc) == job[h].pc = pc
GoTo(h, pc) == job' = [job EXCEPT ![h].pc = pc]
Finish(h) == job' = [job EXCEPT ![h] = Idle]
ProfileFree == \A h \in Handler : ~At(h, "decided")
UserFree == \A h \in Handler : ~At(h, "profile")

(* A document of each required type is approved.                           *)
CompleteIn(docs) == \A k \in Kind : \E d \in Document : KindOf[d] = k /\ docs[d] = "approved"
Complete == CompleteIn(document)

(* create_my_kyb_document, by the ONG, and create_kyb_document.            *)
HandIn(d) ==
  /\ document[d] = "none"
  /\ document' = [document EXCEPT ![d] = "pending_review"]
  /\ UNCHANGED <<userVars, status, job, owed>>

(* Defect: the documents are counted before this one is written.           *)
ReviewLate(h, d, v) ==
  /\ At(h, "idle")
  /\ document[d] # "none"
  /\ document' = [document EXCEPT ![d] = v]
  /\ owed' = (CompleteIn(document') /\ (owed \/ v = "approved"))
  /\ IF v = "approved" /\ Complete THEN GoTo(h, "approve") ELSE UNCHANGED job
  /\ UNCHANGED <<userVars, status>>
(* review_kyb_document: the verdict is a statement of its own, and any     *)
(* verdict may replace any other.  An approval goes on to                  *)
Review(h, d, v) ==
  /\ At(h, "idle")
  /\ document[d] # "none"
  /\ document' = [document EXCEPT ![d] = v]
  /\ owed' = (CompleteIn(document') /\ (owed \/ v = "approved"))
  /\ IF v = "approved" THEN GoTo(h, "count") ELSE UNCHANGED job
  /\ UNCHANGED <<userVars, status>>

(* maybe_auto_approve_ong_from_kyb, which counts,                          *)
Count(h) ==
  /\ At(h, "count")
  /\ IF Complete THEN GoTo(h, "approve") ELSE Finish(h)
  /\ UNCHANGED <<userVars, status, document, owed>>

(* and approves in a transaction, without looking again at the documents   *)
(* or at what an administrator has decided meanwhile.                      *)
Approve(h) ==
  /\ At(h, "approve")
  /\ ProfileFree
  /\ job' = [job EXCEPT ![h] = [pc |-> "decided", decision |-> "APPROVED"]]
  /\ UNCHANGED <<userVars, status, document, owed>>

(* update_ong_verification_status: the profile, then the user.             *)
Decide(h, d) ==
  /\ At(h, "idle")
  /\ ProfileFree
  /\ job' = [job EXCEPT ![h] = [pc |-> "decided", decision |-> d]]
  /\ UNCHANGED <<userVars, status, document, owed>>

(* Defect: an account is never unverified by a decision.                   *)
CommitUpward(h) ==
  /\ At(h, "decided")
  /\ UserFree
  /\ status' = job[h].decision
  /\ verified' = (verified \/ job[h].decision = "APPROVED")
  /\ owed' = (owed /\ job[h].decision # "APPROVED")
  /\ Finish(h)
  /\ UNCHANGED <<deleted, document>>
(* The user is updated whether deleted or not.                             *)
Commit(h) ==
  /\ At(h, "decided")
  /\ UserFree
  /\ status' = job[h].decision
  /\ verified' = (job[h].decision = "APPROVED")
  /\ owed' = (owed /\ job[h].decision # "APPROVED")
  /\ Finish(h)
  /\ UNCHANGED <<deleted, document>>

-----------------------------------------------------------------------------
(* update_profile: the other way round, the user and then the profile.     *)
UpdateUser(h) ==
  /\ At(h, "idle")
  /\ ~deleted
  /\ UserFree
  /\ GoTo(h, "profile")
  /\ UNCHANGED <<userVars, status, document, owed>>

UpdateProfile(h) ==
  /\ At(h, "profile")
  /\ ProfileFree
  /\ Finish(h)
  /\ UNCHANGED <<userVars, status, document, owed>>

(* delete_account leaves the profile as it is.                             *)
DeleteAccount ==
  /\ ~deleted
  /\ UserFree
  /\ deleted' = TRUE
  /\ verified' = FALSE
  /\ UNCHANGED <<status, document, job, owed>>

-----------------------------------------------------------------------------
(* A statement fails or the process stops; the transaction is rolled back. *)
(* Unless it was to decide otherwise, what an approved document was to     *)
(* bring about does not happen.                                            *)
Overrules(h) == At(h, "decided") /\ job[h].decision # "APPROVED"
Abort(h) ==
  /\ ~At(h, "idle")
  /\ Finish(h)
  /\ owed' = (owed /\ (At(h, "profile") \/ Overrules(h)))
  /\ UNCHANGED <<userVars, status, document>>

(* The profile's row is held and the user's wanted, and the reverse:       *)
(* PostgreSQL ends one of the two.                                         *)
Deadlock == ~ProfileFree /\ ~UserFree
AbortDeadlocked(h) ==
  /\ Deadlock
  /\ job[h].pc \in {"decided", "profile"}
  /\ Abort(h)

Serve(h) == Count(h) \/ Approve(h) \/ Commit(h) \/ UpdateProfile(h)

Next ==
  \/ \E d \in Document : HandIn(d)
  \/ \E h \in Handler :
       \/ Serve(h) \/ UpdateUser(h) \/ Abort(h) \/ AbortDeadlocked(h)
       \/ \E d \in Document, v \in Verdict : Review(h, d, v)
       \/ \E d \in Decision : Decide(h, d)
  \/ DeleteAccount

(* Waiters for a row are queued, so who may go on again and again does.    *)
Fairness == \A h \in Handler : SF_vars(Serve(h)) /\ WF_vars(AbortDeadlocked(h))
-----------------------------------------------------------------------------
(* update_ong_verification_status, maybe_auto_approve_ong_from_kyb and     *)
(* delete_account: the account of a live ONG is verified if and only if    *)
(* its profile is approved, whoever decides at the same time.              *)
VerifiedIsApproved == ~deleted => (verified <=> status = "APPROVED")

(* review_kyb_document: when the last required document is approved, the   *)
(* ONG comes to be approved, though several are reviewed at the same time  *)
(* and each reviewer counts for itself, unless a request is aborted.       *)
CompleteIsApproved == []<>~owed
=============================================================================
