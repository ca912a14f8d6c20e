----------------------------- MODULE RescueSessions -----------------------------
(***************************************************************************)
(* The rescue sessions of one urgent post: start, move, end, the final     *)
(* report that is drafted when one ends, and its review.                   *)
(*                                                                         *)
(* A handler is a request of the author or of an administrator, or the     *)
(* background task it leaves behind.  Its transaction is one step; what    *)
(* it does after the commit are others.  The fan-out row of the case is    *)
(* in RescueFanout; where the animal is, and the connections that watch    *)
(* (Chat has such), are left out.                                          *)
(***************************************************************************)
EXTENDS Naturals, Sequences

CONSTANTS
  Handler,      \* requests and tasks that may run at the same time
  MaxSessions,  \* bound: sessions that may be started
  MaxTexts      \* bound: no report is rejected once so many were drafted

RescueSessionsAssumption ==
  /\ MaxSessions \in Nat \ {0}
  /\ MaxTexts \in Nat \ {0}

VARIABLES
  post,     \* posts.rescue_status
  session,  \* status of the rows of rescue_sessions, in the order of insertion
  report,   \* the post's row of rescue_final_reports
  texts,    \* how many drafts have been stored
  job,      \* what each handler is at
  told,     \* sessions whose end was broadcast
  lost      \* history: sessions of which an event or a task was lost

caseVars == <<post, session>>
reportVars == <<report, texts>>
vars == <<caseVars, reportVars, job, told, lost>>
-----------------------------------------------------------------------------
Status == {"active", "ended"}
SessionId == 1 .. MaxSessions

(* text names the draft the row was last written from, own says that the   *)
(* manager who approved it wrote another.                                  *)
NoReport == [state |-> "none", session |-> 0, text |-> 0, own |-> FALSE]
Kept == {"pending_approval", "published"}
Report == [state : Kept \cup {"rejected"}, session : SessionId,
           text : 1 .. MaxTexts, own : BOOLEAN] \cup {NoReport}

(* active and ended: about to announce a session's row as it committed it. *)
Place == {"idle", "active", "ended", "check", "draft", "save"}
Task == [pc : Place, about : {0} \cup SessionId]
Idle == [pc |-> "idle", about |-> 0]

TypeOK ==
  /\ post \in {"open", "active", "resolved"}
  /\ session \in Seq(Status)
  /\ Len(session) <= MaxSessions
  /\ \A s, t \in DOMAIN session : session[s] = "active" /\ session[t] = "active" => s = t
  /\ report \in Report
  /\ texts \in 0 .. MaxTexts
  /\ report.text = texts
  /\ job \in [Handler -> Task]
  /\ told \subseteq SessionId
  /\ lost \subseteq SessionId

(* An urgent post with a confirmed location, made active when published.   *)
Init ==
  /\ post = "active"
  /\ session = <<>>
  /\ report = NoReport
  /\ texts = 0
  /\ job = [h \in Handler |-> Idle]
  /\ told = {}
  /\ lost = {}

-----------------------------------------------------------------------------
At(h, pc) == job[h].pc = pc
GoTo(h, pc) == job' = [job EXCEPT ![h].pc = pc]
Finish(h) == job' = [job EXCEPT ![h] = Idle]
Announce(h, s, status) ==
  job' = [job EXCEPT ![h] = [pc |-> status, about |-> s]]
Active == {s \in DOMAIN session : session[s] = "active"}

(***************************************************************************)
(* trigger, under the advisory lock of reporter and post: with a session   *)
(* active it is answered with that one and does nothing else.              *)
(***************************************************************************)
Trigger(h) ==
  /\ At(h, "idle")
  /\ Active = {}
  /\ Len(session) < MaxSessions
  /\ session' = Append(session, "active")
  /\ post' = "active"
  /\ Announce(h, Len(session) + 1, "active")
  /\ UNCHANGED <<reportVars, told, lost>>

(* update_location: the session's row and a row of its trail.              *)
Move(h, s) ==
  /\ At(h, "idle")
  /\ s \in Active
  /\ Announce(h, s, "active")
  /\ UNCHANGED <<caseVars, reportVars, told, lost>>

(* end: a session that is ended already is no error, and the post is       *)
(* resolved again, whatever other session it has by now.                   *)
End(h, s) ==
  /\ At(h, "idle")
  /\ session' = [session EXCEPT ![s] = "ended"]
  /\ post' = "resolved"
  /\ Announce(h, s, "ended")
  /\ UNCHANGED <<reportVars, told, lost>>

-----------------------------------------------------------------------------
(* Defect: the report is left to whoever asks for it.                      *)
TellOnly(h) ==
  /\ job[h].pc \in Status
  /\ told' = IF At(h, "ended") THEN told \cup {job[h].about} ELSE told
  /\ Finish(h)
  /\ UNCHANGED <<caseVars, reportVars, lost>>
(* broadcast_rescue_event, after the commit and in an order of its own;    *)
(* end goes on to spawn the task that drafts the report.                   *)
Tell(h) ==
  /\ job[h].pc \in Status
  /\ told' = IF At(h, "ended") THEN told \cup {job[h].about} ELSE told
  /\ IF At(h, "ended") THEN GoTo(h, "check") ELSE Finish(h)
  /\ UNCHANGED <<caseVars, reportVars, lost>>

-----------------------------------------------------------------------------
(* generate_final_report, by a manager, whatever state the session is in.  *)
Generate(h, s) ==
  /\ At(h, "idle")
  /\ job' = [job EXCEPT ![h] = [pc |-> "check", about |-> s]]
  /\ UNCHANGED <<caseVars, reportVars, told, lost>>

(* create_or_update_final_report: done if the session has a report that    *)
(* waits for approval or is published.                                     *)
Check(h) ==
  /\ At(h, "check")
  /\ IF report.session = job[h].about /\ report.state \in Kept
     THEN Finish(h) ELSE GoTo(h, "draft")
  /\ UNCHANGED <<caseVars, reportVars, told, lost>>

(* The text comes from the AI worker or, if that fails, from a fixed list. *)
Draft(h) ==
  /\ At(h, "draft")
  /\ GoTo(h, "save")
  /\ UNCHANGED <<caseVars, reportVars, told, lost>>

Drafted(h) == [state |-> "pending_approval", session |-> job[h].about,
               text |-> texts + 1, own |-> FALSE]
(* Defect: ON CONFLICT DO UPDATE without its condition.                    *)
SaveAlways(h) ==
  /\ At(h, "save")
  /\ texts < MaxTexts
  /\ report' = Drafted(h) /\ texts' = texts + 1
  /\ Finish(h)
  /\ UNCHANGED <<caseVars, told, lost>>
(* The post has one report: INSERT ... ON CONFLICT (post_id) DO UPDATE     *)
(* unless that one waits for approval or is published.                     *)
Save(h) ==
  /\ At(h, "save")
  /\ \/ report.state \in Kept /\ UNCHANGED reportVars
     \/ report.state \notin Kept /\ report' = Drafted(h) /\ texts' = texts + 1
  /\ Finish(h)
  /\ UNCHANGED <<caseVars, told, lost>>

(* approve_final_report and reject_final_report find the report by its     *)
(* session and do not look at the state it is in.                          *)
Approve(own) ==
  /\ report # NoReport
  /\ report' = [report EXCEPT !.state = "published", !.own = own \/ @]
  /\ UNCHANGED <<caseVars, texts, job, told, lost>>

Reject ==
  /\ report # NoReport
  /\ texts < MaxTexts
  /\ report' = [report EXCEPT !.state = "rejected"]
  /\ UNCHANGED <<caseVars, texts, job, told, lost>>

(* A statement fails or the process stops after the commit.                *)
Abort(h) ==
  /\ ~At(h, "idle")
  /\ lost' = IF At(h, "active") THEN lost ELSE lost \cup {job[h].about}
  /\ Finish(h)
  /\ UNCHANGED <<caseVars, reportVars, told>>

-----------------------------------------------------------------------------
Serve(h) == Tell(h) \/ Check(h) \/ Draft(h) \/ Save(h)

Next ==
  \/ \E h \in Handler :
       \/ Trigger(h) \/ Serve(h) \/ Abort(h)
       \/ \E s \in DOMAIN session : Move(h, s) \/ End(h, s) \/ Generate(h, s)
  \/ \E own \in BOOLEAN : Approve(own)
  \/ Reject

Spec == Init /\ [][Next]_vars

(* Handlers and tasks go on; no one need start, end or review anything.    *)
Fairness == \A h \in Handler : WF_vars(Serve(h))
FairSpec == Spec /\ Fairness
-----------------------------------------------------------------------------
(* Properties.                                                             *)

(* create_or_update_final_report: a report that waits for review or was    *)
(* published is never rewritten by another draft, however slow the draft   *)
(* that began when there was none; nor is the text its manager gave it.    *)
ReviewedTextStays ==
  [][report.state \in Kept =>
       /\ report'.text = report.text
       /\ report'.session = report.session
       /\ report.own => report'.own]_vars

(* end: once a session is ended, also when the request is repeated, those  *)
(* who watch it are told and its post has a report, which may be that of   *)
(* another session; unless a process stops or a statement fails.           *)
EndIsFollowedUp == \A s \in SessionId :
  []<>(s \in DOMAIN session /\ session[s] = "ended" =>
         (s \in told /\ report # NoReport) \/ s \in lost)
=============================================================================
