---------------------------- MODULE PlatformProofs ----------------------------
(***************************************************************************)
(* The other small parts of the platform, proved for any requests, rows    *)
(* and bounds, and the types of them all.                                  *)
(***************************************************************************)
EXTENDS CredentialsProofs, FiniteSetTheorems

(***************************************************************************)
(* Verification: nobody but a decision and a deletion writes what is       *)
(* compared, and each writes both sides.                                   *)
(***************************************************************************)
VerificationInv == V!TypeOK /\ VerifiedIsApproved

LEMMA VerificationInit == V!Init => VerificationInv
<1>1. V!Idle \in V!Task
  BY DEF V!Idle, V!Task, V!Place, V!Decision
<1>2. QED
  BY <1>1 DEF V!Init, VerificationInv, V!TypeOK, V!Decision, V!Verdict,
              VerifiedIsApproved, V!VerifiedIsApproved

LEMMA ReviewMoves ==
  ASSUME V!TypeOK, NEW h \in Handler,
         \/ \E pc \in V!Place : V!GoTo(h, pc)
         \/ V!Finish(h)
         \/ \E d \in V!Decision : review' = [review EXCEPT ![h] = [pc |-> "decided", decision |-> d]]
  PROVE  review' \in [Handler -> V!Task]
BY DEF V!TypeOK, V!GoTo, V!Finish, V!Idle, V!Task, V!Place, V!Decision

LEMMA VerificationStep == VerificationInv /\ V!Next => VerificationInv'
<1> SUFFICES ASSUME VerificationInv, V!Next PROVE VerificationInv'
  OBVIOUS
<1> USE DEF V!userVars
<1>0. V!TypeOK /\ VerifiedIsApproved
  BY DEF VerificationInv
<1>1. ASSUME NEW d \in Document, V!HandIn(d)
      PROVE  VerificationInv'
  BY <1>0, <1>1 DEF V!HandIn, VerificationInv, V!TypeOK, V!Verdict, VerifiedIsApproved,
                    V!VerifiedIsApproved
<1>2. ASSUME NEW h \in Handler, NEW d \in Document, NEW v \in V!Verdict, V!Review(h, d, v)
      PROVE  VerificationInv'
  <2>1. review' \in [Handler -> V!Task]
    BY <1>0, <1>2, ReviewMoves DEF V!Review, V!Place, V!TypeOK
  <2>2. QED
    BY <1>0, <1>2, <2>1 DEF V!Review, VerificationInv, V!TypeOK, VerifiedIsApproved,
                            V!VerifiedIsApproved
<1>3. ASSUME NEW h \in Handler,
             \/ V!Count(h) \/ V!Approve(h) \/ V!UpdateUser(h) \/ V!UpdateProfile(h)
             \/ V!Abort(h)
             \/ \E d \in V!Decision : V!Decide(h, d)
      PROVE  VerificationInv'
  <2>1. review' \in [Handler -> V!Task]
    BY <1>0, <1>3, ReviewMoves DEF V!Count, V!Approve, V!UpdateUser, V!UpdateProfile,
       V!Abort, V!Decide, V!Place, V!Decision
  <2>2. owed' \in BOOLEAN
    BY <1>0, <1>3 DEF V!TypeOK, V!Count, V!Approve, V!UpdateUser, V!UpdateProfile, V!Abort,
                      V!Decide
  <2>3. UNCHANGED <<closed, verified, status, document>>
    BY <1>3 DEF V!Count, V!Approve, V!UpdateUser, V!UpdateProfile, V!Abort, V!Decide
  <2>4. QED
    BY <1>0, <2>1, <2>2, <2>3 DEF VerificationInv, V!TypeOK, VerifiedIsApproved,
                                  V!VerifiedIsApproved
<1>4. ASSUME NEW h \in Handler, V!Commit(h)
      PROVE  VerificationInv'
  <2>1. review' \in [Handler -> V!Task]
    BY <1>0, <1>4, ReviewMoves DEF V!Commit
  <2>2. review[h].decision \in V!Decision
    BY <1>0 DEF V!TypeOK, V!Task
  <2>3. QED
    BY <1>0, <1>4, <2>1, <2>2 DEF V!Commit, VerificationInv, V!TypeOK, VerifiedIsApproved,
                                  V!VerifiedIsApproved
<1>5. CASE V!DeleteAccount
  BY <1>0, <1>5 DEF V!DeleteAccount, VerificationInv, V!TypeOK, VerifiedIsApproved,
                    V!VerifiedIsApproved
<1>6. QED
  BY <1>1, <1>2, <1>3, <1>4, <1>5 DEF V!Next, V!Serve, V!AbortDeadlocked

LEMMA VerificationStay == VerificationInv /\ UNCHANGED ngoVars => VerificationInv'
BY DEF VerificationInv, V!TypeOK, VerifiedIsApproved, V!VerifiedIsApproved, ngoVars

LEMMA VerificationInvariant == Together => []VerificationInv
<1>1. VerificationInv /\ [V!Next]_ngoVars => VerificationInv'
  BY VerificationStep, VerificationStay
<1>2. QED
  BY VerificationInit, <1>1, PTL DEF Together

(* The account of a live ONG is verified if and only if its profile is     *)
(* approved (update_ong_verification_status, delete_account).              *)
THEOREM VerifiedWhenApproved == Spec => []VerifiedIsApproved
<1>1. VerificationInv => VerifiedIsApproved
  BY DEF VerificationInv
<1>2. QED
  BY <1>1, VerificationInvariant, FocusIsPart, PTL

-----------------------------------------------------------------------------
(***************************************************************************)
(* Rescue sessions: a session is started where none is active, and a draft *)
(* is stored where no report is kept.                                      *)
(***************************************************************************)
BusyAboutSession == \A h \in Handler : job[h].pc # "idle" => job[h].about \in S!SessionId
RejectedIsRedrafted == report.state = "rejected" => texts < MaxTexts

SessionsInv == S!TypeOK /\ BusyAboutSession /\ RejectedIsRedrafted

LEMMA SessionsInit == S!Init => SessionsInv
<1> SUFFICES ASSUME S!Init PROVE SessionsInv
  OBVIOUS
<1>1. /\ S!Idle \in S!Task /\ S!NoReport \in S!Report /\ S!NoReport.text = 0
      /\ MaxTexts \in Nat /\ MaxSessions \in Nat
  BY PlatformAssumption DEF S!RescueSessionsAssumption, S!Idle, S!Task, S!Place, S!NoReport,
                            S!Report
<1>2. session \in Seq(S!Status) /\ Len(session) = 0 /\ DOMAIN session = {}
  BY DEF S!Init
<1>4. job \in [Handler -> S!Task] /\ \A h \in Handler : job[h].pc = "idle"
  BY <1>1 DEF S!Init, S!Idle
<1>5. S!TypeOK
  <2>1. report = S!NoReport /\ texts = 0 /\ post = "active"
        /\ told \subseteq S!SessionId /\ lost \subseteq S!SessionId
    BY DEF S!Init
  <2>2. report \in S!Report /\ report.text = texts /\ texts \in 0 .. MaxTexts
    BY <1>1, <2>1
  <2>3. Len(session) <= MaxSessions
    BY <1>1, <1>2
  <2>4. QED
    BY <1>2, <1>4, <2>1, <2>2, <2>3 DEF S!TypeOK
<1>6. BusyAboutSession /\ RejectedIsRedrafted
  BY <1>4 DEF S!Init, S!NoReport, BusyAboutSession, RejectedIsRedrafted
<1>7. QED
  BY <1>5, <1>6 DEF SessionsInv

(* What a handler or task goes on to is about a session.                   *)
LEMMA JobMoves ==
  ASSUME S!TypeOK, BusyAboutSession, NEW h \in Handler,
         \/ job[h].pc # "idle" /\ \E pc \in S!Place : S!GoTo(h, pc)
         \/ S!Finish(h)
         \/ \E pc \in S!Place, s \in S!SessionId :
              job' = [job EXCEPT ![h] = [pc |-> pc, about |-> s]]
  PROVE  job' \in [Handler -> S!Task] /\ BusyAboutSession'
<1>1. S!Idle \in S!Task /\ S!Idle.pc = "idle"
  BY DEF S!Idle, S!Task, S!Place
<1>2. \A task \in S!Task :
        job' = [job EXCEPT ![h] = task] /\ (task.pc # "idle" => task.about \in S!SessionId)
          => job' \in [Handler -> S!Task] /\ BusyAboutSession'
  BY DEF S!TypeOK, BusyAboutSession, S!SessionId
<1>3. ASSUME NEW pc \in S!Place, S!GoTo(h, pc), job[h].pc # "idle"
      PROVE  job' \in [Handler -> S!Task] /\ BusyAboutSession'
  <2> DEFINE task == [job[h] EXCEPT !.pc = pc]
  <2>1. job[h] \in S!Task /\ job[h].about \in S!SessionId
    BY <1>3 DEF S!TypeOK, BusyAboutSession
  <2>2. task \in S!Task /\ task.about = job[h].about
    BY <2>1 DEF S!Task
  <2>3. job' = [job EXCEPT ![h] = task]
    BY <1>3 DEF S!GoTo
  <2>4. QED
    BY <1>2, <2>1, <2>2, <2>3
<1>4. CASE S!Finish(h)
  BY <1>1, <1>2, <1>4 DEF S!Finish
<1>5. ASSUME NEW pc \in S!Place, NEW s \in S!SessionId,
             job' = [job EXCEPT ![h] = [pc |-> pc, about |-> s]]
      PROVE  job' \in [Handler -> S!Task] /\ BusyAboutSession'
  BY <1>2, <1>5 DEF S!Task
<1>6. QED
  BY <1>3, <1>4, <1>5

LEMMA SessionDomain ==
  ASSUME S!TypeOK
  PROVE  /\ Len(session) \in Nat /\ DOMAIN session = 1 .. Len(session)
         /\ DOMAIN session \subseteq S!SessionId
         /\ \A s \in DOMAIN session : session[s] \in S!Status
         /\ MaxSessions \in Nat \ {0} /\ MaxTexts \in Nat \ {0}
<1>1. MaxSessions \in Nat \ {0} /\ MaxTexts \in Nat \ {0}
  BY PlatformAssumption DEF S!RescueSessionsAssumption
<1>2. session \in Seq(S!Status) /\ Len(session) <= MaxSessions
  BY DEF S!TypeOK
<1>3. Len(session) \in Nat /\ DOMAIN session = 1 .. Len(session)
  BY <1>2
<1>4. QED
  BY <1>1, <1>2, <1>3 DEF S!SessionId

LEMMA TriggerInv ==
  ASSUME SessionsInv, NEW h \in Handler, S!Trigger(h)
  PROVE  SessionsInv'
<1> DEFINE n == Len(session) + 1
<1>0. S!TypeOK /\ BusyAboutSession /\ RejectedIsRedrafted
  BY DEF SessionsInv
<1>1. /\ session \in Seq(S!Status) /\ session' = Append(session, "active")
      /\ Len(session) < MaxSessions /\ "active" \in S!Status
  BY <1>0 DEF S!TypeOK, S!Trigger, S!Status
<1>2. /\ session' \in Seq(S!Status) /\ Len(session') = n /\ n \in S!SessionId
      /\ DOMAIN session' = DOMAIN session \cup {n}
      /\ n \notin DOMAIN session /\ session'[n] = "active"
      /\ \A s \in DOMAIN session : session'[s] = session[s]
  BY <1>0, <1>1, SessionDomain DEF S!SessionId
<1>3. \A s \in DOMAIN session : session[s] # "active"
  BY DEF S!Trigger, S!Active
<1>5. job' \in [Handler -> S!Task] /\ BusyAboutSession'
  BY <1>0, <1>2, JobMoves DEF S!Trigger, S!Announce, S!Place
<1>6. S!TypeOK'
  <2>1. Len(session') <= MaxSessions
    BY <1>0, <1>1, <1>2, SessionDomain
  <2>2. QED
    BY <1>0, <1>2, <1>3, <1>5, <2>1 DEF S!Trigger, S!TypeOK, S!reportVars
<1>7. RejectedIsRedrafted'
  BY <1>0 DEF S!Trigger, RejectedIsRedrafted, S!reportVars
<1>8. QED
  BY <1>5, <1>6, <1>7 DEF SessionsInv

LEMMA EndInv ==
  ASSUME SessionsInv, NEW h \in Handler, NEW s \in DOMAIN session, S!End(h, s)
  PROVE  SessionsInv'
<1>0. S!TypeOK /\ BusyAboutSession /\ RejectedIsRedrafted
  BY DEF SessionsInv
<1>1. /\ session \in Seq(S!Status) /\ session' = [session EXCEPT ![s] = "ended"]
      /\ s \in S!SessionId /\ "ended" \in S!Status
  BY <1>0, SessionDomain DEF S!TypeOK, S!End, S!Status
<1>2. /\ session' \in Seq(S!Status) /\ Len(session') = Len(session)
      /\ DOMAIN session' = DOMAIN session
      /\ \A t \in DOMAIN session : session'[t] = IF t = s THEN "ended" ELSE session[t]
  BY <1>1
<1>4. job' \in [Handler -> S!Task] /\ BusyAboutSession'
  BY <1>0, <1>1, JobMoves DEF S!End, S!Announce, S!Place
<1>5. S!TypeOK'
  BY <1>0, <1>2, <1>4 DEF S!End, S!TypeOK, S!reportVars
<1>6. RejectedIsRedrafted'
  BY <1>0 DEF S!End, RejectedIsRedrafted, S!reportVars
<1>7. QED
  BY <1>4, <1>5, <1>6 DEF SessionsInv

(***************************************************************************)
(* The steps that leave the case alone.                                    *)
(***************************************************************************)
Reporting(h) ==
  \/ S!Serve(h) \/ S!Abort(h) \/ S!Reject
  \/ \E own \in BOOLEAN : S!Approve(own)
  \/ \E s \in DOMAIN session : S!Move(h, s) \/ S!Generate(h, s)

(* What a step may make of the report.                                     *)
ReportMove ==
  /\ report' \in S!Report /\ texts' \in 0 .. MaxTexts /\ report'.text = texts'
  /\ RejectedIsRedrafted'
  /\ report.state \in S!Kept =>
       /\ report'.text = report.text
       /\ report'.session = report.session
       /\ report.own => report'.own

LEMMA ReportMoves ==
  ASSUME SessionsInv, S!Next
  PROVE  ReportMove
<1>0. /\ S!TypeOK /\ BusyAboutSession /\ RejectedIsRedrafted
      /\ report \in S!Report /\ texts \in 0 .. MaxTexts /\ report.text = texts
      /\ MaxTexts \in Nat \ {0}
  BY SessionDomain DEF SessionsInv, S!TypeOK
<1>1. CASE UNCHANGED S!reportVars
  BY <1>0, <1>1 DEF S!reportVars, RejectedIsRedrafted, ReportMove
<1>2. ASSUME NEW h \in Handler, S!Save(h)
      PROVE  ReportMove
  <2>1. CASE report.state \in S!Kept
    BY <1>1, <1>2, <2>1 DEF S!Save
  <2>2. CASE report.state \notin S!Kept
    <3>1. job[h].about \in S!SessionId
      BY <1>0, <1>2 DEF S!Save, S!At, BusyAboutSession
    <3>2. texts < MaxTexts
      BY <1>0, <2>2 DEF S!Report, S!NoReport, RejectedIsRedrafted
    <3>3. /\ report'.state = "pending_approval" /\ report'.text = texts + 1
          /\ report' \in S!Report /\ texts' = texts + 1
      <4>1. report' = S!Drafted(h) /\ texts' = texts + 1 /\ texts + 1 \in 1 .. MaxTexts
        BY <1>0, <1>2, <2>2, <3>2 DEF S!Save
      <4>2. QED
        BY <3>1, <4>1 DEF S!Drafted, S!Report, S!Kept
    <3>4. QED
      BY <1>0, <2>2, <3>2, <3>3 DEF RejectedIsRedrafted, ReportMove
  <2>3. QED
    BY <2>1, <2>2
<1>3. ASSUME NEW own \in BOOLEAN, S!Approve(own)
      PROVE  ReportMove
  <2>1. /\ report' \in S!Report /\ texts' = texts /\ report'.text = report.text
        /\ report'.state = "published"
        /\ report'.session = report.session
        /\ report.own => report'.own
    BY <1>0, <1>3 DEF S!Approve, S!Report, S!NoReport, S!Kept
  <2>2. QED
    BY <1>0, <2>1 DEF RejectedIsRedrafted, ReportMove
<1>4. CASE S!Reject
  <2>1. /\ report' \in S!Report /\ texts' = texts /\ report'.text = report.text
        /\ report'.session = report.session /\ report'.own = report.own
    BY <1>0, <1>4 DEF S!Reject, S!Report, S!NoReport, S!Kept
  <2>2. QED
    BY <1>0, <1>4, <2>1 DEF S!Reject, RejectedIsRedrafted, ReportMove
<1>5. ASSUME NEW h \in Handler,
             \/ S!Trigger(h) \/ S!Tell(h) \/ S!Check(h) \/ S!Draft(h) \/ S!Abort(h)
             \/ \E s \in DOMAIN session : S!Move(h, s) \/ S!End(h, s) \/ S!Generate(h, s)
      PROVE  ReportMove
  <2>1. UNCHANGED S!reportVars
    BY <1>5 DEF S!Trigger, S!Tell, S!Check, S!Draft, S!Abort, S!Move, S!End, S!Generate
  <2>2. QED
    BY <1>1, <2>1
<1>6. QED
  BY <1>2, <1>3, <1>4, <1>5 DEF S!Next, S!Serve

(***************************************************************************)
(* The steps that leave the case alone.                                    *)
(***************************************************************************)
LEMMA QuietSessionsInv ==
  ASSUME SessionsInv, S!Next,
         job' \in [Handler -> S!Task], BusyAboutSession', UNCHANGED S!caseVars,
         told' \subseteq S!SessionId, lost' \subseteq S!SessionId
  PROVE  SessionsInv'
<1>1. ReportMove
  BY ReportMoves
<1>2. S!TypeOK'
  BY <1>1 DEF SessionsInv, S!TypeOK, S!caseVars, ReportMove
<1>3. QED
  BY <1>1, <1>2 DEF SessionsInv, ReportMove

LEMMA SessionsStep == SessionsInv /\ S!Next => SessionsInv'
<1> SUFFICES ASSUME SessionsInv, S!Next PROVE SessionsInv'
  OBVIOUS
<1>0. S!TypeOK /\ BusyAboutSession /\ told \subseteq S!SessionId /\ lost \subseteq S!SessionId
  BY DEF SessionsInv, S!TypeOK
<1> USE DEF S!At
<1>1. ASSUME NEW h \in Handler, S!Tell(h)
      PROVE  SessionsInv'
  <2>1. job[h].pc \in S!Status /\ job[h].pc # "idle" /\ job[h].about \in S!SessionId
    BY <1>0, <1>1 DEF S!Tell, S!Status, BusyAboutSession
  <2>2. job' \in [Handler -> S!Task] /\ BusyAboutSession'
    BY <1>0, <1>1, <2>1, JobMoves DEF S!Tell, S!Place
  <2>3. told' \subseteq S!SessionId
    BY <1>0, <1>1, <2>1 DEF S!Tell
  <2>4. QED
    BY <1>0, <1>1, <2>2, <2>3, QuietSessionsInv DEF S!Tell
<1>2. ASSUME NEW h \in Handler, S!Check(h) \/ S!Draft(h) \/ S!Save(h)
      PROVE  SessionsInv'
  <2>1. job' \in [Handler -> S!Task] /\ BusyAboutSession'
    BY <1>0, <1>2, JobMoves DEF S!Check, S!Draft, S!Save, S!Place
  <2>2. QED
    BY <1>0, <1>2, <2>1, QuietSessionsInv DEF S!Check, S!Draft, S!Save
<1>3. ASSUME NEW h \in Handler, S!Abort(h)
      PROVE  SessionsInv'
  <2>1. job[h].about \in S!SessionId
    BY <1>0, <1>3 DEF S!Abort, BusyAboutSession
  <2>2. job' \in [Handler -> S!Task] /\ BusyAboutSession'
    BY <1>0, <1>3, JobMoves DEF S!Abort
  <2>3. QED
    BY <1>0, <1>3, <2>1, <2>2, QuietSessionsInv DEF S!Abort
<1>4. ASSUME NEW h \in Handler, NEW s \in DOMAIN session, S!Move(h, s) \/ S!Generate(h, s)
      PROVE  SessionsInv'
  <2>1. s \in S!SessionId
    BY <1>0, SessionDomain
  <2>2. job' \in [Handler -> S!Task] /\ BusyAboutSession'
    BY <1>0, <1>4, <2>1, JobMoves DEF S!Move, S!Generate, S!Announce, S!Place
  <2>3. QED
    BY <1>0, <1>4, <2>2, QuietSessionsInv DEF S!Move, S!Generate
<1>5. ASSUME S!Reject \/ \E own \in BOOLEAN : S!Approve(own)
      PROVE  SessionsInv'
  <2>1. UNCHANGED <<S!caseVars, job, told, lost>>
    BY <1>5 DEF S!Reject, S!Approve
  <2>2. job' \in [Handler -> S!Task] /\ BusyAboutSession'
    BY <1>0, <2>1 DEF BusyAboutSession, S!TypeOK
  <2>3. QED
    BY <1>0, <2>1, <2>2, QuietSessionsInv
<1>6. QED
  BY <1>1, <1>2, <1>3, <1>4, <1>5, TriggerInv, EndInv DEF S!Next, S!Serve

LEMMA SessionsStay == SessionsInv /\ UNCHANGED rescueVars => SessionsInv'
BY DEF SessionsInv, S!TypeOK, BusyAboutSession, RejectedIsRedrafted, rescueVars

LEMMA SessionsInvariant == Together => []SessionsInv
<1>1. SessionsInv /\ [S!Next]_rescueVars => SessionsInv'
  BY SessionsStep, SessionsStay
<1>2. QED
  BY SessionsInit, <1>1, PTL DEF Together

(* What ReviewedTextStays says of a step.                                  *)
ReviewedTextStaysStep == report.state \in S!Kept =>
  /\ report'.text = report.text
  /\ report'.session = report.session
  /\ report.own => report'.own

LEMMA ReviewedTogether == Together => ReviewedTextStays
<1>1. SessionsInv /\ [S!Next]_rescueVars => [ReviewedTextStaysStep]_rescueVars
  BY ReportMoves DEF ReportMove, ReviewedTextStaysStep
<1>2. Together => [][ReviewedTextStaysStep]_rescueVars
  BY <1>1, SessionsInvariant, PTL DEF Together
<1>3. UNCHANGED rescueVars => UNCHANGED S!vars
  BY DEF rescueVars, S!vars, S!caseVars, S!reportVars
<1>4. [ReviewedTextStaysStep]_rescueVars => [ReviewedTextStaysStep]_(S!vars)
  BY <1>3
<1>5. QED
  BY <1>2, <1>4, PTL DEF ReviewedTextStays, S!ReviewedTextStays, ReviewedTextStaysStep

(* A report that waits for review or is published is not rewritten by any  *)
(* draft, however slow (create_or_update_final_report).                    *)
THEOREM ReviewedTextsStay == Spec => ReviewedTextStays
BY ReviewedTogether, FocusIsPart, PTL

-----------------------------------------------------------------------------
(***************************************************************************)
(* Donations: who is about to settle an event was the one to record it.    *)
(***************************************************************************)
Calling(c) == call[c].pc \in {"found", "settle"}

CallsKnowDonation == \A c \in Handler :
  Calling(c) => D!Exists(About[call[c].event])

SettlesOwnEvent == \A c \in Handler : call[c].pc = "settle" =>
  /\ call[c].event \in recorded \ processed
  /\ Outcome[call[c].event] # "unsupported"
  /\ \A b \in Handler \ {c} : call[b].pc = "settle" => call[b].event # call[c].event

DonationsInv ==
  D!TypeOK /\ CallsKnowDonation /\ SettlesOwnEvent /\ LedgerAgrees

LEMMA OutcomeType ==
  /\ \A e \in Event : About[e] \in Donation /\ Outcome[e] \in D!Announced
  /\ D!Idle.pc = "idle"
BY PlatformAssumption DEF D!DonationsAssumption, D!Idle

LEMMA DonationsInit == D!Init => DonationsInv
<1> SUFFICES ASSUME D!Init PROVE DonationsInv
  OBVIOUS
<1>1. \A c \in Handler : call[c] = D!Idle /\ call[c].pc = "idle"
  BY OutcomeType DEF D!Init
<1>2. D!TypeOK
  BY <1>1 DEF D!Init, D!TypeOK
<1>3. CallsKnowDonation /\ SettlesOwnEvent
  BY <1>1 DEF CallsKnowDonation, SettlesOwnEvent, Calling
<1>4. LedgerAgrees
  BY DEF D!Init, LedgerAgrees, D!LedgerAgrees, D!Exists, D!Purpose
<1>5. QED
  BY <1>2, <1>3, <1>4 DEF DonationsInv

(* What a call may be at.                                                  *)
LEMMA CallMoves ==
  ASSUME D!TypeOK, NEW c \in Handler,
         D!Finish(c) \/ \E pc \in {"found", "settle"}, e \in Event : D!GoTo(c, pc, e)
  PROVE  /\ call' \in [Handler -> D!Waiting \cup {D!Idle}]
         /\ \A b \in Handler \ {c} : call'[b] = call[b]
         /\ D!Finish(c) => call'[c].pc = "idle"
         /\ \A pc \in {"found", "settle"}, e \in Event :
              D!GoTo(c, pc, e) => call'[c].pc = pc /\ call'[c].event = e
<1>1. CASE D!Finish(c)
  <2>1. /\ call' \in [Handler -> D!Waiting \cup {D!Idle}]
        /\ \A b \in Handler \ {c} : call'[b] = call[b]
        /\ call'[c] = D!Idle
    BY <1>1 DEF D!TypeOK, D!Finish
  <2>2. ASSUME NEW pc \in {"found", "settle"}, NEW e \in Event, D!GoTo(c, pc, e)
        PROVE  call'[c].pc = pc /\ call'[c].event = e
    BY <2>2 DEF D!TypeOK, D!GoTo
  <2>3. QED
    BY <2>1, <2>2, OutcomeType
<1>2. ASSUME NEW pc \in {"found", "settle"}, NEW e \in Event, D!GoTo(c, pc, e)
      PROVE  /\ call' \in [Handler -> D!Waiting \cup {D!Idle}]
             /\ \A b \in Handler \ {c} : call'[b] = call[b]
             /\ call'[c].pc = pc /\ call'[c].event = e
  BY <1>2 DEF D!TypeOK, D!GoTo, D!Waiting
<1>3. D!Finish(c) => call'[c].pc = "idle"
  BY OutcomeType DEF D!TypeOK, D!Finish
<1>4. QED
  BY <1>1, <1>2, <1>3

LEMMA CallEvent ==
  ASSUME D!TypeOK, NEW c \in Handler, Calling(c)
  PROVE  call[c].event \in Event
BY OutcomeType DEF D!TypeOK, D!Waiting, Calling

LEMMA IntendInv ==
  ASSUME DonationsInv, NEW d \in Donation, NEW p \in D!Purpose, D!Intend(d, p)
  PROVE  DonationsInv'
<1>0. /\ D!TypeOK /\ CallsKnowDonation /\ SettlesOwnEvent /\ LedgerAgrees
      /\ UNCHANGED <<entries, recorded, processed, call>>
  BY DEF DonationsInv, D!Intend, D!eventVars
<1>1. CASE D!Exists(d)
  BY <1>0, <1>1 DEF D!Intend, D!donationVars, DonationsInv, D!TypeOK, CallsKnowDonation,
     SettlesOwnEvent, LedgerAgrees, D!LedgerAgrees, D!Exists, Calling
<1>2. CASE ~D!Exists(d)
  <2>1. /\ donated' \in [Donation -> D!Settled \cup {"none"}]
        /\ donated'[d] = "pending_provider"
        /\ \A c \in Donation \ {d} : donated'[c] = donated[c]
    BY <1>0, <1>2 DEF D!Intend, D!TypeOK, D!Settled
  <2>2. /\ purpose' \in [Donation -> D!Purpose \cup {"none"}]
        /\ purpose'[d] = p
        /\ \A c \in Donation \ {d} : purpose'[c] = purpose[c]
    BY <1>0, <1>2 DEF D!Intend, D!TypeOK
  <2>3. /\ opened' \in [Donation -> [D!Purpose -> Nat]]
        /\ \A q \in D!Purpose :
             opened'[d][q] = IF q = p THEN opened[d][q] + 1 ELSE opened[d][q]
        /\ \A c \in Donation \ {d} : opened'[c] = opened[c]
    <3> DEFINE row == [opened[d] EXCEPT ![p] = @ + 1]
    <3>1. opened' = [opened EXCEPT ![d] = row] /\ opened \in [Donation -> [D!Purpose -> Nat]]
      BY <1>0, <1>2 DEF D!Intend, D!TypeOK
    <3>2. opened[d] \in [D!Purpose -> Nat]
      BY <3>1
    <3>3. /\ row \in [D!Purpose -> Nat]
          /\ \A q \in D!Purpose : row[q] = IF q = p THEN opened[d][q] + 1 ELSE opened[d][q]
      BY <3>2
    <3> HIDE DEF row
    <3>4. QED
      BY <3>1, <3>3
  <2>4. D!TypeOK'
    BY <1>0, <2>1, <2>2, <2>3 DEF D!TypeOK
  <2>5. D!Exists(d)' /\ \A c \in Donation \ {d} : D!Exists(c)' <=> D!Exists(c)
    BY <2>1 DEF D!Exists
  <2>6. CallsKnowDonation'
    BY <1>0, <2>5, CallEvent, OutcomeType DEF CallsKnowDonation, Calling
  <2>7. SettlesOwnEvent'
    BY <1>0 DEF SettlesOwnEvent
  <2>8. \A q \in D!Purpose : opened[d][q] = 0
    BY <1>0, <1>2 DEF LedgerAgrees, D!LedgerAgrees
  <2>9. LedgerAgrees'
    BY <1>0, <2>1, <2>2, <2>3, <2>5, <2>8 DEF LedgerAgrees, D!LedgerAgrees
  <2>10. QED
    BY <2>4, <2>6, <2>7, <2>9 DEF DonationsInv
<1>3. QED
  BY <1>1, <1>2

LEMMA IgnoreInv ==
  ASSUME DonationsInv, NEW e \in Event, D!Ignore(e)
  PROVE  DonationsInv'
<1>1. /\ recorded' = recorded \cup {e}
      /\ UNCHANGED <<donated, purpose, opened, entries, processed, call>>
  BY DEF D!Ignore, D!Insert, D!donationVars
<1>2. D!TypeOK'
  BY <1>1 DEF DonationsInv, D!TypeOK
<1>3. QED
  BY <1>1, <1>2 DEF DonationsInv, CallsKnowDonation, SettlesOwnEvent, LedgerAgrees,
                    D!LedgerAgrees, D!Exists, Calling

LEMMA FindInv ==
  ASSUME DonationsInv, NEW c \in Handler, NEW e \in Event, D!Find(c, e)
  PROVE  DonationsInv'
<1>0. /\ D!TypeOK /\ CallsKnowDonation /\ SettlesOwnEvent /\ LedgerAgrees
      /\ UNCHANGED <<donated, purpose, opened, entries, recorded, processed>>
      /\ D!GoTo(c, "found", e) /\ D!Exists(About[e])
  BY DEF DonationsInv, D!Find, D!donationVars, D!eventVars
<1>1. /\ call' \in [Handler -> D!Waiting \cup {D!Idle}]
      /\ \A b \in Handler \ {c} : call'[b] = call[b]
      /\ call'[c].pc = "found" /\ call'[c].event = e
  BY <1>0, CallMoves
<1>2. D!TypeOK'
  BY <1>0, <1>1 DEF D!TypeOK
<1>3. CallsKnowDonation'
  BY <1>0, <1>1 DEF CallsKnowDonation, Calling, D!Exists
<1>4. SettlesOwnEvent'
  BY <1>0, <1>1 DEF SettlesOwnEvent
<1>5. LedgerAgrees'
  BY <1>0 DEF LedgerAgrees, D!LedgerAgrees, D!Exists
<1>6. QED
  BY <1>2, <1>3, <1>4, <1>5 DEF DonationsInv

LEMMA RecordInv ==
  ASSUME DonationsInv, NEW c \in Handler, D!Record(c)
  PROVE  DonationsInv'
<1> DEFINE e == call[c].event
<1>0. /\ D!TypeOK /\ CallsKnowDonation /\ SettlesOwnEvent /\ LedgerAgrees
      /\ UNCHANGED <<donated, purpose, opened, entries, processed>>
      /\ recorded' = recorded \cup {e} /\ e \in Event /\ D!Exists(About[e])
      /\ call[c].pc = "found"
  BY CallEvent DEF DonationsInv, D!Record, D!Insert, D!donationVars, CallsKnowDonation, Calling
<1>1. /\ call' \in [Handler -> D!Waiting \cup {D!Idle}]
      /\ \A b \in Handler \ {c} : call'[b] = call[b]
      /\ \/ call'[c].pc = "idle"
         \/ /\ call'[c].pc = "settle" /\ call'[c].event = e
            /\ e \notin recorded /\ Outcome[e] # "unsupported"
  BY <1>0, CallMoves DEF D!Record
<1> HIDE DEF e
<1>2. D!TypeOK'
  BY <1>0, <1>1 DEF D!TypeOK
<1>3. CallsKnowDonation'
  BY <1>0, <1>1 DEF CallsKnowDonation, Calling, D!Exists
<1>4. SettlesOwnEvent'
  <2>1. processed \subseteq recorded
    BY <1>0 DEF D!TypeOK
  <2>2. QED
    BY <1>0, <1>1, <2>1 DEF SettlesOwnEvent
<1>5. LedgerAgrees'
  BY <1>0 DEF LedgerAgrees, D!LedgerAgrees, D!Exists
<1>6. QED
  BY <1>2, <1>3, <1>4, <1>5 DEF DonationsInv

LEMMA SettleInv ==
  ASSUME DonationsInv, NEW c \in Handler, D!Settle(c)
  PROVE  DonationsInv'
<1> DEFINE e == call[c].event
           d == About[e]
<1>0. /\ D!TypeOK /\ CallsKnowDonation /\ SettlesOwnEvent /\ LedgerAgrees
      /\ UNCHANGED <<purpose, opened, recorded>>
      /\ processed' = processed \cup {e}
      /\ call[c].pc = "settle"
      /\ e \in Event /\ d \in Donation /\ D!Exists(d)
      /\ e \in recorded \ processed
  BY CallEvent, OutcomeType
  DEF DonationsInv, D!Settle, CallsKnowDonation, SettlesOwnEvent, Calling
<1>1. Outcome[e] \in D!Settled
  BY <1>0, OutcomeType DEF SettlesOwnEvent, D!Announced
<1>2. /\ donated' \in [Donation -> D!Settled \cup {"none"}]
      /\ donated'[d] = Outcome[e]
      /\ \A b \in Donation \ {d} : donated'[b] = donated[b]
  BY <1>0, <1>1 DEF D!Settle, D!TypeOK
<1>3. /\ entries' \in [Event -> Nat]
      /\ entries'[e] = entries[e] + 1
      /\ \A b \in Event \ {e} : entries'[b] = entries[b]
  BY <1>0 DEF D!Settle, D!TypeOK
<1>4. /\ call' \in [Handler -> D!Waiting \cup {D!Idle}]
      /\ \A b \in Handler \ {c} : call'[b] = call[b]
      /\ call'[c].pc = "idle"
  BY <1>0, CallMoves DEF D!Settle
<1>5. \A b \in Donation : D!Exists(b)' <=> D!Exists(b)
  BY <1>0, <1>1, <1>2 DEF D!Exists, D!Settled
<1>6. D!TypeOK'
  BY <1>0, <1>2, <1>3, <1>4 DEF D!TypeOK
<1>7. CallsKnowDonation'
  BY <1>0, <1>4, <1>5, CallEvent, OutcomeType DEF CallsKnowDonation, Calling
<1>8. SettlesOwnEvent'
  BY <1>0, <1>4 DEF SettlesOwnEvent
<1>9. LedgerAgrees'
  <2>1. \A b \in Event : entries'[b] = IF b \in processed' THEN 1 ELSE 0
    BY <1>0, <1>3 DEF LedgerAgrees, D!LedgerAgrees
  <2>2. \A b \in Donation : D!Exists(b)' /\ donated'[b] # "pending_provider" =>
          \E a \in processed' : About[a] = b /\ Outcome[a] = donated'[b]
    <3> HIDE DEF e, d
    <3>1. ASSUME NEW b \in Donation, D!Exists(b)', donated'[b] # "pending_provider"
          PROVE  \E a \in processed' : About[a] = b /\ Outcome[a] = donated'[b]
      <4>1. CASE b = d
        BY <1>0, <1>2, <4>1 DEF d
      <4>2. CASE b # d
        BY <1>0, <1>2, <1>5, <3>1, <4>2 DEF LedgerAgrees, D!LedgerAgrees
      <4>3. QED
        BY <4>1, <4>2
    <3>2. QED
      BY <3>1
  <2>3. \A b \in Donation : D!Exists(b)' <=> purpose'[b] \in D!Purpose
    BY <1>0, <1>5 DEF LedgerAgrees, D!LedgerAgrees
  <2>4. QED
    BY <1>0, <2>1, <2>2, <2>3 DEF LedgerAgrees, D!LedgerAgrees
<1>10. QED
  BY <1>6, <1>7, <1>8, <1>9 DEF DonationsInv

LEMMA AbortCallInv ==
  ASSUME DonationsInv, NEW c \in Handler, D!Abort(c)
  PROVE  DonationsInv'
<1>0. /\ D!TypeOK /\ CallsKnowDonation /\ SettlesOwnEvent /\ LedgerAgrees
      /\ UNCHANGED <<donated, purpose, opened, entries, recorded, processed>>
      /\ D!Finish(c)
  BY DEF DonationsInv, D!Abort, D!donationVars, D!eventVars
<1>1. /\ call' \in [Handler -> D!Waiting \cup {D!Idle}]
      /\ \A b \in Handler \ {c} : call'[b] = call[b]
      /\ call'[c].pc = "idle"
  BY <1>0, CallMoves
<1>2. D!TypeOK'
  BY <1>0, <1>1 DEF D!TypeOK
<1>3. CallsKnowDonation' /\ SettlesOwnEvent'
  BY <1>0, <1>1 DEF CallsKnowDonation, SettlesOwnEvent, Calling, D!Exists
<1>4. LedgerAgrees'
  BY <1>0 DEF LedgerAgrees, D!LedgerAgrees, D!Exists
<1>5. QED
  BY <1>2, <1>3, <1>4 DEF DonationsInv

LEMMA DonationsInvariant == Together => []DonationsInv
<1>1. DonationsInv /\ D!Next => DonationsInv'
  <2>1. ASSUME DonationsInv, NEW d \in Donation, D!CreateIntent(d) \/ D!CreateMaintenanceIntent(d)
        PROVE  DonationsInv'
    BY <2>1, IntendInv DEF D!CreateIntent, D!CreateMaintenanceIntent, D!Purpose
  <2>2. QED
    BY <2>1, IgnoreInv, FindInv, RecordInv, SettleInv, AbortCallInv DEF D!Next
<1>2. DonationsInv /\ UNCHANGED moneyVars => DonationsInv'
  BY DEF DonationsInv, D!TypeOK, CallsKnowDonation, SettlesOwnEvent, LedgerAgrees,
         D!LedgerAgrees, D!Exists, Calling, moneyVars
<1>3. QED
  BY DonationsInit, <1>1, <1>2, PTL DEF Together

(* Donations, ledger and events agree however often an intent or an event  *)
(* is repeated (payment_webhook, create_intent).                           *)
THEOREM LedgerAlwaysAgrees == Spec => []LedgerAgrees
<1>1. DonationsInv => LedgerAgrees
  BY DEF DonationsInv
<1>2. QED
  BY <1>1, DonationsInvariant, FocusIsPart, PTL

-----------------------------------------------------------------------------
(***************************************************************************)
(* Reactions: who has counted holds the post, so that nothing is committed *)
(* between a count that did not wait and its commit.                       *)
(***************************************************************************)
(* The cardinality Reactions counts with is the library's.                 *)
LEMMA CountedRows ==
  ASSUME NEW set
  PROVE  R!Cardinality(set) = Cardinality(set) /\ (R!IsFiniteSet(set) <=> IsFiniteSet(set))
BY DEF R!Cardinality, Cardinality, R!IsFiniteSet, IsFiniteSet

OneCounts == \A g, h \in Handler :
  R!At(g, "counted") /\ R!At(h, "counted") => g = h

WaitersWaited == \A h \in Handler : R!At(h, "waiting") => reacting[h].waited

CountIsExact == \A h \in Handler : R!At(h, "counted") /\ ~reacting[h].waited =>
  reacting[h].count = Cardinality(R!RowsOf(RowKind[reacting[h].row], R!Applied(h)))

ReactionsInv ==
  /\ R!TypeOK
  /\ IsFiniteSet(rows)
  /\ OneCounts
  /\ WaitersWaited
  /\ CountIsExact
  /\ CountsCatchUp

LEMMA ReactionsInit == R!Init => ReactionsInv
<1> SUFFICES ASSUME R!Init PROVE ReactionsInv
  OBVIOUS
<1>1. R!Idle.pc = "idle"
  BY DEF R!Idle
<1>2. R!TypeOK /\ \A h \in Handler : reacting[h].pc = "idle"
  BY <1>1 DEF R!Init, R!TypeOK
<1>3. IsFiniteSet(rows) /\ Cardinality({}) = 0
  BY FS_EmptySet DEF R!Init
<1>4. \A k : R!RowsOf(k, rows) = {}
  BY DEF R!Init, R!RowsOf
<1>5. CountsCatchUp
  BY <1>3, <1>4, CountedRows DEF R!Init, CountsCatchUp, R!CountsCatchUp
<1>6. OneCounts /\ WaitersWaited /\ CountIsExact
  BY <1>2 DEF OneCounts, WaitersWaited, CountIsExact, R!At
<1>7. QED
  BY <1>2, <1>3, <1>5, <1>6 DEF ReactionsInv

LEMMA ReactingTask ==
  ASSUME R!TypeOK, NEW h \in Handler, ~R!At(h, "idle")
  PROVE  reacting[h] \in R!Task
<1>1. R!Idle.pc = "idle"
  BY DEF R!Idle
<1>2. QED
  BY <1>1 DEF R!TypeOK, R!At

LEMMA AppliedFinite ==
  ASSUME IsFiniteSet(rows), R!TypeOK, NEW h \in Handler, ~R!At(h, "idle")
  PROVE  /\ IsFiniteSet(R!Applied(h)) /\ R!Applied(h) \subseteq Row
         /\ \A k : /\ IsFiniteSet(R!RowsOf(k, R!Applied(h)))
                  /\ Cardinality(R!RowsOf(k, R!Applied(h))) \in Nat
         /\ \A k : k # RowKind[reacting[h].row] =>
              R!RowsOf(k, R!Applied(h)) = R!RowsOf(k, rows)
<1>0. rows \subseteq Row /\ reacting[h].row \in Row
  BY ReactingTask DEF R!TypeOK, R!Task
<1>1. \/ R!Applied(h) = rows
      \/ R!Applied(h) = rows \cup {reacting[h].row}
      \/ R!Applied(h) = rows \ {reacting[h].row}
  BY DEF R!Applied
<1>2. IsFiniteSet(R!Applied(h)) /\ R!Applied(h) \subseteq Row
  BY <1>0, <1>1, FS_AddElement, FS_RemoveElement
<1>3. ASSUME NEW k
      PROVE  /\ IsFiniteSet(R!RowsOf(k, R!Applied(h)))
             /\ Cardinality(R!RowsOf(k, R!Applied(h))) \in Nat
  BY <1>2, FS_Subset, FS_CardinalityType DEF R!RowsOf
<1>4. \A k : k # RowKind[reacting[h].row] =>
        R!RowsOf(k, R!Applied(h)) = R!RowsOf(k, rows)
  BY <1>1 DEF R!RowsOf
<1>5. QED
  BY <1>2, <1>3, <1>4

(* One request moves on, and nothing is committed.                         *)
LEMMA ReactInv ==
  ASSUME ReactionsInv, NEW h \in Handler, NEW task \in R!Task \cup {R!Idle},
         R!Become(h, task), UNCHANGED <<rows, count, waited>>,
         task.pc = "waiting" => task.waited,
         task.pc = "counted" =>
           /\ R!PostFree(h)
           /\ ~task.waited =>
                /\ reacting[h].row = task.row /\ reacting[h].change = task.change
                /\ task.count = Cardinality(R!RowsOf(RowKind[task.row], R!Applied(h)))
  PROVE  ReactionsInv'
<1>0. R!TypeOK
  BY DEF ReactionsInv
<1>1. /\ reacting' \in [Handler -> R!Task \cup {R!Idle}]
      /\ \A g \in Handler : reacting'[g] = IF g = h THEN task ELSE reacting[g]
  BY <1>0 DEF R!TypeOK, R!Become
<1>2. R!TypeOK' /\ IsFiniteSet(rows')
  BY <1>0, <1>1 DEF ReactionsInv, R!TypeOK
<1>3. OneCounts'
  BY <1>1 DEF ReactionsInv, OneCounts, R!At, R!PostFree
<1>4. WaitersWaited'
  BY <1>1 DEF ReactionsInv, WaitersWaited, R!At
<1>5. CountIsExact'
  <2>1. ASSUME NEW g \in Handler, reacting'[g].pc = "counted", ~reacting'[g].waited
        PROVE  reacting'[g].count
                 = Cardinality(R!RowsOf(RowKind[reacting'[g].row], R!Applied(g)'))
    <3>1. CASE g = h
      <4>1. R!Applied(g)' = R!Applied(g)
        BY <1>1, <2>1, <3>1 DEF R!Applied
      <4>2. QED
        BY <1>1, <2>1, <3>1, <4>1
    <3>2. CASE g # h
      <4>1. R!Applied(g)' = R!Applied(g)
        BY <1>1, <2>1, <3>2 DEF R!Applied
      <4>2. QED
        BY <1>1, <2>1, <3>2, <4>1 DEF ReactionsInv, CountIsExact, R!At
    <3>3. QED
      BY <3>1, <3>2
  <2>2. QED
    BY <2>1 DEF CountIsExact, R!At, R!RowsOf
<1>6. CountsCatchUp'
  BY DEF ReactionsInv, CountsCatchUp, R!CountsCatchUp, R!RowsOf
<1>7. QED
  BY <1>2, <1>3, <1>4, <1>5, <1>6 DEF ReactionsInv

LEMMA IdleTask == R!Idle.pc = "idle"
BY DEF R!Idle

LEMMA WriteInv ==
  ASSUME ReactionsInv, NEW h \in Handler, NEW r \in Row,
         NEW change \in {"insert", "delete", "none"}, R!Write(h, r, change)
  PROVE  ReactionsInv'
<1> DEFINE task == [pc |-> "written", row |-> r, change |-> change,
                    count |-> 0, waited |-> FALSE]
<1>1. task \in R!Task /\ task.pc = "written"
  BY DEF R!Task
<1>2. R!Become(h, task) /\ UNCHANGED <<rows, count, waited>>
  BY DEF R!Write
<1> HIDE DEF task
<1>3. QED
  BY <1>1, <1>2, ReactInv

LEMMA RecountInv ==
  ASSUME ReactionsInv, NEW h \in Handler, R!Recount(h)
  PROVE  ReactionsInv'
<1> DEFINE n == Cardinality(R!RowsOf(RowKind[reacting[h].row], R!Applied(h)))
           task == [reacting[h] EXCEPT
                      !.pc = IF R!PostFree(h) THEN "counted" ELSE "waiting",
                      !.count = n, !.waited = ~R!PostFree(h)]
<1>0. R!TypeOK /\ IsFiniteSet(rows) /\ ~R!At(h, "idle")
  BY DEF ReactionsInv, R!Recount, R!At
<1>1. reacting[h] \in R!Task /\ n \in Nat
  BY <1>0, ReactingTask, AppliedFinite
<1>2. R!Become(h, task) /\ UNCHANGED <<rows, count, waited>>
  BY CountedRows DEF R!Recount
<1> HIDE DEF n
<1>3. CASE R!PostFree(h)
  <2>1. task \in R!Task
    BY <1>1, <1>3 DEF R!Task
  <2>2. task.row = reacting[h].row /\ task.change = reacting[h].change /\ task.count = n
        /\ task.pc = "counted"
    BY <1>1, <1>3 DEF R!Task
  <2> HIDE DEF task
  <2>3. QED
    BY <1>2, <1>3, <2>1, <2>2, ReactInv DEF n
<1>4. CASE ~R!PostFree(h)
  <2>1. task \in R!Task
    BY <1>1, <1>4 DEF R!Task
  <2>2. task.pc = "waiting" /\ task.waited = TRUE
    BY <1>1, <1>4 DEF R!Task
  <2> HIDE DEF task
  <2>3. QED
    BY <1>2, <2>1, <2>2, ReactInv
<1>5. QED
  BY <1>3, <1>4

LEMMA ProceedInv ==
  ASSUME ReactionsInv, NEW h \in Handler, R!Proceed(h)
  PROVE  ReactionsInv'
<1> DEFINE task == [reacting[h] EXCEPT !.pc = "counted"]
<1>0. R!TypeOK /\ ~R!At(h, "idle") /\ reacting[h].waited /\ R!PostFree(h)
  BY DEF ReactionsInv, R!Proceed, R!At, WaitersWaited
<1>1. reacting[h] \in R!Task
  BY <1>0, ReactingTask
<1>2. R!Become(h, task) /\ UNCHANGED <<rows, count, waited>>
  BY DEF R!Proceed
<1>3. task \in R!Task /\ task.pc = "counted" /\ task.waited = reacting[h].waited
  BY <1>1 DEF R!Task
<1> HIDE DEF task
<1>4. QED
  BY <1>0, <1>2, <1>3, ReactInv

LEMMA AbortReactionInv ==
  ASSUME ReactionsInv, NEW h \in Handler, R!Abort(h)
  PROVE  ReactionsInv'
BY IdleTask, ReactInv DEF R!Abort

LEMMA CommitReactionInv ==
  ASSUME ReactionsInv, NEW h \in Handler, R!Commit(h)
  PROVE  ReactionsInv'
<1> DEFINE k == RowKind[reacting[h].row]
<1>0. /\ R!TypeOK /\ IsFiniteSet(rows) /\ ~R!At(h, "idle") /\ R!At(h, "counted")
      /\ reacting[h] \in R!Task /\ rows' = R!Applied(h)
  BY ReactingTask DEF ReactionsInv, R!Commit, R!At
<1>1. /\ IsFiniteSet(rows') /\ rows' \subseteq Row
      /\ \A j : j # k => R!RowsOf(j, R!Applied(h)) = R!RowsOf(j, rows)
  BY <1>0, AppliedFinite
<1>2. /\ reacting' \in [Handler -> R!Task \cup {R!Idle}]
      /\ \A g \in Handler : reacting'[g] = IF g = h THEN R!Idle ELSE reacting[g]
  BY <1>0 DEF R!TypeOK, R!Commit, R!Become
<1>3. /\ count' = [count EXCEPT ![k] = reacting[h].count]
      /\ waited' = [waited EXCEPT ![k] = reacting[h].waited]
  BY DEF R!Commit
<1>4. reacting[h].count \in Nat /\ reacting[h].waited \in BOOLEAN
  BY <1>0 DEF R!Task
<1> HIDE DEF k
<1>5. R!TypeOK'
  BY <1>0, <1>1, <1>2, <1>3, <1>4 DEF R!TypeOK
<1>6. \A g \in Handler : reacting'[g].pc # "counted"
  BY <1>0, <1>2, IdleTask DEF ReactionsInv, OneCounts, R!At
<1>7. OneCounts' /\ CountIsExact'
  BY <1>6 DEF OneCounts, CountIsExact, R!At
<1>8. WaitersWaited'
  BY <1>2, IdleTask DEF ReactionsInv, WaitersWaited, R!At
<1>9. CountsCatchUp'
  <2>1. ASSUME NEW j \in R!Reaction, ~waited'[j]
        PROVE  count'[j] = Cardinality(R!RowsOf(j, rows'))
    <3>1. CASE j = k
      <4>1. count'[j] = reacting[h].count /\ waited'[j] = reacting[h].waited
        BY <1>0, <1>3, <3>1 DEF R!TypeOK
      <4>2. QED
        BY <1>0, <2>1, <3>1, <4>1 DEF ReactionsInv, CountIsExact, k
    <3>2. CASE j # k
      <4>1. count'[j] = count[j] /\ waited'[j] = waited[j]
        BY <1>0, <1>3, <3>2 DEF R!TypeOK
      <4>2. QED
        BY <1>0, <1>1, <2>1, <3>2, <4>1, CountedRows
        DEF ReactionsInv, CountsCatchUp, R!CountsCatchUp
    <3>3. QED
      BY <3>1, <3>2
  <2>2. QED
    BY <2>1, CountedRows DEF CountsCatchUp, R!CountsCatchUp, R!RowsOf
<1>10. QED
  BY <1>1, <1>5, <1>7, <1>8, <1>9 DEF ReactionsInv

LEMMA ReactionsInvariant == Together => []ReactionsInv
<1>1. ReactionsInv /\ R!Next => ReactionsInv'
  <2>1. ASSUME ReactionsInv, NEW h \in Handler, NEW r \in Row,
               R!Like(h, r) \/ R!Comment(h, r) \/ R!Share(h, r) \/ R!Unlike(h, r)
        PROVE  ReactionsInv'
    <3>1. PICK change \in {"insert", "delete", "none"} : R!Write(h, r, change)
      BY <2>1 DEF R!Like, R!Comment, R!Share, R!Unlike, R!WriteOnce
    <3>2. QED
      BY <2>1, <3>1, WriteInv
  <2>2. QED
    BY <2>1, RecountInv, ProceedInv, CommitReactionInv, AbortReactionInv DEF R!Next
<1>2. ReactionsInv /\ UNCHANGED reactionVars => ReactionsInv'
  BY DEF ReactionsInv, R!TypeOK, OneCounts, WaitersWaited, CountIsExact, CountsCatchUp,
         R!CountsCatchUp, R!At, R!RowsOf, R!Applied, reactionVars
<1>3. QED
  BY ReactionsInit, <1>1, <1>2, PTL DEF Together

(* The counters of a post agree with its rows unless who counted last had  *)
(* to wait (like_post, unlike_post, create_comment, share_post).           *)
THEOREM CountersCatchUp == Spec => []CountsCatchUp
<1>1. ReactionsInv => CountsCatchUp
  BY DEF ReactionsInv
<1>2. QED
  BY <1>1, ReactionsInvariant, FocusIsPart, PTL

-----------------------------------------------------------------------------
(***************************************************************************)
(* AlertFatigue.  To the notifications of a user that count at a moment    *)
(* are added the workers that have chosen the user and not committed yet:  *)
(* a worker that joins them has seen fewer notifications than the limit,   *)
(* and one that commits turns itself into a notification.                  *)
(***************************************************************************)
NoticesOf(u, asked) == IF asked THEN A!Escalations(u) ELSE A!Alerts(u)

Recent(u, asked, age, t) ==
  {n \in NoticesOf(u, asked) : n.at <= t /\ n.at + age > t}

Coming(u, asked, age, t) == {w \in Handler :
  /\ A!At(w, "chosen")
  /\ u \in sending[w].users
  /\ A!Escalates(phase[sending[w].case]) <=> asked
  /\ sending[w].at <= t
  /\ sending[w].at + age > t}

Calm(u, asked, age, limit) == \A t \in 0 .. Horizon :
  \/ Recent(u, asked, age, t) = {} /\ Coming(u, asked, age, t) = {}
  \/ Cardinality(Recent(u, asked, age, t)) + Cardinality(Coming(u, asked, age, t))
       <= limit + Cardinality(Handler) - 1

EverybodyCalm == \A u \in User :
  /\ Calm(u, FALSE, Short, MaxShort)
  /\ Calm(u, FALSE, Long, MaxLong)
  /\ u \notin Specialist => Calm(u, TRUE, Long, MaxLong)

NoticesFinite == \A u \in User, asked \in BOOLEAN : IsFiniteSet(NoticesOf(u, asked))

WorkersApart == \A v, w \in Handler :
  ~A!At(v, "idle") /\ ~A!At(w, "idle") /\ sending[v].case = sending[w].case => v = w

AlertsInv == A!TypeOK /\ NoticesFinite /\ WorkersApart /\ EverybodyCalm

LEMMA AlertConstants ==
  /\ IsFiniteSet(Handler) /\ Cardinality(Handler) \in Nat
  /\ Specialist \subseteq User
  /\ Standard \in Nat /\ Escalation \in Nat /\ Short \in Nat /\ Long \in Nat
  /\ MaxShort \in Nat /\ MaxLong \in Nat /\ Horizon \in Nat
  /\ Short > 0 /\ Long > 0
<1>1. A!IsFiniteSet(Handler) <=> IsFiniteSet(Handler)
  BY DEF A!IsFiniteSet, IsFiniteSet
<1>2. IsFiniteSet(Handler)
  BY <1>1, PlatformAssumption DEF A!AlertFatigueAssumption
<1>3. QED
  BY <1>2, FS_CardinalityType, PlatformAssumption DEF A!AlertFatigueAssumption

(* The cardinality AlertFatigue counts with is the library's.              *)
LEMMA CountedNotices == ASSUME NEW set PROVE A!Cardinality(set) = Cardinality(set)
BY DEF A!Cardinality, Cardinality

LEMMA SendingTask ==
  ASSUME A!TypeOK, NEW w \in Handler, ~A!At(w, "idle")
  PROVE  sending[w] \in A!Task
<1>1. A!Idle.pc = "idle"
  BY DEF A!Idle
<1>2. QED
  BY <1>1 DEF A!TypeOK, A!At

LEMMA RecentFinite ==
  ASSUME NoticesFinite, NEW u \in User, NEW asked \in BOOLEAN, NEW age, NEW t
  PROVE  /\ IsFiniteSet(Recent(u, asked, age, t))
         /\ Cardinality(Recent(u, asked, age, t)) \in Nat
<1>1. Recent(u, asked, age, t) \subseteq NoticesOf(u, asked)
  BY DEF Recent
<1>2. IsFiniteSet(NoticesOf(u, asked))
  BY DEF NoticesFinite
<1>3. QED
  BY <1>1, <1>2, FS_Subset, FS_CardinalityType

LEMMA ComingFinite ==
  ASSUME NEW u, NEW asked, NEW age, NEW t
  PROVE  /\ IsFiniteSet(Coming(u, asked, age, t))
         /\ Cardinality(Coming(u, asked, age, t)) \in Nat
         /\ Cardinality(Coming(u, asked, age, t)) <= Cardinality(Handler)
<1>1. Coming(u, asked, age, t) \subseteq Handler
  BY DEF Coming
<1>2. QED
  BY <1>1, AlertConstants, FS_Subset, FS_CardinalityType

(* What leaves one set may join the other.                                 *)
LEMMA OneMoves ==
  ASSUME NEW few, NEW many, NEW w, NEW x, NEW more, NEW fewer,
         IsFiniteSet(few), IsFiniteSet(many), w \in few,
         fewer \subseteq few \ {w}, more \subseteq many \cup {x}
  PROVE  /\ Cardinality(more) \in Nat /\ Cardinality(fewer) \in Nat
         /\ Cardinality(many) \in Nat /\ Cardinality(few) \in Nat
         /\ Cardinality(more) + Cardinality(fewer) <= Cardinality(many) + Cardinality(few)
<1>1. /\ IsFiniteSet(few \ {w}) /\ Cardinality(few \ {w}) = Cardinality(few) - 1
      /\ IsFiniteSet(many \cup {x}) /\ Cardinality(many \cup {x}) \in Nat
      /\ Cardinality(many \cup {x}) <= Cardinality(many) + 1
      /\ Cardinality(few) \in Nat /\ Cardinality(many) \in Nat
  BY FS_RemoveElement, FS_AddElement, FS_CardinalityType
<1>2. /\ Cardinality(fewer) <= Cardinality(few) - 1 /\ Cardinality(fewer) \in Nat
  BY <1>1, FS_Subset, FS_CardinalityType
<1>3. /\ Cardinality(more) <= Cardinality(many) + 1 /\ Cardinality(more) \in Nat
  BY <1>1, FS_Subset, FS_CardinalityType
<1>4. QED
  BY <1>1, <1>2, <1>3

(* A user stays calm if at most one worker turns into a notification.      *)
LEMMA CalmKept ==
  ASSUME NoticesFinite, NEW u \in User, NEW asked \in BOOLEAN, NEW age \in Nat,
         NEW limit \in Nat, Calm(u, asked, age, limit), NEW w, NEW x,
         \A t \in 0 .. Horizon :
           \/ /\ Recent(u, asked, age, t)' \subseteq Recent(u, asked, age, t)
              /\ Coming(u, asked, age, t)' \subseteq Coming(u, asked, age, t)
           \/ /\ w \in Coming(u, asked, age, t)
              /\ Coming(u, asked, age, t)' \subseteq Coming(u, asked, age, t) \ {w}
              /\ Recent(u, asked, age, t)' \subseteq Recent(u, asked, age, t) \cup {x}
  PROVE  Calm(u, asked, age, limit)'
<1>1. ASSUME NEW t \in 0 .. Horizon
      PROVE  \/ Recent(u, asked, age, t)' = {} /\ Coming(u, asked, age, t)' = {}
             \/ Cardinality(Recent(u, asked, age, t)') + Cardinality(Coming(u, asked, age, t)')
                  <= limit + Cardinality(Handler) - 1
  <2> DEFINE many == Recent(u, asked, age, t)
             few == Coming(u, asked, age, t)
             more == Recent(u, asked, age, t)'
             fewer == Coming(u, asked, age, t)'
  <2>1. IsFiniteSet(many) /\ IsFiniteSet(few)
    BY RecentFinite, ComingFinite
  <2>2. \/ more \subseteq many /\ fewer \subseteq few
        \/ w \in few /\ fewer \subseteq few \ {w} /\ more \subseteq many \cup {x}
    OBVIOUS
  <2>3. \/ many = {} /\ few = {}
        \/ Cardinality(many) + Cardinality(few) <= limit + Cardinality(Handler) - 1
    BY DEF Calm
  <2> HIDE DEF many, few, more, fewer
  <2>4. /\ Cardinality(more) \in Nat /\ Cardinality(fewer) \in Nat
        /\ Cardinality(many) \in Nat /\ Cardinality(few) \in Nat
        /\ Cardinality(more) + Cardinality(fewer) <= Cardinality(many) + Cardinality(few)
    <3>1. CASE more \subseteq many /\ fewer \subseteq few
      <4>1. /\ IsFiniteSet(more) /\ Cardinality(more) <= Cardinality(many)
            /\ IsFiniteSet(fewer) /\ Cardinality(fewer) <= Cardinality(few)
        BY <2>1, <3>1, FS_Subset
      <4>2. QED
        BY <2>1, <4>1, FS_CardinalityType
    <3>2. CASE w \in few /\ fewer \subseteq few \ {w} /\ more \subseteq many \cup {x}
      BY <2>1, <3>2, OneMoves
    <3>3. QED
      BY <2>2, <3>1, <3>2
  <2>5. \/ more = {} /\ fewer = {}
        \/ Cardinality(more) + Cardinality(fewer) <= limit + Cardinality(Handler) - 1
    <3>1. CASE many = {} /\ few = {}
      BY <2>2, <3>1
    <3>2. CASE Cardinality(many) + Cardinality(few) <= limit + Cardinality(Handler) - 1
      BY <2>4, <3>2, AlertConstants
    <3>3. QED
      BY <2>3, <3>1, <3>2
  <2>6. QED
    BY <2>5 DEF more, fewer
<1>2. QED
  BY <1>1 DEF Calm

(* A worker may choose a user who was notified less often than the limit.  *)
LEMMA CalmChosen ==
  ASSUME NoticesFinite, NEW u \in User, NEW asked \in BOOLEAN, NEW age \in Nat,
         NEW limit \in Nat, Calm(u, asked, age, limit), NEW w,
         \A t \in 0 .. Horizon :
           /\ Recent(u, asked, age, t)' = Recent(u, asked, age, t)
           /\ \/ Coming(u, asked, age, t)' \subseteq Coming(u, asked, age, t)
              \/ Cardinality(Recent(u, asked, age, t)) < limit
  PROVE  Calm(u, asked, age, limit)'
<1>1. ASSUME NEW t \in 0 .. Horizon
      PROVE  \/ Recent(u, asked, age, t)' = {} /\ Coming(u, asked, age, t)' = {}
             \/ Cardinality(Recent(u, asked, age, t)') + Cardinality(Coming(u, asked, age, t)')
                  <= limit + Cardinality(Handler) - 1
  <2> DEFINE many == Recent(u, asked, age, t)
             few == Coming(u, asked, age, t)
             more == Recent(u, asked, age, t)'
             fewer == Coming(u, asked, age, t)'
  <2>1. /\ IsFiniteSet(few) /\ Cardinality(many) \in Nat /\ Cardinality(few) \in Nat
        /\ more = many
    BY RecentFinite, ComingFinite
  <2>2. Cardinality(fewer) \in Nat /\ Cardinality(fewer) <= Cardinality(Handler)
    <3>1. Coming(u, asked, age, t)' \subseteq Handler
      BY DEF Coming
    <3>2. QED
      BY <3>1, AlertConstants, FS_Subset, FS_CardinalityType
  <2>3. \/ many = {} /\ few = {}
        \/ Cardinality(many) + Cardinality(few) <= limit + Cardinality(Handler) - 1
    BY DEF Calm
  <2>4. fewer \subseteq few \/ Cardinality(many) < limit
    OBVIOUS
  <2> HIDE DEF many, few, more, fewer
  <2>5. CASE fewer \subseteq few
    <3>1. Cardinality(fewer) <= Cardinality(few)
      BY <2>1, <2>5, FS_Subset
    <3>2. QED
      BY <2>1, <2>2, <2>3, <2>5, <3>1, AlertConstants DEF more, fewer
  <2>6. CASE Cardinality(many) < limit
    BY <2>1, <2>2, <2>6, AlertConstants DEF more, fewer
  <2>7. QED
    BY <2>4, <2>5, <2>6
<1>2. QED
  BY <1>1 DEF Calm

LEMMA EverybodyKept ==
  ASSUME NoticesFinite, EverybodyCalm, NEW w,
         \A u \in User : \E x : \A asked \in BOOLEAN, age \in Nat, t \in 0 .. Horizon :
           \/ /\ Recent(u, asked, age, t)' \subseteq Recent(u, asked, age, t)
              /\ Coming(u, asked, age, t)' \subseteq Coming(u, asked, age, t)
           \/ /\ w \in Coming(u, asked, age, t)
              /\ Coming(u, asked, age, t)' \subseteq Coming(u, asked, age, t) \ {w}
              /\ Recent(u, asked, age, t)' \subseteq Recent(u, asked, age, t) \cup {x}
  PROVE  EverybodyCalm'
<1>1. ASSUME NEW u \in User, NEW asked \in BOOLEAN, NEW age \in Nat, NEW limit \in Nat,
             Calm(u, asked, age, limit)
      PROVE  Calm(u, asked, age, limit)'
  <2>1. PICK x : \A t \in 0 .. Horizon :
           \/ /\ Recent(u, asked, age, t)' \subseteq Recent(u, asked, age, t)
              /\ Coming(u, asked, age, t)' \subseteq Coming(u, asked, age, t)
           \/ /\ w \in Coming(u, asked, age, t)
              /\ Coming(u, asked, age, t)' \subseteq Coming(u, asked, age, t) \ {w}
              /\ Recent(u, asked, age, t)' \subseteq Recent(u, asked, age, t) \cup {x}
    OBVIOUS
  <2>2. QED
    BY <1>1, <2>1, CalmKept
<1>2. QED
  BY <1>1, AlertConstants DEF EverybodyCalm

LEMMA SendingMoves ==
  ASSUME A!TypeOK, NEW w \in Handler, NEW task \in A!Task \cup {A!Idle}, A!Become(w, task)
  PROVE  /\ sending' \in [Handler -> A!Task \cup {A!Idle}]
         /\ \A v \in Handler : sending'[v] = IF v = w THEN task ELSE sending[v]
BY DEF A!TypeOK, A!Become

LEMMA NobodySends == A!Idle \in A!Task \cup {A!Idle} /\ A!Idle.pc = "idle"
BY DEF A!Idle

LEMMA AlertsInit == A!Init => AlertsInv
<1> SUFFICES ASSUME A!Init PROVE AlertsInv
  OBVIOUS
<1>1. A!TypeOK
  BY AlertConstants DEF A!Init, A!TypeOK, A!Soft
<1>2. \A u, asked : NoticesOf(u, asked) = {}
  BY DEF A!Init, NoticesOf, A!Alerts, A!Escalations
<1>3. NoticesFinite
  BY <1>2, FS_EmptySet DEF NoticesFinite
<1>4. \A w \in Handler : sending[w].pc = "idle"
  BY NobodySends DEF A!Init
<1>5. WorkersApart
  BY <1>4 DEF WorkersApart, A!At
<1>6. \A u, asked, age, t : Recent(u, asked, age, t) = {} /\ Coming(u, asked, age, t) = {}
  BY <1>2, <1>4 DEF Recent, Coming, A!At
<1>7. EverybodyCalm
  BY <1>6 DEF EverybodyCalm, Calm
<1>8. QED
  BY <1>1, <1>3, <1>5, <1>7 DEF AlertsInv

(* A step that commits nothing and chooses nobody.                         *)
LEMMA QuietStep ==
  ASSUME AlertsInv, now' \in 0 .. Horizon, UNCHANGED <<phase, notes>>,
         sending' \in [Handler -> A!Task \cup {A!Idle}], WorkersApart',
         \A v \in Handler : sending'[v] = sending[v] \/ sending'[v].pc # "chosen"
  PROVE  AlertsInv'
<1>0. A!TypeOK /\ NoticesFinite /\ EverybodyCalm
  BY DEF AlertsInv
<1>1. A!TypeOK'
  BY <1>0 DEF A!TypeOK
<1>2. \A u, asked : NoticesOf(u, asked)' = NoticesOf(u, asked)
  BY DEF NoticesOf, A!Alerts, A!Escalations
<1>3. NoticesFinite'
  BY <1>0, <1>2 DEF NoticesFinite
<1>4. \A u, asked, age, t :
        /\ Recent(u, asked, age, t)' \subseteq Recent(u, asked, age, t)
        /\ Coming(u, asked, age, t)' \subseteq Coming(u, asked, age, t)
  BY <1>2 DEF Recent, Coming, A!At
<1>5. EverybodyCalm'
  BY <1>0, <1>4, EverybodyKept
<1>6. QED
  BY <1>1, <1>3, <1>5 DEF AlertsInv

LEMMA TimePassesInv == AlertsInv /\ A!TimePasses => AlertsInv'
<1> SUFFICES ASSUME AlertsInv, A!TimePasses PROVE AlertsInv'
  OBVIOUS
<1>1. now' \in 0 .. Horizon
  BY AlertConstants DEF AlertsInv, A!TypeOK, A!TimePasses
<1>2. sending' = sending /\ UNCHANGED <<phase, notes>>
  BY DEF A!TimePasses
<1>3. WorkersApart' /\ sending' \in [Handler -> A!Task \cup {A!Idle}]
  BY <1>2 DEF AlertsInv, WorkersApart, A!At, A!TypeOK
<1>4. QED
  BY <1>1, <1>2, <1>3, QuietStep

LEMMA ClaimInv ==
  ASSUME AlertsInv, NEW w \in Handler, NEW c \in Case, A!Claim(w, c)
  PROVE  AlertsInv'
<1> DEFINE task == [pc |-> "claimed", case |-> c, at |-> now, users |-> {}]
<1>0. A!TypeOK
  BY DEF AlertsInv
<1>1. task \in A!Task /\ task.pc = "claimed" /\ task.case = c
  BY <1>0 DEF A!TypeOK, A!Task
<1>2. A!Become(w, task) /\ UNCHANGED <<now, phase, notes>>
  BY DEF A!Claim
<1> HIDE DEF task
<1>3. /\ sending' \in [Handler -> A!Task \cup {A!Idle}]
      /\ \A v \in Handler : sending'[v] = IF v = w THEN task ELSE sending[v]
  BY <1>0, <1>1, <1>2, SendingMoves
<1>4. WorkersApart'
  BY <1>1, <1>3 DEF AlertsInv, WorkersApart, A!At, A!Claim
<1>5. now' \in 0 .. Horizon
  BY <1>0, <1>2 DEF A!TypeOK
<1>6. QED
  BY <1>1, <1>2, <1>3, <1>4, <1>5, QuietStep

LEMMA AbortSendingInv ==
  ASSUME AlertsInv, NEW w \in Handler, A!Abort(w)
  PROVE  AlertsInv'
<1>0. A!TypeOK
  BY DEF AlertsInv
<1>1. A!Become(w, A!Idle) /\ UNCHANGED <<now, phase, notes>>
  BY DEF A!Abort
<1>2. /\ sending' \in [Handler -> A!Task \cup {A!Idle}]
      /\ \A v \in Handler : sending'[v] = IF v = w THEN A!Idle ELSE sending[v]
  BY <1>0, <1>1, NobodySends, SendingMoves
<1>3. WorkersApart'
  BY <1>2, NobodySends DEF AlertsInv, WorkersApart, A!At
<1>4. now' \in 0 .. Horizon
  BY <1>0, <1>1 DEF A!TypeOK
<1>5. QED
  BY <1>1, <1>2, <1>3, <1>4, NobodySends, QuietStep

(* Who chose at an earlier moment saw all that counts at this one.         *)
LEMMA SeenThen ==
  ASSUME A!TypeOK, NoticesFinite, NEW u \in User, NEW asked \in BOOLEAN,
         NEW age \in Nat, NEW t \in Nat, NEW a \in Nat, a <= t,
         NEW seen, NoticesOf(u, asked) \subseteq seen, IsFiniteSet(seen), seen \subseteq notes
  PROVE  /\ A!Since(seen, age, a) \in Nat
         /\ Cardinality(Recent(u, asked, age, t)) \in Nat
         /\ Cardinality(Recent(u, asked, age, t)) <= A!Since(seen, age, a)
<1> DEFINE shown == {n \in seen : n.at + age > a}
<1>1. \A n \in seen : n.at \in Nat
  BY AlertConstants DEF A!TypeOK, A!Notification
<1>2. Recent(u, asked, age, t) \subseteq shown
  BY <1>1 DEF Recent
<1>3. IsFiniteSet(shown)
  BY FS_Subset
<1>4. A!Since(seen, age, a) = Cardinality(shown)
  BY CountedNotices DEF A!Since
<1> HIDE DEF shown
<1>5. QED
  BY <1>2, <1>3, <1>4, FS_Subset, FS_CardinalityType

(* A worker chooses users, and each of those whose alerts are limited was  *)
(* notified less often.                                                    *)
LEMMA PickInv ==
  ASSUME AlertsInv, NEW w \in Handler, NEW users \in SUBSET User, A!At(w, "claimed"),
         A!Become(w, [sending[w] EXCEPT !.pc = "chosen", !.users = users]),
         UNCHANGED <<now, phase, notes>>,
         \A u \in users : LET a == sending[w].at IN
           IF A!Escalates(phase[sending[w].case])
           THEN u \notin Specialist =>
                  \A t \in Nat : a <= t => Cardinality(Recent(u, TRUE, Long, t)) < MaxLong
           ELSE \A t \in Nat : a <= t =>
                  /\ Cardinality(Recent(u, FALSE, Short, t)) < MaxShort
                  /\ Cardinality(Recent(u, FALSE, Long, t)) < MaxLong
  PROVE  AlertsInv'
<1> DEFINE task == [sending[w] EXCEPT !.pc = "chosen", !.users = users]
<1>0. A!TypeOK /\ NoticesFinite /\ EverybodyCalm /\ sending[w] \in A!Task
  BY SendingTask DEF AlertsInv, A!At
<1>1. /\ task \in A!Task /\ task.pc = "chosen" /\ task.users = users
      /\ task.case = sending[w].case /\ task.at = sending[w].at
  BY <1>0 DEF A!Task
<1>2. A!Become(w, task)
  OBVIOUS
<1> HIDE DEF task
<1>3. /\ sending' \in [Handler -> A!Task \cup {A!Idle}]
      /\ \A v \in Handler : sending'[v] = IF v = w THEN task ELSE sending[v]
  BY <1>0, <1>1, <1>2, SendingMoves
<1>4. A!TypeOK'
  BY <1>0, <1>3 DEF A!TypeOK
<1>5. \A u, asked : NoticesOf(u, asked)' = NoticesOf(u, asked)
  BY DEF NoticesOf, A!Alerts, A!Escalations
<1>6. NoticesFinite'
  BY <1>0, <1>5 DEF NoticesFinite
<1>7. WorkersApart'
  BY <1>1, <1>3 DEF AlertsInv, WorkersApart, A!At
<1>8. EverybodyCalm'
  <2>1. \A u, asked, age, t : Recent(u, asked, age, t)' = Recent(u, asked, age, t)
    BY <1>5 DEF Recent
  <2>2. ASSUME NEW u \in User, NEW asked \in BOOLEAN, NEW age \in Nat, NEW t \in 0 .. Horizon
        PROVE  \/ Coming(u, asked, age, t)' \subseteq Coming(u, asked, age, t)
               \/ /\ u \in users /\ (A!Escalates(phase[sending[w].case]) <=> asked)
                  /\ sending[w].at <= t
    BY <1>1, <1>3 DEF Coming, A!At
  <2>3. ASSUME NEW u \in User
        PROVE  /\ Calm(u, FALSE, Short, MaxShort)'
               /\ Calm(u, FALSE, Long, MaxLong)'
               /\ u \notin Specialist => Calm(u, TRUE, Long, MaxLong)'
    <3>1. ASSUME NEW asked \in BOOLEAN, NEW age \in Nat, NEW limit \in Nat,
                 Calm(u, asked, age, limit), NEW t \in 0 .. Horizon,
                 u \in users /\ (A!Escalates(phase[sending[w].case]) <=> asked) =>
                   \A s \in Nat : sending[w].at <= s =>
                     Cardinality(Recent(u, asked, age, s)) < limit
          PROVE  /\ Recent(u, asked, age, t)' = Recent(u, asked, age, t)
                 /\ \/ Coming(u, asked, age, t)' \subseteq Coming(u, asked, age, t)
                    \/ Cardinality(Recent(u, asked, age, t)) < limit
      BY <2>1, <2>2, <3>1, AlertConstants
    <3>2. ASSUME NEW asked \in BOOLEAN, NEW age \in Nat, NEW limit \in Nat,
                 Calm(u, asked, age, limit),
                 u \in users /\ (A!Escalates(phase[sending[w].case]) <=> asked) =>
                   \A s \in Nat : sending[w].at <= s =>
                     Cardinality(Recent(u, asked, age, s)) < limit
          PROVE  Calm(u, asked, age, limit)'
      BY <1>0, <3>1, <3>2, CalmChosen
    <3>3. Calm(u, FALSE, Short, MaxShort)'
      BY <1>0, <3>2, AlertConstants DEF EverybodyCalm
    <3>4. Calm(u, FALSE, Long, MaxLong)'
      BY <1>0, <3>2, AlertConstants DEF EverybodyCalm
    <3>5. ASSUME u \notin Specialist PROVE Calm(u, TRUE, Long, MaxLong)'
      BY <1>0, <3>2, <3>5, AlertConstants DEF EverybodyCalm
    <3>6. QED
      BY <3>3, <3>4, <3>5
  <2>4. QED
    BY <2>3 DEF EverybodyCalm
<1>9. QED
  BY <1>4, <1>6, <1>7, <1>8 DEF AlertsInv

LEMMA Below ==
  ASSUME NEW x \in Nat, NEW y \in Nat, NEW m \in Nat, x <= y, y < m
  PROVE  x < m
OBVIOUS

LEMMA ChooseInv ==
  ASSUME AlertsInv, NEW w \in Handler, A!Choose(w)
  PROVE  AlertsInv'
<1> DEFINE a == sending[w].at
           c == sending[w].case
<1>0. A!TypeOK /\ NoticesFinite /\ A!At(w, "claimed") /\ UNCHANGED <<now, phase, notes>>
      /\ ~A!Escalates(phase[sending[w].case])
  BY DEF AlertsInv, A!Choose
<1>1. a \in Nat
  BY <1>0, SendingTask, AlertConstants DEF A!At, A!Task
<1>2. PICK users \in SUBSET {u \in User : A!MayAlert(u, c, a)} :
        A!Become(w, [sending[w] EXCEPT !.pc = "chosen", !.users = users])
  BY DEF A!Choose, A!Pick
<1>3. ASSUME NEW u \in users, NEW t \in Nat, a <= t
      PROVE  /\ Cardinality(Recent(u, FALSE, Short, t)) < MaxShort
             /\ Cardinality(Recent(u, FALSE, Long, t)) < MaxLong
  <2>1. u \in User /\ A!Since(A!Alerts(u), Short, a) < MaxShort
        /\ A!Since(A!Alerts(u), Long, a) < MaxLong
    BY <1>2 DEF A!MayAlert
  <2>2. NoticesOf(u, FALSE) = A!Alerts(u) /\ A!Alerts(u) \subseteq notes
        /\ IsFiniteSet(A!Alerts(u))
    BY <1>0, <2>1 DEF NoticesOf, NoticesFinite, A!Alerts
  <2>3. ASSUME NEW age \in Nat
        PROVE  /\ A!Since(A!Alerts(u), age, a) \in Nat
               /\ Cardinality(Recent(u, FALSE, age, t)) \in Nat
               /\ Cardinality(Recent(u, FALSE, age, t)) <= A!Since(A!Alerts(u), age, a)
    BY <1>0, <1>1, <1>3, <2>1, <2>2, SeenThen
  <2>4. /\ A!Since(A!Alerts(u), Short, a) \in Nat
        /\ Cardinality(Recent(u, FALSE, Short, t)) \in Nat
        /\ Cardinality(Recent(u, FALSE, Short, t)) <= A!Since(A!Alerts(u), Short, a)
    BY <2>3, AlertConstants
  <2>5. /\ A!Since(A!Alerts(u), Long, a) \in Nat
        /\ Cardinality(Recent(u, FALSE, Long, t)) \in Nat
        /\ Cardinality(Recent(u, FALSE, Long, t)) <= A!Since(A!Alerts(u), Long, a)
    BY <2>3, AlertConstants
  <2>6. MaxShort \in Nat /\ MaxLong \in Nat
    BY AlertConstants
  <2>7. Cardinality(Recent(u, FALSE, Short, t)) < MaxShort
    BY <2>1, <2>4, <2>6, Below
  <2>8. Cardinality(Recent(u, FALSE, Long, t)) < MaxLong
    BY <2>1, <2>5, <2>6, Below
  <2>9. QED
    BY <2>7, <2>8
<1>4. users \subseteq User
  BY <1>2
<1>5. QED
  BY <1>0, <1>2, <1>3, <1>4, PickInv

LEMMA ChooseSpecialistsInv ==
  ASSUME AlertsInv, NEW w \in Handler, A!ChooseSpecialists(w)
  PROVE  AlertsInv'
<1> DEFINE a == sending[w].at
<1>0. A!TypeOK /\ NoticesFinite /\ A!At(w, "claimed") /\ UNCHANGED <<now, phase, notes>>
      /\ A!Escalates(phase[sending[w].case])
  BY DEF AlertsInv, A!ChooseSpecialists
<1>1. a \in Nat
  BY <1>0, SendingTask, AlertConstants DEF A!At, A!Task
<1>2. PICK users \in SUBSET User :
        /\ A!Become(w, [sending[w] EXCEPT !.pc = "chosen", !.users = users])
        /\ \A u \in users : u \notin Specialist => A!MayAsk(u, a)
  <2>1. CASE A!Pick(w, Specialist)
    BY <2>1, AlertConstants DEF A!Pick
  <2>2. CASE A!Pick(w, {u \in User : A!MayAsk(u, a)})
    BY <2>2 DEF A!Pick
  <2>3. QED
    BY <2>1, <2>2 DEF A!ChooseSpecialists
<1>3. ASSUME NEW u \in users, u \notin Specialist, NEW t \in Nat, a <= t
      PROVE  Cardinality(Recent(u, TRUE, Long, t)) < MaxLong
  <2> DEFINE seen == A!Alerts(u) \cup A!Escalations(u)
  <2>1. u \in User /\ A!Since(seen, Long, a) < MaxLong
    BY <1>2, <1>3 DEF A!MayAsk
  <2>2. NoticesOf(u, TRUE) = A!Escalations(u) /\ NoticesOf(u, FALSE) = A!Alerts(u)
        /\ seen \subseteq notes
    BY DEF NoticesOf, A!Alerts, A!Escalations
  <2>3. IsFiniteSet(seen)
    BY <1>0, <2>1, <2>2, FS_Union DEF NoticesFinite
  <2>4. NoticesOf(u, TRUE) \subseteq seen
    BY <2>2
  <2> HIDE DEF seen
  <2>5. /\ A!Since(seen, Long, a) \in Nat
        /\ Cardinality(Recent(u, TRUE, Long, t)) \in Nat
        /\ Cardinality(Recent(u, TRUE, Long, t)) <= A!Since(seen, Long, a)
    BY <1>0, <1>1, <1>3, <2>1, <2>2, <2>3, <2>4, SeenThen, AlertConstants
  <2>6. QED
    BY <2>1, <2>5, AlertConstants, Below
<1>4. QED
  BY <1>0, <1>2, <1>3, PickInv

(* A commit makes a notification of each choice, unless there is one.      *)
LEMMA CommitAlertsInv ==
  ASSUME AlertsInv, NEW w \in Handler, A!Commit(w)
  PROVE  AlertsInv'
<1> DEFINE c == sending[w].case
           asks == A!Escalates(phase[c])
           note(u) == [user |-> u, case |-> c, key |-> A!Key(phase[c]), at |-> sending[w].at]
<1>0. /\ A!TypeOK /\ NoticesFinite /\ WorkersApart /\ EverybodyCalm
      /\ A!At(w, "chosen") /\ sending[w] \in A!Task
      /\ notes' = notes \cup {note(u) : u \in sending[w].users}
      /\ phase' = [phase EXCEPT ![c] = IF @ < A!Soft THEN @ + 1 ELSE @]
      /\ now' = now /\ A!Become(w, A!Idle)
  BY SendingTask DEF AlertsInv, A!Commit, A!At
<1>1. /\ c \in Case /\ sending[w].at \in 0 .. Horizon /\ sending[w].users \subseteq User
  BY <1>0 DEF A!Task
<1>2. /\ phase[c] \in 1 .. A!Soft /\ phase' \in [Case -> 1 .. A!Soft]
      /\ \A b \in Case \ {c} : phase'[b] = phase[b]
      /\ A!Soft \in Nat
  BY <1>0, <1>1, AlertConstants DEF A!TypeOK, A!Soft
<1>3. A!Key(phase[c]) \in 0 .. A!Soft /\ (A!Key(phase[c]) # 0 <=> asks)
  BY <1>2, AlertConstants DEF A!Key, A!Escalates
<1>4. /\ sending' \in [Handler -> A!Task \cup {A!Idle}]
      /\ \A v \in Handler : sending'[v] = IF v = w THEN A!Idle ELSE sending[v]
  BY <1>0, NobodySends, SendingMoves
<1>5. A!TypeOK'
  <2>1. \A u \in sending[w].users : note(u) \in A!Notification
    BY <1>1, <1>3 DEF A!Notification
  <2>2. notes' \subseteq A!Notification
    BY <1>0, <2>1 DEF A!TypeOK
  <2>3. QED
    BY <1>0, <1>2, <1>4, <2>2 DEF A!TypeOK
<1>6. WorkersApart'
  BY <1>0, <1>4, NobodySends DEF WorkersApart, A!At
<1>7. ASSUME NEW u \in User, NEW asked \in BOOLEAN
      PROVE  /\ NoticesOf(u, asked)' \subseteq NoticesOf(u, asked) \cup {note(u)}
             /\ ~(u \in sending[w].users /\ (asks <=> asked)) =>
                  NoticesOf(u, asked)' \subseteq NoticesOf(u, asked)
  <2> DEFINE key == A!Key(phase[c])
             at == sending[w].at
             kase == sending[w].case
  <2> HIDE DEF key, at, kase, asks
  <2>1. \A n \in notes' : n \in notes \/ \E b \in sending[w].users : n = note(b)
    BY <1>0
  <2>2. \A b : note(b).user = b /\ note(b).key = key
    BY DEF key
  <2>3. key # 0 <=> asks
    BY <1>3 DEF key, asks
  <2> HIDE DEF note
  <2>4. QED
    BY <2>1, <2>2, <2>3 DEF NoticesOf, A!Alerts, A!Escalations
<1>8. NoticesFinite'
  <2>1. ASSUME NEW u \in User, NEW asked \in BOOLEAN
        PROVE  IsFiniteSet(NoticesOf(u, asked)')
    <3>1. IsFiniteSet(NoticesOf(u, asked) \cup {note(u)})
      BY <1>0, FS_AddElement DEF NoticesFinite
    <3>2. NoticesOf(u, asked)' \subseteq NoticesOf(u, asked) \cup {note(u)}
      BY <1>7
    <3>3. QED
      BY <3>1, <3>2, FS_Subset
  <2>2. QED
    BY <2>1 DEF NoticesFinite
<1>9. EverybodyCalm'
  <2>1. ASSUME NEW u \in User, NEW asked \in BOOLEAN, NEW age \in Nat, NEW t \in 0 .. Horizon
        PROVE  \/ /\ Recent(u, asked, age, t)' \subseteq Recent(u, asked, age, t)
                  /\ Coming(u, asked, age, t)' \subseteq Coming(u, asked, age, t)
               \/ /\ w \in Coming(u, asked, age, t)
                  /\ Coming(u, asked, age, t)' \subseteq Coming(u, asked, age, t) \ {w}
                  /\ Recent(u, asked, age, t)' \subseteq Recent(u, asked, age, t) \cup {note(u)}
    <3>1. ASSUME NEW v \in Coming(u, asked, age, t)'
          PROVE  v \in Coming(u, asked, age, t) \ {w}
      <4>1. v \in Handler \ {w} /\ sending'[v] = sending[v]
        BY <1>4, NobodySends DEF Coming, A!At
      <4>2. sending[v].case \in Case \ {c}
        BY <1>0, <4>1, SendingTask DEF Coming, WorkersApart, A!At, A!Task
      <4>3. phase'[sending[v].case] = phase[sending[v].case]
        BY <1>2, <4>2
      <4>4. QED
        BY <4>1, <4>3 DEF Coming, A!At
    <3>2. Recent(u, asked, age, t)' \subseteq Recent(u, asked, age, t) \cup {note(u)}
      BY <1>7 DEF Recent
    <3>3. w \notin Coming(u, asked, age, t) =>
            Recent(u, asked, age, t)' \subseteq Recent(u, asked, age, t)
      <4>1. note(u).at = sending[w].at
        OBVIOUS
      <4>2. CASE ~(u \in sending[w].users /\ (asks <=> asked))
        BY <1>7, <4>2 DEF Recent
      <4>3. CASE /\ u \in sending[w].users /\ (asks <=> asked)
                 /\ w \notin Coming(u, asked, age, t)
        <5>1. ~(sending[w].at <= t /\ sending[w].at + age > t)
          BY <1>0, <4>3 DEF Coming
        <5> HIDE DEF note
        <5>2. QED
          BY <1>7, <4>1, <5>1 DEF Recent
      <4>4. QED
        BY <4>2, <4>3
    <3> HIDE DEF note
    <3>4. QED
      BY <3>1, <3>2, <3>3
  <2> HIDE DEF note
  <2>2. QED
    BY <1>0, <2>1, EverybodyKept
<1>10. QED
  BY <1>5, <1>6, <1>8, <1>9 DEF AlertsInv

LEMMA AlertsInvariant == Together => []AlertsInv
<1>1. AlertsInv /\ A!Next => AlertsInv'
  BY TimePassesInv, ClaimInv, ChooseInv, ChooseSpecialistsInv, CommitAlertsInv, AbortSendingInv
  DEF A!Next
<1>2. AlertsInv /\ UNCHANGED alertVars => AlertsInv'
  <2>1. ASSUME AlertsInv, UNCHANGED alertVars PROVE AlertsInv'
    <3>1. sending' = sending /\ now' = now /\ UNCHANGED <<phase, notes>>
      BY <2>1 DEF alertVars
    <3>2. now' \in 0 .. Horizon /\ WorkersApart'
          /\ sending' \in [Handler -> A!Task \cup {A!Idle}]
      BY <2>1, <3>1 DEF AlertsInv, A!TypeOK, WorkersApart, A!At
    <3>3. QED
      BY <2>1, <3>1, <3>2, QuietStep
  <2>2. QED
    BY <2>1
<1>3. QED
  BY AlertsInit, <1>1, <1>2, PTL DEF Together

LEMMA CalmBounds ==
  ASSUME AlertsInv, NEW u \in User, NEW asked \in BOOLEAN, NEW age \in Nat, age > 0,
         NEW limit \in Nat, Calm(u, asked, age, limit)
  PROVE  A!Bounded(NoticesOf(u, asked), age, limit)
<1>1. ASSUME NEW last \in NoticesOf(u, asked)
      PROVE  A!Cardinality({n \in NoticesOf(u, asked) :
                              n.at <= last.at /\ n.at + age > last.at})
               <= limit + A!Cardinality(Handler) - 1
  <2> DEFINE t == last.at
  <2>1. t \in 0 .. Horizon /\ t \in Nat
    BY AlertConstants DEF AlertsInv, A!TypeOK, A!Notification, NoticesOf, A!Alerts, A!Escalations
  <2>2. last \in Recent(u, asked, age, t)
    BY <2>1 DEF Recent
  <2>3. Cardinality(Recent(u, asked, age, t)) + Cardinality(Coming(u, asked, age, t))
          <= limit + Cardinality(Handler) - 1
    BY <2>1, <2>2 DEF Calm
  <2>4. Cardinality(Recent(u, asked, age, t)) \in Nat /\ Cardinality(Coming(u, asked, age, t)) \in Nat
    BY RecentFinite, ComingFinite DEF AlertsInv
  <2>5. Cardinality(Recent(u, asked, age, t)) <= limit + Cardinality(Handler) - 1
    BY <2>3, <2>4, AlertConstants
  <2>6. QED
    BY <2>5, CountedNotices DEF Recent
<1>2. QED
  BY <1>1 DEF A!Bounded

LEMMA LimitsFollow == AlertsInv => NobodyIsFlooded
<1>1. ASSUME AlertsInv, NEW u \in User
      PROVE  /\ A!Bounded(A!Alerts(u), Short, MaxShort)
             /\ A!Bounded(A!Alerts(u), Long, MaxLong)
             /\ u \notin Specialist => A!Bounded(A!Escalations(u), Long, MaxLong)
  <2>1. NoticesOf(u, FALSE) = A!Alerts(u) /\ NoticesOf(u, TRUE) = A!Escalations(u)
    BY DEF NoticesOf
  <2>2. A!Bounded(NoticesOf(u, FALSE), Short, MaxShort)
    BY <1>1, CalmBounds, AlertConstants DEF AlertsInv, EverybodyCalm
  <2>3. A!Bounded(NoticesOf(u, FALSE), Long, MaxLong)
    BY <1>1, CalmBounds, AlertConstants DEF AlertsInv, EverybodyCalm
  <2>4. u \notin Specialist => A!Bounded(NoticesOf(u, TRUE), Long, MaxLong)
    BY <1>1, CalmBounds, AlertConstants DEF AlertsInv, EverybodyCalm
  <2>5. QED
    BY <2>1, <2>2, <2>3, <2>4
<1>2. QED
  BY <1>1 DEF NobodyIsFlooded, A!NobodyIsFlooded

(* However many cases are dispatched at the same time, a user is alerted   *)
(* only so often (ranked_candidates, ranked_verified_regional_fallback).   *)
THEOREM LimitsHold == Spec => []NobodyIsFlooded
BY LimitsFollow, AlertsInvariant, FocusIsPart, PTL

-----------------------------------------------------------------------------
(***************************************************************************)
(* All of them at the same time.                                           *)
(***************************************************************************)
AllInv ==
  /\ CredentialsInv /\ VerificationInv /\ DonationsInv
  /\ SessionsInv /\ ReactionsInv /\ AlertsInv

LEMMA AllInvariant == Together => []AllInv
<1>1. AllInv <=> CredentialsInv /\ VerificationInv /\ DonationsInv
                   /\ SessionsInv /\ ReactionsInv /\ AlertsInv
  BY DEF AllInv
<1>2. QED
  BY <1>1, CredentialsInvariant, VerificationInvariant, DonationsInvariant,
     SessionsInvariant, ReactionsInvariant, AlertsInvariant, PTL

(* Every component's state keeps its type, in every step of any of them.   *)
THEOREM PlatformTypes == Spec => []TypeOK
<1>1. AllInv => TypeOK
  BY DEF AllInv, CredentialsInv, VerificationInv, DonationsInv, SessionsInv, ReactionsInv,
         AlertsInv, TypeOK
<1>2. QED
  BY <1>1, AllInvariant, FocusIsPart, PTL

(* The run explores one component after the other; its safety properties   *)
(* hold as well while all of them run, in any interleaving (Platform).     *)
THEOREM SafeTogether ==
  Together => /\ [](ResetEndsSessions /\ VerifiedIsApproved /\ LedgerAgrees)
              /\ [](OnlyRotationsDeadlock /\ CountsCatchUp /\ NobodyIsFlooded)
              /\ RotatesOnce /\ ReviewedTextStays
<1>1. AllInv => /\ ResetEndsSessions /\ VerifiedIsApproved /\ LedgerAgrees
                /\ OnlyRotationsDeadlock /\ CountsCatchUp /\ NobodyIsFlooded
  BY LimitsFollow, CirclesFollow DEF AllInv, CredentialsInv, VerificationInv, DonationsInv,
                                     ReactionsInv
<1>2. QED
  BY <1>1, AllInvariant, RotatesOnceTogether, ReviewedTogether, PTL
=============================================================================
