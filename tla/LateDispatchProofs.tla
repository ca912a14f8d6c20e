------------------------- MODULE LateDispatchProofs -------------------------
(***************************************************************************)
(* How late a phase may be, proved for every instance.                     *)
(***************************************************************************)
EXTENDS LateDispatch, RescueFanoutProofs

(***************************************************************************)
(* The strengthening.  A worker about to dispatch has counted nobody, so   *)
(* no phase can have been late before it; a worker inside its transaction  *)
(* claimed the row while the post was not resolved.  With the row lock (at *)
(* most one worker inside, in IInv) each commit can be late only once.     *)
(***************************************************************************)
LateCounts == late \in [going : 0 .. 1, resolved : 0 .. 1]

NobodyGoing == Going = {} => late.going = 0

NotResolved == post # "resolved" => late.resolved = 0

RunnerIsFirst == \A w \in Worker : worker[w].pc = "run" => late.going = 0

InsiderIsFirst == \A w \in Worker : worker[w].pc # "idle" => late.resolved = 0

LateInv == LateCounts /\ NobodyGoing /\ NotResolved /\ RunnerIsFirst /\ InsiderIsFirst

LEMMA LateImpliesSpec == LateSpec => Spec
<1>1. LateInit => Init
  BY DEF LateInit
<1>2. [LateNext]_lateVars => [Next]_vars
  BY DEF LateNext, lateVars
<1>3. QED
  BY <1>1, <1>2, PTL DEF LateSpec, Spec

LEMMA LateInitInv == LateInit => LateInv
BY DEF LateInit, Init, Free, LateInv, LateCounts, NobodyGoing, NotResolved,
       RunnerIsFirst, InsiderIsFirst

(* The tallies after a step, by what the step does.                        *)
LEMMA QuietTally ==
  ASSUME LateInv, LateNext, ~Dispatched
  PROVE  /\ LateCounts'
         /\ late'.going = (IF Going' = {} THEN 0 ELSE late.going)
         /\ late'.resolved = (IF post' # "resolved" THEN 0 ELSE late.resolved)
BY DEF LateInv, LateCounts, LateNext, Tally

LEMMA DispatchTally ==
  ASSUME LateInv, LateNext, late.going = 0, late.resolved = 0
  PROVE  /\ LateCounts' /\ NobodyGoing' /\ NotResolved'
BY DEF LateInv, LateCounts, LateNext, Tally, NobodyGoing, NotResolved

(* Only a worker's commit moves the next run into the future.              *)
LEMMA OnlyCommitsDispatch ==
  ASSUME TypeOK, Next,
         ~ \E w \in Worker : WorkerDispatch(w) \/ WorkerSoft(w)
  PROVE  ~Dispatched
<1> USE DEF Dispatched, caseVars, alertVars
<1>0. row \in Row
  BY DEF TypeOK
<1>1. CASE AuthorStep
  BY <1>0, <1>1 DEF AuthorStep, Trigger, TriggerEnqueue, TriggerCrash, End,
                    ReplayEnqueue, Enqueue, Row
<1>2. CASE HelperStep \/ HelperCrash
  BY <1>0, <1>2 DEF HelperStep, HelperCrash, RespondCheck, RespondUpsert,
            RespondReadCounts, RespondWriteCounts, RespondPause, RespondCrash,
            WithCounts, PauseIfConfirmed, Row
<1>3. CASE TimePasses \/ Expire
  BY <1>0, <1>3 DEF TimePasses, Expire, Row
<1>4. ASSUME NEW w \in Worker,
             \/ WorkerClaim(w) \/ WorkerPause(w) \/ WorkerProceed(w)
             \/ WorkerExhaust(w) \/ WorkerAbort(w)
      PROVE  ~Dispatched
  BY <1>0, <1>4 DEF WorkerClaim, WorkerPause, WorkerProceed, WorkerExhaust,
                    WorkerAbort, Finished, WithCounts, Row
<1>5. QED
  BY <1>1, <1>2, <1>3, <1>4 DEF Next, Uninterrupted, WorkerStep

(* Where a worker may be after a step that commits no phase: where it was, *)
(* outside, just claimed a row of an open case, or just counted nobody.    *)
LEMMA WorkerMoves ==
  ASSUME TypeOK, Next, NEW v \in Worker,
         ~ \E w \in Worker : WorkerDispatch(w) \/ WorkerSoft(w)
  PROVE  \/ worker'[v].pc \in {worker[v].pc, "idle"}
         \/ worker'[v].pc = "count" /\ post # "resolved" /\ UNCHANGED post
         \/ /\ worker[v].pc = "count" /\ worker'[v].pc = "run"
            /\ Counts.confirmed = 0 /\ UNCHANGED <<response, post>>
<1> USE DEF caseVars, alertVars
<1>1. CASE AuthorStep
  BY <1>1 DEF AuthorStep, Trigger, TriggerEnqueue, TriggerCrash, End, ReplayEnqueue
<1>2. CASE HelperStep \/ HelperCrash
  BY <1>2 DEF HelperStep, HelperCrash, RespondCheck, RespondUpsert,
              RespondReadCounts, RespondWriteCounts, RespondPause, RespondCrash
<1>3. CASE TimePasses \/ Expire
  BY <1>3 DEF TimePasses, Expire
<1>4. ASSUME NEW w \in Worker, WorkerClaim(w)
      PROVE  \/ worker'[v].pc = worker[v].pc
             \/ worker'[v].pc = "count" /\ post # "resolved" /\ UNCHANGED post
  BY <1>4 DEF WorkerClaim, Free, TypeOK
<1>5. ASSUME NEW w \in Worker, WorkerPause(w) \/ WorkerExhaust(w) \/ WorkerAbort(w)
      PROVE  worker'[v].pc \in {worker[v].pc, "idle"}
  BY <1>5 DEF WorkerPause, WorkerExhaust, WorkerAbort, Free, TypeOK
<1>6. ASSUME NEW w \in Worker, WorkerProceed(w)
      PROVE  \/ worker'[v].pc = worker[v].pc
             \/ /\ worker[v].pc = "count" /\ worker'[v].pc = "run"
                /\ Counts.confirmed = 0 /\ UNCHANGED <<response, post>>
  BY <1>6 DEF WorkerProceed, TypeOK
<1>7. QED
  BY <1>1, <1>2, <1>3, <1>4, <1>5, <1>6 DEF Next, Uninterrupted, WorkerStep

LEMMA LateNextInv == IInv /\ LateInv /\ [LateNext]_lateVars => LateInv'
<1> SUFFICES ASSUME IInv, LateInv, [LateNext]_lateVars PROVE LateInv'
  OBVIOUS
<1>0. TypeOK
  BY DEF IInv
<1>1. CASE UNCHANGED lateVars
  BY <1>1 DEF lateVars, vars, LateInv, LateCounts, NobodyGoing, NotResolved,
              RunnerIsFirst, InsiderIsFirst, Going
<1>2. ASSUME LateNext, NEW w \in Worker, WorkerDispatch(w) \/ WorkerSoft(w)
      PROVE  LateInv'
  <2>1. worker[w].pc = "run" /\ worker' = [worker EXCEPT ![w] = Free]
    BY <1>2 DEF WorkerDispatch, WorkerSoft
  <2>2. late.going = 0 /\ late.resolved = 0
    BY <2>1 DEF LateInv, RunnerIsFirst, InsiderIsFirst
  <2>3. \A v \in Worker : worker'[v].pc = "idle"
    BY <1>0, <2>1 DEF IInv, OneWorkerInside, TypeOK, Free
  <2>4. QED
    BY <1>2, <2>2, <2>3, DispatchTally DEF LateInv, RunnerIsFirst, InsiderIsFirst
<1>3. ASSUME LateNext, ~ \E w \in Worker : WorkerDispatch(w) \/ WorkerSoft(w)
      PROVE  LateInv'
  <2>1. Next /\ ~Dispatched
    BY <1>0, <1>3, OnlyCommitsDispatch DEF LateNext
  <2>2. /\ LateCounts'
        /\ late'.going = (IF Going' = {} THEN 0 ELSE late.going)
        /\ late'.resolved = (IF post' # "resolved" THEN 0 ELSE late.resolved)
    BY <1>3, <2>1, QuietTally
  <2>3. NobodyGoing' /\ NotResolved'
    BY <2>2 DEF NobodyGoing, NotResolved
  <2>4. RunnerIsFirst'
    <3> SUFFICES ASSUME NEW v \in Worker, worker'[v].pc = "run"
                 PROVE  late'.going = 0
      BY DEF RunnerIsFirst
    <3>1. CASE worker[v].pc = "run"
      BY <2>2, <3>1 DEF LateInv, RunnerIsFirst
    <3>2. CASE worker[v].pc # "run"
      <4>1. Counts.confirmed = 0 /\ UNCHANGED response
        BY <1>0, <1>3, <2>1, <3>2, WorkerMoves
      <4>2. Going' = {}
        BY <4>1, CountsFacts DEF Going
      <4>3. QED
        BY <2>2, <4>2
    <3>3. QED
      BY <3>1, <3>2
  <2>5. InsiderIsFirst'
    <3> SUFFICES ASSUME NEW v \in Worker, worker'[v].pc # "idle"
                 PROVE  late'.resolved = 0
      BY DEF InsiderIsFirst
    <3>1. CASE worker[v].pc # "idle"
      BY <2>2, <3>1 DEF LateInv, InsiderIsFirst
    <3>2. CASE worker[v].pc = "idle"
      <4>1. post # "resolved" /\ UNCHANGED post
        BY <1>0, <1>3, <2>1, <3>2, WorkerMoves
      <4>2. QED
        BY <2>2, <4>1
    <3>3. QED
      BY <3>1, <3>2
  <2>6. QED
    BY <2>2, <2>3, <2>4, <2>5 DEF LateInv
<1>4. QED
  BY <1>1, <1>2, <1>3

LEMMA LateInductive == LateSpec => []LateInv
BY LateInitInv, LateNextInv, LateImpliesSpec, Inductive, PTL DEF LateSpec

(* While a helper stays on the way, at most one phase goes out: the one    *)
(* whose worker had counted the responses before the helper's answer.      *)
THEOREM OneLatePhaseAfterGoing == LateSpec => []AtMostOnePhaseAfterGoing
<1>1. LateInv => AtMostOnePhaseAfterGoing
  BY DEF LateInv, LateCounts, AtMostOnePhaseAfterGoing
<1>2. QED
  BY <1>1, LateInductive, PTL

(* While the case stays resolved, at most one phase goes out: the one      *)
(* whose worker had read the post before the author's request.             *)
THEOREM OneLatePhaseAfterResolved == LateSpec => []AtMostOnePhaseAfterResolved
<1>1. LateInv => AtMostOnePhaseAfterResolved
  BY DEF LateInv, LateCounts, AtMostOnePhaseAfterResolved
<1>2. QED
  BY <1>1, LateInductive, PTL
=============================================================================
