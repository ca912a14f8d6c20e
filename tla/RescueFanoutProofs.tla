------------------------- MODULE RescueFanoutProofs -------------------------
(***************************************************************************)
(* What TLC checks on small instances of RescueFanout, proved for every    *)
(* number of phases, users, devices, handlers, workers and sessions.       *)
(***************************************************************************)
EXTENDS RescueFanout, FiniteSetTheorems, TLAPS

(***************************************************************************)
(* The phases.                                                             *)
(***************************************************************************)
LEMMA PhaseFacts ==
  /\ SoftPhase \in Nat /\ SoftPhase \in Phase /\ 1 \in Phase
  /\ StandardPhase \cup EscalationPhase = Phase \ {SoftPhase}
  /\ RescueKey \in Key
  /\ \A p \in Phase : KeyOf(p) \in Key
  /\ \A p \in Phase : NextPhase(p) \in Phase
  /\ \A p \in Phase : p # SoftPhase => NextPhase(p) = p + 1
BY PhaseAssumption
   DEF SoftPhase, Phase, StandardPhase, EscalationPhase, RescueKey, Key, KeyOf,
       NextPhase

LEMMA SoftKey == KeyOf(SoftPhase) = RescueKey
BY PhaseAssumption DEF SoftPhase, KeyOf, EscalationPhase

(***************************************************************************)
(* The statements keep the row well-typed.                                 *)
(***************************************************************************)
LEMMA RowFacts ==
  ASSUME NEW r \in Row
  PROVE  /\ Enqueue(r) \in Row
         /\ PauseIfConfirmed(r) \in Row
         /\ \A c \in CountPair : WithCounts(r, c) \in Row
         /\ Rescheduled(r) \in Row
         /\ \A s \in Status : Finished(r, s) \in Row
         /\ [r EXCEPT !.status = "paused"] \in Row
         /\ [r EXCEPT !.due = TRUE] \in Row
BY PhaseFacts
   DEF Row, Enqueue, PauseIfConfirmed, WithCounts, CountPair, Rescheduled,
       Finished, Status, Terminal

LEMMA CountsFacts ==
  /\ Counts \in CountPair
  /\ ZeroCounts \in CountPair
  /\ Counts.confirmed = 0 <=> Going = {}
<1>1. IsFiniteSet(Going) /\ IsFiniteSet(OnSite)
  BY FanoutAssumption, FS_Subset DEF Going, OnSite
<1>2. Cardinality(Going) \in Nat /\ Cardinality(OnSite) \in Nat
  BY <1>1, FS_CardinalityType
<1>3. Cardinality(Going) = 0 <=> Going = {}
  BY <1>1, FS_EmptySet
<1>4. QED
  BY <1>2, <1>3 DEF Counts, CountPair, ZeroCounts

(***************************************************************************)
(* Type correctness.                                                       *)
(***************************************************************************)
LEMMA InitType == Init => TypeOK
<1> SUFFICES ASSUME Init PROVE TypeOK
  OBVIOUS
<1>1. row \in Row
  BY PhaseFacts DEF Init, FreshRow, Row, Status, Terminal
<1>2. handler \in [Handler ->
        [pc : {"idle", "upsert", "read", "write", "pause"},
         user : User \cup {"none"}, answer : Answer \cup {"none"},
         saw : CountPair]]
  BY CountsFacts DEF Init, Idle
<1>3. worker \in [Worker -> [pc : {"idle", "count", "run"}, saw : CountPair]]
  BY CountsFacts DEF Init, Free
<1>4. replays \in 0 .. MaxReplay
  BY FanoutAssumption DEF Init
<1>5. QED
  BY <1>1, <1>2, <1>3, <1>4 DEF Init, TypeOK

LEMMA AuthorType == TypeOK /\ AuthorStep => TypeOK'
<1> SUFFICES ASSUME TypeOK, AuthorStep PROVE TypeOK'
  OBVIOUS
<1> USE DEF TypeOK, caseVars, alertVars
<1>1. ASSUME NEW s \in Session, Trigger(s) PROVE TypeOK'
  BY <1>1 DEF Trigger
<1>2. ASSUME NEW s \in Session, TriggerEnqueue(s) PROVE TypeOK'
  BY <1>2, RowFacts DEF TriggerEnqueue
<1>3. ASSUME NEW s \in Session, TriggerCrash(s) PROVE TypeOK'
  BY <1>3 DEF TriggerCrash
<1>4. ASSUME NEW s \in Session, End(s) PROVE TypeOK'
  BY <1>4 DEF End
<1>5. CASE ReplayEnqueue
  <2>1. replays \in 0 .. MaxReplay /\ replays > 0 /\ replays' = replays - 1
    BY <1>5 DEF ReplayEnqueue
  <2>2. replays' \in 0 .. MaxReplay
    BY ONLY <2>1, FanoutAssumption
  <2>3. QED
    BY <1>5, <2>2, RowFacts DEF ReplayEnqueue
<1>6. QED
  BY <1>1, <1>2, <1>3, <1>4, <1>5 DEF AuthorStep

LEMMA HelperType == TypeOK /\ (HelperStep \/ HelperCrash) => TypeOK'
<1> SUFFICES ASSUME TypeOK, HelperStep \/ HelperCrash PROVE TypeOK'
  OBVIOUS
<1> USE DEF TypeOK, caseVars, alertVars, Idle
<1>1. ASSUME NEW h \in Handler, NEW u \in User, NEW a \in Answer \cup {"none"},
             RespondCheck(h, u, a)
      PROVE  TypeOK'
  BY <1>1, CountsFacts DEF RespondCheck
<1>2. ASSUME NEW h \in Handler, RespondUpsert(h) PROVE TypeOK'
  BY <1>2, CountsFacts DEF RespondUpsert
<1>3. ASSUME NEW h \in Handler, RespondReadCounts(h) PROVE TypeOK'
  BY <1>3, CountsFacts DEF RespondReadCounts
<1>4. ASSUME NEW h \in Handler, RespondWriteCounts(h) PROVE TypeOK'
  BY <1>4, CountsFacts, RowFacts DEF RespondWriteCounts
<1>5. ASSUME NEW h \in Handler, RespondPause(h) PROVE TypeOK'
  BY <1>5, CountsFacts, RowFacts DEF RespondPause
<1>6. ASSUME NEW h \in Handler, RespondCrash(h) PROVE TypeOK'
  BY <1>6, CountsFacts DEF RespondCrash
<1>7. QED
  BY <1>1, <1>2, <1>3, <1>4, <1>5, <1>6 DEF HelperStep, HelperCrash

LEMMA PersistType ==
  ASSUME TypeOK, NEW k \in Key, NEW chosen \in SUBSET Device, Persist(k, chosen)
  PROVE  events' \in SUBSET (Key \X User) /\ jobs' \in [Key \X Device -> Nat]
BY FanoutAssumption DEF TypeOK, Persist

LEMMA WorkerType == TypeOK /\ WorkerStep => TypeOK'
<1> SUFFICES ASSUME TypeOK, WorkerStep PROVE TypeOK'
  OBVIOUS
<1> USE DEF caseVars, alertVars, Free
<1>0. row \in Row /\ row.phase \in Phase
  BY DEF TypeOK, Row
<1>1. ASSUME NEW w \in Worker, WorkerClaim(w) PROVE TypeOK'
  <2>1. CASE post = "resolved"
    <3>1. row' \in Row
      BY <1>0, <1>1, <2>1, RowFacts DEF WorkerClaim, Status, Terminal
    <3>2. QED
      BY <1>1, <2>1, <3>1 DEF TypeOK, WorkerClaim
  <2>2. CASE post # "resolved"
    BY <1>1, <2>2, CountsFacts DEF TypeOK, WorkerClaim
  <2>3. QED
    BY <2>1, <2>2
<1>2. ASSUME NEW w \in Worker, WorkerPause(w) PROVE TypeOK'
  BY <1>2, <1>0, RowFacts, CountsFacts DEF TypeOK, WorkerPause
<1>3. ASSUME NEW w \in Worker, WorkerProceed(w) PROVE TypeOK'
  BY <1>3, CountsFacts DEF TypeOK, WorkerProceed
<1>4. ASSUME NEW w \in Worker, WorkerDispatch(w) PROVE TypeOK'
  <2>1. PICK chosen \in SUBSET Device : Persist(KeyOf(row.phase), chosen)
    BY <1>4 DEF WorkerDispatch
  <2>2. events' \in SUBSET (Key \X User) /\ jobs' \in [Key \X Device -> Nat]
    BY <2>1, <1>0, PhaseFacts, PersistType
  <2>3. WithCounts(row, worker[w].saw) \in Row
    BY <1>0, RowFacts DEF TypeOK
  <2>4. row' \in Row
    BY <1>4, <2>3, RowFacts DEF WorkerDispatch
  <2>5. row.phase \in StandardPhase \cup EscalationPhase
    BY <1>4, <1>0, PhaseFacts DEF WorkerDispatch
  <2>6. QED
    BY <1>4, <2>2, <2>4, <2>5, CountsFacts DEF TypeOK, WorkerDispatch
<1>5. ASSUME NEW w \in Worker, WorkerSoft(w) PROVE TypeOK'
  <2>1. PICK chosen \in SUBSET Device : Persist(RescueKey, chosen)
    BY <1>5 DEF WorkerSoft
  <2>2. events' \in SUBSET (Key \X User) /\ jobs' \in [Key \X Device -> Nat]
    BY <2>1, PhaseFacts, PersistType
  <2>3. WithCounts(row, worker[w].saw) \in Row
    BY <1>0, RowFacts DEF TypeOK
  <2>4. row' \in Row
    BY <1>5, <2>3, RowFacts DEF WorkerSoft
  <2>5. QED
    BY <1>5, <2>2, <2>4, CountsFacts DEF TypeOK, WorkerSoft
<1>6. ASSUME NEW w \in Worker, WorkerExhaust(w) PROVE TypeOK'
  <2>1. WithCounts(row, worker[w].saw) \in Row
    BY <1>0, RowFacts DEF TypeOK
  <2>2. row' \in Row
    BY <1>6, <2>1, RowFacts DEF WorkerExhaust, Status, Terminal
  <2>3. QED
    BY <1>6, <2>2, CountsFacts DEF TypeOK, WorkerExhaust
<1>7. ASSUME NEW w \in Worker, WorkerAbort(w) PROVE TypeOK'
  BY <1>7, CountsFacts DEF TypeOK, WorkerAbort
<1>8. QED
  BY <1>1, <1>2, <1>3, <1>4, <1>5, <1>6, <1>7 DEF WorkerStep

LEMMA NextType == TypeOK /\ [Next]_vars => TypeOK'
<1> SUFFICES ASSUME TypeOK, [Next]_vars PROVE TypeOK'
  OBVIOUS
<1>1. CASE TimePasses
  BY <1>1, RowFacts DEF TypeOK, TimePasses, caseVars, alertVars
<1>2. CASE Expire
  BY <1>2 DEF TypeOK, Expire, caseVars, alertVars
<1>3. CASE UNCHANGED vars
  BY <1>3 DEF TypeOK, vars
<1>4. QED
  BY <1>1, <1>2, <1>3, AuthorType, HelperType, WorkerType
     DEF Next, Uninterrupted

(* Every variable keeps its type.                                          *)
THEOREM TypeCorrect == Spec => []TypeOK
BY InitType, NextType, PTL DEF Spec

(***************************************************************************)
(* The inductive invariant.  OneAlertPerUser and PhasesInOrder are not     *)
(* inductive alone: a job is refused because its event is there, and the   *)
(* two must agree; a worker inside its transaction has the row to itself,  *)
(* so the row it commits on is still the active row it claimed.            *)
(***************************************************************************)
JobsFollowEvents ==
  \A k \in Key, d \in Device : jobs[<<k, d>>] > 0 => <<k, Owner[d]>> \in events

OneWorkerInside ==
  \A v, w \in Worker :
    worker[v].pc # "idle" /\ worker[w].pc # "idle" => v = w

InsideMeansActive ==
  \A w \in Worker : worker[w].pc # "idle" => row.status = "active" /\ row.due

IInv == /\ TypeOK
        /\ JobsFollowEvents
        /\ OneWorkerInside
        /\ InsideMeansActive
        /\ OneAlertPerUser
        /\ PhasesInOrder

LEMMA InitInductive == Init => IInv
<1> SUFFICES ASSUME Init PROVE IInv
  OBVIOUS
<1>1. \A k \in Key, d \in Device : jobs[<<k, d>>] = 0
  BY DEF Init
<1>2. JobsFollowEvents /\ OneAlertPerUser
  BY <1>1 DEF JobsFollowEvents, OneAlertPerUser
<1>3. OneWorkerInside /\ InsideMeansActive
  BY DEF Init, OneWorkerInside, InsideMeansActive, Free
<1>4. PhasesInOrder
  BY PhaseFacts DEF Init, PhasesInOrder, FreshRow, Phase
<1>5. QED
  BY InitType, <1>2, <1>3, <1>4 DEF IInv

(* The steps that dispatch nothing: alerts and phase stay as they are.     *)
Quiet ==
  /\ UNCHANGED <<events, jobs, attempts>>
  /\ row'.phase = row.phase

LEMMA QuietAlerts ==
  JobsFollowEvents /\ OneAlertPerUser /\ PhasesInOrder /\ Quiet
    => JobsFollowEvents' /\ OneAlertPerUser' /\ PhasesInOrder'
BY DEF JobsFollowEvents, OneAlertPerUser, PhasesInOrder, Quiet

(* A step that leaves the workers alone touches status and due of the row  *)
(* only when no worker is inside, or keeps them.                           *)
LEMMA OutsideStep ==
  ASSUME IInv, Quiet, TypeOK',
         UNCHANGED worker,
         ~RowLocked \/ UNCHANGED <<row.status, row.due>>
                    \/ (row'.status = row.status /\ row'.due = TRUE)
  PROVE  IInv'
<1>1. OneWorkerInside' /\ InsideMeansActive'
  BY DEF IInv, OneWorkerInside, InsideMeansActive, RowLocked
<1>2. QED
  BY <1>1, QuietAlerts DEF IInv

(* What a worker's commit does to the alerts.                              *)
LEMMA PersistAlerts ==
  ASSUME TypeOK, JobsFollowEvents, OneAlertPerUser,
         NEW k \in Key, NEW chosen \in SUBSET Device, Persist(k, chosen)
  PROVE  JobsFollowEvents' /\ OneAlertPerUser'
<1> USE DEF TypeOK
<1>1. \A x \in Key \X Device :
        jobs'[x] = IF x[1] = k /\ x[2] \in chosen THEN jobs[x] + 1 ELSE jobs[x]
  BY DEF Persist
<1>2. \A j \in Key, d \in Device :
        jobs'[<<j, d>>] = IF j = k /\ d \in chosen
                          THEN jobs[<<j, d>>] + 1 ELSE jobs[<<j, d>>]
  BY <1>1
<1>3. \A j \in Key, d \in Device : jobs[<<j, d>>] \in Nat
  OBVIOUS
<1>4. \A d \in chosen : \A e \in Device :
        Owner[e] = Owner[d] => jobs[<<k, e>>] = 0
  <2> SUFFICES ASSUME NEW d \in chosen, NEW e \in Device, Owner[e] = Owner[d]
               PROVE  jobs[<<k, e>>] = 0
    OBVIOUS
  <2>1. <<k, Owner[e]>> \notin events
    BY DEF Persist
  <2>2. ~(jobs[<<k, e>>] > 0)
    BY <2>1 DEF JobsFollowEvents
  <2>3. jobs[<<k, e>>] \in Nat
    BY <1>3
  <2>4. QED
    BY <2>2, <2>3
<1>5. JobsFollowEvents'
  <2> SUFFICES ASSUME NEW j \in Key, NEW d \in Device, jobs'[<<j, d>>] > 0
               PROVE  <<j, Owner[d]>> \in events'
    BY DEF JobsFollowEvents
  <2>1. CASE j = k /\ d \in chosen
    BY <2>1 DEF Persist
  <2>2. CASE ~(j = k /\ d \in chosen)
    BY <2>2, <1>2 DEF Persist, JobsFollowEvents
  <2>3. QED
    BY <2>1, <2>2
<1>6. OneAlertPerUser'
  <2> SUFFICES ASSUME NEW j \in Key, NEW d \in Device, NEW e \in Device,
                      Owner[d] = Owner[e],
                      jobs'[<<j, d>>] > 0, jobs'[<<j, e>>] > 0
               PROVE  d = e /\ jobs'[<<j, d>>] = 1
    BY DEF OneAlertPerUser
  <2>1. CASE j # k
    BY <2>1, <1>2 DEF OneAlertPerUser
  <2>2. CASE j = k /\ d \notin chosen /\ e \notin chosen
    BY <2>2, <1>2 DEF OneAlertPerUser
  <2>3. CASE j = k /\ d \in chosen
    <3>1. jobs[<<k, d>>] = 0 /\ jobs[<<k, e>>] = 0
      BY <2>3, <1>4
    <3>2. e \in chosen
      BY <2>3, <3>1, <1>2
    <3>3. QED
      BY <2>3, <3>1, <3>2, <1>2 DEF Persist
  <2>4. CASE j = k /\ e \in chosen
    <3>1. jobs[<<k, d>>] = 0 /\ jobs[<<k, e>>] = 0
      BY <2>4, <1>4
    <3>2. d \in chosen
      BY <2>4, <3>1, <1>2
    <3>3. QED
      BY <2>4, <3>1, <3>2, <1>2 DEF Persist
  <2>5. QED
    BY <2>1, <2>2, <2>3, <2>4
<1>7. QED
  BY <1>5, <1>6

LEMMA AuthorInductive == IInv /\ AuthorStep => IInv'
<1> SUFFICES ASSUME IInv, AuthorStep PROVE IInv'
  OBVIOUS
<1> USE DEF caseVars, alertVars
<1>0. TypeOK /\ TypeOK' /\ row \in Row
  BY AuthorType DEF IInv, TypeOK
<1>1. UNCHANGED worker /\ Quiet
  BY <1>0 DEF AuthorStep, Trigger, TriggerEnqueue, TriggerCrash, End,
              ReplayEnqueue, Quiet, Enqueue, Row
<1>2. ~RowLocked \/ UNCHANGED row
  BY DEF AuthorStep, Trigger, TriggerEnqueue, TriggerCrash, End, ReplayEnqueue
<1>3. QED
  BY <1>0, <1>1, <1>2, OutsideStep

LEMMA HelperInductive == IInv /\ (HelperStep \/ HelperCrash) => IInv'
<1> SUFFICES ASSUME IInv, HelperStep \/ HelperCrash PROVE IInv'
  OBVIOUS
<1> USE DEF caseVars, alertVars
<1>0. TypeOK /\ TypeOK' /\ row \in Row
  BY HelperType DEF IInv, TypeOK
<1>1. UNCHANGED worker /\ Quiet
  BY <1>0 DEF HelperStep, HelperCrash, RespondCheck, RespondUpsert,
              RespondReadCounts, RespondWriteCounts, RespondPause, RespondCrash,
              Quiet, WithCounts, PauseIfConfirmed, Row
<1>2. ~RowLocked \/ UNCHANGED row
  BY DEF HelperStep, HelperCrash, RespondCheck, RespondUpsert,
         RespondReadCounts, RespondWriteCounts, RespondPause, RespondCrash
<1>3. QED
  BY <1>0, <1>1, <1>2, OutsideStep

LEMMA TimeInductive ==
  IInv /\ (TimePasses \/ Expire \/ UNCHANGED vars) => IInv'
<1> SUFFICES ASSUME IInv, TimePasses \/ Expire \/ UNCHANGED vars PROVE IInv'
  OBVIOUS
<1> USE DEF caseVars, alertVars, vars
<1>0. TypeOK /\ TypeOK' /\ row \in Row
  BY NextType DEF IInv, TypeOK, Next, Uninterrupted
<1>1. UNCHANGED worker /\ Quiet
  BY <1>0 DEF TimePasses, Expire, Quiet, Row
<1>2. UNCHANGED row \/ (row'.status = row.status /\ row'.due = TRUE)
  BY <1>0 DEF TimePasses, Expire, Row
<1>3. QED
  BY <1>0, <1>1, <1>2, OutsideStep

(* A worker that leaves its transaction, or one that enters a free row.    *)
LEMMA LeaveTransaction ==
  ASSUME IInv, NEW w \in Worker, worker[w].pc # "idle",
         worker' = [worker EXCEPT ![w] = Free]
  PROVE  OneWorkerInside' /\ InsideMeansActive'
BY DEF IInv, TypeOK, OneWorkerInside, InsideMeansActive, Free

LEMMA DispatchOrder ==
  ASSUME TypeOK, PhasesInOrder, row.phase # SoftPhase,
         attempts' = [attempts EXCEPT ![row.phase] = @ + 1],
         row'.phase = row.phase + 1
  PROVE  PhasesInOrder'
<1>1. row.phase \in Phase /\ row.phase \in DOMAIN attempts
  BY PhaseFacts DEF TypeOK, Row
<1>2. DOMAIN attempts' = DOMAIN attempts /\ DOMAIN attempts \subseteq Nat
  BY PhaseFacts DEF TypeOK, Phase
<1>3. \A p \in DOMAIN attempts :
        attempts'[p] = IF p = row.phase THEN attempts[p] + 1 ELSE attempts[p]
  BY <1>1 DEF TypeOK
<1>4. attempts[row.phase] = 0
  BY <1>1, PhaseFacts DEF PhasesInOrder, Phase
<1>5. QED
  BY <1>1, <1>2, <1>3, <1>4 DEF PhasesInOrder, Phase

LEMMA WorkerInductive == IInv /\ WorkerStep => IInv'
<1> SUFFICES ASSUME IInv, WorkerStep PROVE IInv'
  OBVIOUS
<1> USE DEF caseVars, alertVars
<1>0. TypeOK /\ TypeOK' /\ row \in Row /\ row.phase \in Phase
  BY WorkerType DEF IInv, TypeOK, Row
<1>1. ASSUME NEW w \in Worker, WorkerClaim(w) PROVE IInv'
  <2>1. Quiet
    BY <1>0, <1>1 DEF WorkerClaim, Quiet, Finished, Row
  <2>2. OneWorkerInside' /\ InsideMeansActive'
    BY <1>0, <1>1 DEF IInv, TypeOK, WorkerClaim, OneWorkerInside,
                      InsideMeansActive, RowLocked, Free, Finished
  <2>3. QED
    BY <1>0, <2>1, <2>2, QuietAlerts DEF IInv
<1>2. ASSUME NEW w \in Worker, WorkerPause(w) \/ WorkerExhaust(w) \/ WorkerAbort(w)
      PROVE  IInv'
  <2>1. Quiet
    BY <1>0, <1>2 DEF WorkerPause, WorkerExhaust, WorkerAbort, Quiet, Finished,
                      WithCounts, Row
  <2>2. worker[w].pc # "idle" /\ worker' = [worker EXCEPT ![w] = Free]
    BY <1>2 DEF WorkerPause, WorkerExhaust, WorkerAbort
  <2>3. QED
    BY <1>0, <2>1, <2>2, LeaveTransaction, QuietAlerts DEF IInv
<1>3. ASSUME NEW w \in Worker, WorkerProceed(w) PROVE IInv'
  <2>1. Quiet
    BY <1>3 DEF WorkerProceed, Quiet
  <2>2. OneWorkerInside' /\ InsideMeansActive'
    BY <1>0, <1>3 DEF IInv, TypeOK, WorkerProceed, OneWorkerInside,
                      InsideMeansActive
  <2>3. QED
    BY <1>0, <2>1, <2>2, QuietAlerts DEF IInv
<1>4. ASSUME NEW w \in Worker, WorkerDispatch(w) PROVE IInv'
  <2>1. PICK chosen \in SUBSET Device : Persist(KeyOf(row.phase), chosen)
    BY <1>4 DEF WorkerDispatch
  <2>2. JobsFollowEvents' /\ OneAlertPerUser'
    BY <1>0, <2>1, PhaseFacts, PersistAlerts DEF IInv
  <2>3. OneWorkerInside' /\ InsideMeansActive'
    BY <1>4, LeaveTransaction DEF WorkerDispatch
  <2>4. row'.phase = row.phase + 1
    BY <1>0, <1>4, PhaseFacts DEF WorkerDispatch, Rescheduled, WithCounts, Row
  <2>5. PhasesInOrder'
    BY <1>0, <1>4, <2>4, DispatchOrder DEF IInv, WorkerDispatch
  <2>6. QED
    BY <1>0, <2>2, <2>3, <2>5 DEF IInv
<1>5. ASSUME NEW w \in Worker, WorkerSoft(w) PROVE IInv'
  <2>1. PICK chosen \in SUBSET Device : Persist(RescueKey, chosen)
    BY <1>5 DEF WorkerSoft
  <2>2. JobsFollowEvents' /\ OneAlertPerUser'
    BY <1>0, <2>1, PhaseFacts, PersistAlerts DEF IInv
  <2>3. OneWorkerInside' /\ InsideMeansActive'
    BY <1>5, LeaveTransaction DEF WorkerSoft
  <2>4. row'.phase = row.phase /\ UNCHANGED attempts
    BY <1>0, <1>5 DEF WorkerSoft, Rescheduled, WithCounts, NextPhase, Row
  <2>5. PhasesInOrder'
    BY <2>4 DEF IInv, PhasesInOrder
  <2>6. QED
    BY <1>0, <2>2, <2>3, <2>5 DEF IInv
<1>6. QED
  BY <1>1, <1>2, <1>3, <1>4, <1>5 DEF WorkerStep

LEMMA NextInductive == IInv /\ [Next]_vars => IInv'
BY AuthorInductive, HelperInductive, WorkerInductive, TimeInductive
   DEF Next, Uninterrupted

LEMMA Inductive == Spec => []IInv
BY InitInductive, NextInductive, PTL DEF Spec

(* However many replicas, rollbacks and resumptions, a user is alerted at  *)
(* most once under each dedupe key of the case.                            *)
THEOREM AlertsAreUnique == Spec => []OneAlertPerUser
<1>1. IInv => OneAlertPerUser
  BY DEF IInv
<1>2. QED
  BY <1>1, Inductive, PTL

(* Every phase before the soft one is dispatched once, in order.           *)
THEOREM PhasesAreOrdered == Spec => []PhasesInOrder
<1>1. IInv => PhasesInOrder
  BY DEF IInv
<1>2. QED
  BY <1>1, Inductive, PTL

(***************************************************************************)
(* The refinement.  A claim, an abort, a count that finds nobody and every *)
(* step of a handler before its last one are stutters; the step a worker   *)
(* commits is one Alert, whole.                                            *)
(***************************************************************************)
LEMMA ModeFacts ==
  /\ row.status = "active" => Mode = "open"
  /\ row.status = "paused" => Mode = "held"
  /\ row.status = "completed" => Mode = "done"
  /\ row.status = "exhausted" => Mode = "given up"
BY DEF Mode

LEMMA ModeFactsPrime ==
  /\ row'.status = "active" => Mode' = "open"
  /\ row'.status = "paused" => Mode' = "held"
  /\ row'.status = "completed" => Mode' = "done"
  /\ row'.status = "exhausted" => Mode' = "given up"
BY DEF Mode

LEMMA InitRefines == Init => Dispatch!DispatchInit
BY ModeFacts DEF Init, FreshRow, Dispatch!DispatchInit

(* A step that dispatches nothing and leaves the status alone, resumes a   *)
(* paused row, or pauses or ends an active one.                            *)
LEMMA QuietRefines ==
  ASSUME TypeOK, Quiet,
         \/ row'.status = row.status
         \/ row.status = "active" /\ row'.status \in {"paused", "completed"}
         \/ row.status = "paused" /\ row'.status = "active"
         \/ /\ row.status = "active" /\ row'.status = "exhausted"
            /\ row.phase = SoftPhase
  PROVE  [Dispatch!DispatchNext]_(Dispatch!dispatchVars)
<1>1. row.status \in Status
  BY DEF TypeOK, Row
<1>2. CASE row'.status = row.status
  <2>1. Mode' = Mode
    <3>1. CASE row.status = "active"
      BY <1>2, <3>1, ModeFacts, ModeFactsPrime
    <3>2. CASE row.status = "paused"
      BY <1>2, <3>2, ModeFacts, ModeFactsPrime
    <3>3. CASE row.status = "completed"
      BY <1>2, <3>3, ModeFacts, ModeFactsPrime
    <3>4. CASE row.status = "exhausted"
      BY <1>2, <3>4, ModeFacts, ModeFactsPrime
    <3>5. QED
      BY <1>1, <3>1, <3>2, <3>3, <3>4 DEF Status, Terminal
  <2>2. QED
    BY <2>1 DEF Quiet, Dispatch!dispatchVars
<1>3. CASE row.status = "active" /\ row'.status \in {"paused", "completed"}
  BY <1>3, ModeFacts, ModeFactsPrime
     DEF Quiet, Dispatch!DispatchNext, Dispatch!Hold, Dispatch!Solve
<1>4. CASE row.status = "paused" /\ row'.status = "active"
  BY <1>4, ModeFacts, ModeFactsPrime
     DEF Quiet, Dispatch!DispatchNext, Dispatch!Reopen
<1>5. CASE /\ row.status = "active" /\ row'.status = "exhausted"
           /\ row.phase = SoftPhase
  BY <1>5, ModeFacts, ModeFactsPrime
     DEF Quiet, Dispatch!DispatchNext, Dispatch!GiveUp
<1>6. QED
  BY <1>2, <1>3, <1>4, <1>5

LEMMA PersistRefines ==
  ASSUME IInv, row.status = "active", row'.status = "active",
         NEW chosen \in SUBSET Device, Persist(KeyOf(row.phase), chosen),
         row'.phase = NextPhase(row.phase)
  PROVE  Dispatch!Alert
<1> DEFINE keys == [p \in Phase |-> KeyOf(p)]
<1>1. row.phase \in Phase /\ keys[row.phase] = KeyOf(row.phase)
  BY DEF IInv, TypeOK, Row
<1>2. KeyOf(row.phase) \in Key
  BY <1>1, PhaseFacts
<1>3. \A d \in chosen : ~Dispatch!Reached(KeyOf(row.phase), Owner[d])
  <2> SUFFICES ASSUME NEW d \in chosen, NEW g \in Device, Owner[g] = Owner[d],
                      jobs[<<KeyOf(row.phase), g>>] > 0
               PROVE  FALSE
    BY DEF Dispatch!Reached
  <2>1. <<KeyOf(row.phase), Owner[g]>> \in events
    BY <1>2 DEF IInv, JobsFollowEvents
  <2>2. QED
    BY <2>1 DEF Persist
<1>4. Mode = "open" /\ Mode' = "open"
  BY ModeFacts, ModeFactsPrime
<1>5. row'.phase = IF row.phase = SoftPhase THEN row.phase ELSE row.phase + 1
  BY DEF NextPhase
<1>6. QED
  BY <1>1, <1>3, <1>4, <1>5 DEF Dispatch!Alert, Persist

LEMMA StepRefines ==
  IInv /\ [Next]_vars => [Dispatch!DispatchNext]_(Dispatch!dispatchVars)
<1> SUFFICES ASSUME IInv, [Next]_vars
             PROVE  [Dispatch!DispatchNext]_(Dispatch!dispatchVars)
  OBVIOUS
<1> USE DEF caseVars, alertVars
<1>0. TypeOK /\ row \in Row /\ row.status \in Status /\ row.phase \in Phase
  BY DEF IInv, TypeOK, Row
<1>1. CASE AuthorStep
  <2>1. Quiet
    BY <1>0, <1>1 DEF AuthorStep, Trigger, TriggerEnqueue, TriggerCrash, End,
                      ReplayEnqueue, Quiet, Enqueue, Row
  <2>2. row'.status = row.status
          \/ (row.status = "paused" /\ row'.status = "active")
    BY <1>0, <1>1 DEF AuthorStep, Trigger, TriggerEnqueue, TriggerCrash, End,
                      ReplayEnqueue, Enqueue, Row, Status, Terminal
  <2>3. QED
    BY <1>0, <2>1, <2>2, QuietRefines
<1>2. CASE HelperStep \/ HelperCrash
  <2>1. Quiet
    BY <1>0, <1>2 DEF HelperStep, HelperCrash, RespondCheck, RespondUpsert,
              RespondReadCounts, RespondWriteCounts, RespondPause, RespondCrash,
              Quiet, WithCounts, PauseIfConfirmed, Row
  <2>2. row'.status = row.status
          \/ (row.status = "active" /\ row'.status = "paused")
    BY <1>0, <1>2 DEF HelperStep, HelperCrash, RespondCheck, RespondUpsert,
              RespondReadCounts, RespondWriteCounts, RespondPause, RespondCrash,
              WithCounts, PauseIfConfirmed, Row
  <2>3. QED
    BY <1>0, <2>1, <2>2, QuietRefines
<1>3. CASE TimePasses \/ Expire \/ UNCHANGED vars
  <2>1. Quiet /\ row'.status = row.status
    BY <1>0, <1>3 DEF TimePasses, Expire, vars, Quiet, Row
  <2>2. QED
    BY <1>0, <2>1, QuietRefines
<1>4. ASSUME NEW w \in Worker,
             \/ WorkerClaim(w) \/ WorkerPause(w) \/ WorkerProceed(w)
             \/ WorkerExhaust(w) \/ WorkerAbort(w)
      PROVE  [Dispatch!DispatchNext]_(Dispatch!dispatchVars)
  <2>1. Quiet
    BY <1>0, <1>4 DEF WorkerClaim, WorkerPause, WorkerProceed, WorkerExhaust,
                      WorkerAbort, Quiet, Finished, WithCounts, Row
  <2>2. worker[w].pc # "idle" => row.status = "active"
    BY DEF IInv, InsideMeansActive
  <2>3. \/ row'.status = row.status
        \/ row.status = "active" /\ row'.status \in {"paused", "completed"}
        \/ /\ row.status = "active" /\ row'.status = "exhausted"
           /\ row.phase = SoftPhase
    BY <1>0, <1>4, <2>2 DEF WorkerClaim, WorkerPause, WorkerProceed,
                      WorkerExhaust, WorkerAbort, Finished, WithCounts, Row
  <2>4. QED
    BY <1>0, <2>1, <2>3, QuietRefines
<1>5. ASSUME NEW w \in Worker, WorkerDispatch(w) \/ WorkerSoft(w)
      PROVE  Dispatch!Alert
  <2>1. worker[w].pc = "run"
    BY <1>5 DEF WorkerDispatch, WorkerSoft
  <2>2. row.status = "active"
    BY <2>1 DEF IInv, InsideMeansActive
  <2>3. row'.status = "active" /\ row'.phase = NextPhase(row.phase)
    BY <1>0, <1>5, <2>2
       DEF WorkerDispatch, WorkerSoft, Rescheduled, WithCounts, Row
  <2>4. \E chosen \in SUBSET Device : Persist(KeyOf(row.phase), chosen)
    BY <1>5, SoftKey DEF WorkerDispatch, WorkerSoft
  <2>5. QED
    BY <2>2, <2>3, <2>4, PersistRefines
<1>6. QED
  BY <1>1, <1>2, <1>3, <1>4, <1>5
     DEF Next, Uninterrupted, WorkerStep, Dispatch!DispatchNext

(* Rows, locks, handlers and replicas implement the dispatch of the        *)
(* abstract specification.                                                 *)
THEOREM FanoutImplementsDispatch == Spec => ImplementsCaseDispatch
BY InitRefines, StepRefines, Inductive, PTL
   DEF Spec, ImplementsCaseDispatch, Dispatch!DispatchSpec
=============================================================================
