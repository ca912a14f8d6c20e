------------------------------ MODULE AlertFatigue ------------------------------
(***************************************************************************)
(* How often a helper is alerted: the fan-out of several cases at the same *)
(* time by several replicas of the worker.  RescueFanout has one case in   *)
(* detail; here a case is its phase and its lock, and the limits on recent *)
(* notifications, which reach across cases, are what matters.              *)
(*                                                                         *)
(* Who is near enough, active and well ranked is left open.  In a          *)
(* transaction now() is the time it began, also as created_at of what it   *)
(* inserts.                                                                *)
(***************************************************************************)
EXTENDS Naturals, FiniteSets

CONSTANTS
  Worker,         \* replicas of the fan-out worker
  Case,           \* rows of rescue_fanout_states
  User,           \* helpers
  Specialist,     \* those who are also registered as specialists
  Standard,       \* phases with alerts, 5 in the code
  Escalation,     \* phases with specialists after these
  Short, Long,    \* 30 and 60 minutes
  MaxShort,       \* MAX_RECENT_RESCUE_ALERTS_30M
  MaxLong,        \* MAX_RECENT_RESCUE_ALERTS_60M
  Horizon         \* bound on the clock

AlertFatigueAssumption ==
  /\ IsFiniteSet(Worker)
  /\ Specialist \subseteq User
  /\ {Standard, Escalation, Short, Long, MaxShort, MaxLong, Horizon} \subseteq Nat
  /\ Short > 0 /\ Long > 0

VARIABLES
  now,    \* the clock
  phase,  \* current_phase of each case
  notes,  \* the committed rows of notification_events
  job     \* what each worker is at

vars == <<now, phase, notes, job>>
-----------------------------------------------------------------------------
Soft == Standard + Escalation + 1
Escalates(p) == p > Standard /\ p < Soft
(* dedupe_key: one for the alerts about a case, one for each phase of       *)
(* specialists.                                                            *)
Key(p) == IF Escalates(p) THEN p ELSE 0
Notification == [user : User, case : Case, key : 0 .. Soft, at : 0 .. Horizon]
Task == [pc : {"claimed", "chosen"}, case : Case, at : 0 .. Horizon,
         users : SUBSET User]
Idle == [pc |-> "idle"]

TypeOK ==
  /\ now \in 0 .. Horizon
  /\ phase \in [Case -> 1 .. Soft]
  /\ notes \subseteq Notification
  /\ job \in [Worker -> Task \cup {Idle}]

Init ==
  /\ now = 0
  /\ phase = [c \in Case |-> 1]
  /\ notes = {}
  /\ job = [w \in Worker |-> Idle]

TimePasses ==
  /\ now < Horizon
  /\ now' = now + 1
  /\ UNCHANGED <<phase, notes, job>>

-----------------------------------------------------------------------------
At(w, pc) == job[w].pc = pc
Become(w, task) == job' = [job EXCEPT ![w] = task]

Alerts(u) == {n \in notes : n.user = u /\ n.key = 0}
Escalations(u) == {n \in notes : n.user = u /\ n.key # 0}
Since(S, age, t) == Cardinality({n \in S : n.at + age > t})

(* process_one_fanout: SELECT ... FOR UPDATE SKIP LOCKED.                  *)
Claim(w, c) ==
  /\ At(w, "idle")
  /\ ~ \E v \in Worker : ~At(v, "idle") /\ job[v].case = c
  /\ Become(w, [pc |-> "claimed", case |-> c, at |-> now, users |-> {}])
  /\ UNCHANGED <<now, phase, notes>>

(* Defect: one more than the limit.                                        *)
MayAlertLate(u, c, t) ==
  /\ \A n \in Alerts(u) : n.case # c
  /\ Since(Alerts(u), Short, t) <= MaxShort
  /\ Since(Alerts(u), Long, t) <= MaxLong
(* ranked_candidates: not alerted to this case yet, and not too often to   *)
(* others, as far as their transactions have committed.                    *)
MayAlert(u, c, t) ==
  /\ \A n \in Alerts(u) : n.case # c
  /\ Since(Alerts(u), Short, t) < MaxShort
  /\ Since(Alerts(u), Long, t) < MaxLong

(* ranked_verified_regional_fallback counts notifications of both kinds.   *)
(* It looks for a key without the user's id, which nobody has.             *)
MayAsk(u, t) == Since(Alerts(u) \cup Escalations(u), Long, t) < MaxLong

Pick(w, S) == \E users \in SUBSET S :
  Become(w, [job[w] EXCEPT !.pc = "chosen", !.users = users])

Choose(w) ==
  /\ At(w, "claimed")
  /\ ~Escalates(phase[job[w].case])
  /\ Pick(w, {u \in User : MayAlert(u, job[w].case, job[w].at)})
  /\ UNCHANGED <<now, phase, notes>>

(* ranked_specialist_candidates: the specialists, however often they were  *)
(* asked, and only if none is near the fallback.                           *)
ChooseSpecialists(w) ==
  /\ At(w, "claimed")
  /\ Escalates(phase[job[w].case])
  /\ \/ Pick(w, Specialist)
     \/ Pick(w, {u \in User : MayAsk(u, job[w].at)})
  /\ UNCHANGED <<now, phase, notes>>

(* The notifications and the next phase in one commit.                     *)
Commit(w) ==
  /\ At(w, "chosen")
  /\ LET c == job[w].case IN
       /\ notes' = notes \cup {[user |-> u, case |-> c, key |-> Key(phase[c]),
                                at |-> job[w].at] : u \in job[w].users}
       /\ phase' = [phase EXCEPT ![c] = IF @ < Soft THEN @ + 1 ELSE @]
  /\ Become(w, Idle)
  /\ UNCHANGED now

Abort(w) ==
  /\ ~At(w, "idle")
  /\ Become(w, Idle)
  /\ UNCHANGED <<now, phase, notes>>

Next ==
  \/ TimePasses
  \/ \E w \in Worker :
       \/ \E c \in Case : Claim(w, c)
       \/ Choose(w) \/ ChooseSpecialists(w) \/ Commit(w) \/ Abort(w)
-----------------------------------------------------------------------------
(* Within age before any of the notifications S there are no more than     *)
(* limit, and one for each other replica, which may have chosen at the     *)
(* same time.                                                              *)
Bounded(S, age, limit) == \A last \in S :
  Cardinality({n \in S : n.at <= last.at /\ n.at + age > last.at})
    <= limit + Cardinality(Worker) - 1

(* However many cases are dispatched at the same time, nobody is alerted   *)
(* more often than the limits allow, but for one alert per other replica;  *)
(* and who is no specialist is not asked for such support more often.      *)
NobodyIsFlooded == \A u \in User :
  /\ Bounded(Alerts(u), Short, MaxShort)
  /\ Bounded(Alerts(u), Long, MaxLong)
  /\ u \notin Specialist => Bounded(Escalations(u), Long, MaxLong)
=============================================================================
