------------------------------ MODULE FanoutRow ------------------------------
(***************************************************************************)
(* The row of rescue_fanout_states that carries the dispatch of one rescue *)
(* case, and the statements that write it.  The table is UNIQUE(post_id),  *)
(* so a case has at most one row for its whole life.                       *)
(*                                                                         *)
(* Standard phases (progressive radius) come first, then the escalation    *)
(* phases (specialists), then one soft phase that repeats every hour until *)
(* the row is too old.  The code has 5 standard phases, 4 escalation ones  *)
(* and soft phase 10; the numbers are parameters here.                     *)
(***************************************************************************)
EXTENDS Naturals

CONSTANTS
  LastStandard,     \* number of the last progressive-radius phase (5)
  LastEscalation    \* number of the last specialist phase (9)

ASSUME PhaseAssumption ==
  /\ LastStandard \in Nat \ {0}
  /\ LastEscalation \in Nat
  /\ LastEscalation >= LastStandard

StandardPhase == 1 .. LastStandard
EscalationPhase == (LastStandard + 1) .. LastEscalation
SoftPhase == LastEscalation + 1
Phase == 1 .. SoftPhase

(* completed: the post was resolved; exhausted: too old in the soft phase. *)
Terminal == {"completed", "exhausted"}
Status == {"active", "paused"} \cup Terminal

(***************************************************************************)
(* A row: next_run_at is kept as "the instant has been reached" (due), and *)
(* the two counters are those the last statement wrote, right or stale.    *)
(***************************************************************************)
Row == [status : Status, phase : Phase, due : BOOLEAN,
        confirmed : Nat, arrived : Nat]

FreshRow == [status |-> "active", phase |-> 1, due |-> TRUE,
             confirmed |-> 0, arrived |-> 0]

(* Defect: the conflict starts the dispatch over.                          *)
EnqueueRestart(r) == IF r.status \in Terminal THEN r ELSE FreshRow

(* Defect: the conflict revives a row that was completed or exhausted.     *)
EnqueueRevive(r) == [r EXCEPT !.status = "active"]

(* INSERT ... ON CONFLICT (post_id) DO UPDATE, on the row that is there:   *)
(* a terminal status is kept, any other becomes active again, and neither  *)
(* the phase nor the time of the next run changes.                         *)
Enqueue(r) == IF r.status \in Terminal THEN r ELSE [r EXCEPT !.status = "active"]

(* UPDATE ... SET status = 'paused' WHERE status = 'active'                *)
(* AND confirmed_count > 0.                                                *)
PauseIfConfirmed(r) ==
  IF r.status = "active" /\ r.confirmed > 0
  THEN [r EXCEPT !.status = "paused"]
  ELSE r

WithCounts(r, c) == [r EXCEPT !.confirmed = c.confirmed, !.arrived = c.arrived]

Finished(r, status) == [r EXCEPT !.status = status]

(* Defect: the soft phase counts on.                                       *)
NextPhaseUnbounded(p) == p + 1

(* A phase was dispatched: the next one is due later.  The soft phase is   *)
(* followed by itself.                                                     *)
NextPhase(p) == IF p = SoftPhase THEN SoftPhase ELSE p + 1

Rescheduled(r) == [r EXCEPT !.phase = NextPhase(@), !.due = FALSE]
=============================================================================
