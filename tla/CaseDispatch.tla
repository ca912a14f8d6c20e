---------------------------- MODULE CaseDispatch ----------------------------
(***************************************************************************)
(* What the dispatch of one rescue case promises, with no worker, lock or  *)
(* handler in sight:                                                       *)
(*   - alerts go out only while the case is open, one stage after another, *)
(*     each stage before the last exactly once and in one atomic step;     *)
(*   - a person is alerted at most once under a dedupe key, on one device; *)
(*   - a case that is held may be opened again, one that is closed stays   *)
(*     closed; it is given up only in its last stage.                      *)
(***************************************************************************)
EXTENDS Naturals

CONSTANTS
  Person, Gadget, Holder,  \* people, their devices, and whose each one is
  LastStage,               \* the stage that repeats
  Subject,                 \* dedupe keys
  SubjectOf                \* the key each stage alerts under

VARIABLES
  mode,    \* "open", "held", "done" (the case was solved) or "given up"
  stage,
  sent     \* alerts sent, by key and device

dispatchVars == <<mode, stage, sent>>

Closed == {"done", "given up"}

DispatchInit ==
  /\ mode = "open"
  /\ stage = 1
  /\ sent = [x \in Subject \X Gadget |-> 0]

Reached(k, u) == \E g \in Gadget : Holder[g] = u /\ sent[<<k, g>>] > 0

(* One stage: some people not yet reached under its key, one device each.  *)
Alert ==
  /\ mode = "open"
  /\ \E chosen \in SUBSET Gadget :
       /\ \A g \in chosen : ~Reached(SubjectOf[stage], Holder[g])
       /\ \A g, f \in chosen : Holder[g] = Holder[f] => g = f
       /\ sent' = [x \in Subject \X Gadget |->
                     IF x[1] = SubjectOf[stage] /\ x[2] \in chosen
                     THEN sent[x] + 1 ELSE sent[x]]
  /\ stage' = IF stage = LastStage THEN stage ELSE stage + 1
  /\ UNCHANGED mode

Hold == mode = "open" /\ mode' = "held" /\ UNCHANGED <<stage, sent>>

Reopen == mode = "held" /\ mode' = "open" /\ UNCHANGED <<stage, sent>>

Solve == mode = "open" /\ mode' = "done" /\ UNCHANGED <<stage, sent>>

GiveUp ==
  /\ mode = "open"
  /\ stage = LastStage
  /\ mode' = "given up"
  /\ UNCHANGED <<stage, sent>>

DispatchNext == Alert \/ Hold \/ Reopen \/ Solve \/ GiveUp

DispatchSpec == DispatchInit /\ [][DispatchNext]_dispatchVars
=============================================================================
