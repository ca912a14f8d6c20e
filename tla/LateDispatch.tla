---------------------------- MODULE LateDispatch ----------------------------
(***************************************************************************)
(* RescueFanout with a history variable: how many phases were committed    *)
(* since a helper has been on the way without interruption, and since the  *)
(* post has been resolved without interruption.                            *)
(***************************************************************************)
EXTENDS RescueFanout

VARIABLE late

lateVars == <<vars, late>>

(* A committed phase is what moves the next run into the future.           *)
Dispatched == row.due /\ ~row'.due

(* The count is kept up to 2, one more than the properties allow.          *)
Tally(holds, n) ==
  IF ~holds THEN 0 ELSE IF Dispatched /\ n < 2 THEN n + 1 ELSE n

LateInit == Init /\ late = [going |-> 0, resolved |-> 0]

LateNext ==
  /\ Next
  /\ late' = [going    |-> Tally(Going' # {}, late.going),
              resolved |-> Tally(post' = "resolved", late.resolved)]

LateSpec == LateInit /\ [][LateNext]_lateVars

LateTypeOK == late \in [going : 0 .. 2, resolved : 0 .. 2]

(* A worker may have counted the responses just before a helper said yes:  *)
(* that phase goes out, and no other while the helper is on the way.  A    *)
(* second replica cannot be in the same window, because of the row lock.   *)
AtMostOnePhaseAfterGoing == late.going <= 1

(* The same for a case that was resolved under a worker that had read the  *)
(* post as active.                                                         *)
AtMostOnePhaseAfterResolved == late.resolved <= 1
=============================================================================
