--------------------------- MODULE MCRescueFanout ---------------------------
(* Small instances: ana has one device or two, bia has none.               *)
EXTENDS RescueFanout, TLC

CONSTANTS ana, bia, ana1, ana2

MCUser == {ana, bia}
MCDevice == {ana1, ana2}
MCOwner == ana1 :> ana @@ ana2 :> ana
SoloOwner == ana1 :> ana

(* Replicas of the worker are interchangeable. *)
Symmetry == Permutations(Worker)
=============================================================================
