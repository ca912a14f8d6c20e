--------------------------- MODULE MCPostCreation ---------------------------
(* An emergency with two uploads, and the same sent again without them;    *)
(* another post with the uploads in the other order.                       *)
EXTENDS PostCreation

CONSTANTS a1, a2, b1, ka, kb, m1, m2

MCKeyOf == [r \in Request |-> IF r \in {a1, a2} THEN ka ELSE kb]
MCUses == [r \in Request |-> CASE r = a1 -> <<m1, m2>>
                               [] r = a2 -> <<>>
                               [] r = b1 -> <<m2, m1>>]
(* A retry of a1 that is the same as a1.                                   *)
MCSameUses == [r \in Request |-> IF r = b1 THEN <<m2, m1>> ELSE <<m1, m2>>]
=============================================================================
