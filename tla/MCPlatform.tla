------------------------------- MODULE MCPlatform -------------------------------
(* Two required types of document, one of which is handed in twice; three  *)
(* events about one of two donations, the last of them unsupported; two    *)
(* likes, a comment and a share; three cases and one helper.               *)
EXTENDS Platform

CONSTANTS d1, d2, d3, front, back, k1, k2, e1, e2, e3, i1, i2, i3, i4

MCKindOf == [d \in Document |-> IF d = d1 THEN front ELSE back]
MCAbout == [e \in Event |-> k1]
MCOutcome == [e \in Event |-> CASE e = e1 -> "paid" [] e = e2 -> "refunded"
                                [] OTHER -> "unsupported"]
MCRowKind == [r \in Row |-> CASE r = i3 -> "comment" [] r = i4 -> "share"
                               [] OTHER -> "like"]
=============================================================================
