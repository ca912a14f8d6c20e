--------------------------------- MODULE MCChat ---------------------------------
(* A message sent twice, the retry to another process, and an answer; a    *)
(* connection of each member, on different processes.                      *)
EXTENDS Chat

CONSTANTS alice, bob, a1, a2, b1, ka, kb, p1, p2, sa, sb

MCSender == [r \in Request |-> IF r = b1 THEN bob ELSE alice]
MCKey == [r \in Request |-> IF r = b1 THEN kb ELSE ka]
MCHome == [r \in Request |-> IF r = a2 THEN p2 ELSE p1]
MCViewer == [s \in Socket |-> IF s = sa THEN alice ELSE bob]
MCHost == [s \in Socket |-> IF s = sa THEN p1 ELSE p2]
MCReader == [k \in Mark |-> bob]
=============================================================================
