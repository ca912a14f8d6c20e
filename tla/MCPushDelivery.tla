--------------------------- MODULE MCPushDelivery ---------------------------
(* Two jobs for one device, or as many as the configuration says.          *)
EXTENDS PushDelivery, TLC

CONSTANT phone

MCTokenOf == [j \in Job |-> phone]
=============================================================================
