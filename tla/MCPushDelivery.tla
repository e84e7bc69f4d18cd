--------------------------- MODULE MCPushDelivery ---------------------------
(* One user with two matches and two devices, one of which may die, or with *)
(* a single device.                                                         *)
EXTENDS PushDelivery

CONSTANTS u1, e1, e2

MCUsers == {u1}
MCEndpoints == {e1, e2}
MCOneEndpoint == {e1}
MCMortal == {e1}
MCOwnerOf == <<u1, u1>>
=============================================================================
