---------------------------- MODULE MCDashEngines ----------------------------
(* Two adapters of one two-channel device, three or four engine objects,   *)
(* reader slots fewer than the readers there can be.                       *)
EXTENDS DashEngines

CONSTANTS p1, p2, e1, e2, e3, tester

MCHandles == Adapters \cup Engines \cup {tester}
MCChannelOf == [p \in Adapters |-> IF p = p1 THEN 0 ELSE 1]
=============================================================================
