----------------------------- MODULE MCSendBatch -----------------------------
(* Instances of SendBatch for TLC: packets of one unit, one direct packet. *)
EXTENDS SendBatch

MCSizeOf == [p \in Packet |-> 1]
=============================================================================
