------------------------------ MODULE MCPackets ---------------------------
(* The way of a packet, for TLC: zeros, a one and all ones as filler.      *)
EXTENDS Packets

SmallFillers == {{}, {0}, Byte}
=============================================================================
