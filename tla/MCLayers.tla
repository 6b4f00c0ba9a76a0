------------------------------ MODULE MCLayers ----------------------------
(* Instances of the queues between the layers for TLC.                     *)
EXTENDS LayersProperties
=============================================================================
