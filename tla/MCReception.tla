----------------------------- MODULE MCReception --------------------------
(* Hearing a control packet, for TLC.                                      *)
EXTENDS ReceptionProperties
=============================================================================
