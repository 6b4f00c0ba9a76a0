----------------------------- MODULE MCMacNode ----------------------------
(* Small instances of MacNode for TLC.                                     *)
EXTENDS MacNodeProperties
=============================================================================
