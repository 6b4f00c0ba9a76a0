----------------------------- MODULE MCTimeouts ---------------------------
(* Small instances of Timeouts for TLC.                                    *)
EXTENDS TimeoutsProperties
=============================================================================
