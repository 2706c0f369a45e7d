----------------------------- MODULE MCThrottle -----------------------------
(* The instance of Throttle for TLC.                                         *)
EXTENDS Throttle
=============================================================================
