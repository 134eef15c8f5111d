--------------------- MODULE MCRequalificationScheduler ---------------------
(* Small instances of RequalificationScheduler for TLC. *)
EXTENDS RequalificationScheduler, TLC

CONSTANTS a1, a2
=============================================================================
