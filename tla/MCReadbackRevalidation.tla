----------------------- MODULE MCReadbackRevalidation -----------------------
(* Small instances of ReadbackRevalidation for TLC. *)
EXTENDS ReadbackRevalidation, TLC

CONSTANTS t1, t2

TabSymmetry == Permutations(Tabs)
RetryDelay(n) == n
=============================================================================
