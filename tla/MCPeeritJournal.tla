-------------------------- MODULE MCPeeritJournal --------------------------
(* Small instances of PeeritJournal for TLC. *)
EXTENDS PeeritJournal, TLC

CONSTANTS i1, i2, i3, r1, r2, k1

\* Every intent writes the one key, so commits overwrite its row.
MCOneKey     == [i \in Intents |-> {k1}]
MCBackoff    == [n \in 1..MaxAttempts |-> IF n = 1 THEN 1 ELSE 2]
JournalSymmetry == Permutations({r1, r2}) \cup Permutations({i1, i2, i3})
=============================================================================
