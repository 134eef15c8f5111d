------------------------- MODULE MCSeq29Publication -------------------------
(* Small instances of Seq29Publication for TLC. *)
EXTENDS Seq29Publication, TLC

CONSTANTS t1, t2, h1, h2, r1, r2

TwoRelays == <<r1, r2>>
OneRelay  == <<r1>>
TabSymmetry == Permutations(Tabs)
AuthorSymmetry == Permutations(Tabs) \cup Permutations(Intents)
=============================================================================
