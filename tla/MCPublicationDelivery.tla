----------------------- MODULE MCPublicationDelivery -----------------------
(* Small instances of PublicationDelivery for TLC. *)
EXTENDS PublicationDelivery, TLC

CONSTANTS i1, i2, r1, r2, t1, t2, k1

MCRecordKeys == [i \in Intents |-> {k1}]
MCBackoff    == [n \in 1..MaxAttempts |-> 1]
MCTokens     == Tabs \X (1..MaxClaims)
IntentSymmetry == Permutations({i1, i2})
=============================================================================
