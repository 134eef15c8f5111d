------------------------- MODULE MCDiscoveredView -------------------------
(* Small instances of DiscoveredView for TLC. *)
EXTENDS DiscoveredView, TLC

CONSTANTS t1, t2, r1, r2, b1, b2, s0, s1, post, name, p1, p2, n1, n2, me, you

Rank == r1 :> 1 @@ r2 :> 2
BootSequence == [b \in Bootstraps |-> IF b = b1 THEN 1 ELSE 2]

\* A post and its edit by somebody else, and a name two people claim.
Key == p1 :> post @@ p2 :> post @@ n1 :> name @@ n2 :> name
Owner == p1 :> you @@ p2 :> you @@ n1 :> you @@ n2 :> me
Stamp == p1 :> 0 @@ p2 :> 1 @@ n1 :> 1 @@ n2 :> 1
Sig == p1 :> 4 @@ p2 :> 3 @@ n1 :> 2 @@ n2 :> 1
Edit == p1 :> 1 @@ p2 :> 2 @@ n1 :> 1 @@ n2 :> 2
Epoch == p1 :> 0 @@ p2 :> 2 @@ n1 :> 0 @@ n2 :> 0
Place == [a \in Artifacts |-> IF a = s0 THEN 0 ELSE 1]
Prior == [a \in Artifacts |-> IF a = s0 THEN Absent ELSE s0]
Seeded == [a \in Artifacts |-> {n1}]

\* The newer version stands on the relay that a poll reads first; it is the frame that a reader
\* rejects while its clock is behind.
Inboxes == r1 :> <<p2>> @@ r2 :> <<p1, Junk>>

\* Nothing but the first timestamp in the clear, and signatures in the wrong order.
CommunityStamp == [v \in Versions |-> 0]

TabSymmetry == Permutations(Tabs)
=============================================================================
