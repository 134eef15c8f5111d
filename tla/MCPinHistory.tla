--------------------------- MODULE MCPinHistory ---------------------------
(* A small instance of PinHistory for TLC. *)
EXTENDS PinHistory, TLC

CONSTANTS page1, page2, genesis, a1, a2, a3, b2

\* genesis - a1 - a2 - a3, and b2 forks from a1.
Chains == {<<genesis, a1, a2, a3>>, <<genesis, a1, b2>>}
Steps == {<<1, 1>>, <<1, 2>>, <<1, 3>>, <<2, 2>>, <<2, 3>>, <<3, 3>>}
MCBefore == {<<a3, a3>>, <<a2, a3>>, <<a1, a3>>, <<genesis, a3>>}
    \cup {<<h[s[1]], h[s[2]]>> : h \in Chains, s \in Steps}
MCSequence == genesis :> 0 @@ a1 :> 1 @@ a2 :> 2 @@ b2 :> 2 @@ a3 :> 3
PageSymmetry == Permutations(Pages)
=============================================================================
