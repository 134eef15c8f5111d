------------------------- MODULE PublicationOutbox -------------------------
(***************************************************************************)
(* What publishing promises an author, with no journal, tab, claim or      *)
(* lease in sight: an authored publication is queued until some relay      *)
(* holds it, relays hold nothing the device does not know it authored, and *)
(* the device forgets only what it has settled.                            *)
(***************************************************************************)
CONSTANTS Intents, Relays

VARIABLES
    queued,    \* authored, no relay has acknowledged it
    settled,   \* acknowledged by a relay
    held       \* what each relay holds

Author(i) ==
    /\ i \notin queued \cup settled
    /\ queued' = queued \cup {i}
    /\ UNCHANGED <<settled, held>>

Hold(i, r) ==
    /\ i \in queued \cup settled
    /\ held' = held \cup {<<i, r>>}
    /\ UNCHANGED <<queued, settled>>

Settle(i) ==
    /\ i \in queued
    /\ \E r \in Relays : <<i, r>> \in held
    /\ queued' = queued \ {i}
    /\ settled' = settled \cup {i}
    /\ UNCHANGED held

Forget(S) ==
    /\ settled' = settled \ S
    /\ UNCHANGED <<queued, held>>

Init == queued = {} /\ settled = {} /\ held = {}

Next ==
    \/ \E i \in Intents : Author(i) \/ Settle(i)
    \/ \E i \in Intents, r \in Relays : Hold(i, r)
    \/ \E S \in SUBSET settled : Forget(S)

Spec == Init /\ [][Next]_<<queued, settled, held>>

\* Nothing is settled that no relay holds, nor settled while it is still queued.
Promise ==
    /\ queued \cap settled = {}
    /\ \A i \in settled : \E r \in Relays : <<i, r>> \in held
=============================================================================
