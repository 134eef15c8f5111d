---------------------------- MODULE AuthorLedger ----------------------------
(***************************************************************************)
(* What explicit publication promises an author, with no pass, lease or    *)
(* lock in sight: a ledger of records that only grows, each at the place   *)
(* after the last, relays that hold nothing the ledger does not have, and  *)
(* confirmations that are given once, for what the relay holds, and never  *)
(* taken back.                                                             *)
(***************************************************************************)
EXTENDS Integers

CONSTANTS Records, Relays

VARIABLES
    next,      \* the next place
    ledger,    \* <<place, record>>
    held,      \* <<record, relay>> the relay has
    confirmed  \* <<record, relay>> the author knows it has

Entered == {e[2] : e \in ledger}

Reserve(h) ==
    /\ h \notin Entered
    /\ ledger' = ledger \cup {<<next, h>>}
    /\ next' = next + 1
    /\ UNCHANGED <<held, confirmed>>

Hold(h, r) ==
    /\ h \in Entered
    /\ held' = held \cup {<<h, r>>}
    /\ UNCHANGED <<next, ledger, confirmed>>

Confirm(h, r) ==
    /\ <<h, r>> \in held
    /\ confirmed' = confirmed \cup {<<h, r>>}
    /\ UNCHANGED <<next, ledger, held>>

Init == next = 0 /\ ledger = {} /\ held = {} /\ confirmed = {}

Next ==
    \/ \E h \in Records : Reserve(h)
    \/ \E h \in Records, r \in Relays : Hold(h, r) \/ Confirm(h, r)

Spec == Init /\ [][Next]_<<next, ledger, held, confirmed>>

\* The places are those from 0 on without a gap, one record each and one place
\* for each record; what is confirmed is held, and what is held is entered.
Promise ==
    /\ {e[1] : e \in ledger} = 0..next - 1
    /\ \A d, e \in ledger : d[1] = e[1] <=> d[2] = e[2]
    /\ confirmed \subseteq held
    /\ \A p \in held : p[1] \in Entered
=============================================================================
