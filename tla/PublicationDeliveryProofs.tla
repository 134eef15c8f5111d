--------------------- MODULE PublicationDeliveryProofs ---------------------
(***************************************************************************)
(* Delivery of the journal by any number of tabs to any number of relays,  *)
(* whatever the tabs' fates and the order of the relays' answers.          *)
(***************************************************************************)
EXTENDS PublicationDelivery, PeeritJournalProofs

-----------------------------------------------------------------------------
(* The inductive invariant *)

\* Attempt tokens are never issued twice: a tab that sends has the latest of its own, and no
\* row or attempt carries one that is still to come.
IssuedToken(x) == x[2] <= attemptCounter[x[1]]

TokensIssued ==
    /\ \A p \in Pairs : targets[p].token # NoToken => IssuedToken(targets[p].token)
    /\ \A t \in Tabs : tab[t].pc \notin {"idle", "planned"} =>
                          tab[t].token \in Tokens /\ IssuedToken(tab[t].token)
    /\ \A t \in Tabs : tab[t].pc \in {"preparing", "prepared", "sending", "awaiting", "reading"} =>
                          tab[t].token = <<t, attemptCounter[t]>>

\* Whatever is under way is about a publication the journal knows.
PublicationsKnown ==
    /\ \A t \in Tabs : tab[t] # Idle => In(t) \in intents \cup dedupe
    /\ \A x \in puts : x[1][1] \in intents \cup dedupe

\* A tab about to report success has the evidence.
AckedIsEvidence == \A t \in Tabs : At(t, "acked") => tab[t].pair \in cells

\* The states of a row no fresh send can be claimed from.
Unclaimable == {"delivering", "pending-unknown", "terminal"} \cup Acknowledged

\* A tab between its claim and the row that says so: with a two-call adapter the row says
\* preparing until the tab advances it, and the claim can still be taken over.
Tentative(t) == At(t, "prepared") \/ (At(t, "preparing") /\ Re(t) \in Split)

\* A tab whose PUT may be on the wire, now or at its next step.
Committed(t) ==
    At(t, "sending") \/ At(t, "awaiting") \/ (At(t, "preparing") /\ Re(t) \notin Split)

\* The row of a tab still carries the tab's claim, or somebody else's.
HoldsClaim(t) ==
    /\ Committed(t) /\ In(t) \in intents =>
         targets[tab[t].pair].token = tab[t].token /\ targets[tab[t].pair].state \in Unclaimable
    /\ Tentative(t) /\ targets[tab[t].pair].token = tab[t].token =>
         targets[tab[t].pair].state \in {"preparing", "retryable"}

ClaimsHeld ==
    /\ \A t \in Tabs : HoldsClaim(t)
    /\ \A t \in Tabs : Committed(t) /\ ~At(t, "awaiting") => tab[t].pair \notin unresolved
    /\ \A t, u \in Tabs : Committed(t) /\ Committed(u) /\ tab[t].pair = tab[u].pair => t = u
    /\ \A t, u \in Tabs : Tentative(t) /\ At(u, "reconciling") /\ tab[t].pair = tab[u].pair =>
                             tab[u].token # tab[t].token

DeliveryInv ==
    /\ StoreInv
    /\ DeliveryTypeOK
    /\ TokensIssued
    /\ PublicationsKnown
    /\ AcknowledgementIsEvidence /\ AckedIsEvidence
    /\ UnresolvedIsJournalled
    /\ ClaimsHeld
-----------------------------------------------------------------------------
(* Tokens and tabs *)

LEMMA TokenShape ==
    /\ NoToken \notin Tokens
    /\ \A x \in Tokens : x = <<x[1], x[2]>> /\ x[1] \in Tabs /\ x[2] \in 1..MaxClaims
    /\ \A t \in Tabs, n \in 1..MaxClaims : <<t, n>> \in Tokens
BY ConstantsAssumption, DeliveryAssumption

LEMMA TabShape ==
    ASSUME DeliveryTypeOK, NEW t \in Tabs
    PROVE  /\ tab[t] = Idle <=> tab[t].pc = "idle"
           /\ tab[t].pc # "idle" =>
                /\ tab[t] \in Delivery
                /\ tab[t].pair \in Pairs /\ tab[t].pair = <<In(t), Re(t)>>
                /\ In(t) \in Intents /\ Re(t) \in Relays
                /\ tab[t].token \in Tokens \cup {NoToken}
                /\ targets[tab[t].pair] \in TargetRow
<1>1. /\ tab[t] \in {Idle} \cup Delivery
      /\ targets \in [Pairs -> TargetRow]
  BY DEF DeliveryTypeOK, JournalTypeOK
<1>2. ASSUME tab[t] \in Delivery
      PROVE  /\ tab[t].pc # "idle"
             /\ tab[t].pair \in Pairs
             /\ tab[t].token \in Tokens \cup {NoToken}
  BY <1>2 DEF Delivery
<1>3. \A p \in Pairs : p = <<p[1], p[2]>> /\ p[1] \in Intents /\ p[2] \in Relays
  BY DEF Pairs
<1> QED BY <1>1, <1>2, <1>3 DEF Idle, In, Re

-----------------------------------------------------------------------------
(* What the operations of the journal do to rows, as the tabs see it *)

\* Only the row of p moves.
OnlyRow(p) ==
    /\ UNCHANGED <<intents, dedupe>>
    /\ \A q \in Pairs \ {p} : targets'[q] = targets[q]

LEMMA ClaimRow ==
    ASSUME JournalTypeOK, NEW i \in Intents, NEW r \in Relays, NEW s, NEW e,
           NEW x \in Tokens, NEW l, ClaimTarget(i, r, s, e, x, l)
    PROVE  /\ OnlyRow(<<i, r>>) /\ i \in intents
           /\ targets'[<<i, r>>].state = s
           /\ targets'[<<i, r>>].token = ClaimToken(i, r, e, x)
           /\ e = "absent" => targets[<<i, r>>].state \in ClaimableFresh
           /\ e # "absent" => targets[<<i, r>>].state = e
<1>1. targets \in [Pairs -> TargetRow] /\ <<i, r>> \in Pairs
  BY DEF JournalTypeOK, Pairs
<1>2. /\ UNCHANGED <<intents, dedupe>> /\ i \in intents
      /\ e = "absent" => targets[<<i, r>>].state \in ClaimableFresh
      /\ e # "absent" => targets[<<i, r>>].state = e
  BY DEF ClaimTarget, Claimable, dedupeRows
<1>3. PICK row : /\ row.state = s /\ row.token = ClaimToken(i, r, e, x)
                 /\ targets' = [targets EXCEPT ![<<i, r>>] = row]
  BY DEF ClaimTarget
<1> QED BY <1>1, <1>2, <1>3 DEF OnlyRow

LEMMA TransitionRow ==
    ASSUME JournalTypeOK, NEW i \in Intents, NEW r \in Relays, NEW x, NEW l,
           TransitionTarget(i, r, x, l)
    PROVE  /\ OnlyRow(<<i, r>>) /\ i \in intents
           /\ targets[<<i, r>>].state = "preparing" /\ targets'[<<i, r>>].state = "delivering"
           /\ targets[<<i, r>>].token = x /\ targets'[<<i, r>>].token = x
<1>1. targets \in [Pairs -> TargetRow] /\ <<i, r>> \in Pairs
  BY DEF JournalTypeOK, Pairs
<1> QED BY <1>1 DEF TransitionTarget, Holds, RowOnly, intentRows, dedupeRows, OnlyRow, TargetRow

LEMMA CompleteRow ==
    ASSUME JournalTypeOK, NEW i \in Intents, NEW r \in Relays, NEW x, NEW s,
           CompleteTarget(i, r, x, s)
    PROVE  /\ OnlyRow(<<i, r>>) /\ i \in intents
           /\ targets[<<i, r>>].state \in {"delivering", "pending-unknown"}
           /\ targets'[<<i, r>>].state = s
           /\ targets[<<i, r>>].token = x /\ targets'[<<i, r>>].token = x
<1>1. targets \in [Pairs -> TargetRow] /\ <<i, r>> \in Pairs
  BY DEF JournalTypeOK, Pairs
<1> QED BY <1>1 DEF CompleteTarget, Holds, dedupeRows, OnlyRow, TargetRow

LEMMA FailRow ==
    ASSUME JournalTypeOK, NEW i \in Intents, NEW r \in Relays, NEW x, NEW s, NEW b,
           FailTarget(i, r, x, s, b)
    PROVE  /\ OnlyRow(<<i, r>>) /\ i \in intents
           /\ targets[<<i, r>>].state \in FailableStates /\ targets'[<<i, r>>].state = s
           /\ targets[<<i, r>>].token = x /\ targets'[<<i, r>>].token = x
<1>1. targets \in [Pairs -> TargetRow] /\ <<i, r>> \in Pairs
  BY DEF JournalTypeOK, Pairs
<1>2. PICK n : targets' = [targets EXCEPT ![<<i, r>>].state = s, ![<<i, r>>].leaseUntil = 0,
                                          ![<<i, r>>].nextAttemptAt = n]
  BY DEF FailTarget
<1>3. /\ UNCHANGED <<intents, dedupe>> /\ i \in intents
      /\ targets[<<i, r>>].state \in FailableStates /\ targets[<<i, r>>].token = x
  BY DEF FailTarget, Holds, RowOnly, intentRows, dedupeRows
<1> QED BY <1>1, <1>2, <1>3 DEF OnlyRow, TargetRow

\* A recovered row keeps its token, and only a claim nothing was sent under becomes retryable.
LEMMA RecoverRow ==
    ASSUME JournalTypeOK, RecoverExpiredClaims, NEW p \in Pairs
    PROVE  /\ UNCHANGED <<intents, dedupe>>
           /\ targets'[p].token = targets[p].token
           /\ \/ targets'[p].state = targets[p].state
              \/ targets[p].state = "preparing" /\ targets'[p].state = "retryable"
              \/ targets[p].state = "delivering" /\ targets'[p].state = "pending-unknown"
<1>1. targets[p] \in TargetRow
  BY DEF JournalTypeOK
<1>2. PICK P \in SUBSET Expired("preparing"), D \in SUBSET Expired("delivering") :
         RecoverRows(P, D)
  BY DEF RecoverExpiredClaims
<1>3. UNCHANGED <<intents, dedupe>>
  BY <1>2 DEF RecoverRows, RowOnly, intentRows, dedupeRows
<1>4. /\ p \in P => targets[p].state = "preparing"
      /\ p \in D => targets[p].state = "delivering"
  BY <1>2 DEF Expired, InState
<1>5. targets'[p] = IF p \in P \cup D
                      THEN [targets[p] EXCEPT !.state = RecoveredState(targets[p].state),
                                              !.leaseUntil = 0, !.nextAttemptAt = now]
                      ELSE targets[p]
  BY <1>2 DEF RecoverRows
<1> QED BY <1>1, <1>3, <1>4, <1>5 DEF TargetRow, RecoveredState

\* Compaction turns acknowledged intents into tombstones and empties their rows.
LEMMA CompactRow ==
    ASSUME StoreInv, Compact
    PROVE  /\ intents' \subseteq intents
           /\ dedupe' \subseteq dedupe \cup (intents \ intents')
           /\ \A i \in intents \ intents' : acknowledgedTargets[i] >= 1
           /\ \A p \in Pairs : targets'[p] = IF p[1] \in intents \ intents' THEN NoTarget
                                              ELSE targets[p]
           /\ \A i \in intents' : acknowledgedTargets'[i] = acknowledgedTargets[i]
<1>0. intents \subseteq Intents
  BY DEF StoreInv, JournalInv, JournalTypeOK
<1>1. PICK C \in SUBSET OldIntents : \E X, O : CompactRows(Compactable(C), X, O)
  BY DEF Compact
<1>2. /\ Compactable(C) \subseteq intents
      /\ \A i \in Compactable(C) : acknowledgedTargets[i] >= 1
  BY <1>1 DEF Compactable, OldIntents
<1>3. /\ intents' = intents \ Compactable(C)
      /\ dedupe' \subseteq dedupe \cup Compactable(C)
      /\ targets' = [p \in Pairs |-> IF p[1] \in Compactable(C) THEN NoTarget ELSE targets[p]]
      /\ acknowledgedTargets' = [i \in Intents |-> IF i \in Compactable(C) THEN 0
                                                   ELSE acknowledgedTargets[i]]
  <2>1. PICK X, O : CompactRows(Compactable(C), X, O)
    BY <1>1
  <2> QED BY <2>1 DEF CompactRows
<1> QED BY <1>0, <1>2, <1>3
-----------------------------------------------------------------------------
(* What one step of an attempt does to its row, its tab and the token counter *)

Attempting(t) ==
    /\ In(t) \in intents
    /\ OnlyRow(tab[t].pair)
    /\ UNCHANGED attemptCounter
    /\ targets[tab[t].pair].token = tab[t].token
    /\ targets'[tab[t].pair].token = tab[t].token

\* The tab goes on with the same attempt at another point.
GoesTo(t, S) ==
    /\ tab'[t].pc \in S
    /\ tab'[t].pair = tab[t].pair /\ tab'[t].token = tab[t].token

ClaimsFresh(t) ==
    /\ At(t, "planned")
    /\ In(t) \in intents
    /\ OnlyRow(tab[t].pair)
    /\ attemptCounter'[t] = attemptCounter[t] + 1 /\ attemptCounter'[t] \in 1..MaxClaims
    /\ targets[tab[t].pair].state \in ClaimableFresh
    /\ targets'[tab[t].pair].state = IF Re(t) \in Split THEN "preparing" ELSE "delivering"
    /\ targets'[tab[t].pair].token = <<t, attemptCounter'[t]>>
    /\ tab'[t].pc = "preparing" /\ tab'[t].pair = tab[t].pair
    /\ tab'[t].token = <<t, attemptCounter'[t]>>

ClaimsAgain(t) ==
    /\ At(t, "planned")
    /\ In(t) \in intents
    /\ OnlyRow(tab[t].pair)
    /\ attemptCounter'[t] = attemptCounter[t] + 1 /\ attemptCounter'[t] \in 1..MaxClaims
    /\ targets[tab[t].pair].state = "pending-unknown"
    /\ targets'[tab[t].pair].state = "delivering"
    /\ targets'[tab[t].pair].token =
          IF targets[tab[t].pair].token # NoToken THEN targets[tab[t].pair].token
                                                  ELSE <<t, attemptCounter'[t]>>
    /\ tab'[t].pc = "reconciling" /\ tab'[t].pair = tab[t].pair
    /\ tab'[t].token = targets'[tab[t].pair].token

Advances(t) ==
    /\ At(t, "prepared") /\ Attempting(t)
    /\ targets[tab[t].pair].state = "preparing"
    /\ targets'[tab[t].pair].state = "delivering"
    /\ GoesTo(t, {"sending"})

Completes(t) ==
    /\ At(t, "acked") /\ Attempting(t)
    /\ targets[tab[t].pair].state \in {"delivering", "pending-unknown"}
    /\ targets'[tab[t].pair].state \in Acknowledged
    /\ tab'[t] = Idle

Fails(t) ==
    /\ tab[t].pc \in {"preparing", "sending", "awaiting", "reading", "reconciling"}
    /\ Attempting(t)
    /\ targets[tab[t].pair].state \in FailableStates
    /\ \/ targets'[tab[t].pair].state \in {"pending-unknown", "terminal"}
       \/ /\ targets'[tab[t].pair].state = "retryable"
          /\ tab[t].pc \in {"preparing", "sending", "awaiting"}
          /\ At(t, "awaiting") => tab[t].pair \notin unresolved'
    /\ tab'[t] = Idle

\* The tab ends its attempt, or walks on, without touching the journal.
Drops(t) ==
    /\ UNCHANGED journalVars
    /\ attemptCounter'[t] \in {attemptCounter[t], attemptCounter[t] + 1}
    /\ attemptCounter'[t] \in 0..MaxClaims
    /\ tab'[t] = Idle

Walks(t) ==
    /\ UNCHANGED journalVars /\ UNCHANGED attemptCounter
    /\ \/ At(t, "preparing") /\ Re(t) \in Split /\ GoesTo(t, {"prepared"})
       \/ At(t, "preparing") /\ Re(t) \notin Split /\ GoesTo(t, {"sending"})
       \/ /\ At(t, "sending") /\ GoesTo(t, {"awaiting"})
          /\ vault[tab[t].pair] = 1 /\ unresolved' = unresolved \cup {tab[t].pair}
       \/ tab[t].pc \in {"sending", "awaiting"} /\ GoesTo(t, {"reading"})
       \/ /\ tab[t].pc \in {"sending", "awaiting", "reading", "reconciling"}
          /\ GoesTo(t, {"acked"})
          /\ HasEvidence(tab[t].pair) \/ tab[t].pair \in cells

\* Fail, in terms of the row.
LEMMA FailMoves ==
    ASSUME DeliveryTypeOK, NEW t \in Tabs, NEW s \in RetryDue \cup {"terminal"}, Fail(t, s),
           tab[t].pc \in {"preparing", "sending", "awaiting", "reading", "reconciling"},
           s = "retryable" => /\ tab[t].pc \in {"preparing", "sending", "awaiting"}
                              /\ At(t, "awaiting") => tab[t].pair \notin unresolved'
    PROVE  Fails(t) \/ Drops(t)
<1>0. /\ tab \in [Tabs -> {Idle} \cup Delivery] /\ JournalTypeOK
      /\ In(t) \in Intents /\ Re(t) \in Relays /\ tab[t].pair = <<In(t), Re(t)>>
      /\ attemptCounter[t] \in 0..MaxClaims
  BY TabShape DEF DeliveryTypeOK
<1>1. tab'[t] = Idle /\ UNCHANGED attemptCounter
  BY <1>0 DEF Fail, Finish
<1>2. CASE Holds(In(t), Re(t), tab[t].token, FailableStates)
  <2>1. PICK b : FailTarget(In(t), Re(t), tab[t].token, s, b)
    BY <1>2 DEF Fail
  <2>2. /\ OnlyRow(tab[t].pair) /\ In(t) \in intents
        /\ targets[tab[t].pair].state \in FailableStates /\ targets'[tab[t].pair].state = s
        /\ targets[tab[t].pair].token = tab[t].token
        /\ targets'[tab[t].pair].token = tab[t].token
    BY <1>0, <2>1, FailRow
  <2> QED BY <1>1, <2>2 DEF Fails, Attempting, RetryDue
<1>3. CASE ~Holds(In(t), Re(t), tab[t].token, FailableStates)
  BY <1>0, <1>1, <1>3 DEF Fail, Drops
<1> QED BY <1>2, <1>3

LEMMA ClaimMoves ==
    ASSUME DeliveryTypeOK, NEW t \in Tabs, Claim(t)
    PROVE  ClaimsFresh(t) \/ ClaimsAgain(t) \/ Drops(t)
<1> DEFINE i == In(t)
           r == Re(t)
           e == tab[t].expected
           proposed == <<t, attemptCounter[t] + 1>>
           s == IF e = "absent" /\ r \in Split THEN "preparing" ELSE "delivering"
<1>0. /\ tab \in [Tabs -> {Idle} \cup Delivery] /\ JournalTypeOK
      /\ tab[t] \in Delivery
      /\ i \in Intents /\ r \in Relays /\ tab[t].pair = <<i, r>>
      /\ e \in {"absent", "pending-unknown"}
  BY TabShape DEF DeliveryTypeOK, Claim, At, Delivery
<1>1. /\ attemptCounter \in [Tabs -> 0..MaxClaims]
      /\ attemptCounter' = [attemptCounter EXCEPT ![t] = @ + 1]
      /\ attemptCounter[t] < MaxClaims /\ At(t, "planned") /\ MaxClaims \in Nat
  BY DeliveryAssumption DEF Claim, DeliveryTypeOK
<1>2. /\ attemptCounter'[t] = attemptCounter[t] + 1 /\ attemptCounter'[t] \in 1..MaxClaims
      /\ attemptCounter'[t] \in 0..MaxClaims
      /\ proposed = <<t, attemptCounter'[t]>> /\ proposed \in Tokens
  BY <1>1, TokenShape
<1>3. CASE Claimable(i, r, e)
  <2>1. /\ ClaimTarget(i, r, s, e, proposed, now + Lease)
        /\ tab' = [tab EXCEPT ![t].pc = IF e = "absent" THEN "preparing" ELSE "reconciling",
                              ![t].token = ClaimToken(i, r, e, proposed)]
    BY <1>3 DEF Claim
  <2>2. /\ OnlyRow(tab[t].pair) /\ i \in intents
        /\ targets'[tab[t].pair].state = s
        /\ targets'[tab[t].pair].token = ClaimToken(i, r, e, proposed)
        /\ e = "absent" => targets[tab[t].pair].state \in ClaimableFresh
        /\ e # "absent" => targets[tab[t].pair].state = e
    BY <1>0, <1>2, <2>1, ClaimRow
  <2>3. /\ tab'[t].pc = IF e = "absent" THEN "preparing" ELSE "reconciling"
        /\ tab'[t].pair = tab[t].pair
        /\ tab'[t].token = ClaimToken(i, r, e, proposed)
    BY <1>0, <2>1 DEF Delivery
  <2>4. CASE e = "absent"
    <3>1. ClaimToken(i, r, e, proposed) = proposed
      BY <2>4 DEF ClaimToken
    <3> QED BY <1>1, <1>2, <2>2, <2>3, <2>4, <3>1 DEF ClaimsFresh
  <2>5. CASE e # "absent"
    <3>1. ClaimToken(i, r, e, proposed) =
            IF targets[tab[t].pair].token # NoToken THEN targets[tab[t].pair].token
                                                    ELSE proposed
      BY <1>0, <2>5 DEF ClaimToken
    <3>2. e = "pending-unknown"
      BY <1>0, <2>5
    <3> HIDE DEF i, e, proposed
    <3>3. s = "delivering"
      BY <2>5
    <3> HIDE DEF s
    <3> QED BY <1>1, <1>2, <2>2, <2>3, <2>5, <3>1, <3>2, <3>3 DEF ClaimsAgain, i
  <2> QED BY <2>4, <2>5
<1>4. CASE ~Claimable(i, r, e)
  BY <1>0, <1>2, <1>4 DEF Claim, Drops, Finish
<1> QED BY <1>3, <1>4

LEMMA AdvanceMoves ==
    ASSUME DeliveryTypeOK, NEW t \in Tabs, Advance(t)
    PROVE  Advances(t) \/ Drops(t)
<1>0. /\ tab \in [Tabs -> {Idle} \cup Delivery] /\ JournalTypeOK /\ tab[t] \in Delivery
      /\ In(t) \in Intents /\ Re(t) \in Relays /\ tab[t].pair = <<In(t), Re(t)>>
      /\ attemptCounter[t] \in 0..MaxClaims
  BY TabShape DEF DeliveryTypeOK, Advance, At
<1>1. CASE Holds(In(t), Re(t), tab[t].token, {"preparing"})
  BY <1>0, <1>1, TransitionRow DEF Advance, Goto, Advances, Attempting, GoesTo, Delivery
<1>2. CASE ~Holds(In(t), Re(t), tab[t].token, {"preparing"})
  BY <1>0, <1>2 DEF Advance, Finish, Drops
<1> QED BY <1>1, <1>2

LEMMA CompleteMoves ==
    ASSUME DeliveryTypeOK, NEW t \in Tabs, Complete(t)
    PROVE  Completes(t) \/ Drops(t)
<1>0. /\ tab \in [Tabs -> {Idle} \cup Delivery] /\ JournalTypeOK
      /\ In(t) \in Intents /\ Re(t) \in Relays /\ tab[t].pair = <<In(t), Re(t)>>
      /\ attemptCounter[t] \in 0..MaxClaims
  BY TabShape DEF DeliveryTypeOK, Complete, At
<1>1. CASE Holds(In(t), Re(t), tab[t].token, {"delivering", "pending-unknown"})
  <2>1. PICK s \in Acknowledged : CompleteTarget(In(t), Re(t), tab[t].token, s)
    BY <1>1 DEF Complete, Acknowledged
  <2>2. tab'[t] = Idle /\ UNCHANGED attemptCounter
    BY <1>0 DEF Complete, Finish
  <2> QED BY <1>0, <2>1, <2>2, CompleteRow DEF Complete, Completes, Attempting
<1>2. CASE ~Holds(In(t), Re(t), tab[t].token, {"delivering", "pending-unknown"})
  BY <1>0, <1>2 DEF Complete, Finish, Drops
<1> QED BY <1>1, <1>2

\* A step that only moves the program counter.
LEMMA GotoMoves ==
    ASSUME DeliveryTypeOK, NEW t \in Tabs, tab[t].pc # "idle", NEW pc, Goto(t, pc)
    PROVE  GoesTo(t, {pc})
<1>1. tab \in [Tabs -> {Idle} \cup Delivery] /\ tab[t] \in Delivery
  BY TabShape DEF DeliveryTypeOK
<1> QED BY <1>1 DEF Goto, GoesTo, Delivery

LEMMA AttemptMoves ==
    ASSUME DeliveryTypeOK, NEW t \in Tabs, Attempt(t)
    PROVE  /\ tab[t].pc # "idle"
           /\ ClaimsFresh(t) \/ ClaimsAgain(t) \/ Advances(t) \/ Completes(t) \/ Fails(t)
              \/ Drops(t) \/ Walks(t)
<1>1. CASE Claim(t)
  BY <1>1, ClaimMoves DEF Claim, At
<1>2. CASE Prepare(t)
  <2>1. At(t, "preparing") /\ tab[t].pc # "idle"
    BY <1>2 DEF Prepare, At
  <2> QED BY <1>2, <2>1, GotoMoves DEF Prepare, Walks
<1>3. CASE PrepareFails(t)
  BY <1>3, FailMoves DEF PrepareFails, At, RetryDue
<1>4. CASE PrepareTimesOut(t)
  BY <1>4, FailMoves DEF PrepareTimesOut, At, RetryDue
<1>5. CASE Advance(t)
  BY <1>5, AdvanceMoves DEF Advance, At
<1>6. CASE Send(t)
  <2>1. At(t, "sending") /\ tab[t].pc # "idle" /\ UNCHANGED <<journalVars, attemptCounter>>
    BY <1>6 DEF Send, At
  <2>2. \/ Goto(t, "acked") /\ HasEvidence(tab[t].pair)
        \/ Goto(t, "reading")
        \/ /\ Goto(t, "awaiting") /\ vault[tab[t].pair] = 1
           /\ unresolved' = unresolved \cup {tab[t].pair}
    BY <1>6 DEF Send
  <2> QED BY <2>1, <2>2, GotoMoves DEF Walks, At
<1>7. CASE NotSent(t)
  BY <1>7, FailMoves DEF NotSent, At, RetryDue
<1>8. CASE PutOk(t)
  <2>1. At(t, "awaiting") /\ tab[t].pc # "idle" /\ UNCHANGED <<journalVars, attemptCounter>>
    BY <1>8 DEF PutOk, At
  <2>2. (Goto(t, "acked") \/ Goto(t, "reading")) /\ tab[t].pair \in cells
    BY <1>8 DEF PutOk
  <2> QED BY <2>1, <2>2, GotoMoves DEF Walks, At
<1>9. CASE PutRefused(t)
  <2>1. At(t, "awaiting") /\ unresolved' = unresolved \ {tab[t].pair}
    BY <1>9 DEF PutRefused
  <2> QED BY <1>9, <2>1, FailMoves DEF PutRefused, At, RetryDue
<1>10. CASE GetFound(t)
  <2>1. tab[t].pc \in {"reading", "reconciling"} /\ UNCHANGED <<journalVars, attemptCounter>>
    BY <1>10 DEF GetFound, Reading, At
  <2>2. Goto(t, "acked") /\ tab[t].pair \in cells
    BY <1>10 DEF GetFound
  <2> QED BY <2>1, <2>2, GotoMoves DEF Walks
<1>11. CASE ReadTerminal(t)
  BY <1>11, FailMoves DEF ReadTerminal, Reading, At, RetryDue
<1>12. CASE ReconcileFromVault(t)
  <2>1. tab[t].pc = "reconciling" /\ UNCHANGED <<journalVars, attemptCounter>>
    BY <1>12 DEF ReconcileFromVault, At
  <2>2. Goto(t, "acked") /\ HasEvidence(tab[t].pair)
    BY <1>12 DEF ReconcileFromVault
  <2> QED BY <2>1, <2>2, GotoMoves DEF Walks
<1>13. CASE TimesOut(t)
  BY <1>13, FailMoves DEF TimesOut, RetryDue
<1>14. CASE Complete(t)
  BY <1>14, CompleteMoves DEF Complete, At
<1> QED BY <1>1, <1>2, <1>3, <1>4, <1>5, <1>6, <1>7, <1>8, <1>9, <1>10, <1>11, <1>12, <1>13,
           <1>14 DEF Attempt

\* An attempt leaves the other tabs alone.
LEMMA OthersStay ==
    ASSUME DeliveryTypeOK, NEW t \in Tabs, NEW u \in Tabs, u # t,
           \/ Attempt(t) \/ Reload(t)
           \/ \E i \in Intents, r \in Relays : Plan(t, i, r)
    PROVE  tab'[u] = tab[u] /\ attemptCounter'[u] = attemptCounter[u]
<1>1. tab \in [Tabs -> {Idle} \cup Delivery] /\ attemptCounter \in [Tabs -> 0..MaxClaims]
  BY DEF DeliveryTypeOK
<1>2. \/ \E x : tab' = [tab EXCEPT ![t] = x]
      \/ \E x : tab' = [tab EXCEPT ![t].pc = x]
      \/ \E x, y : tab' = [tab EXCEPT ![t].pc = x, ![t].token = y]
  BY DEF Attempt, Claim, Prepare, PrepareFails, PrepareTimesOut, Advance, Send, NotSent, PutOk,
         PutRefused, GetFound, ReadTerminal, ReconcileFromVault, TimesOut, Complete, Fail,
         Goto, Finish, Plan, Reload
<1>3. \/ UNCHANGED attemptCounter
      \/ attemptCounter' = [attemptCounter EXCEPT ![t] = @ + 1]
  BY DEF Attempt, Claim, Prepare, PrepareFails, PrepareTimesOut, Advance, Send, NotSent, PutOk,
         PutRefused, GetFound, ReadTerminal, ReconcileFromVault, TimesOut, Complete, Fail,
         Plan, Reload
<1> QED BY <1>1, <1>2, <1>3

\* An attempt leaves the relays' Cells and the identities of the journal alone, and only a
\* send of a replica that is prepared and no more puts anything on the wire.
LEMMA AttemptKeeps ==
    ASSUME DeliveryTypeOK, NEW t \in Tabs, Attempt(t)
    PROVE  /\ UNCHANGED <<intents, dedupe, cells>>
           /\ tab'[t] = Idle \/ tab'[t].pair = tab[t].pair
           /\ \/ puts' \subseteq puts /\ unresolved' \subseteq unresolved
              \/ /\ At(t, "sending") /\ vault[tab[t].pair] = 1
                 /\ puts' = puts \cup {<<tab[t].pair, tab[t].token>>}
                 /\ unresolved' = unresolved \cup {tab[t].pair}
                 /\ tab'[t].pc = "awaiting"
<1>1. /\ UNCHANGED <<intents, dedupe>>
      /\ tab'[t] = Idle \/ tab'[t].pair = tab[t].pair
  <2>1. CASE ClaimsFresh(t) \/ ClaimsAgain(t)
    BY <2>1 DEF ClaimsFresh, ClaimsAgain, OnlyRow
  <2>2. CASE Advances(t) \/ Completes(t) \/ Fails(t)
    BY <2>2 DEF Advances, Completes, Fails, Attempting, GoesTo, OnlyRow
  <2>3. CASE Drops(t) \/ Walks(t)
    BY <2>3 DEF Drops, Walks, GoesTo, journalVars, intentRows, dedupeRows
  <2> QED BY <2>1, <2>2, <2>3, AttemptMoves
<1>2. CASE Send(t)
  <2>1. \/ UNCHANGED <<puts, unresolved>>
        \/ /\ vault[tab[t].pair] = 1
           /\ puts' = puts \cup {<<tab[t].pair, tab[t].token>>}
           /\ unresolved' = unresolved \cup {tab[t].pair}
           /\ Goto(t, "awaiting")
    BY <1>2 DEF Send
  <2>2. At(t, "sending") /\ tab[t].pc # "idle" /\ UNCHANGED cells
    BY <1>2 DEF Send, At
  <2> QED BY <1>1, <2>1, <2>2, GotoMoves DEF GoesTo
<1>3. CASE ~Send(t)
  <2>1. UNCHANGED cells /\ puts' \subseteq puts /\ unresolved' \subseteq unresolved
    BY <1>3 DEF Attempt, Claim, Prepare, PrepareFails, PrepareTimesOut, Advance, NotSent,
       PutOk, PutRefused, GetFound, ReadTerminal, ReconcileFromVault, TimesOut, Complete, remote
  <2> QED BY <1>1, <2>1
<1> QED BY <1>2, <1>3

\* The steps outside an attempt, by what they touch.
Plans(t) ==
    /\ UNCHANGED <<journalVars, attemptCounter, remote>>
    /\ \/ tab'[t] = Idle
       \/ /\ tab'[t].pc = "planned" /\ tab'[t].pair \in Pairs
          /\ tab'[t].pair[1] \in intents

Records ==
    /\ UNCHANGED <<tab, attemptCounter, remote>>
    /\ \E i \in Intents : CommitIntent(i, now)

Recovers == UNCHANGED <<tab, attemptCounter, remote>> /\ RecoverExpiredClaims

Compacts ==
    /\ UNCHANGED <<tab, attemptCounter, vault, puts, cells>>
    /\ Compact
    /\ \A i \in (intents \cup dedupe) \ (intents' \cup dedupe') : ~Busy(i)
    /\ unresolved' = {p \in unresolved : p[1] \in intents' \cup dedupe'}

\* A PUT arrives or is lost, a tab is latched off, or time passes.
Elsewhere ==
    /\ UNCHANGED <<tab, attemptCounter, vault, unresolved, intents, dedupe, targets,
                   acknowledgedTargets>>
    /\ puts' \subseteq puts
    /\ cells \subseteq cells' /\ \A p \in cells' \ cells : \E x \in puts : x[1] = p

LEMMA StepKinds ==
    ASSUME DeliveryTypeOK, [Next]_vars
    PROVE  \/ \E t \in Tabs : Attempt(t)
           \/ \E t \in Tabs : /\ Plans(t)
                             /\ \A u \in Tabs \ {t} : tab'[u] = tab[u]
           \/ Records \/ Recovers \/ Compacts \/ Elsewhere
<1>1. ASSUME NEW t \in Tabs, NEW i \in Intents, NEW r \in Relays, Plan(t, i, r)
      PROVE  Plans(t) /\ \A u \in Tabs \ {t} : tab'[u] = tab[u]
  <2>1. tab \in [Tabs -> {Idle} \cup Delivery] /\ <<i, r>> \in Pairs /\ i \in intents
    BY <1>1 DEF Plan, Visited, DeliveryTypeOK, Pairs
  <2>2. \E e, x : tab' = [tab EXCEPT ![t] = [pc |-> "planned", pair |-> <<i, r>>, token |-> x,
                                            expected |-> e]]
    BY <1>1 DEF Plan
  <2>3. tab'[t].pc = "planned" /\ tab'[t].pair = <<i, r>> /\ \A u \in Tabs \ {t} : tab'[u] = tab[u]
    BY <2>1, <2>2
  <2>4. UNCHANGED <<journalVars, attemptCounter, remote>>
    BY <1>1 DEF Plan
  <2> QED BY <2>1, <2>3, <2>4 DEF Plans
<1>2. ASSUME NEW t \in Tabs, Reload(t)
      PROVE  Plans(t) /\ \A u \in Tabs \ {t} : tab'[u] = tab[u]
  BY <1>2 DEF Reload, Finish, Plans, DeliveryTypeOK
<1>3. ASSUME NEW t \in Tabs, NEW i \in Intents, Append(t, i) PROVE Records
  BY <1>3 DEF Append, Records, syncVars, remote
<1>4. ASSUME NEW t \in Tabs, Recover(t) PROVE Recovers
  BY <1>4 DEF Recover, Recovers, syncVars, remote
<1>5. ASSUME NEW t \in Tabs, CompactJournal(t) PROVE Compacts
  BY <1>5 DEF CompactJournal, Compacts, syncVars
<1>6. ASSUME UNCHANGED <<journalVars, tab, attemptCounter, remote>> PROVE Elsewhere
  BY <1>6 DEF Elsewhere, journalVars, intentRows, dedupeRows, remote
<1>7. CASE (\E t \in Tabs, i \in Intents : AppendRefused(t, i)) \/ UNCHANGED vars
  BY <1>6, <1>7 DEF AppendRefused, vars, syncVars
<1>8. CASE \E x \in puts : RelayStores(x) \/ PutLost(x)
  BY <1>8 DEF RelayStores, PutLost, Elsewhere, syncVars, journalVars, intentRows, dedupeRows
<1>9. CASE Time
  BY <1>9 DEF Time, Tick, Elsewhere, syncVars, remote, intentRows, dedupeRows
<1> QED BY <1>1, <1>2, <1>3, <1>4, <1>5, <1>7, <1>8, <1>9 DEF Next

-----------------------------------------------------------------------------
(* The journal only does what PeeritJournal says *)

LEMMA FailStep ==
    ASSUME NEW t \in Tabs, NEW s \in RetryDue \cup {"terminal"}, Fail(t, s),
           In(t) \in Intents, Re(t) \in Relays, tab[t].token \in Tokens
    PROVE  [JournalNext]_journalVars
<1>1. (s = "pending-unknown" /\ tab[t].expected = "absent") \in BOOLEAN
  OBVIOUS
<1> QED BY <1>1 DEF Fail, JournalNext

LEMMA AttemptIsJournalStep ==
    ASSUME DeliveryTypeOK, TokensIssued, NEW t \in Tabs, Attempt(t)
    PROVE  [JournalNext]_journalVars
<1>0. /\ In(t) \in Intents /\ Re(t) \in Relays /\ tab[t] \in Delivery
      /\ tab[t].pc # "planned" => tab[t].token \in Tokens
      /\ now \in Nat /\ Lease \in Nat /\ now + Lease \in now..(now + Lease)
  <2>1. now \in Nat /\ Lease \in Nat
    BY ConstantsAssumption DEF DeliveryTypeOK, JournalTypeOK
  <2> QED BY <2>1, AttemptMoves, TabShape DEF TokensIssued
<1>1. CASE Claim(t)
  <2>1. CASE Claimable(In(t), Re(t), tab[t].expected)
    <3>1. <<t, attemptCounter[t] + 1>> \in Tokens
      <4>1. attemptCounter[t] + 1 \in 1..MaxClaims
        BY <1>1, DeliveryAssumption DEF Claim, DeliveryTypeOK
      <4> QED BY <4>1, TokenShape
    <3>2. \E s \in InFlight :
            ClaimTarget(In(t), Re(t), s, tab[t].expected, <<t, attemptCounter[t] + 1>>, now + Lease)
      BY <1>1, <2>1 DEF Claim, InFlight
    <3>3. tab[t].expected \in {"absent", "pending-unknown"}
      BY <1>0 DEF Delivery
    <3> QED BY <1>0, <3>1, <3>2, <3>3 DEF JournalNext
  <2>2. CASE ~Claimable(In(t), Re(t), tab[t].expected)
    BY <1>1, <2>2 DEF Claim
  <2> QED BY <2>1, <2>2
<1>2. CASE Advance(t)
  BY <1>0, <1>2 DEF Advance, At, JournalNext
<1>3. CASE Complete(t)
  <2>1. tab[t].token \in Tokens
    BY <1>0, <1>3 DEF Complete, At
  <2>2. \/ UNCHANGED journalVars
        \/ \E s \in Acknowledged : CompleteTarget(In(t), Re(t), tab[t].token, s)
    BY <1>3 DEF Complete, Acknowledged
  <2> QED BY <1>0, <2>1, <2>2 DEF JournalNext
<1>4. CASE PrepareFails(t) \/ PrepareTimesOut(t) \/ NotSent(t) \/ PutRefused(t)
           \/ ReadTerminal(t) \/ TimesOut(t)
  <2>1. tab[t].pc # "planned" /\ \E s \in RetryDue \cup {"terminal"} : Fail(t, s)
    BY <1>4 DEF PrepareFails, PrepareTimesOut, NotSent, PutRefused, ReadTerminal, TimesOut,
                Reading, At, RetryDue
  <2> QED BY <1>0, <2>1, FailStep
<1>5. CASE Prepare(t) \/ Send(t) \/ PutOk(t) \/ GetFound(t) \/ ReconcileFromVault(t)
  BY <1>5 DEF Prepare, Send, PutOk, GetFound, ReconcileFromVault
<1> QED BY <1>1, <1>2, <1>3, <1>4, <1>5 DEF Attempt

LEMMA DeliveryIsJournalStep ==
    ASSUME DeliveryTypeOK, TokensIssued, [Next]_vars
    PROVE  [JournalNext]_journalVars
<1>1. now \in 0..now
  BY DEF DeliveryTypeOK, JournalTypeOK
<1>2. CASE \E t \in Tabs : Attempt(t)
  BY <1>2, AttemptIsJournalStep
<1>3. CASE \E t \in Tabs, i \in Intents : Append(t, i)
  BY <1>1, <1>3 DEF Append, JournalNext
<1>4. CASE \E t \in Tabs : Recover(t) \/ CompactJournal(t)
  BY <1>4 DEF Recover, CompactJournal, JournalNext
<1>5. CASE Time
  BY <1>5 DEF Time, JournalNext
<1>6. CASE \/ \E t \in Tabs, i \in Intents : AppendRefused(t, i)
           \/ \E t \in Tabs, i \in Intents, r \in Relays : Plan(t, i, r)
           \/ \E x \in puts : RelayStores(x) \/ PutLost(x)
           \/ \E t \in Tabs : Reload(t)
           \/ UNCHANGED vars
  BY <1>6 DEF AppendRefused, Plan, RelayStores, PutLost, Reload, vars
<1> QED BY <1>2, <1>3, <1>4, <1>5, <1>6 DEF Next
-----------------------------------------------------------------------------
(* Types *)

LEMMA TabTyped ==
    ASSUME DeliveryTypeOK, NEW t \in Tabs, Attempt(t)
    PROVE  /\ tab' \in [Tabs -> {Idle} \cup Delivery]
           /\ attemptCounter' \in [Tabs -> 0..MaxClaims]
<1>0. /\ tab \in [Tabs -> {Idle} \cup Delivery] /\ tab[t] \in Delivery
      /\ attemptCounter \in [Tabs -> 0..MaxClaims]
      /\ targets[tab[t].pair] \in TargetRow
      /\ tab[t].pair = <<In(t), Re(t)>>
  BY AttemptMoves, TabShape DEF DeliveryTypeOK
<1>1. ASSUME tab' = [tab EXCEPT ![t] = Idle]
      PROVE  tab' \in [Tabs -> {Idle} \cup Delivery]
  BY <1>0, <1>1
<1>2. ASSUME NEW x \in {"preparing", "prepared", "sending", "awaiting", "reconciling", "reading",
                         "acked"},
             tab' = [tab EXCEPT ![t].pc = x]
      PROVE  tab' \in [Tabs -> {Idle} \cup Delivery]
  <2>1. [tab[t] EXCEPT !.pc = x] \in Delivery
    BY <1>0 DEF Delivery
  <2>2. tab' = [tab EXCEPT ![t] = [tab[t] EXCEPT !.pc = x]]
    BY <1>0, <1>2
  <2> QED BY <1>0, <2>1, <2>2
<1>3. ASSUME NEW x \in {"preparing", "reconciling"}, NEW y \in Tokens \cup {NoToken},
             tab' = [tab EXCEPT ![t].pc = x, ![t].token = y]
      PROVE  tab' \in [Tabs -> {Idle} \cup Delivery]
  <2>1. [tab[t] EXCEPT !.pc = x, !.token = y] \in Delivery
    BY <1>0 DEF Delivery
  <2>2. tab' = [tab EXCEPT ![t] = [tab[t] EXCEPT !.pc = x, !.token = y]]
    BY <1>0, <1>3
  <2> QED BY <1>0, <2>1, <2>2
<1>4. CASE Claim(t)
  <2>1. /\ attemptCounter' = [attemptCounter EXCEPT ![t] = @ + 1]
        /\ attemptCounter[t] + 1 \in 1..MaxClaims
    BY <1>0, <1>4, DeliveryAssumption DEF Claim
  <2>2. attemptCounter[t] + 1 \in 0..MaxClaims
    BY <2>1
  <2>3. attemptCounter' \in [Tabs -> 0..MaxClaims]
    BY <1>0, <2>1, <2>2
  <2>4. CASE Claimable(In(t), Re(t), tab[t].expected)
    <3>1. tab' = [tab EXCEPT ![t].pc = IF tab[t].expected = "absent" THEN "preparing"
                                                                    ELSE "reconciling",
                             ![t].token = ClaimToken(In(t), Re(t), tab[t].expected,
                                                     <<t, attemptCounter[t] + 1>>)]
      BY <1>4, <2>4 DEF Claim
    <3>2. ClaimToken(In(t), Re(t), tab[t].expected, <<t, attemptCounter[t] + 1>>)
            \in Tokens \cup {NoToken}
      BY <1>0, <2>1, TokenShape DEF ClaimToken, TargetRow
    <3> QED BY <1>3, <2>3, <3>1, <3>2
  <2>5. CASE ~Claimable(In(t), Re(t), tab[t].expected)
    BY <1>1, <1>4, <2>3, <2>5 DEF Claim, Finish
  <2> QED BY <2>4, <2>5
<1>5. CASE PrepareFails(t) \/ PrepareTimesOut(t) \/ NotSent(t) \/ PutRefused(t)
           \/ ReadTerminal(t) \/ TimesOut(t) \/ Complete(t)
  BY <1>0, <1>1, <1>5 DEF PrepareFails, PrepareTimesOut, NotSent, PutRefused, ReadTerminal,
     TimesOut, Complete, Fail, Finish
<1>6. CASE Prepare(t) \/ Send(t) \/ PutOk(t) \/ GetFound(t) \/ ReconcileFromVault(t)
  BY <1>0, <1>2, <1>6 DEF Prepare, Send, PutOk, GetFound, ReconcileFromVault, Goto
<1>7. CASE Advance(t)
  BY <1>0, <1>1, <1>2, <1>7 DEF Advance, Goto, Finish
<1> QED BY <1>4, <1>5, <1>6, <1>7 DEF Attempt

\* A persisted replica only advances, and past its preparation only with evidence.
LEMMA VaultMoves ==
    ASSUME DeliveryTypeOK, NEW t \in Tabs, Attempt(t)
    PROVE  /\ vault' \in [Pairs -> 0..3]
           /\ \A q \in Pairs :
                 \/ vault'[q] = vault[q]
                 \/ vault[q] = 0 /\ vault'[q] = 1
                 \/ q \in cells /\ vault'[q] \in {2, 3}
<1>0. vault \in [Pairs -> 0..3] /\ tab[t].pair \in Pairs
  BY AttemptMoves, TabShape DEF DeliveryTypeOK
<1>1. ASSUME NEW n \in 0..3, vault' = [vault EXCEPT ![tab[t].pair] = n],
             \/ n = vault[tab[t].pair]
             \/ vault[tab[t].pair] = 0 /\ n = 1
             \/ tab[t].pair \in cells /\ n \in {2, 3}
      PROVE  /\ vault' \in [Pairs -> 0..3]
             /\ \A q \in Pairs :
                   \/ vault'[q] = vault[q]
                   \/ vault[q] = 0 /\ vault'[q] = 1
                   \/ q \in cells /\ vault'[q] \in {2, 3}
  BY <1>0, <1>1
<1>2. CASE Prepare(t)
  <2>1. CASE vault[tab[t].pair] = 0
    BY <1>1, <1>2, <2>1 DEF Prepare
  <2>2. CASE vault[tab[t].pair] # 0
    <3>1. vault' = [vault EXCEPT ![tab[t].pair] = vault[tab[t].pair]]
      BY <1>2, <2>2 DEF Prepare
    <3> QED BY <1>0, <1>1, <3>1
  <2> QED BY <2>1, <2>2
<1>3. CASE PutOk(t)
  <2>0. tab[t].pair \in cells
    BY <1>3 DEF PutOk
  <2>1. CASE vault[tab[t].pair] < 2
    <3>1. vault' = [vault EXCEPT ![tab[t].pair] = 2]
      BY <1>3, <2>1 DEF PutOk
    <3> QED BY <1>1, <2>0, <3>1
  <2>2. CASE ~(vault[tab[t].pair] < 2)
    <3>1. vault' = [vault EXCEPT ![tab[t].pair] = vault[tab[t].pair]]
      BY <1>3, <2>2 DEF PutOk
    <3> QED BY <1>0, <1>1, <3>1
  <2> QED BY <2>1, <2>2
<1>4. CASE GetFound(t)
  BY <1>1, <1>4 DEF GetFound
<1>5. CASE TimesOut(t)
  <2>1. \/ UNCHANGED vault
        \/ tab[t].pair \in cells /\ vault' = [vault EXCEPT ![tab[t].pair] = 2]
    BY <1>5 DEF TimesOut
  <2> QED BY <1>0, <1>1, <2>1
<1>6. CASE \/ Claim(t) \/ PrepareFails(t) \/ PrepareTimesOut(t) \/ Advance(t) \/ Send(t)
           \/ NotSent(t) \/ PutRefused(t) \/ ReadTerminal(t) \/ ReconcileFromVault(t)
           \/ Complete(t)
  <2>1. UNCHANGED vault
    BY <1>6 DEF Claim, PrepareFails, PrepareTimesOut, Advance, Send, NotSent, PutRefused,
       ReadTerminal, ReconcileFromVault, Complete, remote
  <2> QED BY <1>0, <2>1
<1> QED BY <1>2, <1>3, <1>4, <1>5, <1>6 DEF Attempt

LEMMA RemoteTyped ==
    ASSUME DeliveryTypeOK, TokensIssued, [Next]_vars
    PROVE  /\ vault' \in [Pairs -> 0..3] /\ puts' \subseteq Pairs \X Tokens
           /\ cells' \subseteq Pairs /\ unresolved' \subseteq Pairs
<1>0. /\ vault \in [Pairs -> 0..3] /\ puts \subseteq Pairs \X Tokens
      /\ cells \subseteq Pairs /\ unresolved \subseteq Pairs
  BY DEF DeliveryTypeOK
<1>1. ASSUME NEW t \in Tabs, Attempt(t)
      PROVE  /\ vault' \in [Pairs -> 0..3] /\ puts' \subseteq Pairs \X Tokens
             /\ cells' \subseteq Pairs /\ unresolved' \subseteq Pairs
  <2>1. tab[t].pair \in Pairs /\ (tab[t].pc # "planned" => tab[t].token \in Tokens)
    BY <1>1, AttemptMoves, TabShape DEF TokensIssued
  <2>2. vault' \in [Pairs -> 0..3]
    BY <1>1, VaultMoves
  <2> QED BY <1>0, <1>1, <2>1, <2>2, AttemptKeeps DEF At
<1>2. CASE Elsewhere
  BY <1>0, <1>2 DEF Elsewhere
<1>3. CASE Compacts
  BY <1>0, <1>3 DEF Compacts
<1>4. CASE Records \/ Recovers \/ \E t \in Tabs : Plans(t)
  BY <1>0, <1>4 DEF Records, Recovers, Plans, remote
<1> QED BY <1>1, <1>2, <1>3, <1>4, StepKinds

LEMMA TypeStep ==
    ASSUME StoreInv, DeliveryTypeOK, TokensIssued, [Next]_vars
    PROVE  StoreInv' /\ DeliveryTypeOK'
<1>1. StoreInv'
  BY DeliveryIsJournalStep, StoreInvInductive
<1>2. JournalTypeOK'
  BY <1>1 DEF StoreInv, JournalInv
<1>3. tab' \in [Tabs -> {Idle} \cup Delivery] /\ attemptCounter' \in [Tabs -> 0..MaxClaims]
  <2>1. ASSUME NEW t \in Tabs, NEW i \in Intents, NEW r \in Relays, Plan(t, i, r)
        PROVE  tab' \in [Tabs -> {Idle} \cup Delivery]
    <3>1. \E e \in {"absent", "pending-unknown"} :
            tab' = [tab EXCEPT ![t] = [pc |-> "planned", pair |-> <<i, r>>, token |-> NoToken,
                                       expected |-> e]]
      BY <2>1 DEF Plan
    <3>2. \A e \in {"absent", "pending-unknown"} :
            [pc |-> "planned", pair |-> <<i, r>>, token |-> NoToken, expected |-> e] \in Delivery
      BY DEF Delivery, Pairs
    <3> QED BY <3>1, <3>2 DEF DeliveryTypeOK
  <2>2. ASSUME NEW t \in Tabs, Reload(t)
        PROVE  tab' \in [Tabs -> {Idle} \cup Delivery]
    BY <2>2 DEF Reload, Finish, DeliveryTypeOK
  <2>3. CASE \E t \in Tabs : Attempt(t)
    BY <2>3, TabTyped
  <2>4. CASE ~\E t \in Tabs : Attempt(t)
    <3>1. /\ UNCHANGED attemptCounter
          /\ \/ UNCHANGED tab
             \/ \E t \in Tabs : Reload(t)
             \/ \E t \in Tabs, i \in Intents, r \in Relays : Plan(t, i, r)
      BY <2>4 DEF Next, Append, AppendRefused, Plan, RelayStores, PutLost, Recover,
         CompactJournal, Reload, Time, vars, syncVars
    <3> QED BY <2>1, <2>2, <3>1 DEF DeliveryTypeOK
  <2> QED BY <2>3, <2>4
<1>4. localFailure' \subseteq Tabs
  <2>1. \/ localFailure' \subseteq localFailure
        \/ \E t \in Tabs : localFailure' = localFailure \cup {t}
    BY DEF Next, Append, AppendRefused, Plan, RelayStores, PutLost, Recover, CompactJournal,
       Reload, Time, vars, syncVars, Attempt, Claim, Prepare, PrepareFails, PrepareTimesOut,
       Advance, Send, NotSent, PutOk, PutRefused, GetFound, ReadTerminal, ReconcileFromVault,
       TimesOut, Complete, Fail
  <2> QED BY <2>1 DEF DeliveryTypeOK
<1> QED BY <1>1, <1>2, <1>3, <1>4, RemoteTyped DEF DeliveryTypeOK

-----------------------------------------------------------------------------
(* Tokens *)

\* An attempt draws at most one token, the next of its tab.
LEMMA TokensDrawn ==
    ASSUME DeliveryTypeOK, attemptCounter' \in [Tabs -> 0..MaxClaims], NEW t \in Tabs, Attempt(t)
    PROVE  /\ \A u \in Tabs : attemptCounter[u] <= attemptCounter'[u]
           /\ \A p \in Pairs : targets'[p].token # targets[p].token =>
                 /\ targets'[p].token = <<t, attemptCounter'[t]>>
                 /\ attemptCounter'[t] \in 1..MaxClaims
<1>0. /\ attemptCounter \in [Tabs -> 0..MaxClaims]
      /\ \A u \in Tabs : u # t => attemptCounter'[u] = attemptCounter[u]
  BY OthersStay DEF DeliveryTypeOK
<1>1. attemptCounter'[t] \in {attemptCounter[t], attemptCounter[t] + 1}
  <2>1. CASE ClaimsFresh(t) \/ ClaimsAgain(t)
    BY <2>1 DEF ClaimsFresh, ClaimsAgain
  <2>2. CASE Advances(t) \/ Completes(t) \/ Fails(t) \/ Walks(t)
    BY <2>2 DEF Advances, Completes, Fails, Walks, Attempting
  <2>3. CASE Drops(t)
    BY <2>3 DEF Drops
  <2> QED BY <2>1, <2>2, <2>3, AttemptMoves
<1>2. \A u \in Tabs : attemptCounter[u] <= attemptCounter'[u]
  BY <1>0, <1>1, DeliveryAssumption
<1>3. ASSUME NEW p \in Pairs, targets'[p].token # targets[p].token
      PROVE  /\ targets'[p].token = <<t, attemptCounter'[t]>>
             /\ attemptCounter'[t] \in 1..MaxClaims
  <2>1. CASE ClaimsFresh(t)
    BY <1>3, <2>1 DEF ClaimsFresh, OnlyRow
  <2>2. CASE ClaimsAgain(t)
    BY <1>3, <2>2 DEF ClaimsAgain, OnlyRow
  <2>3. CASE Advances(t) \/ Completes(t) \/ Fails(t)
    BY <1>3, <2>3 DEF Advances, Completes, Fails, Attempting, OnlyRow
  <2>4. CASE Drops(t) \/ Walks(t)
    BY <1>3, <2>4 DEF Drops, Walks, journalVars
  <2> QED BY <2>1, <2>2, <2>3, <2>4, AttemptMoves
<1> QED BY <1>2, <1>3

LEMMA TokenStep ==
    ASSUME StoreInv, DeliveryTypeOK, TokensIssued, [Next]_vars
    PROVE  TokensIssued'
<1> DEFINE Sending == {"preparing", "prepared", "sending", "awaiting", "reading"}
<1>0. /\ \A p \in Pairs : targets[p].token \in Tokens \cup {NoToken}
      /\ attemptCounter \in [Tabs -> 0..MaxClaims] /\ attemptCounter' \in [Tabs -> 0..MaxClaims]
  BY TypeStep DEF DeliveryTypeOK, JournalTypeOK, TargetRow
<1>1. CASE \E t \in Tabs : Attempt(t)
  <2>0. PICK t \in Tabs : Attempt(t)
    BY <1>1
  <2> DEFINE Issued(x) == x[2] <= attemptCounter'[x[1]]
  <2>1. tab[t].pair \in Pairs
    BY <2>0, AttemptMoves, TabShape
  <2>2. ASSUME NEW x \in Tokens, IssuedToken(x) PROVE Issued(x)
    <3>1. x[1] \in Tabs /\ x[2] \in 1..MaxClaims
      BY TokenShape
    <3>2. attemptCounter[x[1]] <= attemptCounter'[x[1]]
      BY <1>0, <2>0, <3>1, TokensDrawn
    <3>3. x[2] <= attemptCounter[x[1]]
      BY <2>2 DEF IssuedToken
    <3>4. attemptCounter[x[1]] \in 0..MaxClaims /\ attemptCounter'[x[1]] \in 0..MaxClaims
      BY <1>0, <3>1
    <3> QED BY <3>1, <3>2, <3>3, <3>4, DeliveryAssumption
  <2>3. ASSUME attemptCounter'[t] \in 1..MaxClaims
        PROVE  <<t, attemptCounter'[t]>> \in Tokens /\ Issued(<<t, attemptCounter'[t]>>)
    BY <2>3, TokenShape, DeliveryAssumption
  <2> HIDE DEF Issued
  <2>4. ASSUME NEW q \in Pairs, targets'[q].token # NoToken
        PROVE  Issued(targets'[q].token)
    <3>1. CASE targets'[q].token = targets[q].token
      BY <1>0, <2>2, <2>4, <3>1 DEF TokensIssued
    <3>2. CASE targets'[q].token # targets[q].token
      <4>1. attemptCounter'[t] \in 1..MaxClaims /\ targets'[q].token = <<t, attemptCounter'[t]>>
        BY <1>0, <2>0, <3>2, TokensDrawn
      <4> QED BY <2>3, <4>1
    <3> QED BY <3>1, <3>2
  <2>5. ASSUME tab[t].pc \notin {"idle", "planned"}, tab'[t].token = tab[t].token
        PROVE  tab'[t].token \in Tokens /\ Issued(tab'[t].token)
    BY <2>2, <2>5 DEF TokensIssued
  <2>6. ASSUME tab'[t].pc \notin {"idle", "planned"}
        PROVE  /\ tab'[t].token \in Tokens /\ Issued(tab'[t].token)
               /\ tab'[t].pc \in Sending => tab'[t].token = <<t, attemptCounter'[t]>>
    <3>1. CASE ClaimsFresh(t)
      <4>1. attemptCounter'[t] \in 1..MaxClaims /\ tab'[t].token = <<t, attemptCounter'[t]>>
        BY <3>1 DEF ClaimsFresh
      <4> QED BY <2>3, <4>1
    <3>2. CASE ClaimsAgain(t)
      <4>1. /\ attemptCounter'[t] \in 1..MaxClaims /\ tab'[t].pc = "reconciling"
            /\ \/ /\ targets[tab[t].pair].token # NoToken
                  /\ tab'[t].token = targets[tab[t].pair].token
               \/ tab'[t].token = <<t, attemptCounter'[t]>>
        BY <3>2 DEF ClaimsAgain
      <4>2. CASE tab'[t].token = <<t, attemptCounter'[t]>>
        BY <2>3, <4>1, <4>2
      <4>3. CASE /\ targets[tab[t].pair].token # NoToken
                 /\ tab'[t].token = targets[tab[t].pair].token
        <5>1. tab'[t].token \in Tokens /\ IssuedToken(tab'[t].token)
          BY <1>0, <2>1, <4>3 DEF TokensIssued
        <5> QED BY <2>2, <4>1, <5>1
      <4> QED BY <4>1, <4>2, <4>3
    <3>3. CASE Advances(t)
      <4>1. /\ tab[t].pc = "prepared" /\ tab'[t].token = tab[t].token
            /\ attemptCounter' = attemptCounter
        BY <3>3 DEF Advances, Attempting, GoesTo, At
      <4> QED BY <2>5, <4>1 DEF TokensIssued
    <3>4. CASE Completes(t) \/ Fails(t) \/ Drops(t)
      BY <2>6, <3>4 DEF Completes, Fails, Drops, Idle
    <3>5. CASE Walks(t)
      <4>1. /\ tab[t].pc \notin {"idle", "planned"} /\ tab'[t].token = tab[t].token
            /\ attemptCounter' = attemptCounter
            /\ tab'[t].pc \in Sending => tab[t].pc \in Sending
        BY <3>5 DEF Walks, GoesTo, At
      <4> QED BY <2>5, <4>1 DEF TokensIssued
    <3> QED BY <2>0, <3>1, <3>2, <3>3, <3>4, <3>5, AttemptMoves
  <2>7. ASSUME NEW u \in Tabs, u # t, tab'[u].pc \notin {"idle", "planned"}
        PROVE  /\ tab'[u].token \in Tokens /\ Issued(tab'[u].token)
               /\ tab'[u].pc \in Sending => tab'[u].token = <<u, attemptCounter'[u]>>
    <3>1. tab'[u] = tab[u] /\ attemptCounter'[u] = attemptCounter[u]
      BY <2>0, <2>7, OthersStay
    <3> QED BY <2>2, <2>7, <3>1 DEF TokensIssued
  <2>8. ASSUME NEW u \in Tabs, tab'[u].pc \notin {"idle", "planned"}
        PROVE  /\ tab'[u].token \in Tokens /\ Issued(tab'[u].token)
               /\ tab'[u].pc \in Sending => tab'[u].token = <<u, attemptCounter'[u]>>
    BY <2>6, <2>7, <2>8
  <2> USE DEF Issued
  <2> QED BY <2>4, <2>8 DEF TokensIssued, IssuedToken
<1>2. ASSUME UNCHANGED attemptCounter,
             \A p \in Pairs : targets'[p].token \in {targets[p].token, NoToken},
             \A t \in Tabs : tab'[t] = tab[t] \/ tab'[t].pc \in {"idle", "planned"}
      PROVE  TokensIssued'
  BY <1>2 DEF TokensIssued, IssuedToken
<1>3. CASE \E t \in Tabs : Plans(t) /\ \A u \in Tabs \ {t} : tab'[u] = tab[u]
  BY <1>2, <1>3 DEF Plans, journalVars, Idle
<1>4. CASE Records
  BY <1>2, <1>4 DEF Records, CommitIntent
<1>5. CASE Recovers
  BY <1>2, <1>5, RecoverRow DEF Recovers, DeliveryTypeOK
<1>6. CASE Compacts
  BY <1>2, <1>6, CompactRow DEF Compacts, NoTarget
<1>7. CASE Elsewhere
  BY <1>2, <1>7 DEF Elsewhere
<1> QED BY <1>1, <1>3, <1>4, <1>5, <1>6, <1>7, StepKinds

-----------------------------------------------------------------------------
(* Publications and evidence *)

LEMMA RecoverKeeps == RecoverExpiredClaims => UNCHANGED <<intents, dedupe, acknowledgedTargets>>
BY DEF RecoverExpiredClaims, RecoverRows, RowOnly, intentRows, dedupeRows

LEMMA KnownStep ==
    ASSUME DeliveryInv, [Next]_vars
    PROVE  PublicationsKnown'
<1>0. DeliveryTypeOK /\ PublicationsKnown
  BY DEF DeliveryInv
<1>1. ASSUME NEW t \in Tabs, Attempt(t) PROVE PublicationsKnown'
  <2>1. In(t) \in intents \cup dedupe
    BY <1>0, <1>1, AttemptMoves DEF PublicationsKnown, Idle
  <2>2. /\ UNCHANGED <<intents, dedupe>>
        /\ tab'[t] = Idle \/ tab'[t].pair = tab[t].pair
        /\ puts' \subseteq puts \cup {<<tab[t].pair, tab[t].token>>}
    BY <1>0, <1>1, AttemptKeeps
  <2>3. \A u \in Tabs : u # t => tab'[u] = tab[u]
    BY <1>0, <1>1, OthersStay
  <2> QED BY <1>0, <2>1, <2>2, <2>3 DEF PublicationsKnown, In
<1>2. ASSUME NEW t \in Tabs, Plans(t), \A u \in Tabs \ {t} : tab'[u] = tab[u]
      PROVE  PublicationsKnown'
  BY <1>0, <1>2 DEF Plans, PublicationsKnown, In, journalVars, intentRows, dedupeRows, remote
<1>3. ASSUME UNCHANGED tab, puts' \subseteq puts,
             intents \subseteq intents', dedupe \subseteq dedupe'
      PROVE  PublicationsKnown'
  BY <1>0, <1>3 DEF PublicationsKnown, In
<1>4. CASE Records
  BY <1>3, <1>4 DEF Records, CommitIntent, dedupeRows, remote
<1>5. CASE Recovers
  BY <1>3, <1>5, RecoverKeeps DEF Recovers, remote
<1>6. CASE Compacts
  BY <1>0, <1>6 DEF Compacts, PublicationsKnown, Busy, In
<1>7. CASE Elsewhere
  BY <1>3, <1>7 DEF Elsewhere
<1> QED BY <1>0, <1>1, <1>2, <1>4, <1>5, <1>6, <1>7, StepKinds

\* A compacted intent has an acknowledged row, so some relay holds it.
LEMMA CompactedIsHeld ==
    ASSUME StoreInv, AcknowledgementIsEvidence, Compact,
           NEW i \in intents \ intents'
    PROVE  \E r \in Relays : <<i, r>> \in cells
<1>1. acknowledgedTargets[i] = Cardinality(RelaysIn(i, Acknowledged)) /\ i \in Intents
  BY DEF StoreInv, LimitInv, AggregatesMatchRows, JournalInv, JournalTypeOK
<1>2. acknowledgedTargets[i] >= 1
  BY CompactRow
<1>3. RelaysIn(i, Acknowledged) # {}
  BY <1>1, <1>2, FS_EmptySet
<1>4. PICK r \in Relays : targets[<<i, r>>].state \in Acknowledged
  BY <1>3 DEF RelaysIn
<1> QED BY <1>1, <1>4 DEF AcknowledgementIsEvidence, Pairs

LEMMA EvidenceStep ==
    ASSUME DeliveryInv, [Next]_vars
    PROVE  AcknowledgementIsEvidence' /\ AckedIsEvidence'
<1>0. /\ StoreInv /\ DeliveryTypeOK /\ AcknowledgementIsEvidence /\ AckedIsEvidence
      /\ vault \in [Pairs -> 0..3]
  BY DEF DeliveryInv, DeliveryTypeOK
<1>1. ASSUME NEW t \in Tabs, Attempt(t) PROVE AcknowledgementIsEvidence' /\ AckedIsEvidence'
  <2>1. UNCHANGED <<cells, dedupe>> /\ tab[t].pair \in Pairs
    BY <1>0, <1>1, AttemptKeeps, AttemptMoves, TabShape
  <2>2. \A p \in Pairs : vault'[p] >= 2 => p \in cells
    BY <1>0, <1>1, VaultMoves DEF AcknowledgementIsEvidence
  <2>3. ASSUME NEW p \in Pairs, targets'[p].state \in Acknowledged PROVE p \in cells
    <3>1. CASE targets'[p] = targets[p]
      BY <1>0, <2>3, <3>1 DEF AcknowledgementIsEvidence
    <3>2. CASE ClaimsFresh(t) \/ ClaimsAgain(t) \/ Advances(t) \/ Fails(t)
      BY <2>3, <3>1, <3>2 DEF ClaimsFresh, ClaimsAgain, Advances, Fails, Attempting, OnlyRow,
         Acknowledged
    <3>3. CASE Completes(t)
      BY <1>0, <2>3, <3>1, <3>3 DEF Completes, Attempting, OnlyRow, AckedIsEvidence
    <3>4. CASE Drops(t) \/ Walks(t)
      BY <3>1, <3>4 DEF Drops, Walks, journalVars
    <3> QED BY <1>0, <1>1, <3>2, <3>3, <3>4, AttemptMoves
  <2>4. ASSUME tab'[t].pc = "acked" PROVE tab'[t].pair \in cells
    <3>1. CASE Walks(t)
      <4>1. /\ tab'[t].pair = tab[t].pair
            /\ HasEvidence(tab[t].pair) \/ tab[t].pair \in cells
        BY <2>4, <3>1 DEF Walks, GoesTo
      <4> QED BY <1>0, <2>1, <4>1 DEF HasEvidence, AcknowledgementIsEvidence
    <3>2. CASE ClaimsFresh(t) \/ ClaimsAgain(t) \/ Advances(t)
      BY <2>4, <3>2 DEF ClaimsFresh, ClaimsAgain, Advances, GoesTo
    <3>3. CASE Completes(t) \/ Fails(t) \/ Drops(t)
      BY <2>4, <3>3 DEF Completes, Fails, Drops, Idle
    <3> QED BY <1>0, <1>1, <3>1, <3>2, <3>3, AttemptMoves
  <2>5. \A u \in Tabs : u # t => tab'[u] = tab[u]
    BY <1>0, <1>1, OthersStay
  <2> QED BY <1>0, <2>1, <2>2, <2>3, <2>4, <2>5 DEF AcknowledgementIsEvidence, AckedIsEvidence, At
<1>2. ASSUME UNCHANGED vault, cells \subseteq cells',
             \A p \in Pairs : targets'[p].state \in Acknowledged => p \in cells,
             \A i \in dedupe' : \E r \in Relays : <<i, r>> \in cells,
             \A t \in Tabs : tab'[t].pc = "acked" => tab'[t] = tab[t]
      PROVE  AcknowledgementIsEvidence' /\ AckedIsEvidence'
  BY <1>0, <1>2 DEF AcknowledgementIsEvidence, AckedIsEvidence, At
<1>3. CASE \E t \in Tabs : Plans(t) /\ \A u \in Tabs \ {t} : tab'[u] = tab[u]
  BY <1>0, <1>2, <1>3 DEF Plans, Idle, journalVars, dedupeRows, remote,
     AcknowledgementIsEvidence
<1>4. CASE Records
  BY <1>0, <1>2, <1>4 DEF Records, CommitIntent, dedupeRows, remote, AcknowledgementIsEvidence
<1>5. CASE Recovers
  <2>1. \A p \in Pairs : targets'[p].state \in Acknowledged => targets[p].state \in Acknowledged
    BY <1>0, <1>5, RecoverRow DEF Recovers, DeliveryTypeOK, Acknowledged
  <2> QED BY <1>0, <1>2, <1>5, <2>1, RecoverKeeps DEF Recovers, remote, AcknowledgementIsEvidence
<1>6. CASE Compacts
  <2>1. \A p \in Pairs : targets'[p].state \in Acknowledged => p \in cells
    BY <1>0, <1>6, CompactRow DEF Compacts, NoTarget, Acknowledged, AcknowledgementIsEvidence
  <2>2. \A i \in dedupe' : \E r \in Relays : <<i, r>> \in cells
    BY <1>0, <1>6, CompactRow, CompactedIsHeld DEF Compacts, AcknowledgementIsEvidence
  <2> QED BY <1>2, <1>6, <2>1, <2>2 DEF Compacts
<1>7. CASE Elsewhere
  BY <1>0, <1>2, <1>7 DEF Elsewhere, AcknowledgementIsEvidence
<1> QED BY <1>0, <1>1, <1>3, <1>4, <1>5, <1>6, <1>7, StepKinds

-----------------------------------------------------------------------------
(* Unresolved sends *)

LEMMA UnresolvedStep ==
    ASSUME DeliveryInv, [Next]_vars
    PROVE  UnresolvedIsJournalled'
<1>0. /\ StoreInv /\ DeliveryTypeOK /\ PublicationsKnown /\ UnresolvedIsJournalled /\ ClaimsHeld
      /\ unresolved \subseteq Pairs /\ vault \in [Pairs -> 0..3]
  BY DEF DeliveryInv, DeliveryTypeOK
<1>1. ASSUME NEW t \in Tabs, Attempt(t), NEW p \in unresolved'
      PROVE  /\ p \in Pairs
             /\ p[1] \in intents' \cup dedupe'
             /\ vault'[p] >= 1
             /\ p[1] \in intents' => targets'[p].state \in Unclaimable
  <2>0. /\ tab[t].pc # "idle" /\ tab[t].pair \in Pairs /\ tab[t].pair[1] = In(t)
        /\ In(t) \in intents \cup dedupe
        /\ UNCHANGED <<intents, dedupe>>
    BY <1>0, <1>1, AttemptKeeps, AttemptMoves, TabShape DEF PublicationsKnown, Idle, In
  <2>1. \/ p \in unresolved
        \/ /\ p = tab[t].pair /\ At(t, "sending") /\ vault[p] = 1
           /\ tab'[t].pc = "awaiting"
    BY <1>0, <1>1, AttemptKeeps
  <2>2. p \in Pairs /\ p[1] \in intents \cup dedupe /\ vault[p] \in 1..3
    BY <1>0, <2>0, <2>1 DEF UnresolvedIsJournalled
  <2>3. vault'[p] >= 1
    <3>1. vault'[p] = vault[p] \/ vault'[p] \in {1, 2, 3}
      BY <1>0, <1>1, <2>2, VaultMoves
    <3> QED BY <2>2, <3>1
  <2>4. ASSUME p[1] \in intents PROVE targets'[p].state \in Unclaimable
    <3>1. targets[p].state \in Unclaimable
      BY <1>0, <2>0, <2>1, <2>4 DEF UnresolvedIsJournalled, Unclaimable, ClaimsHeld, HoldsClaim,
         Committed, At
    <3>2. CASE p # tab[t].pair \/ Drops(t) \/ Walks(t)
      <4>1. targets'[p] = targets[p]
        BY <1>0, <1>1, <2>2, <3>2, AttemptMoves DEF ClaimsFresh, ClaimsAgain, Advances, Completes,
           Fails, Attempting, OnlyRow, Drops, Walks, journalVars
      <4> QED BY <3>1, <4>1
    <3>3. CASE p = tab[t].pair /\ (ClaimsFresh(t) \/ ClaimsAgain(t) \/ Advances(t) \/ Completes(t))
      BY <3>1, <3>3 DEF ClaimsFresh, ClaimsAgain, Advances, Completes, Unclaimable,
         ClaimableFresh, Acknowledged
    <3>4. CASE p = tab[t].pair /\ Fails(t)
      <4>1. CASE targets'[p].state \in {"pending-unknown", "terminal"}
        BY <4>1 DEF Unclaimable
      <4>2. CASE targets'[p].state = "retryable"
        <5>1. /\ tab[t].pc \in {"preparing", "sending", "awaiting"}
              /\ At(t, "awaiting") => p \notin unresolved'
              /\ targets[p].token = tab[t].token
          BY <3>4, <4>2 DEF Fails, Attempting
        <5>2. ~Tentative(t)
          BY <1>0, <3>1, <3>4, <5>1 DEF ClaimsHeld, HoldsClaim, Unclaimable, Acknowledged
        <5>3. Committed(t) /\ ~At(t, "awaiting")
          BY <1>1, <5>1, <5>2 DEF Committed, Tentative, At
        <5>4. p \notin unresolved
          BY <1>0, <3>4, <5>3 DEF ClaimsHeld
        <5>5. tab'[t].pc # "awaiting"
          BY <3>4 DEF Fails, Idle
        <5> QED BY <2>1, <5>4, <5>5
      <4> QED BY <3>4, <4>1, <4>2 DEF Fails
    <3> QED BY <1>0, <1>1, <3>2, <3>3, <3>4, AttemptMoves
  <2> QED BY <2>0, <2>2, <2>3, <2>4
<1>2. ASSUME UNCHANGED vault, unresolved' \subseteq unresolved,
             \A p \in unresolved' :
               /\ p[1] \in intents' \cup dedupe'
               /\ p[1] \in intents' =>
                    /\ p[1] \in intents
                    /\ targets[p].state \in Unclaimable => targets'[p].state \in Unclaimable
      PROVE  UnresolvedIsJournalled'
  BY <1>0, <1>2 DEF UnresolvedIsJournalled, Unclaimable
<1>3. CASE \E t \in Tabs : Plans(t) /\ \A u \in Tabs \ {t} : tab'[u] = tab[u]
  BY <1>0, <1>2, <1>3 DEF Plans, journalVars, intentRows, dedupeRows, remote,
     UnresolvedIsJournalled
<1>4. CASE Records
  BY <1>0, <1>2, <1>4 DEF Records, CommitIntent, Fresh, dedupeRows, remote,
     UnresolvedIsJournalled
<1>5. CASE Recovers
  <2>1. \A p \in Pairs : targets[p].state \in Unclaimable => targets'[p].state \in Unclaimable
    BY <1>0, <1>5, RecoverRow DEF Recovers, DeliveryTypeOK, Unclaimable, Acknowledged
  <2> QED BY <1>0, <1>2, <1>5, <2>1, RecoverKeeps DEF Recovers, remote, UnresolvedIsJournalled
<1>6. CASE Compacts
  <2>1. /\ intents' \subseteq intents
        /\ \A p \in Pairs : p[1] \in intents' => targets'[p] = targets[p]
    BY <1>0, <1>6, CompactRow DEF Compacts
  <2> QED BY <1>0, <1>2, <1>6, <2>1 DEF Compacts
<1>7. CASE Elsewhere
  BY <1>0, <1>2, <1>7 DEF Elsewhere, UnresolvedIsJournalled
<1>8. ASSUME NEW t \in Tabs, Attempt(t) PROVE UnresolvedIsJournalled'
  BY <1>1, <1>8 DEF UnresolvedIsJournalled, Unclaimable
<1> QED BY <1>0, <1>3, <1>4, <1>5, <1>6, <1>7, <1>8, StepKinds

-----------------------------------------------------------------------------
(* Claims *)

\* A tab that holds or may still hold a claim names it by a token only that tab draws.
LEMMA OwnToken ==
    ASSUME DeliveryInv, NEW u \in Tabs, Committed(u) \/ Tentative(u)
    PROVE  /\ tab[u].token = <<u, attemptCounter[u]>> /\ tab[u].token # NoToken
           /\ tab[u].pair \in Pairs /\ tab[u].pair[1] = In(u) /\ In(u) \in intents \cup dedupe
           /\ tab[u].pc \in {"preparing", "prepared", "sending", "awaiting"}
<1>1. tab[u].pc \in {"preparing", "prepared", "sending", "awaiting"}
  BY DEF Committed, Tentative, At
<1>2. tab[u].token \in Tokens /\ tab[u].token = <<u, attemptCounter[u]>>
  BY <1>1 DEF DeliveryInv, TokensIssued
<1>3. tab[u] # Idle
  BY <1>1 DEF Idle
<1> QED BY <1>1, <1>2, <1>3, TokenShape, TabShape DEF DeliveryInv, PublicationsKnown, In

\* What a tab's claims say depends on its own memory and its row.
LEMMA SameTab ==
    ASSUME NEW u \in Tabs, tab'[u] = tab[u]
    PROVE  /\ Committed(u)' <=> Committed(u)
           /\ Tentative(u)' <=> Tentative(u)
           /\ In(u)' = In(u) /\ Re(u)' = Re(u)
           /\ \A pc : At(u, pc)' <=> At(u, pc)
BY DEF Committed, Tentative, At, In, Re

\* Another tab's attempt never takes a claim over from a tab that may have sent, nor brings
\* a tentative claim into a state it does not expect.
LEMMA OtherClaim ==
    ASSUME DeliveryInv, NEW t \in Tabs, Attempt(t), NEW u \in Tabs, u # t
    PROVE  HoldsClaim(u)'
<1> DEFINE p == tab[t].pair
           q == tab[u].pair
<1>0. /\ DeliveryTypeOK /\ HoldsClaim(u) /\ tab'[u] = tab[u] /\ UNCHANGED intents
      /\ p \in Pairs /\ p[1] = In(t)
  BY AttemptKeeps, AttemptMoves, OthersStay, TabShape DEF DeliveryInv, ClaimsHeld, In
<1>1. ASSUME Committed(u) \/ Tentative(u)
      PROVE  q \in Pairs /\ (tab[t].token # <<t, attemptCounter[t]>> \/ tab[t].token # tab[u].token)
  BY <1>1, OwnToken
<1>2. ASSUME Committed(u), In(u) \in intents
      PROVE  targets'[q].token = tab[u].token /\ targets'[q].state \in Unclaimable
  <2>0. targets[q].token = tab[u].token /\ targets[q].state \in Unclaimable
    BY <1>0, <1>2 DEF HoldsClaim
  <2>1. CASE p # q \/ Drops(t) \/ Walks(t)
    <3>1. targets'[q] = targets[q]
      BY <1>0, <1>1, <1>2, <2>1, AttemptMoves DEF ClaimsFresh, ClaimsAgain, Advances, Completes,
         Fails, Attempting, OnlyRow, Drops, Walks, journalVars
    <3> QED BY <2>0, <3>1
  <2>2. CASE p = q /\ ClaimsFresh(t)
    BY <2>0, <2>2 DEF ClaimsFresh, Unclaimable, ClaimableFresh, Acknowledged
  <2>3. CASE p = q /\ ClaimsAgain(t)
    <3>1. tab[u].token # NoToken
      BY <1>2, OwnToken
    <3> QED BY <2>0, <2>3, <3>1 DEF ClaimsAgain, Unclaimable
  <2>4. CASE p = q /\ (Advances(t) \/ Completes(t))
    BY <2>0, <2>4 DEF Advances, Completes, Attempting, Unclaimable, Acknowledged
  <2>5. CASE p = q /\ Fails(t)
    <3>1. targets[q].token = tab[t].token /\ targets'[q].token = tab[t].token
      BY <2>5 DEF Fails, Attempting
    <3>2. tab[t].pc \notin {"preparing", "sending", "awaiting"}
      BY <1>1, <1>2, <2>0, <3>1 DEF DeliveryInv, TokensIssued
    <3> QED BY <2>0, <2>5, <3>1, <3>2 DEF Fails, Unclaimable
  <2> QED BY <1>0, <2>1, <2>2, <2>3, <2>4, <2>5, AttemptMoves
<1>3. ASSUME Tentative(u), targets'[q].token = tab[u].token
      PROVE  targets'[q].state \in {"preparing", "retryable"}
  <2>0. targets[q].token = tab[u].token => targets[q].state \in {"preparing", "retryable"}
    BY <1>0, <1>3 DEF HoldsClaim
  <2>1. CASE p # q \/ Drops(t) \/ Walks(t)
    <3>1. targets'[q] = targets[q]
      BY <1>0, <1>1, <1>3, <2>1, AttemptMoves DEF ClaimsFresh, ClaimsAgain, Advances, Completes,
         Fails, Attempting, OnlyRow, Drops, Walks, journalVars
    <3> QED BY <1>3, <2>0, <3>1
  <2>2. CASE p = q /\ ClaimsFresh(t)
    <3>1. tab[u].token = <<u, attemptCounter[u]>> /\ tab[u].token = <<t, attemptCounter'[t]>>
      BY <1>3, <2>2, OwnToken DEF ClaimsFresh
    <3> QED BY <3>1
  <2>3. CASE p = q /\ ClaimsAgain(t)
    <3>1. /\ targets[q].state = "pending-unknown"
          /\ \/ targets'[q].token = targets[q].token
             \/ targets'[q].token = <<t, attemptCounter'[t]>>
      BY <2>3 DEF ClaimsAgain
    <3>2. tab[u].token = <<u, attemptCounter[u]>>
      BY <1>3, OwnToken
    <3> QED BY <1>3, <2>0, <3>1, <3>2
  <2>4. CASE p = q /\ (Advances(t) \/ Completes(t) \/ Fails(t))
    <3>1. targets[q].token = tab[t].token /\ tab[t].token = tab[u].token
      BY <1>3, <2>4 DEF Advances, Completes, Fails, Attempting
    <3>2. tab[t].pc \notin {"preparing", "prepared", "sending", "awaiting", "reading"}
      BY <1>1, <1>3, <3>1 DEF DeliveryInv, TokensIssued
    <3>3. tab[t].pc # "reconciling"
      BY <1>3, <2>4, <3>1 DEF DeliveryInv, ClaimsHeld, At
    <3>4. targets[q].state \in {"delivering", "pending-unknown"}
      BY <2>4, <3>2, <3>3 DEF Advances, Completes, Fails, At
    <3> QED BY <2>0, <3>1, <3>4
  <2> QED BY <1>0, <2>1, <2>2, <2>3, <2>4, AttemptMoves
<1> QED BY <1>0, <1>2, <1>3, SameTab DEF HoldsClaim

\* A tab's own claim is the row's, in the state its next step expects.
LEMMA OwnClaim ==
    ASSUME DeliveryInv, NEW t \in Tabs, Attempt(t)
    PROVE  HoldsClaim(t)'
<1>0. DeliveryTypeOK /\ HoldsClaim(t) /\ UNCHANGED intents
  BY AttemptKeeps DEF DeliveryInv, ClaimsHeld
<1>1. CASE ClaimsFresh(t)
  BY <1>1 DEF ClaimsFresh, HoldsClaim, Committed, Tentative, At, In, Re, Unclaimable
<1>2. CASE ClaimsAgain(t)
  BY <1>2 DEF ClaimsAgain, HoldsClaim, Committed, Tentative, At
<1>3. CASE Advances(t)
  BY <1>3 DEF Advances, Attempting, GoesTo, HoldsClaim, Committed, Tentative, At, Unclaimable
<1>4. CASE Completes(t) \/ Fails(t) \/ Drops(t)
  BY <1>4 DEF Completes, Fails, Drops, Idle, HoldsClaim, Committed, Tentative, At
<1>5. CASE Walks(t)
  <2>1. targets' = targets
    BY <1>5 DEF Walks, journalVars
  <2>2. /\ Committed(t)' => /\ Committed(t)
                            /\ tab'[t].pair = tab[t].pair /\ tab'[t].token = tab[t].token
        /\ Tentative(t)' => /\ Tentative(t)
                            /\ tab'[t].pair = tab[t].pair /\ tab'[t].token = tab[t].token
    BY <1>5 DEF Walks, GoesTo, Committed, Tentative, At, Re
  <2> QED BY <1>0, <2>1, <2>2 DEF HoldsClaim, In
<1> QED BY <1>0, <1>1, <1>2, <1>3, <1>4, <1>5, AttemptMoves

\* A tab becomes committed to a pair only by claiming its row, or by advancing its claim.
LEMMA BecomesCommitted ==
    ASSUME DeliveryInv, NEW t \in Tabs, Attempt(t), Committed(t)'
    PROVE  /\ tab'[t].pair = tab[t].pair
           /\ \/ Committed(t) /\ (At(t, "awaiting") => At(t, "awaiting")')
              \/ /\ In(t) \in intents
                 /\ targets[tab[t].pair].state \in ClaimableFresh \cup {"preparing"}
<1>0. DeliveryTypeOK
  BY DEF DeliveryInv
<1>1. tab'[t].pc \in {"preparing", "sending", "awaiting"}
  BY DEF Committed, At
<1>2. CASE ClaimsFresh(t)
  BY <1>2 DEF ClaimsFresh
<1>3. CASE Advances(t)
  BY <1>3 DEF Advances, Attempting, GoesTo
<1>4. CASE ClaimsAgain(t) \/ Completes(t) \/ Fails(t) \/ Drops(t)
  BY <1>1, <1>4 DEF ClaimsAgain, Completes, Fails, Drops, Idle
<1>5. CASE Walks(t)
  BY <1>1, <1>5 DEF Walks, GoesTo, Committed, At, Re
<1> QED BY <1>0, <1>2, <1>3, <1>4, <1>5, AttemptMoves

\* Two tabs never both may have a send of one pair under way.
LEMMA CommittedAlone ==
    ASSUME DeliveryInv, NEW t \in Tabs, Attempt(t), Committed(t)',
           NEW u \in Tabs, u # t, Committed(u)
    PROVE  tab'[t].pair # tab[u].pair
<1>0. /\ HoldsClaim(u) /\ tab'[t].pair = tab[t].pair
      /\ \A x, y \in Tabs : Committed(x) /\ Committed(y) /\ tab[x].pair = tab[y].pair => x = y
  BY BecomesCommitted DEF DeliveryInv, ClaimsHeld
<1>1. CASE Committed(t)
  BY <1>0, <1>1
<1>2. CASE /\ In(t) \in intents
           /\ targets[tab[t].pair].state \in ClaimableFresh \cup {"preparing"}
  BY <1>0, <1>2 DEF HoldsClaim, In, Unclaimable, ClaimableFresh, Acknowledged
<1> QED BY <1>1, <1>2, BecomesCommitted

\* A tab that may have a send under way but has put nothing on the wire yet is not looking
\* at the unresolved send of anybody.
LEMMA CommittedUnsent ==
    ASSUME DeliveryInv, NEW t \in Tabs, Attempt(t),
           NEW u \in Tabs, Committed(u)', ~At(u, "awaiting")'
    PROVE  tab'[u].pair \notin unresolved'
<1>0. /\ DeliveryTypeOK /\ UnresolvedIsJournalled
      /\ \A x \in Tabs : Committed(x) /\ ~At(x, "awaiting") => tab[x].pair \notin unresolved
      /\ \A x, y \in Tabs : Committed(x) /\ Committed(y) /\ tab[x].pair = tab[y].pair => x = y
  BY DEF DeliveryInv, ClaimsHeld
<1>1. \/ unresolved' \subseteq unresolved
      \/ /\ At(t, "sending") /\ unresolved' = unresolved \cup {tab[t].pair}
         /\ tab'[t].pc = "awaiting"
  BY <1>0, AttemptKeeps
<1>2. CASE u = t
  <2>1. unresolved' \subseteq unresolved /\ tab'[t].pair = tab[t].pair
    BY <1>1, <1>2, BecomesCommitted DEF At
  <2>2. CASE Committed(t) /\ (At(t, "awaiting") => At(t, "awaiting")')
    BY <1>0, <1>2, <2>1, <2>2
  <2>3. CASE /\ In(t) \in intents
             /\ targets[tab[t].pair].state \in ClaimableFresh \cup {"preparing"}
    BY <1>0, <1>2, <2>1, <2>3 DEF UnresolvedIsJournalled, In, ClaimableFresh, Acknowledged
  <2> QED BY <1>2, <2>2, <2>3, BecomesCommitted
<1>3. CASE u # t
  <2>1. Committed(u) /\ ~At(u, "awaiting") /\ tab'[u].pair = tab[u].pair
    BY <1>0, <1>3, OthersStay, SameTab
  <2>2. At(t, "sending") => tab[t].pair # tab[u].pair
    BY <1>0, <1>3, <2>1 DEF Committed
  <2> QED BY <1>0, <1>1, <2>1, <2>2
<1> QED BY <1>2, <1>3

\* A tab about to send and a tab that reconciles the same pair act under different claims.
LEMMA ReconcilersApart ==
    ASSUME DeliveryInv, NEW t \in Tabs, Attempt(t),
           NEW x \in Tabs, NEW u \in Tabs, Tentative(x)', At(u, "reconciling")',
           tab'[x].pair = tab'[u].pair
    PROVE  tab'[u].token # tab'[x].token
<1>0. /\ DeliveryTypeOK /\ TokensIssued
      /\ \A y \in Tabs : HoldsClaim(y)
      /\ \A y, z \in Tabs : Tentative(y) /\ At(z, "reconciling") /\ tab[y].pair = tab[z].pair =>
                               tab[z].token # tab[y].token
  BY DEF DeliveryInv, ClaimsHeld
<1>1. x # u /\ tab'[x].pc \in {"preparing", "prepared"} /\ tab'[u].pc = "reconciling"
  BY DEF Tentative, At
<1>2. CASE x = t
  <2>1. At(u, "reconciling") /\ tab'[u] = tab[u]
    BY <1>0, <1>1, <1>2, OthersStay, SameTab
  <2>2. CASE ClaimsFresh(t)
    <3>1. tab'[t].token = <<t, attemptCounter[t] + 1>>
      BY <2>2 DEF ClaimsFresh
    <3>2. tab[u].token \in Tokens /\ IssuedToken(tab[u].token)
      BY <1>0, <2>1 DEF TokensIssued, At
    <3>3. attemptCounter[t] \in 0..MaxClaims /\ MaxClaims \in Nat
      BY <1>0, DeliveryAssumption DEF DeliveryTypeOK
    <3>4. tab[u].token # <<t, attemptCounter[t] + 1>>
      BY <3>2, <3>3 DEF IssuedToken
    <3> QED BY <1>2, <2>1, <3>1, <3>4
  <2>3. CASE Walks(t)
    <3>1. Tentative(t) /\ tab'[t].pair = tab[t].pair /\ tab'[t].token = tab[t].token
      BY <1>1, <1>2, <2>3 DEF Walks, GoesTo, Tentative, At
    <3> QED BY <1>0, <1>2, <2>1, <3>1
  <2>4. CASE ClaimsAgain(t) \/ Advances(t) \/ Completes(t) \/ Fails(t) \/ Drops(t)
    BY <1>1, <1>2, <2>4 DEF ClaimsAgain, Advances, Completes, Fails, Drops, GoesTo, Idle
  <2> QED BY <1>0, <2>2, <2>3, <2>4, AttemptMoves
<1>3. CASE u = t
  <2>1. Tentative(x) /\ tab'[x] = tab[x] /\ HoldsClaim(x)
    BY <1>0, <1>1, <1>3, OthersStay, SameTab
  <2>2. tab[x].token = <<x, attemptCounter[x]>>
    BY <2>1, OwnToken
  <2>3. CASE ClaimsAgain(t)
    <3>1. /\ targets[tab[t].pair].state = "pending-unknown" /\ tab'[t].pair = tab[t].pair
          /\ \/ tab'[t].token = targets[tab[t].pair].token
             \/ tab'[t].token = <<t, attemptCounter'[t]>>
      BY <2>3 DEF ClaimsAgain
    <3>2. targets[tab[t].pair].token # tab[x].token
      BY <1>3, <2>1, <3>1 DEF HoldsClaim
    <3> QED BY <1>1, <1>3, <2>1, <2>2, <3>1, <3>2
  <2>4. CASE ~ClaimsAgain(t)
    <3>1. CASE ClaimsFresh(t) \/ Advances(t) \/ Walks(t)
      BY <1>1, <1>3, <3>1 DEF ClaimsFresh, Advances, Walks, GoesTo
    <3>2. CASE Completes(t) \/ Fails(t) \/ Drops(t)
      BY <1>1, <1>3, <3>2 DEF Completes, Fails, Drops, Idle
    <3> QED BY <1>0, <2>4, <3>1, <3>2, AttemptMoves
  <2> QED BY <2>3, <2>4
<1>4. CASE x # t /\ u # t
  <2>1. Tentative(x) /\ At(u, "reconciling") /\ tab'[x] = tab[x] /\ tab'[u] = tab[u]
    BY <1>0, <1>4, OthersStay, SameTab
  <2> QED BY <1>0, <2>1
<1> QED BY <1>2, <1>3, <1>4

\* A step outside the attempts keeps the claims when it keeps the rows they rest on.
LEMMA ClaimsUndisturbed ==
    ASSUME DeliveryInv,
           \A u \in Tabs : tab'[u] = tab[u] \/ tab'[u].pc \in {"idle", "planned"},
           unresolved' \subseteq unresolved,
           \A u \in Tabs : (Committed(u) \/ Tentative(u)) /\ In(u) \in intents' =>
                              In(u) \in intents,
           \A u \in Tabs : LET p == tab[u].pair IN
             /\ Committed(u) /\ In(u) \in intents' /\ targets[p].state \in Unclaimable =>
                  targets'[p].token = targets[p].token /\ targets'[p].state \in Unclaimable
             /\ Tentative(u) /\ targets'[p].token = tab[u].token =>
                  /\ targets[p].token = tab[u].token
                  /\ targets[p].state \in {"preparing", "retryable"} =>
                       targets'[p].state \in {"preparing", "retryable"}
    PROVE  ClaimsHeld'
<1>0. ClaimsHeld
  BY DEF DeliveryInv
<1>1. \A u \in Tabs : /\ Committed(u)' => Committed(u) /\ tab'[u] = tab[u]
                      /\ Tentative(u)' => Tentative(u) /\ tab'[u] = tab[u]
                      /\ At(u, "reconciling")' => At(u, "reconciling") /\ tab'[u] = tab[u]
  BY SameTab DEF Committed, Tentative, At
<1>2. \A u \in Tabs : tab'[u] = tab[u] => (At(u, "awaiting")' <=> At(u, "awaiting"))
  BY SameTab
<1>3. ASSUME NEW u \in Tabs PROVE HoldsClaim(u)'
  <2>1. ASSUME Committed(u)', In(u)' \in intents'
        PROVE  /\ targets'[tab'[u].pair].token = tab'[u].token
               /\ targets'[tab'[u].pair].state \in Unclaimable
    <3>1. Committed(u) /\ tab'[u] = tab[u] /\ In(u) \in intents' /\ In(u) \in intents
      BY <1>1, <2>1 DEF In
    <3> QED BY <1>0, <3>1 DEF ClaimsHeld, HoldsClaim
  <2>2. ASSUME Tentative(u)', targets'[tab'[u].pair].token = tab'[u].token
        PROVE  targets'[tab'[u].pair].state \in {"preparing", "retryable"}
    <3>1. Tentative(u) /\ tab'[u] = tab[u]
      BY <1>1, <2>2
    <3> QED BY <1>0, <2>2, <3>1 DEF ClaimsHeld, HoldsClaim
  <2> QED BY <2>1, <2>2 DEF HoldsClaim
<1> QED BY <1>0, <1>1, <1>2, <1>3 DEF ClaimsHeld

LEMMA ClaimStep ==
    ASSUME DeliveryInv, [Next]_vars
    PROVE  ClaimsHeld'
<1>0. DeliveryTypeOK /\ ClaimsHeld /\ PublicationsKnown /\ StoreInv
  BY DEF DeliveryInv
<1>1. ASSUME NEW t \in Tabs, Attempt(t) PROVE ClaimsHeld'
  <2>1. \A u \in Tabs : HoldsClaim(u)'
    BY <1>1, OwnClaim, OtherClaim
  <2>2. ASSUME NEW u \in Tabs, NEW x \in Tabs, Committed(u)', Committed(x)',
               tab'[u].pair = tab'[x].pair
        PROVE  u = x
    <3>1. \A y \in Tabs : y # t /\ Committed(y)' => Committed(y) /\ tab'[y] = tab[y]
      BY <1>0, <1>1, OthersStay, SameTab
    <3>2. CASE u = t /\ x # t
      BY <1>1, <2>2, <3>1, <3>2, CommittedAlone
    <3>3. CASE x = t /\ u # t
      BY <1>1, <2>2, <3>1, <3>3, CommittedAlone
    <3>4. CASE u # t /\ x # t
      BY <1>0, <2>2, <3>1, <3>4 DEF ClaimsHeld
    <3> QED BY <3>2, <3>3, <3>4
  <2>3. \A u \in Tabs : Committed(u)' /\ ~At(u, "awaiting")' => tab'[u].pair \notin unresolved'
    BY <1>1, CommittedUnsent
  <2>4. \A x, u \in Tabs : Tentative(x)' /\ At(u, "reconciling")' /\ tab'[x].pair = tab'[u].pair =>
                              tab'[u].token # tab'[x].token
    BY <1>1, ReconcilersApart
  <2> QED BY <2>1, <2>2, <2>3, <2>4 DEF ClaimsHeld
<1>2. \A u \in Tabs : Committed(u) \/ Tentative(u) =>
         /\ tab[u].token # NoToken
         /\ tab[u].pair \in Pairs /\ tab[u].pair[1] = In(u) /\ In(u) \in intents \cup dedupe
  BY OwnToken
<1>3. ASSUME NEW t \in Tabs, Plans(t), \A u \in Tabs \ {t} : tab'[u] = tab[u]
      PROVE  ClaimsHeld'
  <2>1. tab'[t].pc \in {"idle", "planned"}
    BY <1>3 DEF Plans, Idle
  <2>2. UNCHANGED <<targets, intents, unresolved>>
    BY <1>3 DEF Plans, journalVars, intentRows, remote
  <2> QED BY <1>3, <2>1, <2>2, ClaimsUndisturbed
<1>4. CASE Records
  <2>1. /\ UNCHANGED <<tab, targets, unresolved>>
        /\ \E i \in Intents : i \notin intents \cup dedupe /\ intents' = intents \cup {i}
    BY <1>4 DEF Records, CommitIntent, Fresh, remote
  <2> QED BY <1>2, <2>1, ClaimsUndisturbed
<1>5. CASE Recovers
  <2>1. UNCHANGED <<tab, intents, unresolved>>
    BY <1>5, RecoverKeeps DEF Recovers, remote
  <2>2. ASSUME NEW p \in Pairs
        PROVE  /\ targets'[p].token = targets[p].token
               /\ targets[p].state \in Unclaimable => targets'[p].state \in Unclaimable
               /\ targets[p].state \in {"preparing", "retryable"} =>
                    targets'[p].state \in {"preparing", "retryable"}
    BY <1>0, <1>5, RecoverRow DEF Recovers, DeliveryTypeOK, Unclaimable, Acknowledged
  <2> QED BY <1>2, <2>1, <2>2, ClaimsUndisturbed
<1>6. CASE Compacts
  <2>1. /\ UNCHANGED tab /\ unresolved' \subseteq unresolved /\ intents' \subseteq intents
        /\ \A p \in Pairs : targets'[p] = IF p[1] \in intents \ intents' THEN NoTarget
                                           ELSE targets[p]
    BY <1>0, <1>6, CompactRow DEF Compacts
  <2>2. NoTarget.token = NoToken
    BY DEF NoTarget
  <2> QED BY <1>2, <2>1, <2>2, ClaimsUndisturbed
<1>7. CASE Elsewhere
  <2>1. UNCHANGED <<tab, targets, intents, unresolved>>
    BY <1>7 DEF Elsewhere
  <2> QED BY <2>1, ClaimsUndisturbed
<1> QED BY <1>0, <1>1, <1>3, <1>4, <1>5, <1>6, <1>7, StepKinds

-----------------------------------------------------------------------------
(* The invariants *)

LEMMA DeliveryInvInductive == DeliveryInv /\ [Next]_vars => DeliveryInv'
BY TypeStep, TokenStep, KnownStep, EvidenceStep, UnresolvedStep, ClaimStep DEF DeliveryInv

LEMMA StoreInvStarts == JournalInit => StoreInv
BY JournalInitInv, LimitInit DEF StoreInv

LEMMA DeliveryInvStarts == Init => DeliveryInv
<1> SUFFICES ASSUME Init PROVE DeliveryInv
  OBVIOUS
<1>1. StoreInv /\ JournalTypeOK
  BY StoreInvStarts DEF Init, StoreInv, JournalInv
<1>2. DeliveryTypeOK
  <2>1. tab \in [Tabs -> {Idle} \cup Delivery] /\ vault \in [Pairs -> 0..3]
    BY DEF Init
  <2>2. attemptCounter \in [Tabs -> 0..MaxClaims]
    BY DeliveryAssumption DEF Init
  <2> QED BY <1>1, <2>1, <2>2 DEF Init, DeliveryTypeOK
<1>3. /\ \A t \in Tabs : tab[t].pc = "idle"
      /\ \A p \in Pairs : targets[p].token = NoToken /\ targets[p].state = "absent"
      /\ \A p \in Pairs : vault[p] = 0
      /\ puts = {} /\ unresolved = {} /\ dedupe = {}
  BY DEF Init, JournalInit, NoTarget, Idle
<1>4. TokensIssued
  BY <1>3 DEF TokensIssued
<1>5. PublicationsKnown
  BY <1>3 DEF PublicationsKnown, Init
<1>6. AcknowledgementIsEvidence /\ AckedIsEvidence
  BY <1>3 DEF AcknowledgementIsEvidence, AckedIsEvidence, At, Acknowledged
<1>7. UnresolvedIsJournalled /\ ClaimsHeld
  BY <1>3 DEF UnresolvedIsJournalled, ClaimsHeld, HoldsClaim, Committed, Tentative, At
<1> QED BY <1>1, <1>2, <1>4, <1>5, <1>6, <1>7 DEF DeliveryInv

LEMMA DeliveryInvariant == Spec => []DeliveryInv
BY DeliveryInvStarts, DeliveryInvInductive, PTL DEF Spec

-----------------------------------------------------------------------------
(* The theorems *)

\* However the tabs are interleaved, suspended, closed and reopened, they drive the journal
\* only by its own operations with arguments those operations expect: every behaviour of the
\* delivery is a behaviour of the journal, so whatever is proved of the journal holds here.
THEOREM DeliveryUsesTheJournal == Spec => JournalSpec
<1>1. Init => JournalInit
  BY DEF Init
<1>2. DeliveryInv /\ [Next]_vars => [JournalNext]_journalVars
  BY DeliveryIsJournalStep DEF DeliveryInv
<1> QED BY <1>1, <1>2, DeliveryInvariant, PTL DEF Spec, JournalSpec

\* In particular no tab can make a counter drift, the latest pointer dangle, a tombstone stand
\* beside its intent or a limit be exceeded, at any point of any attempt.
COROLLARY JournalStaysSound ==
    Spec => []( /\ CountersMatchRows /\ AggregatesMatchRows
                /\ StoresDisjoint /\ LatestIsStored /\ WithinLimits )
BY DeliveryUsesTheJournal, CountersAreExact, AggregatesAreExact, StoresAreDisjoint,
   LatestNeverDangles, LimitsHold, PTL

\* The type of the tabs' memory, the vault, the wire and the relays.
THEOREM DeliveryTypeCorrect == Spec => []DeliveryTypeOK
<1>1. DeliveryInv => DeliveryTypeOK
  BY DEF DeliveryInv
<1> QED BY <1>1, DeliveryInvariant, PTL

\* No acknowledged row, persisted receipt or tombstone without a Cell some relay stores.
THEOREM AcknowledgementsAreEvidence == Spec => []AcknowledgementIsEvidence
<1>1. DeliveryInv => AcknowledgementIsEvidence
  BY DEF DeliveryInv
<1> QED BY <1>1, DeliveryInvariant, PTL

\* While a PUT may have happened, the journal and the vault say so.
THEOREM UnresolvedAreJournalled == Spec => []UnresolvedIsJournalled
<1>1. DeliveryInv => UnresolvedIsJournalled
  BY DEF DeliveryInv
<1> QED BY <1>1, DeliveryInvariant, PTL

\* A publication whose send is unresolved is not put on the wire again, by any tab.
THEOREM NoPublicationIsResent == Spec => NoAmbiguousResend
<1> DEFINE Resends == \A p \in Pairs : p \in unresolved => \A x \in puts' \ puts : x[1] # p
<1>1. DeliveryInv /\ [Next]_vars => Resends
  <2> SUFFICES ASSUME DeliveryInv, [Next]_vars, NEW p \in unresolved, NEW x \in puts' \ puts
               PROVE  x[1] # p
    OBVIOUS
  <2>0. DeliveryTypeOK /\ ClaimsHeld
    BY DEF DeliveryInv
  <2>1. ASSUME NEW t \in Tabs, Attempt(t) PROVE x[1] # p
    <3>1. At(t, "sending") /\ x = <<tab[t].pair, tab[t].token>>
      BY <2>0, <2>1, AttemptKeeps
    <3> QED BY <2>0, <3>1 DEF ClaimsHeld, Committed, At
  <2>2. CASE ~\E t \in Tabs : Attempt(t)
    BY <2>0, <2>2, StepKinds DEF Plans, Records, Recovers, Compacts, Elsewhere, remote
  <2> QED BY <2>1, <2>2
<1> QED BY <1>1, DeliveryInvariant, PTL DEF Spec, NoAmbiguousResend

\* An acknowledged or terminal row keeps its state until its whole intent is compacted.
THEOREM ResolvedRowsAreFinal == Spec => ResolvedIsFinal
<1> DEFINE Resolved == Acknowledged \cup {"terminal"}
           Final == \A p \in Pairs : targets[p].state \in Resolved =>
                       targets'[p].state \in {targets[p].state, "absent"}
<1>1. DeliveryInv /\ [Next]_vars => Final
  <2> SUFFICES ASSUME DeliveryInv, [Next]_vars, NEW p \in Pairs, targets[p].state \in Resolved
               PROVE  targets'[p].state \in {targets[p].state, "absent"}
    OBVIOUS
  <2>0. DeliveryTypeOK /\ StoreInv
    BY DEF DeliveryInv
  <2>1. ASSUME NEW t \in Tabs, Attempt(t) PROVE targets'[p] = targets[p]
    <3>1. CASE ClaimsFresh(t) \/ ClaimsAgain(t)
      BY <3>1 DEF ClaimsFresh, ClaimsAgain, OnlyRow, ClaimableFresh, Acknowledged
    <3>2. CASE Advances(t) \/ Completes(t) \/ Fails(t)
      BY <3>2 DEF Advances, Completes, Fails, Attempting, OnlyRow, FailableStates, InFlight,
         Acknowledged
    <3>3. CASE Drops(t) \/ Walks(t)
      BY <3>3 DEF Drops, Walks, journalVars
    <3> QED BY <2>0, <2>1, <3>1, <3>2, <3>3, AttemptMoves
  <2>2. CASE Recovers
    BY <2>0, <2>2, RecoverRow DEF Recovers, DeliveryTypeOK, Acknowledged
  <2>3. CASE Compacts
    BY <2>0, <2>3, CompactRow DEF Compacts, NoTarget
  <2>4. CASE Records \/ Elsewhere \/ \E t \in Tabs : Plans(t)
    BY <2>4 DEF Records, CommitIntent, Elsewhere, Plans, journalVars
  <2> QED BY <2>0, <2>1, <2>2, <2>3, <2>4, StepKinds
<1> QED BY <1>1, DeliveryInvariant, PTL DEF Spec, ResolvedIsFinal

-----------------------------------------------------------------------------
(* The refinement: the journal, the tabs and the relays implement the author's outbox *)

settledIntents == (intents \ Pending) \cup dedupe

LEMMA KnownIntents == Pending \cup settledIntents = intents \cup dedupe
BY DEF Pending, settledIntents

LEMMA AttemptRefines ==
    ASSUME DeliveryInv, NEW t \in Tabs, Attempt(t)
    PROVE  \/ \E i \in Intents : Outbox!Settle(i)
           \/ UNCHANGED <<Pending, settledIntents, cells>>
<1>0. /\ DeliveryTypeOK /\ AckedIsEvidence
      /\ UNCHANGED <<intents, dedupe, cells>>
      /\ acknowledgedTargets \in [Intents -> Nat] /\ intents \subseteq Intents
      /\ In(t) \in Intents /\ Re(t) \in Relays /\ tab[t].pair = <<In(t), Re(t)>>
  BY AttemptKeeps, AttemptMoves, TabShape DEF DeliveryInv, DeliveryTypeOK, JournalTypeOK
<1>1. ASSUME UNCHANGED acknowledgedTargets
      PROVE  UNCHANGED <<Pending, settledIntents, cells>>
  BY <1>0, <1>1 DEF Pending, settledIntents
<1>2. CASE ~Complete(t)
  <2>1. UNCHANGED acknowledgedTargets
    BY <1>2 DEF Attempt, Claim, ClaimTarget, Prepare, PrepareFails, PrepareTimesOut, Advance,
       TransitionTarget, Send, NotSent, PutOk, PutRefused, GetFound, ReadTerminal,
       ReconcileFromVault, TimesOut, Fail, FailTarget, RowOnly, journalVars, intentRows
  <2> QED BY <1>1, <2>1
<1>3. CASE Complete(t)
  <2>1. \/ UNCHANGED acknowledgedTargets
        \/ /\ In(t) \in intents
           /\ acknowledgedTargets' = [acknowledgedTargets EXCEPT ![In(t)] = @ + 1]
    BY <1>3 DEF Complete, CompleteTarget, Holds, journalVars, intentRows
  <2>2. CASE /\ In(t) \in intents
             /\ acknowledgedTargets' = [acknowledgedTargets EXCEPT ![In(t)] = @ + 1]
    <3>1. Pending' = Pending \ {In(t)}
      BY <1>0, <2>2 DEF Pending
    <3>2. CASE In(t) \in Pending
      <4>1. <<In(t), Re(t)>> \in cells
        BY <1>0, <1>3 DEF Complete, AckedIsEvidence
      <4>2. settledIntents' = settledIntents \cup {In(t)}
        BY <1>0, <2>2, <3>1 DEF settledIntents
      <4>3. Outbox!Settle(In(t))
        BY <1>0, <3>1, <3>2, <4>1, <4>2 DEF Outbox!Settle, settledIntents
      <4> QED BY <1>0, <4>3
    <3>3. CASE In(t) \notin Pending
      BY <1>0, <3>1, <3>3 DEF settledIntents
    <3> QED BY <3>2, <3>3
  <2> QED BY <1>1, <2>1, <2>2
<1> QED BY <1>2, <1>3

LEMMA RecordRefines ==
    ASSUME DeliveryInv, Records
    PROVE  \E i \in Intents : Outbox!Author(i)
<1>1. PICK i \in Intents : CommitIntent(i, now)
  BY DEF Records
<1>2. /\ i \notin intents \cup dedupe /\ intents' = intents \cup {i}
      /\ UNCHANGED <<acknowledgedTargets, dedupe, cells>>
  BY <1>1 DEF Records, CommitIntent, Fresh, dedupeRows, remote
<1>3. acknowledgedTargets[i] = 0
  BY <1>2 DEF DeliveryInv, StoreInv, JournalInv
<1>4. Pending' = Pending \cup {i} /\ UNCHANGED settledIntents
  BY <1>2, <1>3 DEF Pending, settledIntents
<1> QED BY <1>2, <1>4, KnownIntents DEF Outbox!Author, settledIntents

LEMMA CompactRefines ==
    ASSUME DeliveryInv, Compacts
    PROVE  \E S \in SUBSET settledIntents : Outbox!Forget(S)
<1>1. /\ intents' \subseteq intents /\ intents \subseteq Intents
      /\ dedupe' \subseteq dedupe \cup (intents \ intents')
      /\ \A i \in intents \ intents' : acknowledgedTargets[i] >= 1
      /\ \A i \in intents' : acknowledgedTargets'[i] = acknowledgedTargets[i]
      /\ UNCHANGED cells
  BY CompactRow DEF Compacts, DeliveryInv, StoreInv, JournalInv, JournalTypeOK
<1>2. Pending' = Pending
  BY <1>1 DEF Pending
<1>3. settledIntents' \subseteq settledIntents
  BY <1>1, <1>2 DEF settledIntents, Pending
<1>4. Outbox!Forget(settledIntents \ settledIntents')
  BY <1>1, <1>2, <1>3 DEF Outbox!Forget, settledIntents
<1> QED BY <1>4

LEMMA StoringRefines ==
    ASSUME DeliveryInv, NEW x \in puts, RelayStores(x)
    PROVE  \E i \in Intents, r \in Relays : Outbox!Hold(i, r)
<1>1. /\ x[1] \in Pairs /\ x[1] = <<x[1][1], x[1][2]>>
      /\ x[1][1] \in Intents /\ x[1][2] \in Relays
      /\ x[1][1] \in intents \cup dedupe
  BY DEF DeliveryInv, DeliveryTypeOK, PublicationsKnown, Pairs
<1>2. cells' = cells \cup {x[1]} /\ UNCHANGED <<intents, acknowledgedTargets, dedupe>>
  BY DEF RelayStores, journalVars, intentRows, dedupeRows
<1>3. UNCHANGED <<Pending, settledIntents>>
  BY <1>2 DEF Pending, settledIntents
<1>4. Outbox!Hold(x[1][1], x[1][2])
  BY <1>1, <1>2, <1>3, KnownIntents DEF Outbox!Hold, settledIntents
<1> QED BY <1>1, <1>4

\* What the journal, the tabs, the vaults and the relays do together is what an outbox does: an
\* authored publication is queued until some relay holds it, no relay holds anything the
\* device does not know, and the device forgets only what it has settled.
THEOREM DeliveryImplementsOutbox == Spec => ImplementsOutbox
<1>1. Init => Outbox!Init
  BY DEF Init, JournalInit, Outbox!Init, Pending
<1>2. DeliveryInv /\ [Next]_vars =>
         [Outbox!Next]_<<Pending, (intents \ Pending) \cup dedupe, cells>>
  <2> SUFFICES ASSUME DeliveryInv, [Next]_vars
               PROVE  \/ Outbox!Next
                      \/ UNCHANGED <<Pending, settledIntents, cells>>
    BY DEF settledIntents
  <2>0. DeliveryTypeOK
    BY DEF DeliveryInv
  <2>1. CASE \E t \in Tabs : Attempt(t)
    BY <2>1, AttemptRefines DEF Outbox!Next
  <2>2. CASE Records
    BY <2>2, RecordRefines DEF Outbox!Next
  <2>3. CASE Compacts
    BY <2>3, CompactRefines DEF Outbox!Next, settledIntents
  <2>4. CASE \E x \in puts : RelayStores(x)
    BY <2>4, StoringRefines DEF Outbox!Next
  <2>5. ASSUME UNCHANGED <<intents, acknowledgedTargets, dedupe, cells>>
        PROVE  UNCHANGED <<Pending, settledIntents, cells>>
    BY <2>5 DEF Pending, settledIntents
  <2>6. CASE Recovers \/ \E t \in Tabs : Plans(t)
    BY <2>5, <2>6, RecoverKeeps DEF Recovers, Plans, journalVars, intentRows, dedupeRows, remote
  <2>7. CASE Elsewhere /\ ~\E x \in puts : RelayStores(x)
    <3>1. UNCHANGED cells
      BY <2>7 DEF Next, Append, AppendRefused, Plan, PutLost, Recover, CompactJournal, Reload,
         Time, vars, remote, Attempt, Claim, Prepare, PrepareFails, PrepareTimesOut, Advance,
         Send, NotSent, PutOk, PutRefused, GetFound, ReadTerminal, ReconcileFromVault, TimesOut,
         Complete
    <3> QED BY <2>5, <2>7, <3>1 DEF Elsewhere
  <2> QED BY <2>0, <2>1, <2>2, <2>3, <2>4, <2>6, <2>7, StepKinds
<1> QED BY <1>1, <1>2, DeliveryInvariant, PTL DEF Spec, ImplementsOutbox, Outbox!Spec

\* What the outbox promises an author holds of the journal and the relays: whatever the device
\* counts as delivered is stored by a relay, also when compaction has left of it a tombstone
\* only, and the tombstone of a publication never hides one that is still to be delivered.
THEOREM OutboxPromiseKept == Spec => []Outbox!Promise
<1> DEFINE held(i) == \E r \in Relays : <<i, r>> \in cells
<1>1. Outbox!Init => Outbox!Promise
  <2> SUFFICES ASSUME Outbox!Init PROVE Outbox!Promise
    OBVIOUS
  <2>1. Pending = {} /\ settledIntents = {}
    BY DEF Outbox!Init, settledIntents
  <2> QED BY <2>1 DEF Outbox!Promise, settledIntents
<1>2. Outbox!Promise /\ [Outbox!Next]_<<Pending, (intents \ Pending) \cup dedupe, cells>>
        => Outbox!Promise'
  <2> SUFFICES ASSUME Outbox!Promise,
                      Outbox!Next \/ UNCHANGED <<Pending, settledIntents, cells>>
               PROVE  Outbox!Promise'
    BY DEF settledIntents
  <2>1. Pending \cap settledIntents = {} /\ \A i \in settledIntents : held(i)
    BY DEF Outbox!Promise, settledIntents
  <2>2. ASSUME NEW i, Outbox!Author(i)
        PROVE  /\ Pending' \cap settledIntents' = {} /\ cells' = cells
               /\ \A j \in settledIntents' : held(j)
    BY <2>1, <2>2 DEF Outbox!Author, settledIntents
  <2>3. ASSUME NEW i, Outbox!Settle(i)
        PROVE  /\ Pending' \cap settledIntents' = {} /\ cells' = cells
               /\ \A j \in settledIntents' : held(j)
    BY <2>1, <2>3 DEF Outbox!Settle, settledIntents
  <2>4. ASSUME NEW i, NEW r, Outbox!Hold(i, r)
        PROVE  /\ Pending' \cap settledIntents' = {} /\ cells \subseteq cells'
               /\ \A j \in settledIntents' : held(j)
    BY <2>1, <2>4 DEF Outbox!Hold, settledIntents
  <2>5. ASSUME NEW S, Outbox!Forget(S)
        PROVE  /\ Pending' \cap settledIntents' = {} /\ cells' = cells
               /\ \A j \in settledIntents' : held(j)
    BY <2>1, <2>5 DEF Outbox!Forget, settledIntents
  <2>6. ASSUME UNCHANGED <<Pending, settledIntents, cells>>
        PROVE  /\ Pending' \cap settledIntents' = {} /\ cells' = cells
               /\ \A j \in settledIntents' : held(j)
    BY <2>1, <2>6
  <2>7. /\ Pending' \cap settledIntents' = {} /\ cells \subseteq cells'
        /\ \A j \in settledIntents' : held(j)
    BY <2>1, <2>2, <2>3, <2>4, <2>5, <2>6 DEF Outbox!Next
  <2> QED BY <2>7 DEF Outbox!Promise, settledIntents
<1> QED BY <1>1, <1>2, DeliveryImplementsOutbox, PTL DEF ImplementsOutbox, Outbox!Spec
=============================================================================
