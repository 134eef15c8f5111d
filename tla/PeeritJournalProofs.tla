------------------------ MODULE PeeritJournalProofs ------------------------
(***************************************************************************)
(* The counters of the META row, the per-intent aggregates and the limits, *)
(* with the invariants they rest on, for every number of intents, relays   *)
(* and tokens and every value of the limits.                               *)
(***************************************************************************)
EXTENDS PeeritJournal, FiniteSetTheorems, TLAPS

\* Inductive: the counters alone are not (an acknowledgement decrements pendingIntentCount
\* because its intent is still stored and pending), nor is the latest pointer (a first commit
\* must be able to take it), nor the type of a
\* retry time (it is read off Backoff at the number of attempts, which must not be 0), nor
\* the pending count of a commit (the encoding of a row that does not exist must be blank).
JournalInv ==
    /\ JournalTypeOK
    /\ CountersMatchRows
    /\ StoresDisjoint
    /\ LatestIsStored
    /\ latestIntentId = NoIntent => latestCreatedAt = 0
    /\ \A p \in Pairs : targets[p].state # "absent" => targets[p].attempts >= 1
    /\ \A i \in Intents \ intents : acknowledgedTargets[i] = 0

\* A counted set of rows is finite.
LEMMA RowsFinite ==
    ASSUME JournalTypeOK
    PROVE  /\ IsFiniteSet(Pairs) /\ IsFiniteSet(intents) /\ IsFiniteSet(dedupe)
           /\ IsFiniteSet(view) /\ IsFiniteSet(Pending)
           /\ \A s \in TargetStates : IsFiniteSet(InState(s))
<1>1. IsFiniteSet(Intents) /\ IsFiniteSet(Relays) /\ IsFiniteSet(ViewKeys)
  BY ConstantsAssumption
<1>2. IsFiniteSet(Pairs)
  BY <1>1, FS_Product DEF Pairs
<1>3. IsFiniteSet(intents) /\ IsFiniteSet(dedupe) /\ IsFiniteSet(view)
  BY <1>1, FS_Subset DEF JournalTypeOK
<1>4. IsFiniteSet(Pending)
  BY <1>3, FS_Subset DEF Pending
<1>5. \A s \in TargetStates : IsFiniteSet(InState(s))
  BY <1>2, FS_Subset DEF InState
<1> QED BY <1>2, <1>3, <1>4, <1>5

\* bumpTargetCount keeps every counter exact when one row moves from the state it has to a
\* counted state.
LEMMA BumpIsExact ==
    ASSUME JournalInv,
           NEW p \in Pairs, NEW row \in TargetRow, row.state \in TargetStates,
           targets' = [targets EXCEPT ![p] = row],
           targetStateCounts' = Bump(targets[p].state, row.state)
    PROVE  /\ targets' \in [Pairs -> TargetRow]
           /\ targetStateCounts' \in [TargetStates -> Nat]
           /\ \A s \in TargetStates : targetStateCounts'[s] = Cardinality(InState(s)')
<1> DEFINE before == targets[p].state
           after  == row.state
<1>1. /\ targets \in [Pairs -> TargetRow]
      /\ targetStateCounts \in [TargetStates -> Nat]
      /\ \A s \in TargetStates : /\ targetStateCounts[s] = Cardinality(InState(s))
                                 /\ IsFiniteSet(InState(s))
  BY RowsFinite DEF JournalInv, JournalTypeOK, CountersMatchRows
<1>2. targets' \in [Pairs -> TargetRow]
  BY <1>1
<1>3. ASSUME NEW s \in TargetStates
      PROVE  targetStateCounts'[s] = Cardinality(InState(s)') /\ targetStateCounts'[s] \in Nat
  <2>0. /\ targetStateCounts'[s] = IF before = after THEN targetStateCounts[s]
                            ELSE IF s = before THEN targetStateCounts[s] - 1
                            ELSE IF s = after THEN targetStateCounts[s] + 1
                            ELSE targetStateCounts[s]
        /\ IsFiniteSet(InState(s)) /\ targetStateCounts[s] = Cardinality(InState(s))
        /\ targetStateCounts[s] \in Nat
    BY <1>1 DEF Bump
  <2>1. CASE before = after \/ (s # before /\ s # after)
    <3>1. InState(s)' = InState(s)
      BY <1>1, <2>1 DEF InState
    <3> QED BY <2>0, <2>1, <3>1
  <2>2. CASE before # after /\ s = before
    <3>1. InState(s)' = InState(s) \ {p} /\ p \in InState(s)
      BY <1>1, <2>2 DEF InState
    <3>2. Cardinality(InState(s) \ {p}) = Cardinality(InState(s)) - 1
      BY <2>0, <3>1, FS_RemoveElement
    <3>3. Cardinality(InState(s) \ {p}) \in Nat
      BY <2>0, FS_RemoveElement, FS_CardinalityType
    <3> QED BY <2>0, <2>2, <3>1, <3>2, <3>3
  <2>3. CASE before # after /\ s = after
    <3>1. InState(s)' = InState(s) \cup {p} /\ p \notin InState(s)
      BY <1>1, <2>3 DEF InState
    <3>2. Cardinality(InState(s) \cup {p}) = Cardinality(InState(s)) + 1
      BY <2>0, <3>1, FS_AddElement
    <3> QED BY <2>0, <2>3, <3>1, <3>2
  <2> QED BY <2>1, <2>2, <2>3
<1>4. targetStateCounts' \in [TargetStates -> Nat]
  <2>1. targetStateCounts' = [s \in TargetStates |-> targetStateCounts'[s]]
    BY DEF Bump
  <2> QED BY <1>3, <2>1
<1> QED BY <1>2, <1>3, <1>4

\* Cardinalities of a union with new elements and of a difference with old ones.
LEMMA CardinalityOfGrowth ==
    ASSUME NEW S, NEW T, IsFiniteSet(S), IsFiniteSet(T)
    PROVE  /\ IsFiniteSet(S \cup T) /\ IsFiniteSet(T \ S)
           /\ Cardinality(S \cup T) = Cardinality(S) + Cardinality(T \ S)
           /\ Cardinality(S) \in Nat /\ Cardinality(T \ S) \in Nat
<1>1. IsFiniteSet(T \ S)
  BY FS_Subset
<1>2. S \cup T = S \cup (T \ S) /\ S \cap (T \ S) = {}
  OBVIOUS
<1>3. /\ Cardinality(S \cup (T \ S))
           = Cardinality(S) + Cardinality(T \ S) - Cardinality(S \cap (T \ S))
      /\ IsFiniteSet(S \cup (T \ S))
  BY <1>1, FS_Union
<1>4. Cardinality({}) = 0
  BY FS_EmptySet
<1>5. Cardinality(S) \in Nat /\ Cardinality(T \ S) \in Nat
  BY <1>1, FS_CardinalityType
<1>6. Cardinality(S \cup T) = Cardinality(S) + Cardinality(T \ S) - Cardinality({})
      /\ IsFiniteSet(S \cup T)
  BY <1>2, <1>3, Zenon
<1> QED BY <1>1, <1>4, <1>5, <1>6

LEMMA CardinalityOfLoss ==
    ASSUME NEW S, NEW T, IsFiniteSet(S), T \subseteq S
    PROVE  /\ IsFiniteSet(T) /\ IsFiniteSet(S \ T)
           /\ Cardinality(S \ T) = Cardinality(S) - Cardinality(T)
           /\ Cardinality(S \ T) \in Nat /\ Cardinality(S) \in Nat /\ Cardinality(T) \in Nat
<1>1. IsFiniteSet(T) /\ IsFiniteSet(S \ T)
  BY FS_Subset
<1>2. Cardinality(T \cup (S \ T)) = Cardinality(T) + Cardinality((S \ T) \ T)
  BY <1>1, CardinalityOfGrowth
<1>3. T \cup (S \ T) = S /\ (S \ T) \ T = S \ T
  OBVIOUS
<1>4. Cardinality(S \ T) \in Nat /\ Cardinality(S) \in Nat /\ Cardinality(T) \in Nat
  BY <1>1, FS_CardinalityType
<1> QED BY <1>1, <1>2, <1>3, <1>4

LEMMA JournalInitInv == JournalInit => JournalInv
<1> SUFFICES ASSUME JournalInit PROVE JournalInv
  OBVIOUS
<1>1. JournalTypeOK
  <2>1. NoTarget \in TargetRow
    BY ConstantsAssumption DEF NoTarget, TargetRow
  <2> QED BY <2>1 DEF JournalInit, JournalTypeOK, NoTombstone
<1>2. \A s \in TargetStates : InState(s) = {}
  BY DEF JournalInit, InState, NoTarget, TargetStates, InFlight, RetryDue, Acknowledged
<1>3. Pending = {}
  BY DEF JournalInit, Pending
<1>4. CountersMatchRows
  BY <1>2, <1>3, FS_EmptySet DEF JournalInit, CountersMatchRows
<1>5. StoresDisjoint /\ LatestIsStored
  BY ConstantsAssumption DEF JournalInit, StoresDisjoint, LatestIsStored, NoTarget
<1> QED BY <1>1, <1>4, <1>5 DEF JournalInit, JournalInv, NoTarget

-----------------------------------------------------------------------------
(* Every operation preserves JournalInv *)

LEMMA CommitIntentInv ==
    ASSUME JournalInv, NEW i \in Intents, NEW c \in Nat, CommitIntent(i, c)
    PROVE  JournalInv'
<1> USE DEF JournalInv, CommitIntent, Fresh, latest, dedupeRows
<1>1. IsFiniteSet(view) /\ IsFiniteSet(RecordKeys[i]) /\ RecordKeys[i] \subseteq ViewKeys
  BY RowsFinite, ConstantsAssumption, FS_Subset
<1>2. /\ viewRecordCount' = Cardinality(view') /\ viewRecordCount' \in Nat
  BY <1>1, CardinalityOfGrowth DEF CountersMatchRows
<1>3. intentCount' = Cardinality(intents')
  BY RowsFinite, FS_AddElement DEF CountersMatchRows
<1>4. JournalTypeOK'
  BY <1>1, <1>2 DEF JournalTypeOK
<1>5. pendingIntentCount' = Cardinality(Pending')
  <2>1. Pending' = Pending \cup {i} /\ i \notin Pending
    BY DEF Pending
  <2> QED BY <2>1, RowsFinite, FS_AddElement DEF CountersMatchRows
<1>6. \A s \in TargetStates : InState(s)' = InState(s)
  BY DEF InState
<1>7. CountersMatchRows'
  BY <1>2, <1>3, <1>5, <1>6 DEF CountersMatchRows
<1>8. StoresDisjoint'
  BY DEF StoresDisjoint
<1>9. /\ LatestIsStored'
      /\ (latestIntentId = NoIntent => latestCreatedAt = 0)'
  <2>1. latestIntentId' \in intents'
    <3>1. CASE c >= latestCreatedAt
      BY <3>1
    <3>2. CASE ~(c >= latestCreatedAt)
      <4>1. latestCreatedAt # 0 /\ latestIntentId' = latestIntentId
        BY <3>2 DEF JournalTypeOK
      <4> QED BY <4>1 DEF LatestIsStored
    <3> QED BY <3>1, <3>2
  <2>2. latestIntentId' # NoIntent /\ intents' # {}
    BY <1>4, <2>1, ConstantsAssumption DEF JournalTypeOK
  <2> QED BY <2>1, <2>2 DEF LatestIsStored
<1> QED BY <1>4, <1>7, <1>8, <1>9

LEMMA CommitDiscoveredRowsInv ==
    ASSUME JournalInv, NEW K \in SUBSET ViewKeys, CommitDiscoveredRows(K)
    PROVE  JournalInv'
<1> USE DEF JournalInv, CommitDiscoveredRows, intentRows, latest, dedupeRows
<1>1. IsFiniteSet(view) /\ IsFiniteSet(K)
  BY RowsFinite, ConstantsAssumption, FS_Subset
<1>2. viewRecordCount' = Cardinality(view') /\ viewRecordCount' \in Nat
  BY <1>1, CardinalityOfGrowth DEF CountersMatchRows
<1>3. JournalTypeOK'
  BY <1>2 DEF JournalTypeOK
<1>4. Pending' = Pending /\ \A s \in TargetStates : InState(s)' = InState(s)
  BY DEF Pending, InState
<1>5. CountersMatchRows'
  BY <1>2, <1>4 DEF CountersMatchRows
<1> QED BY <1>3, <1>5 DEF StoresDisjoint, LatestIsStored

\* The part of JournalInv a step on one target row can disturb.
LEMMA OneRowInv ==
    ASSUME JournalInv, NEW p \in Pairs, NEW row \in TargetRow,
           row.state \in TargetStates, row.attempts >= 1, p[1] \in intents,
           targets' = [targets EXCEPT ![p] = row],
           targetStateCounts' = Bump(targets[p].state, row.state),
           UNCHANGED <<intents, dedupe, latest>>
    PROVE  /\ targets' \in [Pairs -> TargetRow]
           /\ targetStateCounts' \in [TargetStates -> Nat]
           /\ \A s \in TargetStates : targetStateCounts'[s] = Cardinality(InState(s)')
           /\ StoresDisjoint'
           /\ \A q \in Pairs : targets'[q].state # "absent" => targets'[q].attempts >= 1
<1>1. targets \in [Pairs -> TargetRow]
  BY DEF JournalInv, JournalTypeOK
<1> QED BY <1>1, BumpIsExact DEF JournalInv, StoresDisjoint

LEMMA RowOnlyInv ==
    ASSUME JournalInv, RowOnly,
           targets' \in [Pairs -> TargetRow], targetStateCounts' \in [TargetStates -> Nat],
           \A s \in TargetStates : targetStateCounts'[s] = Cardinality(InState(s)'),
           StoresDisjoint',
           \A q \in Pairs : targets'[q].state # "absent" => targets'[q].attempts >= 1
    PROVE  JournalInv'
<1> USE DEF JournalInv, RowOnly, intentRows, latest, dedupeRows
<1>1. JournalTypeOK'
  BY DEF JournalTypeOK
<1>2. Pending' = Pending
  BY DEF Pending
<1>3. CountersMatchRows'
  BY <1>2 DEF CountersMatchRows
<1> QED BY <1>1, <1>3 DEF LatestIsStored

LEMMA ClaimTargetInv ==
    ASSUME JournalInv, NEW i \in Intents, NEW r \in Relays, NEW s \in InFlight,
           NEW e \in {"absent", "pending-unknown"}, NEW t \in Tokens, NEW l \in Nat,
           ClaimTarget(i, r, s, e, t, l)
    PROVE  JournalInv'
<1> DEFINE p == <<i, r>>
           row == [state |-> s, attempts |-> SaturatingSucc(targets[p].attempts),
                   token |-> ClaimToken(i, r, e, t), leaseUntil |-> l, nextAttemptAt |-> 0]
<1>1. p \in Pairs /\ targets[p] \in TargetRow /\ p[1] = i
  BY DEF JournalInv, JournalTypeOK, Pairs
<1>2. row \in TargetRow /\ row.attempts >= 1 /\ row.state \in TargetStates /\ row.state = s
  <2>1. SaturatingSucc(targets[p].attempts) \in 1..MaxAttempts
    <3>1. targets[p].attempts \in 0..MaxAttempts /\ MaxAttempts \in Nat \ {0}
      BY <1>1, ConstantsAssumption DEF TargetRow
    <3> HIDE DEF p
    <3> QED BY <3>1 DEF SaturatingSucc
  <2>2. ClaimToken(i, r, e, t) \in Tokens \cup {NoToken}
    BY <1>1 DEF TargetRow, ClaimToken
  <2> QED BY <2>1, <2>2 DEF TargetRow, TargetStates, InFlight
<1>3. /\ i \in intents
      /\ targets' = [targets EXCEPT ![p] = row]
      /\ targetStateCounts' = Bump(targets[p].state, row.state)
  BY <1>2 DEF ClaimTarget, Claimable
<1>4. UNCHANGED <<intents, dedupe, latest>>
  BY DEF ClaimTarget, latest, dedupeRows
<1> HIDE DEF p, row
<1>5. /\ targets' \in [Pairs -> TargetRow]
      /\ targetStateCounts' \in [TargetStates -> Nat]
      /\ \A q \in TargetStates : targetStateCounts'[q] = Cardinality(InState(q)')
      /\ StoresDisjoint'
      /\ \A q \in Pairs : targets'[q].state # "absent" => targets'[q].attempts >= 1
  BY <1>1, <1>2, <1>3, <1>4, OneRowInv
<1>6. targetCount' \in [Intents -> Nat]
  BY DEF ClaimTarget, JournalInv, JournalTypeOK
<1> USE DEF JournalInv, ClaimTarget, latest, dedupeRows
<1>7. JournalTypeOK'
  BY <1>5, <1>6 DEF JournalTypeOK
<1>8. Pending' = Pending
  BY DEF Pending
<1>9. CountersMatchRows'
  BY <1>5, <1>8 DEF CountersMatchRows
<1> QED BY <1>5, <1>7, <1>9 DEF LatestIsStored

LEMMA TransitionTargetInv ==
    ASSUME JournalInv, NEW i \in Intents, NEW r \in Relays, NEW t \in Tokens, NEW l \in Nat,
           TransitionTarget(i, r, t, l)
    PROVE  JournalInv'
<1> DEFINE p == <<i, r>>
           row == [targets[p] EXCEPT !.state = "delivering", !.leaseUntil = l,
                                     !.nextAttemptAt = 0]
<1>1. /\ p \in Pairs /\ targets[p] \in TargetRow /\ p[1] = i /\ i \in intents
      /\ targets \in [Pairs -> TargetRow]
      /\ targets[p].state = "preparing" /\ targets[p].attempts >= 1
  BY DEF JournalInv, JournalTypeOK, Pairs, TransitionTarget, Holds
<1>2. row \in TargetRow /\ row.attempts >= 1 /\ row.state \in TargetStates
      /\ row.state = "delivering"
  BY <1>1 DEF TargetRow, TargetStates, InFlight
<1>3. targets' = [targets EXCEPT ![p] = row]
  BY <1>1 DEF TransitionTarget, TargetRow
<1>4. /\ targetStateCounts' = Bump(targets[p].state, row.state)
      /\ RowOnly
      /\ UNCHANGED <<intents, dedupe, latest>>
  BY <1>1, <1>2 DEF TransitionTarget, RowOnly, latest, intentRows, dedupeRows
<1> HIDE DEF p, row
<1> QED BY <1>1, <1>2, <1>3, <1>4, OneRowInv, RowOnlyInv

LEMMA FailTargetInv ==
    ASSUME JournalInv, NEW i \in Intents, NEW r \in Relays, NEW t \in Tokens,
           NEW s \in RetryDue \cup {"terminal"}, NEW b \in BOOLEAN,
           FailTarget(i, r, t, s, b)
    PROVE  JournalInv'
<1> DEFINE p == <<i, r>>
           due == IF s \in RetryDue THEN RetryDueAt(i, r, b) ELSE 0
           row == [targets[p] EXCEPT !.state = s, !.leaseUntil = 0, !.nextAttemptAt = due]
<1>1. /\ p \in Pairs /\ targets[p] \in TargetRow /\ p[1] = i /\ i \in intents
      /\ targets \in [Pairs -> TargetRow] /\ now \in Nat
      /\ targets[p].attempts >= 1
  BY DEF JournalInv, JournalTypeOK, Pairs, FailTarget, Holds, FailableStates, InFlight
<1>2. due \in Nat
  <2>1. targets[p].attempts \in 1..MaxAttempts /\ Backoff \in [1..MaxAttempts -> Nat]
    BY <1>1, ConstantsAssumption DEF TargetRow
  <2>2. RetryDueAt(i, r, b) \in Nat
    BY <1>1, <2>1 DEF RetryDueAt
  <2> QED BY <2>2
<1>3. row \in TargetRow /\ row.attempts >= 1 /\ row.state \in TargetStates /\ row.state = s
  BY <1>1, <1>2 DEF TargetRow, TargetStates
<1>4. targets' = [targets EXCEPT ![p] = row]
  BY <1>1 DEF FailTarget, TargetRow
<1>5. /\ targetStateCounts' = Bump(targets[p].state, row.state)
      /\ RowOnly
      /\ UNCHANGED <<intents, dedupe, latest>>
  BY <1>3 DEF FailTarget, RowOnly, latest, intentRows, dedupeRows
<1> HIDE DEF p, row
<1> QED BY <1>1, <1>3, <1>4, <1>5, OneRowInv, RowOnlyInv

LEMMA CompleteTargetInv ==
    ASSUME JournalInv, NEW i \in Intents, NEW r \in Relays, NEW t \in Tokens,
           NEW s \in Acknowledged, CompleteTarget(i, r, t, s)
    PROVE  JournalInv'
<1> DEFINE p == <<i, r>>
           row == [targets[p] EXCEPT !.state = s, !.leaseUntil = 0, !.nextAttemptAt = 0]
<1>1. /\ p \in Pairs /\ targets[p] \in TargetRow /\ p[1] = i /\ i \in intents
      /\ targets \in [Pairs -> TargetRow] /\ now \in Nat
      /\ targets[p].attempts >= 1
  BY DEF JournalInv, JournalTypeOK, Pairs, CompleteTarget, Holds
<1>2. row \in TargetRow /\ row.attempts >= 1 /\ row.state \in TargetStates /\ row.state = s
  BY <1>1 DEF TargetRow, TargetStates
<1>3. targets' = [targets EXCEPT ![p] = row]
  BY <1>1 DEF CompleteTarget, TargetRow
<1>4. /\ targetStateCounts' = Bump(targets[p].state, row.state)
      /\ UNCHANGED <<intents, dedupe, latest>>
  BY <1>2 DEF CompleteTarget, latest, dedupeRows
<1> HIDE DEF p, row
<1>5. /\ targets' \in [Pairs -> TargetRow]
      /\ targetStateCounts' \in [TargetStates -> Nat]
      /\ \A q \in TargetStates : targetStateCounts'[q] = Cardinality(InState(q)')
      /\ StoresDisjoint'
      /\ \A q \in Pairs : targets'[q].state # "absent" => targets'[q].attempts >= 1
  BY <1>1, <1>2, <1>3, <1>4, OneRowInv
<1> USE DEF JournalInv
<1>6. /\ acknowledgedTargets \in [Intents -> Nat]
      /\ acknowledgedTargets' = [acknowledgedTargets EXCEPT ![i] = @ + 1]
      /\ intents' = intents
  BY DEF JournalTypeOK, CompleteTarget
<1>7. pendingIntentCount' = Cardinality(Pending') /\ pendingIntentCount' \in Nat
  <2>1. /\ IsFiniteSet(Pending) /\ pendingIntentCount = Cardinality(Pending)
        /\ pendingIntentCount \in Nat
    BY RowsFinite DEF CountersMatchRows, JournalTypeOK
  <2>2. CASE acknowledgedTargets[i] = 0
    <3>1. Pending' = Pending \ {i} /\ {i} \subseteq Pending
      BY <1>1, <1>6, <2>2 DEF Pending
    <3>2. /\ Cardinality(Pending \ {i}) = Cardinality(Pending) - Cardinality({i})
          /\ Cardinality(Pending \ {i}) \in Nat
      BY <2>1, <3>1, CardinalityOfLoss
    <3>3. pendingIntentCount' = pendingIntentCount - 1
      BY <2>2 DEF CompleteTarget, SettleFirst
    <3> QED BY <2>1, <3>1, <3>2, <3>3, FS_Singleton
  <2>3. CASE acknowledgedTargets[i] # 0
    <3>1. Pending' = Pending
      BY <1>6, <2>3 DEF Pending
    <3>2. pendingIntentCount' = pendingIntentCount
      BY <2>3 DEF CompleteTarget, SettleFirst
    <3> QED BY <2>1, <3>1, <3>2
  <2> QED BY <2>2, <2>3
<1>8. /\ completedAt' \in [Intents -> Nat]
      /\ acknowledgedTargets' \in [Intents -> Nat]
      /\ readbackVerified' \in [Intents -> Nat]
  <2>1. completedAt \in [Intents -> Nat] /\ readbackVerified \in [Intents -> Nat]
    BY DEF JournalTypeOK
  <2>2. completedAt' \in [Intents -> Nat]
    BY <1>1, <2>1 DEF CompleteTarget, SettleFirst
  <2>3. readbackVerified' \in [Intents -> Nat]
    BY <2>1 DEF CompleteTarget
  <2>4. acknowledgedTargets' \in [Intents -> Nat]
    BY <1>6
  <2> QED BY <2>2, <2>3, <2>4
<1>9. UNCHANGED <<now, intents, createdAt, targetCount, dedupe, tombstone, view,
                  viewRecordCount, intentCount, dedupeCount, latestIntentId, latestCreatedAt>>
  BY DEF CompleteTarget, latest, dedupeRows
<1>10. JournalTypeOK'
  BY <1>5, <1>7, <1>8, <1>9 DEF JournalTypeOK
<1>11. CountersMatchRows'
  BY <1>5, <1>7, <1>9 DEF CountersMatchRows
<1> QED BY <1>1, <1>5, <1>6, <1>9, <1>10, <1>11 DEF LatestIsStored

LEMMA RecoverInv ==
    ASSUME JournalInv, NEW P \in SUBSET Expired("preparing"),
           NEW D \in SUBSET Expired("delivering"), RecoverRows(P, D)
    PROVE  JournalInv'
<1> USE DEF JournalInv
<1>1. /\ targets \in [Pairs -> TargetRow] /\ now \in Nat
      /\ targetStateCounts \in [TargetStates -> Nat]
      /\ \A s \in TargetStates : /\ targetStateCounts[s] = Cardinality(InState(s))
                                 /\ IsFiniteSet(InState(s))
  BY RowsFinite DEF JournalTypeOK, CountersMatchRows
<1>2. /\ P \subseteq InState("preparing") /\ D \subseteq InState("delivering")
      /\ \A p \in P : p \in Pairs /\ targets[p].state = "preparing"
      /\ \A p \in D : p \in Pairs /\ targets[p].state = "delivering"
  BY DEF Expired, InState
<1>3. targets' \in [Pairs -> TargetRow]
  <2>1. ASSUME NEW p \in Pairs
        PROVE  [targets[p] EXCEPT !.state = RecoveredState(targets[p].state),
                                  !.leaseUntil = 0, !.nextAttemptAt = now] \in TargetRow
    <3>1. targets[p] \in TargetRow /\ RecoveredState(targets[p].state) \in TargetStates
      BY <1>1 DEF RecoveredState, TargetStates, RetryDue
    <3> QED BY <1>1, <3>1 DEF TargetRow
  <2> QED BY <1>1, <2>1 DEF RecoverRows
<1>4. \A p \in Pairs :
         /\ p \in P => targets'[p].state = "retryable"
         /\ p \in D => targets'[p].state = "pending-unknown"
         /\ p \notin P \cup D => targets'[p] = targets[p]
         /\ targets'[p].attempts = targets[p].attempts
  BY <1>1, <1>2 DEF RecoverRows, TargetRow, RecoveredState
<1>5. /\ InState("preparing")' = InState("preparing") \ P
      /\ InState("retryable")' = InState("retryable") \cup P
      /\ InState("delivering")' = InState("delivering") \ D
      /\ InState("pending-unknown")' = InState("pending-unknown") \cup D
      /\ P \ InState("retryable") = P /\ D \ InState("pending-unknown") = D
      /\ \A s \in TargetStates \ {"preparing", "retryable", "delivering", "pending-unknown"} :
            InState(s)' = InState(s)
  BY <1>2, <1>4 DEF InState
<1>6. {"preparing", "retryable", "delivering", "pending-unknown"} \subseteq TargetStates
  BY DEF TargetStates, InFlight, RetryDue
<1>7. \A s \in TargetStates : /\ targetStateCounts'[s] = Cardinality(InState(s)')
                              /\ targetStateCounts'[s] \in Nat
  <2>1. /\ targetStateCounts'["preparing"] = targetStateCounts["preparing"] - Cardinality(P)
        /\ targetStateCounts'["retryable"] = targetStateCounts["retryable"] + Cardinality(P)
        /\ targetStateCounts'["delivering"] = targetStateCounts["delivering"] - Cardinality(D)
        /\ targetStateCounts'["pending-unknown"] =
             targetStateCounts["pending-unknown"] + Cardinality(D)
        /\ \A s \in TargetStates \ {"preparing", "retryable", "delivering", "pending-unknown"} :
              targetStateCounts'[s] = targetStateCounts[s]
    BY <1>1, <1>6 DEF RecoverRows
  <2>2. /\ Cardinality(InState("preparing") \ P) =
             Cardinality(InState("preparing")) - Cardinality(P)
        /\ Cardinality(InState("preparing") \ P) \in Nat
        /\ IsFiniteSet(P)
    BY <1>1, <1>2, <1>6, CardinalityOfLoss
  <2>3. /\ Cardinality(InState("delivering") \ D) =
             Cardinality(InState("delivering")) - Cardinality(D)
        /\ Cardinality(InState("delivering") \ D) \in Nat
        /\ IsFiniteSet(D)
    BY <1>1, <1>2, <1>6, CardinalityOfLoss
  <2>4. /\ Cardinality(InState("retryable") \cup P) =
             Cardinality(InState("retryable")) + Cardinality(P)
        /\ Cardinality(InState("retryable") \cup P) \in Nat
    <3>1. IsFiniteSet(InState("retryable")) /\ IsFiniteSet(P)
      BY <1>1, <1>6, <2>2
    <3>2. /\ Cardinality(InState("retryable") \cup P) =
               Cardinality(InState("retryable")) + Cardinality(P \ InState("retryable"))
          /\ IsFiniteSet(InState("retryable") \cup P)
      BY <3>1, CardinalityOfGrowth
    <3> QED BY <1>5, <3>2, FS_CardinalityType
  <2>5. /\ Cardinality(InState("pending-unknown") \cup D) =
             Cardinality(InState("pending-unknown")) + Cardinality(D)
        /\ Cardinality(InState("pending-unknown") \cup D) \in Nat
    <3>1. IsFiniteSet(InState("pending-unknown")) /\ IsFiniteSet(D)
      BY <1>1, <1>6, <2>3
    <3>2. /\ Cardinality(InState("pending-unknown") \cup D) =
               Cardinality(InState("pending-unknown")) + Cardinality(D \ InState("pending-unknown"))
          /\ IsFiniteSet(InState("pending-unknown") \cup D)
      BY <3>1, CardinalityOfGrowth
    <3> QED BY <1>5, <3>2, FS_CardinalityType
  <2> QED BY <1>1, <1>5, <1>6, <2>1, <2>2, <2>3, <2>4, <2>5
<1>8. targetStateCounts' \in [TargetStates -> Nat]
  BY <1>1, <1>7 DEF RecoverRows
<1>9. StoresDisjoint'
  BY <1>2, <1>4 DEF StoresDisjoint, RecoverRows, RowOnly, intentRows, dedupeRows
<1>10. \A p \in Pairs : targets'[p].state # "absent" => targets'[p].attempts >= 1
  BY <1>2, <1>4
<1> QED BY <1>3, <1>7, <1>8, <1>9, <1>10, RowOnlyInv DEF RecoverRows

LEMMA CompactInv ==
    ASSUME JournalInv, NEW C \in SUBSET OldIntents,
           NEW X \in SUBSET OldTombstones(Compactable(C)),
           NEW O \in SUBSET ((dedupe \cup Compactable(C)) \ X),
           CompactRows(Compactable(C), X, O)
    PROVE  JournalInv'
<1> DEFINE G    == Compactable(C)
           kept == ((dedupe \cup G) \ X) \ O
<1> USE DEF JournalInv
<1>1. /\ G \subseteq intents /\ G \subseteq Intents /\ latestIntentId \notin G
      /\ \A i \in G : acknowledgedTargets[i] # 0
      /\ G \cap dedupe = {}
      /\ X \subseteq dedupe \cup G /\ O \subseteq (dedupe \cup G) \ X
  <2>1. G \subseteq intents /\ latestIntentId \notin G
    BY DEF Compactable, OldIntents
  <2>2. \A i \in G : acknowledgedTargets[i] # 0
    <3>1. \A i \in G : i \in Intents /\ acknowledgedTargets[i] >= 1
      BY DEF Compactable, OldIntents, JournalTypeOK
    <3> QED BY <3>1 DEF JournalTypeOK
  <2>3. X \subseteq dedupe \cup G /\ O \subseteq (dedupe \cup G) \ X
    BY DEF OldTombstones
  <2> QED BY <2>1, <2>2, <2>3 DEF JournalTypeOK, StoresDisjoint
<1>2. /\ intents' = intents \ G
      /\ intentCount' = intentCount - Cardinality(G)
      /\ acknowledgedTargets' = [i \in Intents |-> IF i \in G THEN 0 ELSE acknowledgedTargets[i]]
      /\ targets' = [p \in Pairs |-> IF p[1] \in G THEN NoTarget ELSE targets[p]]
      /\ targetStateCounts' = [s \in TargetStates |->
              targetStateCounts[s] - Cardinality(InState(s) \cap TargetsOf(G))]
      /\ dedupe' = kept
      /\ dedupeCount' = dedupeCount + Cardinality(G) - Cardinality(X) - Cardinality(O)
      /\ UNCHANGED <<now, view, viewRecordCount, pendingIntentCount, latestIntentId,
                     latestCreatedAt>>
  BY DEF CompactRows, latest
<1>3. /\ createdAt' \in [Intents -> Nat] /\ completedAt' \in [Intents -> Nat]
      /\ targetCount' \in [Intents -> Nat] /\ acknowledgedTargets' \in [Intents -> Nat]
      /\ readbackVerified' \in [Intents -> Nat]
  BY DEF CompactRows, JournalTypeOK
<1>4. tombstone' \in [Intents -> [completedAt : Nat, expiresAt : Nat]]
  <2>1. \A i \in Intents : Tombstones(G)[i] \in [completedAt : Nat, expiresAt : Nat]
    <3>1. /\ now + DedupeRetention \in Nat
          /\ completedAt \in [Intents -> Nat]
          /\ tombstone \in [Intents -> [completedAt : Nat, expiresAt : Nat]]
      <4>1. DedupeRetention \in Nat /\ now \in Nat
        BY ConstantsAssumption DEF JournalTypeOK
      <4> QED BY <4>1 DEF JournalTypeOK
    <3> HIDE DEF G
    <3> QED BY <3>1 DEF Tombstones
  <2> HIDE DEF G
  <2>2. tombstone' = [i \in Intents |-> IF i \in kept THEN Tombstones(G)[i] ELSE NoTombstone]
    BY DEF CompactRows, G
  <2> HIDE DEF kept
  <2> QED BY <2>1, <2>2 DEF NoTombstone
<1> HIDE DEF G
<1>5. intentCount' = Cardinality(intents') /\ intentCount' \in Nat
  <2>1. IsFiniteSet(intents) /\ intentCount = Cardinality(intents)
    BY RowsFinite DEF CountersMatchRows
  <2>2. /\ Cardinality(intents \ G) = Cardinality(intents) - Cardinality(G)
        /\ Cardinality(intents \ G) \in Nat
    BY <1>1, <2>1, CardinalityOfLoss
  <2> QED BY <1>2, <2>1, <2>2
<1>6. Pending' = Pending
  BY <1>1, <1>2 DEF Pending, JournalTypeOK
<1>7. dedupeCount' = Cardinality(dedupe') /\ dedupeCount' \in Nat
  <2>1. IsFiniteSet(dedupe) /\ IsFiniteSet(G)
    BY <1>1, RowsFinite, FS_Subset
  <2>2. G \ dedupe = G
    BY <1>1
  <2>3. /\ Cardinality(dedupe \cup G) = Cardinality(dedupe) + Cardinality(G)
        /\ IsFiniteSet(dedupe \cup G)
    BY <2>1, <2>2, CardinalityOfGrowth
  <2>4. /\ Cardinality((dedupe \cup G) \ X) = Cardinality(dedupe \cup G) - Cardinality(X)
        /\ IsFiniteSet((dedupe \cup G) \ X)
    BY <1>1, <2>3, CardinalityOfLoss
  <2>5. /\ Cardinality(kept) = Cardinality((dedupe \cup G) \ X) - Cardinality(O)
        /\ Cardinality(kept) \in Nat
    BY <1>1, <2>4, CardinalityOfLoss
  <2>6. Cardinality(dedupe) \in Nat /\ dedupeCount = Cardinality(dedupe)
    BY DEF JournalTypeOK, CountersMatchRows
  <2>7. Cardinality(G) \in Nat /\ Cardinality(X) \in Nat /\ Cardinality(O) \in Nat
    BY <1>1, <2>1, <2>3, <2>4, CardinalityOfLoss, FS_CardinalityType
  <2> QED BY <1>2, <2>3, <2>4, <2>5, <2>6, <2>7
<1>8. ASSUME NEW s \in TargetStates
      PROVE  targetStateCounts'[s] = Cardinality(InState(s)') /\ targetStateCounts'[s] \in Nat
  <2>1. s # "absent"
    BY DEF TargetStates, InFlight, RetryDue, Acknowledged
  <2>2. InState(s)' = InState(s) \ (InState(s) \cap TargetsOf(G))
    BY <1>2, <2>1 DEF InState, TargetsOf, NoTarget
  <2>3. IsFiniteSet(InState(s)) /\ targetStateCounts[s] = Cardinality(InState(s))
    BY RowsFinite DEF CountersMatchRows
  <2> DEFINE lost == InState(s) \cap TargetsOf(G)
  <2>4. /\ Cardinality(InState(s) \ lost) = Cardinality(InState(s)) - Cardinality(lost)
        /\ Cardinality(InState(s) \ lost) \in Nat
    BY <2>3, CardinalityOfLoss
  <2>5. targetStateCounts'[s] = targetStateCounts[s] - Cardinality(lost)
    BY <1>2
  <2> QED BY <2>2, <2>3, <2>4, <2>5
<1>9. targetStateCounts' \in [TargetStates -> Nat]
  BY <1>2, <1>8
<1>10. targets' \in [Pairs -> TargetRow]
  BY <1>2, ConstantsAssumption DEF JournalTypeOK, NoTarget, TargetRow
<1>11. JournalTypeOK'
  BY <1>1, <1>2, <1>3, <1>4, <1>5, <1>7, <1>9, <1>10 DEF JournalTypeOK
<1>12. CountersMatchRows'
  BY <1>2, <1>5, <1>6, <1>7, <1>8 DEF CountersMatchRows
<1>13. StoresDisjoint'
  BY <1>1, <1>2 DEF StoresDisjoint, NoTarget
<1>14. LatestIsStored'
  BY <1>1, <1>2 DEF LatestIsStored
<1>15. \A p \in Pairs : targets'[p].state # "absent" => targets'[p].attempts >= 1
  BY <1>2 DEF NoTarget
<1>16. \A i \in Intents \ intents' : acknowledgedTargets'[i] = 0
  BY <1>2
<1> QED BY <1>2, <1>11, <1>12, <1>13, <1>14, <1>15, <1>16

LEMMA TickInv ==
    ASSUME JournalInv, now' = now + 1 \/ now' = now,
           UNCHANGED <<intentRows, targets, dedupeRows, view, viewRecordCount, intentCount,
                       pendingIntentCount, dedupeCount, targetStateCounts, latest>>
    PROVE  JournalInv'
<1> USE DEF JournalInv, intentRows, dedupeRows, latest
<1>1. JournalTypeOK'
  BY DEF JournalTypeOK
<1>2. Pending' = Pending /\ \A s \in TargetStates : InState(s)' = InState(s)
  BY DEF Pending, InState
<1>3. CountersMatchRows'
  BY <1>2 DEF CountersMatchRows
<1> QED BY <1>1, <1>3 DEF StoresDisjoint, LatestIsStored

LEMMA JournalInvInductive == JournalInv /\ [JournalNext]_journalVars => JournalInv'
<1> SUFFICES ASSUME JournalInv, [JournalNext]_journalVars PROVE JournalInv'
  OBVIOUS
<1>0. now \in Nat /\ \A l \in now..(now + Lease) : l \in Nat
  BY ConstantsAssumption DEF JournalInv, JournalTypeOK
<1>1. ASSUME NEW i \in Intents, NEW c \in 0..now, CommitIntent(i, c) PROVE JournalInv'
  BY <1>0, <1>1, CommitIntentInv
<1>2. ASSUME NEW K \in SUBSET ViewKeys, CommitDiscoveredRows(K) PROVE JournalInv'
  BY <1>2, CommitDiscoveredRowsInv
<1>3. ASSUME NEW i \in Intents, NEW r \in Relays, NEW s \in InFlight,
             NEW e \in {"absent", "pending-unknown"}, NEW t \in Tokens,
             NEW l \in now..(now + Lease), ClaimTarget(i, r, s, e, t, l)
      PROVE JournalInv'
  BY <1>0, <1>3, ClaimTargetInv
<1>4. ASSUME NEW i \in Intents, NEW r \in Relays, NEW t \in Tokens,
             NEW l \in now..(now + Lease), TransitionTarget(i, r, t, l)
      PROVE JournalInv'
  BY <1>0, <1>4, TransitionTargetInv
<1>5. ASSUME NEW i \in Intents, NEW r \in Relays, NEW t \in Tokens, NEW s \in Acknowledged,
             CompleteTarget(i, r, t, s)
      PROVE JournalInv'
  BY <1>5, CompleteTargetInv
<1>6. ASSUME NEW i \in Intents, NEW r \in Relays, NEW t \in Tokens,
             NEW s \in RetryDue \cup {"terminal"}, NEW b \in BOOLEAN, FailTarget(i, r, t, s, b)
      PROVE JournalInv'
  BY <1>6, FailTargetInv
<1>7. CASE RecoverExpiredClaims
  BY <1>7, RecoverInv DEF RecoverExpiredClaims
<1>8. CASE Compact
  BY <1>8, CompactInv DEF Compact
<1>9. CASE Tick
  BY <1>9, TickInv DEF Tick
<1>10. CASE UNCHANGED journalVars
  BY <1>10, TickInv DEF journalVars
<1> QED BY <1>1, <1>2, <1>3, <1>4, <1>5, <1>6, <1>7, <1>8, <1>9, <1>10 DEF JournalNext

-----------------------------------------------------------------------------
(* Theorems *)

LEMMA JournalInvariant == JournalSpec => []JournalInv
  BY JournalInitInv, JournalInvInductive, PTL DEF JournalSpec

\* Every store and counter of the journal keeps its shape: no counter goes below 0, no
\* attempt counter past MAX_INDEX_NUMBER, whatever operations any tabs run in any order.
THEOREM JournalTypeCorrect == JournalSpec => []JournalTypeOK
<1>1. JournalInv => JournalTypeOK
  BY DEF JournalInv
<1> QED BY <1>1, JournalInvariant, PTL

\* The counters of the META row are exact after any history of operations, so
\* bumpTargetCount and completeTarget never report a corrupt journal.
THEOREM CountersAreExact == JournalSpec => []CountersMatchRows
<1>1. JournalInv => CountersMatchRows
  BY DEF JournalInv
<1> QED BY <1>1, JournalInvariant, PTL

\* No identity is both live and tombstoned, and no target row outlives its intent.
THEOREM StoresAreDisjoint == JournalSpec => []StoresDisjoint
<1>1. JournalInv => StoresDisjoint
  BY DEF JournalInv
<1> QED BY <1>1, JournalInvariant, PTL

\* The latest pointer never dangles, so summary() never reports a corrupt journal.
THEOREM LatestNeverDangles == JournalSpec => []LatestIsStored
<1>1. JournalInv => LatestIsStored
  BY DEF JournalInv
<1> QED BY <1>1, JournalInvariant, PTL

-----------------------------------------------------------------------------
(* The per-intent aggregates and the limits *)

\* What the code enforces the limits against is the counters and aggregates, so they are part
\* of the invariant, and a row that does not exist is blank.
LimitInv ==
    /\ AggregatesMatchRows
    /\ \A i \in Intents \ intents : targetCount[i] = 0 /\ readbackVerified[i] = 0
                                    /\ completedAt[i] = 0
    /\ intentCount <= MaxIntents
    /\ viewRecordCount <= MaxViewRecords
    /\ \A i \in Intents : targetCount[i] <= MaxTargetsPerIntent

StoreInv == JournalInv /\ LimitInv

LEMMA RelaysFinite ==
    ASSUME NEW i, NEW S
    PROVE  IsFiniteSet(RelaysIn(i, S)) /\ Cardinality(RelaysIn(i, S)) \in Nat
<1>1. IsFiniteSet(RelaysIn(i, S))
  BY ConstantsAssumption, FS_Subset DEF RelaysIn
<1> QED BY <1>1, FS_CardinalityType

\* One row of intent i changed: every set of relays keeps its members, or gains the relay.
LEMMA RelayMoves ==
    ASSUME JournalInv, NEW i \in Intents, NEW r \in Relays, NEW row,
           targets' = [targets EXCEPT ![<<i, r>>] = row], NEW S
    PROVE  /\ \A j \in Intents : j # i => RelaysIn(j, S)' = RelaysIn(j, S)
           /\ (targets[<<i, r>>].state \in S <=> row.state \in S)
                => RelaysIn(i, S)' = RelaysIn(i, S)
           /\ targets[<<i, r>>].state \notin S /\ row.state \in S
                => Cardinality(RelaysIn(i, S)') = Cardinality(RelaysIn(i, S)) + 1
<1>1. /\ targets \in [Pairs -> TargetRow] /\ <<i, r>> \in Pairs
  BY DEF JournalInv, JournalTypeOK, Pairs
<1>2. \A j \in Intents, q \in Relays :
        /\ <<j, q>> \in Pairs
        /\ targets'[<<j, q>>] = IF j = i /\ q = r THEN row ELSE targets[<<j, q>>]
  BY <1>1 DEF Pairs
<1>3. \A j \in Intents : j # i => RelaysIn(j, S)' = RelaysIn(j, S)
  BY <1>2 DEF RelaysIn
<1>4. ASSUME targets[<<i, r>>].state \in S <=> row.state \in S
      PROVE  RelaysIn(i, S)' = RelaysIn(i, S)
  BY <1>2, <1>4 DEF RelaysIn
<1>5. ASSUME targets[<<i, r>>].state \notin S, row.state \in S
      PROVE  Cardinality(RelaysIn(i, S)') = Cardinality(RelaysIn(i, S)) + 1
  <2>1. RelaysIn(i, S)' = RelaysIn(i, S) \cup {r} /\ r \notin RelaysIn(i, S)
    BY <1>2, <1>5 DEF RelaysIn
  <2> QED BY <2>1, RelaysFinite, FS_AddElement
<1> QED BY <1>3, <1>4, <1>5

LEMMA LimitInit == JournalInit => LimitInv
<1> SUFFICES ASSUME JournalInit PROVE LimitInv
  OBVIOUS
<1>1. intents = {} /\ intentCount = 0 /\ viewRecordCount = 0
  BY DEF JournalInit
<1>2. AggregatesMatchRows
  BY <1>1 DEF AggregatesMatchRows
<1>3. MaxIntents \in Nat /\ MaxViewRecords \in Nat /\ MaxTargetsPerIntent \in Nat
  BY ConstantsAssumption
<1> QED BY <1>1, <1>2, <1>3 DEF LimitInv, JournalInit

\* A step that leaves the INTENTS rows and the sets of relays alone.
LEMMA SameAggregates ==
    ASSUME StoreInv, UNCHANGED intentRows, UNCHANGED intentCount,
           viewRecordCount' <= MaxViewRecords,
           \A i \in intents : /\ RelaysIn(i, TargetStates)' = RelaysIn(i, TargetStates)
                              /\ RelaysIn(i, Acknowledged)' = RelaysIn(i, Acknowledged)
                              /\ RelaysIn(i, {"readback-verified"})'
                                   = RelaysIn(i, {"readback-verified"})
    PROVE  LimitInv'
<1>1. AggregatesMatchRows'
  BY DEF StoreInv, LimitInv, AggregatesMatchRows, intentRows
<1> QED BY <1>1 DEF StoreInv, LimitInv, intentRows

LEMMA CommitIntentLimit ==
    ASSUME StoreInv, NEW i \in Intents, NEW c \in Nat, CommitIntent(i, c)
    PROVE  LimitInv'
<1> USE DEF StoreInv, LimitInv, CommitIntent, dedupeRows
<1>1. \A j, S : RelaysIn(j, S)' = RelaysIn(j, S)
  BY DEF RelaysIn
<1>2. i \notin intents /\ \A r \in Relays : targets[<<i, r>>].state = "absent"
  BY DEF Fresh, JournalInv, StoresDisjoint, Pairs
<1>3. /\ RelaysIn(i, TargetStates) = {} /\ RelaysIn(i, Acknowledged) = {}
      /\ RelaysIn(i, {"readback-verified"}) = {}
  BY <1>2 DEF RelaysIn, TargetStates, Acknowledged, InFlight, RetryDue
<1>4. targetCount[i] = 0 /\ acknowledgedTargets[i] = 0 /\ readbackVerified[i] = 0
      /\ completedAt[i] = 0
  BY <1>2 DEF JournalInv
<1>5. AggregatesMatchRows'
  <2>1. ASSUME NEW j \in intents \cup {i}
        PROVE  /\ targetCount[j] = Cardinality(RelaysIn(j, TargetStates))
               /\ acknowledgedTargets[j] = Cardinality(RelaysIn(j, Acknowledged))
               /\ readbackVerified[j] = Cardinality(RelaysIn(j, {"readback-verified"}))
               /\ completedAt[j] # 0 <=> acknowledgedTargets[j] > 0
    <3>1. CASE j = i
      <4>1. /\ targetCount[i] = Cardinality(RelaysIn(i, TargetStates))
            /\ acknowledgedTargets[i] = Cardinality(RelaysIn(i, Acknowledged))
            /\ readbackVerified[i] = Cardinality(RelaysIn(i, {"readback-verified"}))
        BY <1>3, <1>4, FS_EmptySet, Zenon
      <4>2. ~(completedAt[i] # 0) /\ ~(acknowledgedTargets[i] > 0)
        BY <1>4
      <4> QED BY <3>1, <4>1, <4>2
    <3>2. CASE j # i
      BY <3>2 DEF AggregatesMatchRows
    <3> QED BY <3>1, <3>2
  <2>2. intents' = intents \cup {i} /\ intents' \subseteq Intents
    BY DEF JournalInv, JournalTypeOK
  <2> QED BY <1>1, <2>1, <2>2 DEF AggregatesMatchRows
<1>6. intentCount' <= MaxIntents /\ viewRecordCount' <= MaxViewRecords
  BY ConstantsAssumption DEF HasRoom, JournalInv, JournalTypeOK
<1> QED BY <1>5, <1>6

LEMMA ClaimTargetLimit ==
    ASSUME StoreInv, NEW i \in Intents, NEW r \in Relays, NEW s \in InFlight,
           NEW e \in {"absent", "pending-unknown"}, NEW t \in Tokens, NEW l \in Nat,
           ClaimTarget(i, r, s, e, t, l)
    PROVE  LimitInv'
<1> DEFINE before == targets[<<i, r>>].state
<1>1. /\ i \in intents /\ intents \subseteq Intents
      /\ before \in {"absent"} \cup RetryDue
      /\ before = "absent" => targetCount[i] < MaxTargetsPerIntent
      /\ targetCount \in [Intents -> Nat]
  BY DEF ClaimTarget, Claimable, ClaimableFresh, RetryDue, StoreInv, JournalInv, JournalTypeOK
<1>2. PICK row : row.state = s /\ targets' = [targets EXCEPT ![<<i, r>>] = row]
  BY DEF ClaimTarget
<1>3. ASSUME NEW S
      PROVE  /\ \A j \in Intents : j # i => RelaysIn(j, S)' = RelaysIn(j, S)
             /\ (before \in S <=> s \in S) => RelaysIn(i, S)' = RelaysIn(i, S)
             /\ before \notin S /\ s \in S
                  => Cardinality(RelaysIn(i, S)') = Cardinality(RelaysIn(i, S)) + 1
  BY <1>2, RelayMoves DEF StoreInv
<1> HIDE DEF before
<1>4. /\ before \notin Acknowledged /\ s \notin Acknowledged
      /\ before \notin {"readback-verified"} /\ s \notin {"readback-verified"}
      /\ s \in TargetStates
      /\ before \in TargetStates <=> before # "absent"
  BY <1>1 DEF RetryDue, Acknowledged, InFlight, TargetStates
<1>5. \A j \in intents :
        /\ RelaysIn(j, Acknowledged)' = RelaysIn(j, Acknowledged)
        /\ RelaysIn(j, {"readback-verified"})' = RelaysIn(j, {"readback-verified"})
        /\ j # i \/ before # "absent" => RelaysIn(j, TargetStates)' = RelaysIn(j, TargetStates)
  BY <1>1, <1>3, <1>4
<1>6. before = "absent" =>
        Cardinality(RelaysIn(i, TargetStates)') = Cardinality(RelaysIn(i, TargetStates)) + 1
  BY <1>3, <1>4
<1>7. targetCount' = IF before = "absent" THEN [targetCount EXCEPT ![i] = @ + 1] ELSE targetCount
  BY DEF ClaimTarget, before
<1>8. UNCHANGED <<intents, completedAt, acknowledgedTargets, readbackVerified, viewRecordCount,
                  intentCount>>
  BY DEF ClaimTarget
<1>9. \A j \in intents : targetCount'[j] = Cardinality(RelaysIn(j, TargetStates)')
  BY <1>1, <1>5, <1>6, <1>7 DEF StoreInv, LimitInv, AggregatesMatchRows
<1>10. AggregatesMatchRows'
  BY <1>5, <1>8, <1>9 DEF StoreInv, LimitInv, AggregatesMatchRows
<1>11. \A j \in Intents : targetCount'[j] <= MaxTargetsPerIntent
  BY <1>1, <1>7, ConstantsAssumption DEF StoreInv, LimitInv
<1>12. \A j \in Intents \ intents : targetCount'[j] = 0
  BY <1>1, <1>7 DEF StoreInv, LimitInv
<1> QED BY <1>8, <1>10, <1>11, <1>12 DEF StoreInv, LimitInv

LEMMA CompleteTargetLimit ==
    ASSUME StoreInv, NEW i \in Intents, NEW r \in Relays, NEW t \in Tokens,
           NEW s \in Acknowledged, CompleteTarget(i, r, t, s)
    PROVE  LimitInv'
<1> DEFINE before == targets[<<i, r>>].state
<1>1. /\ i \in intents /\ intents \subseteq Intents
      /\ before \in {"delivering", "pending-unknown"}
      /\ acknowledgedTargets \in [Intents -> Nat] /\ readbackVerified \in [Intents -> Nat]
      /\ completedAt \in [Intents -> Nat] /\ now \in Nat \ {0}
      /\ targets \in [Pairs -> TargetRow] /\ <<i, r>> \in Pairs
  BY DEF CompleteTarget, Holds, StoreInv, JournalInv, JournalTypeOK, Pairs
<1>2. PICK row : row.state = s /\ targets' = [targets EXCEPT ![<<i, r>>] = row]
  <2>1. targets' = [targets EXCEPT ![<<i, r>>] =
                      [targets[<<i, r>>] EXCEPT !.state = s, !.leaseUntil = 0,
                                                !.nextAttemptAt = 0]]
    BY <1>1 DEF CompleteTarget, TargetRow
  <2>2. [targets[<<i, r>>] EXCEPT !.state = s, !.leaseUntil = 0, !.nextAttemptAt = 0].state = s
    BY <1>1 DEF TargetRow
  <2> QED BY <2>1, <2>2
<1>3. ASSUME NEW S
      PROVE  /\ \A j \in Intents : j # i => RelaysIn(j, S)' = RelaysIn(j, S)
             /\ (before \in S <=> s \in S) => RelaysIn(i, S)' = RelaysIn(i, S)
             /\ before \notin S /\ s \in S
                  => Cardinality(RelaysIn(i, S)') = Cardinality(RelaysIn(i, S)) + 1
  BY <1>2, RelayMoves DEF StoreInv
<1> HIDE DEF before
<1>4. /\ before \notin Acknowledged /\ before \notin {"readback-verified"}
      /\ before \in TargetStates /\ s \in TargetStates
  BY <1>1 DEF RetryDue, Acknowledged, InFlight, TargetStates
<1>5. \A j \in intents : RelaysIn(j, TargetStates)' = RelaysIn(j, TargetStates)
  BY <1>1, <1>3, <1>4
<1>6. /\ UNCHANGED <<intents, targetCount, viewRecordCount, intentCount>>
      /\ acknowledgedTargets' = [acknowledgedTargets EXCEPT ![i] = @ + 1]
      /\ readbackVerified' = IF s = "readback-verified"
                               THEN [readbackVerified EXCEPT ![i] = @ + 1] ELSE readbackVerified
      /\ completedAt' = IF acknowledgedTargets[i] = 0
                          THEN [completedAt EXCEPT ![i] = now] ELSE completedAt
  BY DEF CompleteTarget, SettleFirst
<1>7. \A j \in intents : acknowledgedTargets'[j] = Cardinality(RelaysIn(j, Acknowledged)')
  BY <1>1, <1>3, <1>4, <1>6 DEF StoreInv, LimitInv, AggregatesMatchRows
<1>8. \A j \in intents :
         readbackVerified'[j] = Cardinality(RelaysIn(j, {"readback-verified"})')
  <2>1. CASE s = "readback-verified"
    BY <1>1, <1>3, <1>4, <1>6, <2>1 DEF StoreInv, LimitInv, AggregatesMatchRows
  <2>2. CASE s # "readback-verified"
    BY <1>1, <1>3, <1>4, <1>6, <2>2 DEF StoreInv, LimitInv, AggregatesMatchRows
  <2> QED BY <2>1, <2>2
<1>9. \A j \in intents : completedAt'[j] # 0 <=> acknowledgedTargets'[j] > 0
  <2>1. \A j \in intents : completedAt[j] # 0 <=> acknowledgedTargets[j] > 0
    BY DEF StoreInv, LimitInv, AggregatesMatchRows
  <2> QED BY <1>1, <1>6, <2>1
<1>10. AggregatesMatchRows'
  BY <1>5, <1>6, <1>7, <1>8, <1>9 DEF StoreInv, LimitInv, AggregatesMatchRows
<1>11. \A j \in Intents \ intents : readbackVerified'[j] = 0 /\ completedAt'[j] = 0
  BY <1>1, <1>6 DEF StoreInv, LimitInv
<1> QED BY <1>6, <1>10, <1>11 DEF StoreInv, LimitInv

\* A row that moves between two states no acknowledgement counts.
LEMMA UnacknowledgedMove ==
    ASSUME StoreInv, NEW i \in intents, NEW r \in Relays, NEW row, RowOnly,
           targets' = [targets EXCEPT ![<<i, r>>] = row],
           targets[<<i, r>>].state \in TargetStates \ Acknowledged,
           row.state \in TargetStates \ Acknowledged
    PROVE  LimitInv'
<1>1. i \in Intents /\ intents \subseteq Intents
  BY DEF StoreInv, JournalInv, JournalTypeOK
<1>2. ASSUME NEW S, targets[<<i, r>>].state \in S <=> row.state \in S, NEW j \in intents
      PROVE  RelaysIn(j, S)' = RelaysIn(j, S)
  BY <1>1, <1>2, RelayMoves DEF StoreInv
<1>3. /\ targets[<<i, r>>].state \in {"readback-verified"} <=> row.state \in {"readback-verified"}
      /\ targets[<<i, r>>].state \in Acknowledged <=> row.state \in Acknowledged
      /\ targets[<<i, r>>].state \in TargetStates <=> row.state \in TargetStates
  BY DEF Acknowledged
<1>4. \A j \in intents :
        /\ RelaysIn(j, TargetStates)' = RelaysIn(j, TargetStates)
        /\ RelaysIn(j, Acknowledged)' = RelaysIn(j, Acknowledged)
        /\ RelaysIn(j, {"readback-verified"})' = RelaysIn(j, {"readback-verified"})
  BY <1>2, <1>3
<1> QED BY <1>4, SameAggregates DEF RowOnly, StoreInv, LimitInv

LEMMA TransitionTargetLimit ==
    ASSUME StoreInv, NEW i \in Intents, NEW r \in Relays, NEW t \in Tokens, NEW l \in Nat,
           TransitionTarget(i, r, t, l)
    PROVE  LimitInv'
<1>1. /\ targets \in [Pairs -> TargetRow] /\ <<i, r>> \in Pairs /\ i \in intents
      /\ targets[<<i, r>>].state = "preparing" /\ RowOnly
  BY DEF TransitionTarget, Holds, StoreInv, JournalInv, JournalTypeOK, Pairs
<1>2. PICK row : row.state = "delivering" /\ targets' = [targets EXCEPT ![<<i, r>>] = row]
  <2> DEFINE row == [targets[<<i, r>>] EXCEPT !.state = "delivering", !.leaseUntil = l,
                                              !.nextAttemptAt = 0]
  <2>1. targets' = [targets EXCEPT ![<<i, r>>] = row]
    BY <1>1 DEF TransitionTarget, TargetRow
  <2>2. row.state = "delivering"
    BY <1>1 DEF TargetRow
  <2> QED BY <2>1, <2>2
<1>3. {"preparing", "delivering"} \subseteq TargetStates \ Acknowledged
  BY DEF TargetStates, Acknowledged, InFlight
<1> QED BY <1>1, <1>2, <1>3, UnacknowledgedMove

LEMMA FailTargetLimit ==
    ASSUME StoreInv, NEW i \in Intents, NEW r \in Relays, NEW t \in Tokens,
           NEW s \in RetryDue \cup {"terminal"}, NEW b \in BOOLEAN, FailTarget(i, r, t, s, b)
    PROVE  LimitInv'
<1>1. /\ targets \in [Pairs -> TargetRow] /\ <<i, r>> \in Pairs /\ i \in intents
      /\ targets[<<i, r>>].state \in FailableStates /\ RowOnly
  BY DEF FailTarget, Holds, StoreInv, JournalInv, JournalTypeOK, Pairs
<1>2. PICK row : row.state = s /\ targets' = [targets EXCEPT ![<<i, r>>] = row]
  <2> DEFINE due == IF s \in RetryDue THEN RetryDueAt(i, r, b) ELSE 0
             row == [targets[<<i, r>>] EXCEPT !.state = s, !.leaseUntil = 0,
                                              !.nextAttemptAt = due]
  <2>1. targets' = [targets EXCEPT ![<<i, r>>] = row]
    BY <1>1 DEF FailTarget, TargetRow
  <2>2. row.state = s
    BY <1>1 DEF TargetRow
  <2> QED BY <2>1, <2>2
<1>3. /\ FailableStates \subseteq TargetStates \ Acknowledged
      /\ s \in TargetStates \ Acknowledged
  BY DEF TargetStates, Acknowledged, InFlight, FailableStates, RetryDue
<1> QED BY <1>1, <1>2, <1>3, UnacknowledgedMove

LEMMA RecoverLimit ==
    ASSUME StoreInv, NEW P \in SUBSET Expired("preparing"), NEW D \in SUBSET Expired("delivering"),
           RecoverRows(P, D)
    PROVE  LimitInv'
<1>1. targets \in [Pairs -> TargetRow]
  BY DEF StoreInv, JournalInv, JournalTypeOK
<1>2. \A p \in Pairs :
        \/ targets'[p] = targets[p]
        \/ /\ targets[p].state \in {"preparing", "delivering"}
           /\ targets'[p].state \in {"retryable", "pending-unknown"}
  <2>1. ASSUME NEW p \in Pairs, p \in P \cup D
        PROVE  /\ targets[p].state \in {"preparing", "delivering"}
               /\ targets'[p].state \in {"retryable", "pending-unknown"}
    BY <1>1, <2>1 DEF RecoverRows, Expired, InState, RecoveredState, TargetRow
  <2> QED BY <2>1 DEF RecoverRows
<1>3. ASSUME NEW S \in {TargetStates, Acknowledged, {"readback-verified"}}, NEW i \in Intents
      PROVE  RelaysIn(i, S)' = RelaysIn(i, S)
  <2>1. \A r \in Relays : targets'[<<i, r>>].state \in S <=> targets[<<i, r>>].state \in S
    BY <1>2 DEF Pairs, TargetStates, Acknowledged, InFlight, RetryDue
  <2> QED BY <2>1 DEF RelaysIn
<1>4. intents \subseteq Intents
  BY DEF StoreInv, JournalInv, JournalTypeOK
<1> QED BY <1>3, <1>4, SameAggregates DEF RecoverRows, RowOnly, StoreInv, LimitInv

LEMMA CompactLimit ==
    ASSUME StoreInv, NEW C \in SUBSET OldIntents, NEW X, NEW O, CompactRows(Compactable(C), X, O)
    PROVE  LimitInv'
<1> DEFINE G == Compactable(C)
<1>1. /\ intents' = intents \ G
      /\ targetCount' = [i \in Intents |-> IF i \in G THEN 0 ELSE targetCount[i]]
      /\ completedAt' = [i \in Intents |-> IF i \in G THEN 0 ELSE completedAt[i]]
      /\ readbackVerified' = [i \in Intents |-> IF i \in G THEN 0 ELSE readbackVerified[i]]
      /\ acknowledgedTargets' = [i \in Intents |-> IF i \in G THEN 0 ELSE acknowledgedTargets[i]]
      /\ targets' = [p \in Pairs |-> IF p[1] \in G THEN NoTarget ELSE targets[p]]
      /\ intentCount' = intentCount - Cardinality(G)
      /\ viewRecordCount' = viewRecordCount
  BY DEF CompactRows
<1>2. G \subseteq intents /\ intents \subseteq Intents
  BY DEF Compactable, OldIntents, StoreInv, JournalInv, JournalTypeOK
<1> HIDE DEF G
<1>3. \A S : \A i \in intents \ G : RelaysIn(i, S)' = RelaysIn(i, S)
  BY <1>1, <1>2 DEF RelaysIn, Pairs
<1>4. AggregatesMatchRows'
  BY <1>1, <1>2, <1>3 DEF StoreInv, LimitInv, AggregatesMatchRows
<1>5. intentCount' <= MaxIntents
  <2>1. Cardinality(G) \in Nat
    BY <1>2, RowsFinite, FS_Subset, FS_CardinalityType DEF StoreInv, JournalInv
  <2> QED BY <1>1, <2>1, ConstantsAssumption DEF StoreInv, LimitInv, JournalInv, JournalTypeOK
<1>6. \A i \in Intents \ intents' : /\ targetCount'[i] = 0 /\ readbackVerified'[i] = 0
                                   /\ completedAt'[i] = 0
  BY <1>1 DEF StoreInv, LimitInv
<1>7. \A i \in Intents : targetCount'[i] <= MaxTargetsPerIntent
  BY <1>1, ConstantsAssumption DEF StoreInv, LimitInv
<1> QED BY <1>1, <1>4, <1>5, <1>6, <1>7 DEF StoreInv, LimitInv

LEMMA StoreInvInductive == StoreInv /\ [JournalNext]_journalVars => StoreInv'
<1> SUFFICES ASSUME StoreInv, [JournalNext]_journalVars PROVE LimitInv'
  BY JournalInvInductive DEF StoreInv
<1>0. now \in Nat /\ \A l \in now..(now + Lease) : l \in Nat
  BY ConstantsAssumption DEF StoreInv, JournalInv, JournalTypeOK
<1>1. ASSUME NEW i \in Intents, NEW c \in 0..now, CommitIntent(i, c) PROVE LimitInv'
  BY <1>0, <1>1, CommitIntentLimit
<1>2. ASSUME NEW K \in SUBSET ViewKeys, CommitDiscoveredRows(K) PROVE LimitInv'
  <2>1. \A i, S : RelaysIn(i, S)' = RelaysIn(i, S)
    BY <1>2 DEF CommitDiscoveredRows, RelaysIn
  <2> QED BY <1>2, <2>1, SameAggregates DEF CommitDiscoveredRows
<1>3. ASSUME NEW i \in Intents, NEW r \in Relays, NEW s \in InFlight,
             NEW e \in {"absent", "pending-unknown"}, NEW t \in Tokens,
             NEW l \in now..(now + Lease), ClaimTarget(i, r, s, e, t, l)
      PROVE LimitInv'
  BY <1>0, <1>3, ClaimTargetLimit
<1>4. ASSUME NEW i \in Intents, NEW r \in Relays, NEW t \in Tokens,
             NEW l \in now..(now + Lease), TransitionTarget(i, r, t, l)
      PROVE LimitInv'
  BY <1>0, <1>4, TransitionTargetLimit
<1>5. ASSUME NEW i \in Intents, NEW r \in Relays, NEW t \in Tokens, NEW s \in Acknowledged,
             CompleteTarget(i, r, t, s)
      PROVE LimitInv'
  BY <1>5, CompleteTargetLimit
<1>6. ASSUME NEW i \in Intents, NEW r \in Relays, NEW t \in Tokens,
             NEW s \in RetryDue \cup {"terminal"}, NEW b \in BOOLEAN, FailTarget(i, r, t, s, b)
      PROVE LimitInv'
  BY <1>6, FailTargetLimit
<1>7. CASE RecoverExpiredClaims
  BY <1>7, RecoverLimit DEF RecoverExpiredClaims
<1>8. CASE Compact
  BY <1>8, CompactLimit DEF Compact
<1>9. ASSUME UNCHANGED <<intentRows, targets, viewRecordCount, intentCount>> PROVE LimitInv'
  <2>1. \A i, S : RelaysIn(i, S)' = RelaysIn(i, S)
    BY <1>9 DEF RelaysIn
  <2> QED BY <1>9, <2>1, SameAggregates DEF StoreInv, LimitInv
<1>10. CASE Tick \/ UNCHANGED journalVars
  BY <1>9, <1>10 DEF Tick, journalVars
<1> QED BY <1>1, <1>2, <1>3, <1>4, <1>5, <1>6, <1>7, <1>8, <1>10 DEF JournalNext

LEMMA StoreInvariant == JournalSpec => []StoreInv
<1>1. JournalInit => StoreInv
  BY JournalInitInv, LimitInit DEF StoreInv
<1> QED BY <1>1, StoreInvInductive, PTL DEF JournalSpec

\* targetCount, acknowledgedTargets, readbackVerified and completedAt of every stored intent
\* agree with its target rows, whatever order the answers of any tabs arrive in.
THEOREM AggregatesAreExact == JournalSpec => []AggregatesMatchRows
<1>1. StoreInv => AggregatesMatchRows
  BY DEF StoreInv, LimitInv
<1> QED BY <1>1, StoreInvariant, PTL

\* Never more intents, view records or targets of one intent than the limits allow, although
\* the code only ever compares its counters with them.
THEOREM LimitsHold == JournalSpec => []WithinLimits
<1>1. StoreInv => WithinLimits
  <2> SUFFICES ASSUME StoreInv PROVE WithinLimits
    OBVIOUS
  <2>1. Cardinality(intents) <= MaxIntents /\ Cardinality(view) <= MaxViewRecords
    BY DEF StoreInv, LimitInv, JournalInv, CountersMatchRows
  <2>2. ASSUME NEW i \in Intents
        PROVE  Cardinality(RelaysIn(i, TargetStates)) <= MaxTargetsPerIntent
    <3>1. CASE i \in intents
      BY <3>1 DEF StoreInv, LimitInv, AggregatesMatchRows
    <3>2. CASE i \notin intents
      <4>1. RelaysIn(i, TargetStates) = {}
        BY <3>2 DEF StoreInv, JournalInv, StoresDisjoint, RelaysIn, Pairs, TargetStates, InFlight,
                    RetryDue, Acknowledged
      <4>2. MaxTargetsPerIntent >= 0
        BY ConstantsAssumption
      <4> QED BY <4>1, <4>2, FS_EmptySet
    <3> QED BY <3>1, <3>2
  <2> QED BY <2>1, <2>2 DEF WithinLimits
<1> QED BY <1>1, StoreInvariant, PTL
=============================================================================
