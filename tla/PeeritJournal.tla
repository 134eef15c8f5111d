--------------------------- MODULE PeeritJournal ---------------------------
(***************************************************************************)
(* The publication journal of js/substrate/peerit-journal.js: the          *)
(* IndexedDB stores every tab of the browser shares.  Each operation of    *)
(* PeeritJournal is one serialised backend transaction that applies all    *)
(* its writes or none (peerit-journal-backend.js), so each operation is    *)
(* one action.  The caller is not constrained here: any operation may run  *)
(* at any time with any argument, which is what the tabs together can do.  *)
(*                                                                         *)
(* A call that the code answers with null, false, a duplicate report or a  *)
(* thrown limit writes nothing: it is the absence of a step.               *)
(* The readback fields of a target row are the business of module          *)
(* ReadbackRevalidation; row contents of the VIEW store of DiscoveredView. *)
(***************************************************************************)
EXTENDS Integers, FiniteSets

CONSTANTS
    Intents,         \* intent ids (hashes of exact publication bytes)
    Relays,          \* target ids
    Tokens,          \* attempt tokens
    NoToken,
    NoIntent,        \* meta.latestIntentId = null
    ViewKeys,        \* keys of materialised records
    RecordKeys,      \* the record keys of each intent's batch
    MaxIntents, MaxTargetsPerIntent, MaxViewRecords, MaxDedupeRecords,
    DeliveryBatch, CompactionBatch,
    AckRetention, DedupeRetention,
    MaxAttempts,     \* MAX_INDEX_NUMBER, where the attempt counter saturates
    Backoff,         \* retry delay after the n-th attempt
    Lease,           \* the longest lease a caller asks for
    MaxTime          \* bound of the checked clock, not of the code

ASSUME ConstantsAssumption ==
    /\ IsFiniteSet(Intents) /\ IsFiniteSet(Relays) /\ IsFiniteSet(ViewKeys)
    /\ NoToken \notin Tokens
    /\ NoIntent \notin Intents
    /\ RecordKeys \in [Intents -> SUBSET ViewKeys]
    /\ {MaxIntents, MaxTargetsPerIntent, MaxViewRecords, MaxDedupeRecords} \subseteq Nat
    /\ {DeliveryBatch, CompactionBatch, MaxAttempts} \subseteq Nat \ {0}
    /\ {AckRetention, DedupeRetention, Lease, MaxTime} \subseteq Nat
    /\ Backoff \in [1..MaxAttempts -> Nat]

InFlight     == {"preparing", "delivering"}
RetryDue     == {"retryable", "pending-unknown"}
Acknowledged == {"acknowledged", "readback-verified"}
TargetStates == InFlight \cup RetryDue \cup Acknowledged \cup {"terminal"}

VARIABLES
    now,                 \* the wall clock the operations are called with
    intents,             \* keys of the INTENTS store
    createdAt, completedAt, targetCount, acknowledgedTargets, readbackVerified,
                         \* ... and the mutable fields of its rows
    targets,             \* the TARGETS store, "absent" where it has no row
    dedupe,              \* keys of the DEDUPE store
    tombstone,           \* ... and its rows
    view,                \* keys of the VIEW store
    viewRecordCount, intentCount, pendingIntentCount, dedupeCount,
    targetStateCounts, latestIntentId, latestCreatedAt
                         \* the META row

intentRows == <<intents, createdAt, completedAt, targetCount, acknowledgedTargets,
                readbackVerified>>
dedupeRows == <<dedupe, tombstone>>
latest     == <<latestIntentId, latestCreatedAt>>
journalVars == <<now, intentRows, targets, dedupeRows, view, viewRecordCount, intentCount,
                 pendingIntentCount, dedupeCount, targetStateCounts, latest>>

Pairs    == Intents \X Relays
NoTarget == [state |-> "absent", attempts |-> 0, token |-> NoToken,
             leaseUntil |-> 0, nextAttemptAt |-> 0]
NoTombstone == [completedAt |-> 0, expiresAt |-> 0]

TargetRow == [state : TargetStates \cup {"absent"}, attempts : 0..MaxAttempts,
              token : Tokens \cup {NoToken}, leaseUntil : Nat, nextAttemptAt : Nat]

\* The type of every store and counter: what validateMeta and the row shapes admit.
JournalTypeOK ==
    /\ now \in Nat \ {0}
    /\ intents \subseteq Intents
    /\ createdAt \in [Intents -> Nat]
    /\ completedAt \in [Intents -> Nat]
    /\ targetCount \in [Intents -> Nat]
    /\ acknowledgedTargets \in [Intents -> Nat]
    /\ readbackVerified \in [Intents -> Nat]
    /\ targets \in [Pairs -> TargetRow]
    /\ dedupe \subseteq Intents
    /\ tombstone \in [Intents -> [completedAt : Nat, expiresAt : Nat]]
    /\ view \subseteq ViewKeys
    /\ viewRecordCount \in Nat
    /\ intentCount \in Nat
    /\ pendingIntentCount \in Nat
    /\ dedupeCount \in Nat
    /\ targetStateCounts \in [TargetStates -> Nat]
    /\ latestIntentId \in Intents \cup {NoIntent}
    /\ latestCreatedAt \in Nat

JournalInit ==
    /\ now = 1
    /\ intents = {}
    /\ createdAt = [i \in Intents |-> 0]
    /\ completedAt = [i \in Intents |-> 0]
    /\ targetCount = [i \in Intents |-> 0]
    /\ acknowledgedTargets = [i \in Intents |-> 0]
    /\ readbackVerified = [i \in Intents |-> 0]
    /\ targets = [p \in Pairs |-> NoTarget]
    /\ dedupe = {}
    /\ tombstone = [i \in Intents |-> NoTombstone]
    /\ view = {}
    /\ viewRecordCount = 0 /\ intentCount = 0 /\ pendingIntentCount = 0 /\ dedupeCount = 0
    /\ targetStateCounts = [s \in TargetStates |-> 0]
    /\ latestIntentId = NoIntent
    /\ latestCreatedAt = 0

-----------------------------------------------------------------------------
(* Index scans.  A scan with a limit returns the n rows lowest in the index. *)

IsFirst(T, S, n, key) ==
    /\ T \subseteq S
    /\ Cardinality(T) <= n
    /\ Cardinality(T) < n => T = S
    /\ \A x \in T, y \in S \ T : key[x] <= key[y]

InState(s) == {p \in Pairs : targets[p].state = s}

\* Mutant: the count a row leaves is not decremented.
BumpIntoOnly(before, after) ==
    [s \in TargetStates |-> IF s = after /\ before # after THEN targetStateCounts[s] + 1
                            ELSE targetStateCounts[s]]

\* bumpTargetCount(meta, before, after): "absent" is not a counted state.
Bump(before, after) ==
    [s \in TargetStates |-> IF before = after THEN targetStateCounts[s]
                            ELSE IF s = before THEN targetStateCounts[s] - 1
                            ELSE IF s = after THEN targetStateCounts[s] + 1
                            ELSE targetStateCounts[s]]

-----------------------------------------------------------------------------
(* Local commits and imported rows *)

\* Mutant: the tombstones are not consulted.
FreshIgnoringTombstones(i) == i \notin intents

\* A known identity, live or compacted, is answered as a duplicate.
Fresh(i) == i \notin intents /\ i \notin dedupe

\* Mutant: the intent limit is off by one.
HasRoomOffByOne(i) ==
    /\ intentCount <= MaxIntents
    /\ viewRecordCount + Cardinality(RecordKeys[i] \ view) <= MaxViewRecords

\* The limits are read from the counters, not from the rows.
HasRoom(i) ==
    /\ intentCount < MaxIntents
    /\ viewRecordCount + Cardinality(RecordKeys[i] \ view) <= MaxViewRecords

\* An exact publication and its view rows become durable in one transaction.  c is the
\* clock reading the author took before the transaction was granted.
CommitIntent(i, c) ==
    /\ Fresh(i)
    /\ HasRoom(i)
    /\ intents' = intents \cup {i}
    /\ createdAt' = [createdAt EXCEPT ![i] = c]
    /\ view' = view \cup RecordKeys[i]
    /\ viewRecordCount' = viewRecordCount + Cardinality(RecordKeys[i] \ view)
    /\ intentCount' = intentCount + 1
    /\ pendingIntentCount' = pendingIntentCount + 1
    /\ IF c >= latestCreatedAt
         THEN latestCreatedAt' = c /\ latestIntentId' = i
         ELSE UNCHANGED latest
    /\ UNCHANGED <<now, completedAt, targetCount, acknowledgedTargets, readbackVerified,
                   targets, dedupeRows, dedupeCount, targetStateCounts>>

\* The rows of a verified remote batch that win over what the view holds.
CommitDiscoveredRows(K) ==
    /\ viewRecordCount + Cardinality(K \ view) <= MaxViewRecords
    /\ view' = view \cup K
    /\ viewRecordCount' = viewRecordCount + Cardinality(K \ view)
    /\ UNCHANGED <<now, intentRows, targets, dedupeRows, intentCount, pendingIntentCount,
                   dedupeCount, targetStateCounts, latest>>

-----------------------------------------------------------------------------
(* The target state machine *)

\* Mutant: an ambiguous row can be claimed for a fresh send.
ClaimableAmbiguous == {"absent", "retryable", "pending-unknown"}

\* The states of a row from which a fresh send may be claimed.
ClaimableFresh == {"absent", "retryable"}

\* What the transaction of claimTarget requires of the row it finds.  expected is the
\* state a reconciling caller names, "absent" when the caller names none.
Claimable(i, r, expected) ==
    LET before == targets[<<i, r>>] IN
    /\ i \in intents
    /\ IF expected # "absent" THEN before.state = expected
                              ELSE before.state \in ClaimableFresh
    /\ before.state = "absent" => targetCount[i] < MaxTargetsPerIntent
    /\ before.state \in RetryDue => before.nextAttemptAt <= now

\* A reconciling claim keeps the token of the send it reconciles.
ClaimToken(i, r, expected, proposed) ==
    LET before == targets[<<i, r>>] IN
    IF expected # "absent" /\ before.token # NoToken THEN before.token ELSE proposed

\* Mutant: the attempt counter grows without bound.
PlainSucc(n) == n + 1

SaturatingSucc(n) == IF n < MaxAttempts THEN n + 1 ELSE MaxAttempts

ClaimTarget(i, r, state, expected, proposed, leaseUntil) ==
    LET before == targets[<<i, r>>] IN
    /\ Claimable(i, r, expected)
    /\ targets' = [targets EXCEPT ![<<i, r>>] =
                     [state |-> state, attempts |-> SaturatingSucc(before.attempts),
                      token |-> ClaimToken(i, r, expected, proposed),
                      leaseUntil |-> leaseUntil, nextAttemptAt |-> 0]]
    /\ targetStateCounts' = Bump(before.state, state)
    /\ targetCount' = IF before.state = "absent"
                        THEN [targetCount EXCEPT ![i] = @ + 1] ELSE targetCount
    /\ UNCHANGED <<now, intents, createdAt, completedAt, acknowledgedTargets,
                   readbackVerified, dedupeRows, view, viewRecordCount, intentCount,
                   pendingIntentCount, dedupeCount, latest>>

\* Mutant: the token alone admits a step, whatever became of the row.
HoldsByTokenAlone(i, r, token, from) ==
    /\ i \in intents
    /\ targets[<<i, r>>].token = token

\* The guard every later step of an attempt shares: the row still carries its token and is
\* in a state the step starts from.
Holds(i, r, token, from) ==
    /\ i \in intents
    /\ targets[<<i, r>>].state \in from
    /\ targets[<<i, r>>].token = token

\* What transitionTarget and failTarget leave alone.
RowOnly == UNCHANGED <<now, intentRows, dedupeRows, view, viewRecordCount, intentCount,
                       pendingIntentCount, dedupeCount, latest>>

TransitionTarget(i, r, token, leaseUntil) ==
    /\ Holds(i, r, token, {"preparing"})
    /\ targets' = [targets EXCEPT ![<<i, r>>].state = "delivering",
                                  ![<<i, r>>].leaseUntil = leaseUntil,
                                  ![<<i, r>>].nextAttemptAt = 0]
    /\ targetStateCounts' = Bump("preparing", "delivering")
    /\ RowOnly

\* Mutant: every acknowledgement is counted as the first.
SettleEveryTime(i) ==
    /\ pendingIntentCount' = pendingIntentCount - 1
    /\ completedAt' = [completedAt EXCEPT ![i] = now]

\* The first acknowledgement takes the intent out of the pending queue.
SettleFirst(i) ==
    IF acknowledgedTargets[i] = 0
      THEN /\ pendingIntentCount' = pendingIntentCount - 1
           /\ completedAt' = [completedAt EXCEPT ![i] = now]
      ELSE UNCHANGED <<pendingIntentCount, completedAt>>

\* state is "readback-verified" when the adapter proved an authenticated GET.
CompleteTarget(i, r, token, state) ==
    /\ Holds(i, r, token, {"delivering", "pending-unknown"})
    /\ targets' = [targets EXCEPT ![<<i, r>>].state = state,
                                  ![<<i, r>>].leaseUntil = 0,
                                  ![<<i, r>>].nextAttemptAt = 0]
    /\ targetStateCounts' = Bump(targets[<<i, r>>].state, state)
    /\ acknowledgedTargets' = [acknowledgedTargets EXCEPT ![i] = @ + 1]
    /\ readbackVerified' = IF state = "readback-verified"
                             THEN [readbackVerified EXCEPT ![i] = @ + 1] ELSE readbackVerified
    /\ SettleFirst(i)
    /\ UNCHANGED <<now, intents, createdAt, targetCount, dedupeRows, view, viewRecordCount,
                   intentCount, dedupeCount, latest>>

\* retryDueAt: an immediate caller passes nextAttemptAt, another gets the backed-off clock.
RetryDueAt(i, r, immediate) ==
    IF immediate THEN now ELSE now + Backoff[targets[<<i, r>>].attempts]

\* Mutant: a late failure overwrites whatever the row became.
FailableAnyState == TargetStates

FailableStates == InFlight \cup {"pending-unknown"}

FailTarget(i, r, token, state, immediate) ==
    /\ Holds(i, r, token, FailableStates)
    /\ targets' = [targets EXCEPT ![<<i, r>>].state = state,
                                  ![<<i, r>>].leaseUntil = 0,
                                  ![<<i, r>>].nextAttemptAt =
                                      IF state \in RetryDue
                                        THEN RetryDueAt(i, r, immediate) ELSE 0]
    /\ targetStateCounts' = Bump(targets[<<i, r>>].state, state)
    /\ RowOnly

-----------------------------------------------------------------------------
(* Maintenance *)

Expired(s) == {p \in InState(s) : targets[p].leaseUntil <= now}
LeaseKey   == [p \in Pairs |-> targets[p].leaseUntil]
Smaller(m, n) == IF m < n THEN m ELSE n
PerState   == (DeliveryBatch + 1) \div 2

\* Mutant: an expired send is taken for one that never left.
RecoverAsRetryable(state) == "retryable"

\* A claim whose lease ran out becomes retryable if nothing was sent yet, and ambiguous if
\* a send may have started.
RecoveredState(state) == IF state = "preparing" THEN "retryable" ELSE "pending-unknown"

RecoverRows(P, D) ==
    /\ targets' = [p \in Pairs |->
                     IF p \in P \cup D
                       THEN [targets[p] EXCEPT !.state = RecoveredState(targets[p].state),
                                               !.leaseUntil = 0, !.nextAttemptAt = now]
                       ELSE targets[p]]
    /\ targetStateCounts' = [targetStateCounts EXCEPT
                               !["preparing"] = @ - Cardinality(P),
                               !["retryable"] = @ + Cardinality(P),
                               !["delivering"] = @ - Cardinality(D),
                               !["pending-unknown"] = @ + Cardinality(D)]
    /\ RowOnly

\* P and D are the rows the two bounded scans return, taken in turns up to the batch.
RecoverExpiredClaims ==
    \E P \in SUBSET Expired("preparing"), D \in SUBSET Expired("delivering") :
        /\ IsFirst(P, Expired("preparing"), PerState, LeaseKey)
        /\ IsFirst(D, Expired("delivering"),
                   Smaller(PerState, DeliveryBatch - Cardinality(P)), LeaseKey)
        /\ P \cup D # {}
        /\ RecoverRows(P, D)

\* Mutant: the latest intent is compacted like any other.
CompactableLatestToo(C) == {i \in C : completedAt[i] # 0 /\ acknowledgedTargets[i] >= 1}

\* Mutant: age alone makes an intent compactable.
CompactableByAge(C) == {i \in C : i # latestIntentId}

\* The rows compaction takes out of the candidates C its index scan returned.
Compactable(C) == {i \in C : /\ completedAt[i] # 0
                             /\ acknowledgedTargets[i] >= 1
                             /\ i # latestIntentId}

TargetsOf(G) == {p \in Pairs : p[1] \in G /\ targets[p].state # "absent"}

\* The DEDUPE rows once G has been added.
Tombstones(G) == [i \in Intents |->
    IF i \in G THEN [completedAt |-> completedAt[i], expiresAt |-> now + DedupeRetention]
               ELSE tombstone[i]]

\* G leaves INTENTS with all its target rows and a tombstone each; X and O leave DEDUPE, X
\* because it expired, O because the store is over its limit.
CompactRows(G, X, O) ==
    LET without(f) == [i \in Intents |-> IF i \in G THEN 0 ELSE f[i]]
        kept       == ((dedupe \cup G) \ X) \ O
    IN /\ intents' = intents \ G
       /\ createdAt' = without(createdAt)
       /\ completedAt' = without(completedAt)
       /\ targetCount' = without(targetCount)
       /\ acknowledgedTargets' = without(acknowledgedTargets)
       /\ readbackVerified' = without(readbackVerified)
       /\ intentCount' = intentCount - Cardinality(G)
       /\ targets' = [p \in Pairs |-> IF p[1] \in G THEN NoTarget ELSE targets[p]]
       /\ targetStateCounts' = [s \in TargetStates |->
                                  targetStateCounts[s] - Cardinality(InState(s) \cap TargetsOf(G))]
       /\ dedupe' = kept
       /\ tombstone' = [i \in Intents |-> IF i \in kept THEN Tombstones(G)[i] ELSE NoTombstone]
       /\ dedupeCount' = dedupeCount + Cardinality(G) - Cardinality(X) - Cardinality(O)
       /\ UNCHANGED <<now, view, viewRecordCount, pendingIntentCount, latest>>

OldIntents    == {i \in intents : completedAt[i] <= now - AckRetention}
OldTombstones(G) == {i \in dedupe \cup G : Tombstones(G)[i].expiresAt <= now}

\* The scan of INTENTS, the scan of expired tombstones and the scan of the surplus are each
\* bounded.  completedAt is 0 for a pending intent, so pending rows are scanned too.
Compact ==
    \E C \in SUBSET OldIntents :
      LET G == Compactable(C) IN
      \E X \in SUBSET OldTombstones(G) :
        LET left    == (dedupe \cup G) \ X
            surplus == Cardinality(left) - MaxDedupeRecords
        IN \E O \in SUBSET left :
             /\ IsFirst(C, OldIntents, CompactionBatch, completedAt)
             /\ IsFirst(X, OldTombstones(G), CompactionBatch,
                        [i \in Intents |-> Tombstones(G)[i].expiresAt])
             /\ IF surplus > 0
                  THEN IsFirst(O, left, Smaller(surplus, CompactionBatch),
                               [i \in Intents |-> Tombstones(G)[i].completedAt])
                  ELSE O = {}
             /\ G \cup X \cup O # {}
             /\ CompactRows(G, X, O)

Tick ==
    /\ now < MaxTime
    /\ now' = now + 1
    /\ UNCHANGED <<intentRows, targets, dedupeRows, view, viewRecordCount, intentCount,
                   pendingIntentCount, dedupeCount, targetStateCounts, latest>>

-----------------------------------------------------------------------------
(* Any caller, any argument *)

JournalNext ==
    \/ \E i \in Intents, c \in 0..now : CommitIntent(i, c)
    \/ \E K \in SUBSET ViewKeys : CommitDiscoveredRows(K)
    \/ \E i \in Intents, r \in Relays, s \in InFlight, e \in {"absent", "pending-unknown"},
          t \in Tokens, l \in now..(now + Lease) : ClaimTarget(i, r, s, e, t, l)
    \/ \E i \in Intents, r \in Relays, t \in Tokens, l \in now..(now + Lease) :
          TransitionTarget(i, r, t, l)
    \/ \E i \in Intents, r \in Relays, t \in Tokens, s \in Acknowledged :
          CompleteTarget(i, r, t, s)
    \/ \E i \in Intents, r \in Relays, t \in Tokens, s \in RetryDue \cup {"terminal"},
          b \in BOOLEAN : FailTarget(i, r, t, s, b)
    \/ RecoverExpiredClaims
    \/ Compact
    \/ Tick

JournalSpec == JournalInit /\ [][JournalNext]_journalVars

-----------------------------------------------------------------------------
(* What the journal promises *)

Pending        == {i \in intents : acknowledgedTargets[i] = 0}
RelaysIn(i, S) == {r \in Relays : targets[<<i, r>>].state \in S}

\* Every counter of the META row equals the number of rows it counts, so no counter can
\* underflow (bumpTargetCount and completeTarget throw PEERIT_JOURNAL_CORRUPT when one does,
\* and the failure latches) and no limit is enforced against a drifted number.
CountersMatchRows ==
    /\ viewRecordCount = Cardinality(view)
    /\ intentCount = Cardinality(intents)
    /\ pendingIntentCount = Cardinality(Pending)
    /\ dedupeCount = Cardinality(dedupe)
    /\ \A s \in TargetStates : targetStateCounts[s] = Cardinality(InState(s))

\* The per-intent aggregates agree with the target rows, whatever order the acknowledgements,
\* failures and recoveries of several tabs were applied in.
AggregatesMatchRows ==
    \A i \in intents :
        /\ targetCount[i] = Cardinality(RelaysIn(i, TargetStates))
        /\ acknowledgedTargets[i] = Cardinality(RelaysIn(i, Acknowledged))
        /\ readbackVerified[i] = Cardinality(RelaysIn(i, {"readback-verified"}))
        /\ completedAt[i] # 0 <=> acknowledgedTargets[i] > 0

\* summary() throws PEERIT_JOURNAL_CORRUPT if the latest pointer dangles: compaction must
\* never take the row it points to, nor a later commit leave the pointer behind.
LatestIsStored ==
    /\ latestIntentId = NoIntent <=> intents = {}
    /\ latestIntentId # NoIntent => latestIntentId \in intents

\* An identity is live or tombstoned, never both (the tombstone would be counted twice), and
\* no target row outlives its intent.
StoresDisjoint ==
    /\ intents \cap dedupe = {}
    /\ \A p \in Pairs : targets[p].state # "absent" => p[1] \in intents

\* No limit of the journal is ever exceeded.
WithinLimits ==
    /\ Cardinality(intents) <= MaxIntents
    /\ Cardinality(view) <= MaxViewRecords
    /\ \A i \in Intents : Cardinality(RelaysIn(i, TargetStates)) <= MaxTargetsPerIntent
=============================================================================
