------------------------ MODULE PublicationDelivery ------------------------
(***************************************************************************)
(* Several tabs, each running PeeritSubstrateSync                          *)
(* (js/substrate/peerit-substrate-sync.js), drain the one journal they     *)
(* share (PeeritJournal) into relays through blind Cell adapters           *)
(* (js/substrate/blind-client-relay.js) that keep a capability vault of    *)
(* their own.                                                              *)
(*                                                                         *)
(* Every await of _deliverIntentToRelay is a point where other tabs run,   *)
(* the tab may be suspended for any length of time (so no step is bound to *)
(* happen before a lease ends) or be closed.  A PUT, once on the wire,     *)
(* outlives the attempt that sent it.                                      *)
(***************************************************************************)
EXTENDS PeeritJournal

CONSTANTS
    Tabs,
    Split,        \* relays whose adapter offers prepare and send apart
    Readback,     \* relays whose adapter proves a PUT with an authenticated GET
    MaxClaims     \* attempts of each tab, a bound of the checked instance

ASSUME DeliveryAssumption ==
    /\ Split \subseteq Relays /\ Readback \subseteq Relays
    /\ MaxClaims \in Nat
    /\ Tokens = Tabs \X (1..MaxClaims)

VARIABLES
    tab,          \* the delivery each tab is running
    attemptCounter,
    localFailure, \* tabs whose authoring and flushing a local error has latched off
    vault,        \* stage of the persisted Cell replica: 0 none, 1 prepared, 2 PUT, 3 GET
    puts,         \* PUT requests on the wire
    cells,        \* what the relays store
    unresolved    \* history: pairs a PUT went out for and no relay answer disowned

syncVars == <<tab, attemptCounter, localFailure>>
remote   == <<vault, puts, cells, unresolved>>
vars     == <<journalVars, syncVars, remote>>

Idle == [pc |-> "idle", pair |-> <<>>, expected |-> "absent", token |-> NoToken]

Delivery == [pc : {"planned", "preparing", "prepared", "sending", "awaiting", "reconciling",
                   "reading", "acked"},
             pair : Pairs, expected : {"absent", "pending-unknown"},
             token : Tokens \cup {NoToken}]

DeliveryTypeOK ==
    /\ JournalTypeOK
    /\ tab \in [Tabs -> {Idle} \cup Delivery]
    /\ attemptCounter \in [Tabs -> 0..MaxClaims]
    /\ localFailure \subseteq Tabs
    /\ vault \in [Pairs -> 0..3]
    /\ puts \subseteq Pairs \X Tokens
    /\ cells \subseteq Pairs
    /\ unresolved \subseteq Pairs

Init ==
    /\ JournalInit
    /\ tab = [t \in Tabs |-> Idle]
    /\ attemptCounter = [t \in Tabs |-> 0]
    /\ localFailure = {}
    /\ vault = [p \in Pairs |-> 0]
    /\ puts = {} /\ cells = {} /\ unresolved = {}

-----------------------------------------------------------------------------
(* Authoring *)

\* A publication is signed and journalled before anything else happens to it.
Append(t, i) ==
    /\ t \notin localFailure
    /\ CommitIntent(i, now)
    /\ UNCHANGED <<syncVars, remote>>

\* Any error of the commit, a reached limit included, latches the tab off.
AppendRefused(t, i) ==
    /\ t \notin localFailure
    /\ i \notin intents \cup dedupe
    /\ \/ intentCount >= MaxIntents
       \/ viewRecordCount + Cardinality(RecordKeys[i] \ view) > MaxViewRecords
    /\ localFailure' = localFailure \cup {t}
    /\ UNCHANGED <<journalVars, tab, attemptCounter, remote>>

-----------------------------------------------------------------------------
(* One delivery: the reads before the claim *)

Row(p) == targets[p]

\* The intents a flush visits: the pending page, those with a due retry, and the latest.
Visited(i) ==
    /\ i \in intents
    /\ \/ i \in Pending
       \/ i = latestIntentId
       \/ \E r \in Relays : Row(<<i, r>>).state \in RetryDue /\ Row(<<i, r>>).nextAttemptAt <= now

\* An intent already acknowledged elsewhere gets no new target unless it is the latest.
MayAddTarget(i) ==
    /\ i = latestIntentId \/ acknowledgedTargets[i] = 0
    /\ targetCount[i] < MaxTargetsPerIntent

Deliverable(i, r) ==
    LET previous == Row(<<i, r>>) IN
    \/ previous.state = "absent" /\ MayAddTarget(i)
    \/ previous.state \in RetryDue /\ previous.nextAttemptAt <= now

\* The tab reads the intent and decides how to claim its target; the claim comes later.
Plan(t, i, r) ==
    /\ t \notin localFailure
    /\ tab[t] = Idle
    /\ Visited(i)
    /\ Deliverable(i, r)
    /\ tab' = [tab EXCEPT ![t] =
                 [pc |-> "planned", pair |-> <<i, r>>, token |-> NoToken,
                  expected |-> IF Row(<<i, r>>).state = "pending-unknown"
                                 THEN "pending-unknown" ELSE "absent"]]
    /\ UNCHANGED <<journalVars, attemptCounter, localFailure, remote>>

-----------------------------------------------------------------------------
(* The claim and the steps of the attempt it opens *)

At(t, pc) == tab[t].pc = pc
In(t)     == tab[t].pair[1]
Re(t)     == tab[t].pair[2]
Goto(t, pc) == tab' = [tab EXCEPT ![t].pc = pc]
Finish(t)   == tab' = [tab EXCEPT ![t] = Idle]

Claim(t) ==
    /\ At(t, "planned")
    /\ attemptCounter[t] < MaxClaims /\ now < MaxTime      \* bounds of the instance
    /\ attemptCounter' = [attemptCounter EXCEPT ![t] = @ + 1]
    /\ LET i == In(t)  r == Re(t)  e == tab[t].expected
           proposed == <<t, attemptCounter[t] + 1>>
       IN IF Claimable(i, r, e)
            THEN /\ ClaimTarget(i, r, IF e = "absent" /\ r \in Split
                                        THEN "preparing" ELSE "delivering",
                                e, proposed, now + Lease)
                 /\ tab' = [tab EXCEPT
                              ![t].pc = IF e = "absent" THEN "preparing" ELSE "reconciling",
                              ![t].token = ClaimToken(i, r, e, proposed)]
            ELSE Finish(t) /\ UNCHANGED journalVars
    /\ UNCHANGED <<localFailure, remote>>

\* failTarget, whatever it finds.  Only a first send that turned out ambiguous may be
\* reconciled at once.
Fail(t, state) ==
    /\ IF Holds(In(t), Re(t), tab[t].token, FailableStates)
         THEN FailTarget(In(t), Re(t), tab[t].token, state,
                         state = "pending-unknown" /\ tab[t].expected = "absent")
         ELSE UNCHANGED journalVars
    /\ Finish(t)
    /\ UNCHANGED <<attemptCounter, localFailure>>

\* The adapter persists the exact replica before any transport, or finds one persisted.
Prepare(t) ==
    /\ At(t, "preparing")
    /\ In(t) \in intents
    /\ vault' = [vault EXCEPT ![tab[t].pair] = IF @ = 0 THEN 1 ELSE @]
    /\ Goto(t, IF Re(t) \in Split THEN "prepared" ELSE "sending")
    /\ UNCHANGED <<journalVars, attemptCounter, localFailure, puts, cells, unresolved>>

\* Nothing was sent: the failure is retryable unless the adapter calls it terminal.
PrepareFails(t) ==
    /\ At(t, "preparing")
    /\ \E s \in {"retryable", "terminal"} : Fail(t, s)
    /\ UNCHANGED remote

\* The deadline of a one-call adapter expires before its transport was reached: the tab
\* cannot tell and calls the attempt ambiguous.
PrepareTimesOut(t) ==
    /\ At(t, "preparing")
    /\ Fail(t, IF Re(t) \in Split THEN "retryable" ELSE "pending-unknown")
    /\ UNCHANGED remote

\* The row says delivering before the first byte leaves; a lost claim ends the attempt.
Advance(t) ==
    /\ At(t, "prepared")
    /\ IF Holds(In(t), Re(t), tab[t].token, {"preparing"})
         THEN /\ TransitionTarget(In(t), Re(t), tab[t].token, now + Lease)
              /\ Goto(t, "sending")
         ELSE Finish(t) /\ UNCHANGED journalVars
    /\ UNCHANGED <<attemptCounter, localFailure, remote>>

\* send consults the vault first: a proved replica is the answer, a PUT receipt leads to a
\* GET, and only a prepared replica is put on the wire.
\* Mutant: any persisted replica counts as a receipt.
EvidenceOfPreparation(p) == vault[p] >= 1

HasEvidence(p) == vault[p] = 3 \/ (vault[p] = 2 /\ p[2] \notin Readback)

Send(t) ==
    LET p == tab[t].pair IN
    /\ At(t, "sending")
    /\ \/ HasEvidence(p) /\ Goto(t, "acked") /\ UNCHANGED <<puts, unresolved>>
       \/ ~HasEvidence(p) /\ vault[p] = 2 /\ Goto(t, "reading") /\ UNCHANGED <<puts, unresolved>>
       \/ /\ vault[p] = 1
          /\ puts' = puts \cup {<<p, tab[t].token>>}
          /\ unresolved' = unresolved \cup {p}
          /\ Goto(t, "awaiting")
    /\ UNCHANGED <<journalVars, attemptCounter, localFailure, vault, cells>>

\* An expired qualification or an unreadable vault stops send before the transport.
NotSent(t) ==
    /\ At(t, "sending")
    /\ \E s \in {"retryable", "terminal"} : Fail(t, s)
    /\ UNCHANGED remote

\* A PUT answered with success: the verified receipt is persisted, then read back.
PutOk(t) ==
    LET p == tab[t].pair IN
    /\ At(t, "awaiting")
    /\ p \in cells
    /\ vault' = [vault EXCEPT ![p] = IF @ < 2 THEN 2 ELSE @]
    /\ Goto(t, IF p[2] \in Readback THEN "reading" ELSE "acked")
    /\ UNCHANGED <<journalVars, attemptCounter, localFailure, puts, cells, unresolved>>

\* A PUT answered with a canonical refusal was not processed, retryable or not.
PutRefused(t) ==
    LET p == tab[t].pair IN
    /\ At(t, "awaiting")
    /\ <<p, tab[t].token>> \in puts
    /\ puts' = puts \ {<<p, tab[t].token>>}
    /\ unresolved' = unresolved \ {p}
    /\ \E s \in {"retryable", "terminal"} : Fail(t, s)
    /\ UNCHANGED <<vault, cells>>

\* The authenticated GET, after a PUT or as the only network step of a reconciliation.
Reading(t) == \/ At(t, "reading")
              \/ At(t, "reconciling") /\ Re(t) \in Readback /\ vault[tab[t].pair] \in {1, 2}

GetFound(t) ==
    LET p == tab[t].pair IN
    /\ Reading(t)
    /\ p \in cells
    /\ vault' = [vault EXCEPT ![p] = 3]
    /\ Goto(t, "acked")
    /\ UNCHANGED <<journalVars, attemptCounter, localFailure, puts, cells, unresolved>>

\* A GET or a reconciliation ends terminal: the relay has no such Cell or refuses for good, its
\* answer does not authenticate, its identity drifted, or the persisted replica belongs to
\* another endpoint.  Only the first says anything of the Cell, and the tab records them alike.
ReadTerminal(t) ==
    /\ tab[t].pc \in {"reading", "reconciling"}
    /\ Fail(t, "terminal")
    /\ UNCHANGED remote

\* A reconciliation that finds the evidence already in the vault needs no network.
ReconcileFromVault(t) ==
    /\ At(t, "reconciling")
    /\ HasEvidence(tab[t].pair)
    /\ Goto(t, "acked")
    /\ UNCHANGED <<journalVars, attemptCounter, localFailure, remote>>

\* Deadline, lost response or aborted transport: the outcome is unknown.  A verification
\* already under way may still persist what the relay answered.
TimesOut(t) ==
    LET p == tab[t].pair IN
    /\ tab[t].pc \in {"sending", "awaiting", "reading", "reconciling"}
    /\ Fail(t, "pending-unknown")
    /\ \/ UNCHANGED vault
       \/ /\ At(t, "awaiting") /\ p \in cells /\ vault[p] = 1
          /\ vault' = [vault EXCEPT ![p] = 2]
    /\ UNCHANGED <<puts, cells, unresolved>>

\* completeTarget, whatever it finds.
Complete(t) ==
    /\ At(t, "acked")
    /\ IF Holds(In(t), Re(t), tab[t].token, {"delivering", "pending-unknown"})
         THEN CompleteTarget(In(t), Re(t), tab[t].token,
                             IF vault[tab[t].pair] = 3 THEN "readback-verified"
                                                       ELSE "acknowledged")
         ELSE UNCHANGED journalVars
    /\ Finish(t)
    /\ UNCHANGED <<attemptCounter, localFailure, remote>>

-----------------------------------------------------------------------------
(* The wire and the relays *)

RelayStores(x) ==
    /\ x \in puts
    /\ cells' = cells \cup {x[1]}
    /\ puts' = puts \ {x}
    /\ UNCHANGED <<journalVars, syncVars, vault, unresolved>>

PutLost(x) ==
    /\ x \in puts
    /\ puts' = puts \ {x}
    /\ UNCHANGED <<journalVars, syncVars, vault, cells, unresolved>>

-----------------------------------------------------------------------------
(* Maintenance and the life of a tab *)

\* flush, and ready on a new page, recover first.
Recover(t) ==
    /\ t \notin localFailure
    /\ RecoverExpiredClaims
    /\ UNCHANGED <<syncVars, remote>>

\* Retention outlasts every attempt: acknowledgedRetentionMs plus dedupeRetentionMs is more
\* than a year, so no tombstone is pruned under a suspended attempt or a PUT still on the
\* wire.  An intent authored again after that begins a new life.
Busy(i) == \/ \E t \in Tabs : tab[t] # Idle /\ In(t) = i
           \/ \E x \in puts : x[1][1] = i

CompactJournal(t) ==
    /\ t \notin localFailure
    /\ Compact
    /\ LET known == intents' \cup dedupe'
       IN /\ \A i \in (intents \cup dedupe) \ known : ~Busy(i)
          /\ unresolved' = {p \in unresolved : p[1] \in known}
    /\ UNCHANGED <<syncVars, vault, puts, cells>>

\* The page is closed or reloaded: its memory is lost, what it put on the wire is not.
Reload(t) ==
    /\ tab[t] # Idle \/ t \in localFailure
    /\ Finish(t)
    /\ localFailure' = localFailure \ {t}
    /\ UNCHANGED <<journalVars, attemptCounter, remote>>

Time == Tick /\ UNCHANGED <<syncVars, remote>>

Attempt(t) ==
    \/ Claim(t)
    \/ Prepare(t) \/ PrepareFails(t) \/ PrepareTimesOut(t)
    \/ Advance(t)
    \/ Send(t) \/ NotSent(t)
    \/ PutOk(t) \/ PutRefused(t)
    \/ GetFound(t) \/ ReadTerminal(t) \/ ReconcileFromVault(t)
    \/ TimesOut(t)
    \/ Complete(t)

Next ==
    \/ \E t \in Tabs, i \in Intents : Append(t, i) \/ AppendRefused(t, i)
    \/ \E t \in Tabs, i \in Intents, r \in Relays : Plan(t, i, r)
    \/ \E t \in Tabs : Attempt(t)
    \/ \E x \in puts : RelayStores(x) \/ PutLost(x)
    \/ \E t \in Tabs : Recover(t) \/ CompactJournal(t) \/ Reload(t)
    \/ Time

Spec == Init /\ [][Next]_vars

-----------------------------------------------------------------------------
(* Properties *)

\* Only a pair nobody has an unresolved PUT for goes on the wire: "an ambiguous send cannot
\* be retransmitted until exact same-target reconciliation", across tabs, suspended tabs,
\* expired leases, reloads and late answers.
NoAmbiguousResend ==
    [][\A p \in Pairs : p \in unresolved => \A x \in puts' \ puts : x[1] # p]_vars

\* An acknowledgement is evidence: a row that says the relay acknowledged, a persisted
\* receipt and a tombstone all imply that some relay really stores the publication.
AcknowledgementIsEvidence ==
    /\ \A p \in Pairs : targets[p].state \in Acknowledged => p \in cells
    /\ \A p \in Pairs : vault[p] >= 2 => p \in cells
    /\ \A i \in dedupe : \E r \in Relays : <<i, r>> \in cells

\* While a PUT may have happened, the journal says so: its row is neither missing nor in a
\* state from which a fresh send can be claimed, the exact replica is in the vault, and the
\* intent is live or tombstoned.
UnresolvedIsJournalled ==
    \A p \in unresolved :
        /\ p[1] \in intents \cup dedupe
        /\ vault[p] >= 1
        /\ p[1] \in intents =>
             targets[p].state \in {"delivering", "pending-unknown", "terminal"} \cup Acknowledged

\* Acknowledged and terminal rows are final: a late failure, a recovery or a second tab's
\* claim never takes them back.  Only the compaction of the whole intent removes them.
ResolvedIsFinal ==
    [][\A p \in Pairs : targets[p].state \in Acknowledged \cup {"terminal"} =>
         targets'[p].state \in {targets[p].state, "absent"}]_vars

\* The outbox the author is promised: queued until some relay holds it, known until then.
Outbox == INSTANCE PublicationOutbox
            WITH queued  <- Pending,
                 settled <- (intents \ Pending) \cup dedupe,
                 held    <- cells

\* The journal, the tabs and the relays together implement that outbox.
ImplementsOutbox == Outbox!Spec

\* What the documentation promises of compaction: "compaction retains every unresolved state".
CompactionRetainsUnresolved ==
    [][\A p \in Pairs : targets[p].state \in InFlight \cup RetryDue =>
         targets'[p].state # "absent"]_vars
=============================================================================
