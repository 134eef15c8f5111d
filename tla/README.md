# Peerit: TLA+ models and proofs

Peerit is a serverless forum that runs in the browser. What a user writes is signed, written to
an IndexedDB journal every open tab of the site shares, and only then delivered, by whichever
tab gets to it, to relays that store opaque cells. This directory models that machinery, checks
it with TLC on small instances and proves with TLAPS, for all of them, every safety property
that TLC found to hold.

Contents: [system](#the-system), [modules](#modules), [runs](#runs-and-their-bounds),
[proofs](#proofs), [disagreements](#disagreements-between-code-and-text),
[plan](#plan), [left out](#not-modelled).

## The system

| Component (under `src/js/`) | State it keeps | Operations | What makes it correct |
|---|---|---|---|
| Publication journal, `substrate/peerit-journal.js` | META row (counters, latest pointer), INTENTS, TARGETS, DEDUPE, VIEW stores | commit, discovered batch, claim / transition / complete / fail a target, recover, compact, readback revalidation, Seq29 reservation, import | counters equal rows; aggregates equal rows; a publication is live or tombstoned, never both; limits hold |
| Journal backend, `substrate/peerit-journal-backend.js` | IndexedDB database or memory state, a queue of transactions | serialised all-or-nothing transactions | a failed transaction leaves no trace |
| Publication queue, `substrate/peerit-substrate-sync.js` | per tab: current flush, timers, relays, latched failure | append, flush, deliver, revalidate, reload from another tab's revision | an ambiguous PUT is never repeated; an acknowledgement is evidence |
| Blind Cell adapter, `substrate/blind-client-relay.js` | nothing durable of its own | prepare, send, readback, reconcile, revalidate | send only what is persisted; report `definitelyNotProcessed` only when it is |
| Capability vault, `substrate/capability-vault.js` | persisted replicas and their stage | prepare, record PUT, record GET | stages only advance |
| Relay consumer, `substrate/relay-consumer.js` | qualification of a relay, its deadline | qualify, assert fresh | an expired authority sends nothing |
| Requalification scheduler, `substrate/relay-requalification-scheduler.js` | running flag, generation, timer, in-flight run | start, stop, refresh, revoke at deadline | a stale completion publishes nothing |
| Seq29 inbox, `substrate/seq29-public-inbox-sync.mjs`, `public-inbox-boot-coordinator.mjs`, `inbox-*.mjs` | reservation and author head in the journal | reserve, claim, reconcile, publish | the author's chain has no fork; no APPEND is repeated blindly |
| Discovery, the same and `substrate/cold-reader.mjs` | bootstrap and append floors, seed floor, view | accept a bootstrap, poll, read a seed, ingest | floors never go back; what they passed is shown, but for the exceptions below |
| Pin history, `substrate/pin-history-*.mjs` | an encrypted witness of the release history, shared by the pages of a browser | read, initialize, rehydrate, append | the witnessed terminal only continues; an old or forked history is refused |
| Descriptor trust, `substrate/descriptor-trust-backend.js` | one record per relay | read, compare and swap | a lost swap changes nothing |
| PoW issuance and spend, `substrate/pow-issuance-spend-provider.mjs` | per page: the open record session with its slots and its mint | begin, spend, mint, close | a token commits to exactly the requests it admits; nothing but the issuer can hold the session for ever |
| Identity store, `identity-store.js` | device record (IndexedDB), vault (localStorage), forget tombstone | activate, ensure, replace, forget | a forgotten identity never comes back |
| Legacy gossip, `gossip.js`, `relay-pool.js` | outbox, pool health, local log | commit to a write quorum, replay, read | a commit is reported only with its quorum |
| Validators and codecs, `substrate/release-control-*.mjs`, `profile-*.mjs`, `peerit-recovery-bundle-v1.mjs` | none | decode, verify | reject everything non-canonical |
| Application, `app.js`, `data.js`, views | DOM, derived indexes | render, route | shows only verified records |

How they interact. A tab's queue (`PeeritSubstrateSync`) calls the journal; each call is one
serialised transaction of the backend, so tabs interleave at every `await` and nowhere else.
The queue calls one adapter per relay; the adapter reads and writes the capability vault and the
network. Tabs tell each other of a new journal revision over a `BroadcastChannel`. Adapters are
replaced when the scheduler requalifies a relay. A page can be closed, reloaded or suspended at
any `await`, a PUT on the wire survives its tab, and a suspended tab can wake long after its
lease has expired and been recovered by another.

The hard behaviours are therefore: a plan made from rows read in earlier transactions; leases
that expire under a live holder; answers that arrive after a deadline; crashes between the
vault's record and the journal's; counters and aggregates moved by many operations; history
that is compacted while intents still point to it. `PROJECT.json` lists them, each at its line,
with the property that guards it.

## Modules

| Module | Models | Kind |
|---|---|---|
| `PeeritJournal` | the journal: every row, counter and limit that the operations read | component |
| `PublicationDelivery` | tabs, adapters, vault, wire and relays, over `PeeritJournal` | composition |
| `PublicationOutbox` | what publishing promises an author | abstract specification |
| `AuthorLedger` | what explicit publication promises an author | abstract specification |
| `ReadbackRevalidation` | how tabs keep the proof that a relay still has a publication fresh | component |
| `RequalificationScheduler` | the scheduler that installs, renews and revokes relay adapters | component |
| `Seq29Publication` | explicit publication to the two relays of the public inbox | component |
| `DiscoveredView` | how records authored elsewhere enter the view: polls, seeds, local writes over one journal | component |
| `PinHistory` | booting pages over the witness of the release history | component |
| `PowSpend` | proof-of-work admission of the writes of a page | component |
| `PeeritJournalProofs`, `PublicationDeliveryProofs`, `ReadbackRevalidationProofs`, `RequalificationSchedulerProofs`, `Seq29PublicationProofs`, `DiscoveredViewProofs`, `PinHistoryProofs`, `PowSpendProofs` | theorems about the module each is named for | proofs |
| `MC...` | definitions for the `.cfg` files, one module per component | model checking |

Definitions marked "Mutant" in the modules are plausible bugs of the definition that follows
them. No specification uses them; `PROJECT.json` says which property each must break.

### PeeritJournal

One action per operation: `CommitIntent` (`commitIntent`), `CommitDiscoveredRows` (the rows of
`commitDiscoveredBatch` that win), `ClaimTarget`, `TransitionTarget`, `CompleteTarget`,
`FailTarget`, `RecoverExpiredClaims`, `Compact`, and `Tick` for the wall clock. A call that
returns null or false, or throws a limit, writes nothing and is no step. The caller is not
constrained: any operation may come at any time with any argument.

The META row is the variables `viewRecordCount`, `intentCount`, `pendingIntentCount`,
`dedupeCount`, `targetStateCounts`, `latestIntentId`, `latestCreatedAt`; an INTENTS row is a
member of `intents` with its fields in `createdAt`, `completedAt`, `targetCount`,
`acknowledgedTargets`, `readbackVerified`; a TARGETS row is `targets[<<i, r>>]`, whose state is
"absent" when there is none; a DEDUPE row is a member of `dedupe` with its `tombstone`.
An index scan with a limit is `IsFirst`: the rows lowest in the index, ties broken
arbitrarily. Payload bytes, hashes and the two byte budgets are left out (an intent's identity
*is* its content); so is META.revision, which every write increments.

### PublicationDelivery

`tab[t]` is the delivery tab `t` is running: `planned` (read, not yet claimed), `preparing`,
`prepared`, `sending`, `awaiting` (PUT on the wire), `reading` (GET after PUT), `reconciling`,
`acked` (adapter answered success, `completeTarget` not yet run). Every step between two awaits
is an action; any tab may pause before any of them for any time, be reloaded (`Reload`), or have
its lease recovered by another (`Recover`). `vault[p]` is the stage of the persisted replica,
`puts` the PUTs on the wire, `cells` what the relays store, and `unresolved` a history variable:
the pairs a PUT went out for that no relay answer has disowned.

Relays in `Split` have adapters with separate `prepare` and `send`; relays in `Readback` prove a
PUT with an authenticated GET. The cryptography is an oracle: an answer the adapter accepts
implies that the relay stored the replica.

### PublicationOutbox

Author, Hold, Settle, Forget over `queued`, `settled`, `held`. `PublicationDelivery` implements
it with `queued <- Pending`, `settled <- acknowledged or tombstoned`, `held <- cells`.

### AuthorLedger

Reserve, Hold, Confirm over `next`, `ledger` (places and records), `held`, `confirmed`.
`Seq29Publication` implements it with `next <- head.next`, `ledger <-` the reserved rows with their
sequences, `held <- frames`, `confirmed <-` the relays recorded as succeeded.

### ReadbackRevalidation

One delivered target and the tabs that revalidate it. `row` is the readback part of the target
row, `vaultRevision` the newest proof in the capability vault, `attempt[t]` the revalidation tab
`t` is in: `getting`, `seen` (the relay answered), `recording` / `failing` (before the journal),
`recorded` / `failed` (the journal returned, the tab's own flags not yet set). `SetRelays`
replaces the adapter at any of these points, `TimesOut` abandons a GET whose proof may still
reach the vault. What the relay answers is arbitrary.

### RequalificationScheduler

The variables are those of the closure in `createPeeritRelayRequalificationScheduler`; the two
timers are the times they are due, `runs` the qualifications that have not settled, aborted ones
included. An action is one callback: `Start`, `Stop`, `Refresh`, the two timers, the settling of
a qualification with what `publish` may do inside it (return, throw, or stop the scheduler).

### Seq29Publication

`pass[t]` is the publication pass tab `t` is in: `waiting` for the writer session, `putting`
(head read, cells not yet authorised, so everything up to the reservation), `visiting` (between
relays), `sending`, `awaiting`, `reading`, `marking`, `completing`, `failing`. `head` and `row`
are what `commitSeq29PublicationIntent` writes in one transaction; each relay of a row has its
stage, token and lease. `marker` is the `localStorage` key of the product UI, `pending[t]` its
copy in memory, read at mount only. `lock` is the Web Lock of the writer session; where the
browser has none it is `NoLocks`, and passes of several tabs overlap. `unread` is a history
variable: the APPENDs sent since an authenticated READ last reported the frame absent.

Attempt tokens are random in the code; a tab runs one attempt at a time and writes only after a
claim of its own, so its name does for the token. The bootstrap floor is constant here.

### DiscoveredView

A record is a `Version` with the fields the merge reads: key, owner, the timestamp
`discoveredRecordTimestamp` finds in the clear, and the signature that breaks ties. `EditOf` is
when its author made it, which the code cannot see. `view` and `viewCount` are the VIEW store and
its counter; `floor` and `relay` are the accepted bootstrap and the append state of its relays;
`seeds` is the history of the seed floor, whose last element the journal stores. A tab's `poll`
keeps the floors it read and what each relay answered: three awaits (`StartPoll`, `ReadRelay` per
relay, `CommitPoll`), between which the other tab may commit, accept a newer bootstrap or be
reloaded. `Draft` and `CommitDraft` are the two ends of authoring, seconds of proof of work apart.

An INBOX only grows, so it is a constant sequence and a READ shows a prefix of it: a relay
that lags and one that has not received a frame yet look alike. `CommitPoll` is the whole
transaction of `commitSeq29PublicInboxPoll`; a poll that changes nothing or is refused is
`PollEnds`. Two history variables name what the code loses. `lost` holds the versions a floor has
passed without their being merged: the announcement was ahead of the reader's lease epoch
(`Rejected`), or another owner was first in the batch or has the row (`KeptOut`), and no later
poll or seed brought them in. `overwritten` holds the keys at which `CommitDraft` wrote a record of
this device over a row that it does not win over.

### PinHistory

A pin names its predecessor by hash, so it determines the history that ends with it: `Before` is
that order, a tree rooted in the compiled genesis pin, and a verified history is its last pin.
`record` is the encrypted witness (casVersion, random generation, terminal, number of segments),
`observed[p]` what the backend of page `p` saw last, which every load is compared with. `pc[p]`
goes through `persistAndRehydrateTerminal`: read, install and insert when there is none,
rehydrate, append (load and checks), swap (the transaction). Encryption and verification are
oracles. `Lose` evicts the witness or restores the one of `backup`; `accepted` is a history
variable, emptied by a loss.

### PowSpend

`open` is `openRecord`; per session there are the ordered commitments (`slot`), the pending
entries (`entry`), the state of the mint and, as history, the commitments its token was `bound`
to. A request is `preparing` until it asks for its admission, `waiting` while its slot has no
token, then `admitted` and `prepared`, or `rejected`. The provider belongs to the page, so `Arrive`
meets whatever session is open, and the mint of a closed session runs on. A token is named after
the session that minted it.

## Runs and their bounds

| Run | Instance | What it shows |
|---|---|---|
| `journal` | 3 intents of which 2 fit, 2 relays, 1 token, clock to 2, 1 tombstone kept | claims, answers, failures, recovery, compaction, pruning and re-authoring in any order: counters, aggregates, latest pointer, disjoint stores, limits |
| `delivery_race` | 2 tabs with 3 attempts each, 2 intents of which 1 fits, 1 relay, lease 1, clock to 4, symmetric tabs | the races of two tabs over one ambiguous PUT |
| `delivery_compaction` | 1 tab, 2 intents, 2 relays (one split with readback, one not), tombstones of 1 tick | the outbox refinement over compaction and re-authoring |
| `delivery_retention` | the same | *violation*: compaction removes a row that is not resolved |
| `scheduler` | 2 adapters, lead 2, retry 1 to 4, leases to 4, clock to 7, 4 generations | authority and installation agree; nothing is stranded; ended authority is revoked; a due or requested refresh runs |
| `readback` | 2 tabs, 2 installations per tab, 1 failure after the recorded ones, 20 revisions, clock to 1 | evidence only advances; tabs that overtake one another both come to rest |
| `seq29` | 2 tabs with 2 passes each, 2 intents, 1 relay, lease 1, clock to 2, with and without Web Locks | author chain, evidence, no blind repetition, the refinement of `AuthorLedger` |
| `seq29_marker` | 1 tab, 1 intent, 2 relays | *violation*: the retry marker is dropped with a relay unfinished |
| `discovery` | 2 symmetric tabs, 2 relays of 1 and 2 frames, 2 bootstraps, 2 seeds, 2 keys, 1 local record, a view of 1 row, 2 lease epochs | floors advance; what they passed stays shown, or is lost in one of three named ways; exact counter; one chain of seeds |
| `discovery_edits` | the same with the timestamps of communities | *violation*: an edit is passed over for an older version |
| `pin_history` | 2 symmetric pages, 5 pins (a fork after the second), 2 segments, 4 records written, 1 loss | the witness only continues; old and forked histories are refused |
| `pow_spend` | 2 writes to two relays, 1 append, 3 challenges per mint | presentations bind; only an unanswered request to the issuer holds the session for ever |

Bounds are named constants. `MaxTime`, `MaxClaims`, `MaxPasses`, `MaxInstalls`, `MaxFailures`,
`MaxGeneration` and `MaxRevision` bound the instance, not the code; the clock needs one tick per
lease that expires plus one per retry, so a clock to 4 lets a lease expire under a live holder,
the other tab reconcile, and the first tab wake up. In `journal` one token is enough
because callers are arbitrary: a stale holder is a caller with the same token and a current one
too, so equal tokens are the worse case. `MaxRevision` is never reached in `readback` (a larger
bound gives the same states): a liveness property cannot hold only because the model ran out of
revisions, nor fail for it. The rows of the two relays of a Seq29 publication never look at each
other, so `seq29` has one relay and twice the intents; the order of the relays matters to the
marker, whose run has two.

In `discovery` the newer version of the post stands at the relay whose records come first, and the
older one at the other, so the reduction of a batch is met in the order in which a plain "last one
wins" would lose; the one row of the view is contended by a poll, a seed and a draft. Frames ahead of the reader's
clock, records kept out by the row and local records written over a newer row all occur; a rival that
is first in the same batch needs a third frame, which multiplies the states beyond what a run can do,
and is covered by the theorem alone. `pin_history` needs four
records: a witness that two pages made, lost and made again reaches the casVersion a page still
holds. `MaxSeals` and `MaxLosses` bound the instance, `MaxSegments` stands for 512. In `pow_spend`
the third write meets what the first two leave behind: a late request and a mint that outlived its session.

`CHECK_DEADLOCK FALSE` everywhere but in `pin_history`: the bounded clock, attempts and passes
stop the instance, and a browser that nobody uses may stop too.

### Fairness

Only three modules assume any. `RequalificationScheduler!FairSpec`: an expiry timer that is due
is called, and a qualification settles, since every fetch in it has a deadline. Nothing is assumed of
the clock or the owner. That a refresh timer that is due is called is the hypothesis of
`RequestIsServed` alone: `ExpiredIsRevoked` must hold without it, or a lost expiry timer would be healed
by the next refresh. `ReadbackRevalidation!FairSpec`: a tab with
something due is flushed (`_scheduleNextAttempt` arms a timer for the earliest wake), and every
await of an attempt ends, at the latest by `withDeadline`. `PowSpend!Spec`: what the page itself does
goes on, that is a started nonce search ends, a request reaches the provider, an admission is used and a
write whose outcome is decided closes its session. Nothing is assumed of the issuer, whose requests
have neither a timeout nor, in production, a signal; `OnlyIssuerHoldsSession` names that case. Publication itself has no liveness
property: relays owe nothing, and Seq29 work is retried by its user only.

## Proofs

Eight modules hold the proofs, one per component. They prove every invariant and every action
property of the passing runs and both refinements, for every value of the constants that the named
assumptions admit; what is left to TLC alone is at the end of this section.

### The journal

`PeeritJournalProofs` proves `JournalTypeOK`, `CountersMatchRows`, `StoresDisjoint` and
`LatestIsStored` of `JournalSpec`. The inductive invariant `JournalInv` is their conjunction with
three facts without which it is not inductive: the latest timestamp is 0 while there is no latest
intent (or an intent committed first could look older than nothing), a target row has been
claimed at least once, and an intent that is not stored has no acknowledgements (or one committed
again would inherit them). There is one preservation lemma per operation; `BumpIsExact` and the
two cardinality lemmas carry the counting.

A second induction on top of the first gives `AggregatesAreExact` (each stored intent's counts of
targets, acknowledgements and readbacks are those of its rows, and it is complete exactly when a
row is acknowledged) and `LimitsHold` (the configured limits on intents, view rows and targets per
intent are never exceeded). `StoreInv` is `JournalInv` and `LimitInv`.

### Delivery

`PublicationDeliveryProofs` is about any number of tabs, intents, relays, attempts and any lease.
It starts with `DeliveryUsesTheJournal`: whatever the tabs do, the journal takes steps of its own
specification, because every action of `PublicationDelivery` calls one operation of `PeeritJournal`
with arguments that operation admits, or leaves the journal alone. So all that is proved of the journal holds
under delivery (`JournalStaysSound`), and the rest of the module builds on `StoreInv`.

The inductive invariant `DeliveryInv` is `StoreInv`, the types, `AcknowledgementIsEvidence`,
`UnresolvedIsJournalled`, and four facts about what is under way:

- `TokensIssued`: rows and attempts carry only tokens that have been issued, and a tab that may still
  send has the last of its own. So a new claim's token is new, and a late answer never passes for the
  present holder's.
- `PublicationsKnown`: an intent that a tab works on or that a PUT on the wire carries is in the
  journal, live or as a tombstone. It holds because pruning spares the intents that are
  under way (`Busy`, an abstraction of retention being far longer than any attempt).
- `AckedIsEvidence`: a tab whose adapter answered success and which has not recorded it yet has its
  Cell at the relay.
- `ClaimsHeld`: a tab whose PUT is about to go out or has gone (`Committed`) finds its own token in the row, at a
  state no fresh send can be claimed from, as long as the intent is live; before it sends, its pair is not unresolved;
  and no two tabs are there for one pair. With a two-call adapter the row says `preparing` until
  the second call, and such a claim (`Tentative`) may be lost to another tab, but never to one that
  reconciles under the same token.

`NoPublicationIsResent` follows from `ClaimsHeld`: who is about to send has a pair that is not
unresolved. That this is preserved rests on `UnresolvedIsJournalled`, for a fresh claim takes a state that no
unresolved pair has. `ResolvedRowsAreFinal` is a property of steps:
claims, failures and recoveries exclude acknowledged and terminal rows, and compaction deletes.

The actions of an attempt are first reduced to seven effects (`ClaimsFresh`, `ClaimsAgain`,
`Advances`, `Completes`, `Fails`, `Drops`, `Walks`) and all other steps to five (`Plans`, `Records`,
`Recovers`, `Compacts`, `Elsewhere`); each part of the invariant is preserved by one lemma per
effect (`AttemptMoves` and `StepKinds` say that there are no others).

`DeliveryImplementsOutbox` is the refinement of `PublicationOutbox` along the same effects: a completion settles its
intent (`AckedIsEvidence` is the guard of `Settle`), a commit authors one (`StoresDisjoint`: one
with a tombstone is not committed), compaction forgets, a PUT that arrives is `Hold`
(`PublicationsKnown` is its guard), and the rest stutters. `OutboxPromiseKept` draws the
consequence for the author.

### Readback

`ReadbackRevalidationProofs` proves the types, `EvidenceAdvances` and `StaleFailureIsHarmless` for
any tabs, installations and revisions. `RevalidationInv` adds that every revision a row or an
attempt names is one the vault has issued, that an attempt remembers a revision the row has had
(`EvidenceKnown`), and that a success recorded during an attempt moved the row past what that attempt
observed (`OvertakenIsOld`): a failure that comes late is recognised by its revision alone.

### The scheduler

`RequalificationSchedulerProofs` proves the five safety properties of the run `scheduler` for any
adapters, delays, leases and generations. `SchedulerInv` is the types and `InstalledIsLeased`, with
one more fact, that a scheduler that runs has begun a generation. `CompletionsHoldAuthority` and
`NoBusyLoop` follow step by step: a discarded completion of the last generation changes nothing
because whoever does not run has nothing installed. `NeverStranded` needs `StrandedInv`: a run that
is waited for has not settled, it is the one of this generation while the scheduler runs, and
none is left by `stop`. It holds for an owner that does not start again after a fatal
state, which is an assumption of the theorem (`~OwnerRestarts`).

### Seq29 publication

`Seq29PublicationProofs` is about any number of tabs, intents and relays, whether or not the
browser has Web Locks:

- `PublicationTypeCorrect` by `TypeInv`, which adds to the types where a pass may be: one at a
  relay has a row and a place in the order of the relays (`PassesAtRow`), or its writes would
  not be defined.
- `ChainCorrect` by `Chain`: only a reservation touches the head, and the head it checks is the
  one it appends to. An empty chain must also name no previous record.
- `SuccessCorrect` and `SuccessStays` by `Evidence`: whoever is about to complete a relay has
  seen its frame there, and a relay that has succeeded is held by nobody. The second part makes
  a late write impossible, for each of them needs either the claim's guard or the token.
- `PublicationImplementsLedger` by `LedgerInv`: `Chain`, `Evidence`, and that whatever is on the wire
  or at a relay is reserved. A reservation is `Reserve`, the arrival of an APPEND is `Hold`, the
  completion of a relay is `Confirm`, everything else a stutter. `PublicationKeepsPromise` says what
  the ledger is for: by the pigeonhole principle, two reservations never share a place.

`WhoWrites`, `WhoSees` and `WhoSends` say once which steps write rows, grow the chain, reach the point
of completing or touch the network; the invariants are proved from them.

Two properties take the lock. `Session` says that the one
pass inside holds the lock and that the intent it is putting is still unreserved, which gives
`NoTabIsMisled`. `Unsent` adds that what may go out unseen has not gone out: a relay still
`prepared`, and the pair of a pass that is marking or about to send, have no APPEND since their
last READ. `ResendsAreSeen` follows, and its proof never looks at a lease: with the lock the
leases are not what prevents a second APPEND.

### Discovery, pins, proof of work

`DiscoveredViewProofs` proves the five properties of the run `discovery` for any number of
tabs, relays, keys, versions and seeds. `PassedIsShown` is not inductive: a poll in flight carries
floors read long ago, and its transaction is right only because those floors are compared with the
stored ones. `ViewInv` is the types, `CountExact`, `SeedChain`, `PassedIsShown`, that a row shows a version
of its own key (`RowsKeyed`), and two facts about what is under way: `FloorsSound` (stored floors and those a poll started from lie within the INBOX, and an
answer covers the frames above its floor, each a record or a rejection) and `ReadersSound` (a seed
being fetched follows the one it names). The heart is a lemma about the merge: `Candidate` is at least as new as every
version of its owner in the batch (`MergeShows`), `Newer` is transitive, and so a row goes on showing
what it has shown (`PassKeepsShown`), except where a record of this device is written over it. A
version of the batch that the row does not show has a rival (`KeptOutHasRival`): besides
announcements ahead of the clock, only names with two owners can lose a record.

`PinHistoryProofs` proves the three properties of `pin_history` for every tree of histories and
any number of pages, evictions and restored profiles. `PinInv` adds that a generation names one record
(`GenerationsNameRecords`: wherever a record is held, by the store, a backup or a page, equal
generations mean equal records), that a page about to swap continues what it loaded
(`AppendsContinue`), and that while the storage is kept every accepted history is witnessed
(`AcceptedIsWitnessed`). The first is what makes the compare-and-swap sound after a loss, where
casVersions repeat.

`PowSpendProofs` proves `PowTypeOK` and `TokensBind` for any writes and slots. `PowInv` adds that a
session is open exactly while its write runs (`OneSession`), that entries hold the slots of a running
write's session and wait until its token comes (`EntriesWait`), that a mint is bound to the slots
of its session, none of them free (`MintsBind`), that a token is at the slot of its request
(`TokensAtSlots`), and that the requests of a running write are admitted in its own session only
(`OwnTokens`).

### Assumptions, and what stays with TLC

The assumptions are those of the constants: finite sets of intents, relays and view rows, limits
and batch sizes that are natural numbers, no relay twice in `RelayOrder`, and the sentinels
outside the sets they stand beside; for `DiscoveredView` signatures that tell versions
apart and seeds with one version per key; for `PinHistory` that histories are chains from the genesis pin,
numbered without a gap, which is what the verification of a bundle establishes; for `PublicationDelivery` that `Split` and
`Readback` are sets of relays and that tokens pair tabs with numbers. TLC evaluates each of them
in every run of the module that states it.

Only model-checked: the four liveness properties (`ExpiredIsRevoked`, `RequestIsServed`,
`EveryTabKnows`, `OnlyIssuerHoldsSession`), since liveness under fairness, like `ENABLED`, is out of the
prover's reach. `MarkerKept`, `EditsPropagate` and `CompactionRetainsUnresolved` are refuted, not proved.

## Disagreements between code and text

1. `docs/PEERIT-BLIND-SUBSTRATE-DELIVERY-MAP.md:184` says that "compaction retains every
   unresolved state". `compact` deletes every target row of an acknowledged intent, the rows
   still preparing, delivering or ambiguous at its other relays included
   (`peerit-journal.js:2344`). Run `delivery_retention`.
2. `docs/CURRENT-STATUS.md:120`: "an interrupted attempt leaves a durable retry marker". A retry
   made while the interrupted attempt's lease is live skips that relay, resolves with
   `completed: false`, and the UI removes the marker all the same (`peerit-product-ui.js:352`).
   The marker is also one key for all tabs. Run `seq29_marker`.
3. `data.js:323` keeps in the clear what "LWW/sticky needs", and `data.js:793` lets the founder
   change a community "and have it propagate". `updatedAt` is sealed, so all versions of a
   community or a profile carry the timestamp of the first, and the larger signature wins
   (`peerit-journal.js:226`): about every other edit is passed over by all devices that hold the
   older version. Run `discovery_edits`.

### Observations

Met while modelling and not given a run of their own, mostly because the window is narrow or no
text contradicts the code.

- Ownership. `peerit-journal.js:220` says "Community ownership is sticky once a signed row has been
  admitted locally." `createCommunity` looks for a row, mints and signs for seconds, and
  `commitIntent` then writes over the row a poll admitted meanwhile. In `DiscoveredView` the
  step is `CommitDraft`, and "the owner of a row never changes" is refuted by it. What stood there and
  was passed by a floor is not read again: `overwritten` in `PassedIsShown`.
- Replacement. `_revalidateIntentReadback` looks whether its adapter is still installed before it
  awaits the journal and sets its flags after (`peerit-substrate-sync.js:873`), so an adapter
  installed in between counts as validated by a GET it never made
  (`test/peerit-readback-freshness.mjs:455` says it makes its own). `AdoptSuccess` does the same.
- Restart. `fatalState` of the scheduler aborts the run in flight but keeps `inFlight`
  (`relay-requalification-scheduler.js:327`): a later `start()` waits for the aborted run and is
  left with nothing scheduled. The production installer starts each scheduler once. With
  `OwnerRestarts = TRUE` TLC refutes `NeverStranded`.
- Web Locks. `NoBlindResend` and `NoFalseCorruption` are stated under the lock. Without it both fail,
  for the APPEND is not fenced by the lease (`public-inbox-boot-coordinator.mjs:1173`): a tab suspended between its
  claim and its APPEND sends after another one took over (the request is byte-identical, so a
  relay can tell), and two tabs retrying one publication prepare different frames, of which the
  second is reported as `PEERIT_JOURNAL_CORRUPT` and blocks authoring in its tab until a reload.
- Absent or unreadable. A GET that is refused for good, that does not authenticate or meets a drifted
  identity ends the target `terminal` like one that finds no Cell (`blind-client-relay.js:496`), so a
  terminal row does not say that the relay has nothing (`ReadTerminal`).
- Order of relays. A publication pass visits the relays in order and its first failure ends it
  (`public-inbox-boot-coordinator.mjs:1209`): while the first is down the second gets nothing.
- Compaction. `compact` scans the intents by completion time, pending ones first:
  `compactionBatch` pending intents hide all acknowledged ones from it (`peerit-journal.js:2336`).
- Contested names. The reduction of a batch keeps the first owner of a key
  (`peerit-journal.js:1705`), so a rival's announcement read first drops the founder's newer version
  while the floor passes it, even where the founder's row is the one admitted before, of which
  `peerit-journal.js:220` says that its ownership is sticky. Such versions are in `lost`, and the second
  part of `PassedIsShown` says that only a contested name can lose one.
- Clocks. An announcement of a lease epoch beyond the reader's next one is rejected, and the
  floor passes it (`inbox-discovery.mjs:102`), although the comment above allows that for
  "deterministic invalid content" only, and the clock is not. `lost` holds such versions. A local edit
  made with a slow clock is written over a newer discovered row all the same (`overwritten`).
- Length. A READ pages from the first entry (`inbox-discovery.mjs:381`), so an INBOX longer than 64
  pages fails every poll; and a poll takes both relays to succeed.
- Witness. Nothing in `src` calls `compact` of the pin witness: after 512 releases every append
  asks for it. `observe` compares sequences and casVersions, so a page does not notice an
  evicted witness that another page has made again on a fork and advanced beyond both.
- Proof of work. The provider asks whichever session is open (`pow-issuance-spend-provider.mjs:867`),
  so a late request of a failed write can take, and seal, a slot of the next one, which then fails;
  `TokensBind` says that no write succeeds with it. Neither a timeout nor, in production, a signal
  bounds the requests to the issuer: one that hangs keeps the session, the publication lock and
  with them all writes busy until the page is reloaded. `OnlyIssuerHoldsSession` shows that nothing
  else does.
- Identity. The boot finisher of an interrupted forget (`app.js:115`) runs outside the writer lock, and
  `runRememberIdentity` saves the vault after an await without looking at the forget tombstone again.

## Plan

The journal, delivery, publication, discovery, witness and admission modules stand. What is left, in order
of what matters most to a user; each module has its own `MC` module and run.

| Module | Models | Properties aimed at |
|---|---|---|
| `IdentityLifecycle` | device record, vault, forget tombstone over tabs, reloads and failed writes | a forgotten identity never comes back; two tabs never author under different keys |
| `RelayInstallation` | `relay-consumer.js`: qualification, ownership of an installed set, recovery from seeds | adapters of a replaced installation send nothing |
| `GossipOutbox` | `gossip.js`, `relay-pool.js`: write quorum, outbox replay | a commit is reported only with its quorum and replayed until then |
| `JournalBackend` | transaction queue, versionchange, blocked upgrades | a failed transaction leaves no trace; the queue never wedges |

Abstract specifications worth stating: `PublicationOutbox` and `AuthorLedger` (done), an atomic
register that `IdentityLifecycle` implements, and a view that `DiscoveredView` implements as a
merge of everything its floors have passed.

Theorems still to prove: those of the new modules, and that refinement of `DiscoveredView`. No
safety property of a passing run is without a theorem today.

## Not modelled

- Byte budgets of the journal, payload bytes, encodings and hashes: an intent's identity is its
  content, and no property tells bytes apart.
- The identity store, the gossip data plane and the journal's storage backend: see the plan. The
  backend's contract, serialised transactions that happen or do not, is assumed by every module.
- The descriptor trust backend: a compare-and-swap store of the form of `PinHistory`'s, whose policy
  (what may replace a descriptor) is in the HiveRelay client, not in this repository.
- Slots of a record session with a commitment declared in advance: no caller in `src` declares one.
- Cryptography: an answer that verifies is one the relay gave. Signatures, admission tickets and
  descriptors are not represented.
- Import of v1/v2 data and migrations of the journal, which run before a tab is ready.
- Expiry of Cells and frames at relays: relays here keep what they stored, or answer arbitrarily
  where that matters (`ReadbackRevalidation`).
- Validators, codecs and the recovery bundle: pure functions over bytes, tested by vectors.
- Rendering, ranking, moderation views and the rest of the application: derived from the view.
- The alternative transports (DHT, sharding, dispersal), which are behind switches.
- Release, ceremony and operations scripts.
