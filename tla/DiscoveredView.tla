--------------------------- MODULE DiscoveredView ---------------------------
(***************************************************************************)
(* How records authored elsewhere enter the materialized view of a device. *)
(* Every tab polls the public INBOX of both relays from the durable append *)
(* floors, merges what it finds by last writer wins and moves the floors   *)
(* in the same transaction (js/substrate/peerit-journal.js, called through *)
(* seq29-public-inbox-sync.mjs and public-inbox-boot-coordinator.mjs).     *)
(* The signed seed artifacts enter by a second path with a floor of its    *)
(* own (cold-reader.mjs), and what this device authors by a third, which   *)
(* does not compare at all (commitIntent).                                 *)
(*                                                                         *)
(* A record is a Version with the fields the merge reads.  An action is    *)
(* what runs between two awaits.  An INBOX only grows, and what a READ     *)
(* shows of it is some prefix of what it will hold in the end: this stands *)
(* for the growth and for a relay that answers from an old state.          *)
(***************************************************************************)
EXTENDS Integers, Sequences, FiniteSets

CONSTANTS
    Tabs, Relays,
    RelayRank,       \* relay -> its place in the merged poll
    Inbox,           \* relay -> the frames appended to its INBOX, in order
    Keys,
    Versions, Junk,  \* signed records; a frame that opens to no record
    KeyOf,           \* version -> wire key
    OwnerOf,         \* version -> creator; keys other than communities have one owner
    StampOf,         \* version -> the timestamp discoveredRecordTimestamp finds in the clear
    SigOf,           \* version -> its signature, the tie break
    EditOf,          \* version -> when its author made it
    EpochOf,         \* version -> publishedLeaseEpoch of its announcement
    Local,           \* the versions authored on this device
    Bootstraps, SequenceOf,             \* signed public INBOX bootstraps
    Artifacts, PlaceOf, PriorOf, Holds, \* signed seed bootstraps and their records
    Absent,
    MaxViewRecords, MaxReadEntries,     \* limits of the journal and of one poll
    MaxValue,        \* timestamps are safe integers, signatures have a fixed length
    MaxEpoch                            \* bound of the checked instance

\* Timestamp and signature order the versions of a key that one owner signed.
Newer(v, w) == StampOf[v] > StampOf[w] \/ (StampOf[v] = StampOf[w] /\ SigOf[v] > SigOf[w])

ASSUME ViewAssumption ==
    /\ IsFiniteSet(Keys) /\ Absent \notin Versions \cup Bootstraps \cup Artifacts
    /\ Junk \notin Versions
    /\ RelayRank \in [Relays -> Nat]
    /\ Inbox \in [Relays -> Seq(Versions \cup {Junk})]
    /\ KeyOf \in [Versions -> Keys]
    /\ StampOf \in [Versions -> 0..MaxValue] /\ SigOf \in [Versions -> 0..MaxValue]
    /\ \A v, w \in Versions : SigOf[v] = SigOf[w] => v = w
    /\ EditOf \in [Versions -> Nat] /\ EpochOf \in [Versions -> Nat]
    /\ Local \subseteq Versions
    /\ SequenceOf \in [Bootstraps -> Nat]
    /\ PlaceOf \in [Artifacts -> Nat] /\ PriorOf \in [Artifacts -> Artifacts \cup {Absent}]
    /\ Holds \in [Artifacts -> SUBSET Versions]
    /\ \A a \in Artifacts : \A v, w \in Holds[a] : KeyOf[v] = KeyOf[w] => v = w
    /\ {MaxViewRecords, MaxReadEntries, MaxValue, MaxEpoch} \subseteq Nat

VARIABLES
    epoch,          \* the clock of the device, in lease epochs
    \* rows of the journal, shared by the tabs
    view,           \* key -> the version shown
    viewCount,      \* meta.viewRecordCount
    authored,       \* versions with an intent or a dedupe row
    floor,          \* the accepted bootstrap
    relay,          \* its append state, per relay
    seeds,          \* the seed artifacts ingested; the floor row holds the last
    \* per tab
    boot,           \* bootstrap of the coordinator
    poll,           \* floors and answers of the poll in flight
    draft,          \* the record being signed
    reader,         \* the seed artifact being fetched
    \* history
    lost,           \* versions a floor passed without their being merged, nor since
    overwritten     \* keys where a record of this device replaced one it does not win over

journal == <<view, viewCount, authored, floor, relay, seeds>>
tabs    == <<boot, poll, draft, reader>>
history == <<lost, overwritten>>
vars    == <<epoch, journal, tabs, history>>

Unread   == [new |-> -1, rejected |-> {}]
NoPoll   == [from |-> Absent, got |-> [r \in Relays |-> Unread]]
NoState  == [prev |-> 0, append |-> 0, seen |-> Unread]

Answers  == [new : Nat \cup {-1}, rejected : SUBSET Nat]

ViewTypeOK ==
    /\ epoch \in 0..MaxEpoch
    /\ view \in [Keys -> Versions \cup {Absent}]
    /\ viewCount \in 0..MaxViewRecords
    /\ authored \subseteq Local
    /\ floor \in Bootstraps \cup {Absent}
    /\ relay \in [Relays -> [prev : Nat, append : Nat, seen : Answers]]
    /\ seeds \in Seq(Artifacts)
    /\ boot \in [Tabs -> Bootstraps \cup {Absent}]
    /\ poll \in [Tabs -> [from : [Relays -> Nat] \cup {Absent}, got : [Relays -> Answers]]]
    /\ draft \in [Tabs -> Local \cup {Absent}]
    /\ reader \in [Tabs -> Artifacts \cup {Absent}]
    /\ lost \subseteq Versions /\ overwritten \subseteq Keys

Init ==
    /\ epoch = 0
    /\ view = [k \in Keys |-> Absent]
    /\ viewCount = 0
    /\ authored = {}
    /\ floor = Absent
    /\ relay = [r \in Relays |-> NoState]
    /\ seeds = <<>>
    /\ boot = [t \in Tabs |-> Absent]
    /\ poll = [t \in Tabs |-> NoPoll]
    /\ draft = [t \in Tabs |-> Absent]
    /\ reader = [t \in Tabs |-> Absent]
    /\ lost = {} /\ overwritten = {}

-----------------------------------------------------------------------------
(* The merge *)

\* discoveredRecordWins: ownership of a name is sticky, then the newer version wins.
Wins(v, row) == row = Absent \/ (OwnerOf[v] = OwnerOf[row] /\ Newer(v, row))

\* Mutant: the last record of a batch stands for its key.
CandidateLast(rec, k) ==
    LET same == {x \in rec : KeyOf[x[2]] = k}
    IN  (CHOOSE x \in same : \A y \in same : y[1] <= x[1])[2]

\* The record of a batch that meets the row of key k.  A batch, a set of <<place, version>>,
\* is reduced first, and the first owner of a key keeps the others out.
Candidate(rec, k) ==
    LET same  == {x \in rec : KeyOf[x[2]] = k}
        first == CHOOSE x \in same : \A y \in same : x[1] <= y[1]
    IN  CHOOSE v \in {x[2] : x \in same} :
            /\ OwnerOf[v] = OwnerOf[first[2]]
            /\ \A y \in same : OwnerOf[y[2]] = OwnerOf[first[2]] => ~Newer(y[2], v)

Merged(rec) ==
    [k \in Keys |->
        IF (\E x \in rec : KeyOf[x[2]] = k) /\ Wins(Candidate(rec, k), view[k])
        THEN Candidate(rec, k) ELSE view[k]]

NewRows(newView) == Cardinality({k \in Keys : view[k] = Absent /\ newView[k] # Absent})

\* Mutant: the limit is not enforced.
WriteViewUnbounded(newView) ==
    /\ view' = newView
    /\ viewCount' = viewCount + NewRows(newView)

\* Rows and counter are written together, or the whole transaction aborts.
WriteView(newView) ==
    /\ viewCount + NewRows(newView) <= MaxViewRecords
    /\ view' = newView
    /\ viewCount' = viewCount + NewRows(newView)

\* The row shows v, or a newer version of its owner.
Shows(row, v) == row # Absent /\ OwnerOf[row] = OwnerOf[v] /\ ~Newer(v, row)

\* The versions of a batch that a rival keeps out: another owner is first in the batch, or has
\* the row.
KeptOut(rec) ==
    {v \in {x[2] : x \in rec} :
        \/ OwnerOf[v] # OwnerOf[Candidate(rec, KeyOf[v])]
        \/ view[KeyOf[v]] # Absent /\ OwnerOf[v] # OwnerOf[view[KeyOf[v]]]}

\* History: floors pass a batch and the versions rejected beside it.
Pass(rec, rejected) ==
    lost' = (lost \cup {v \in rejected \cup KeptOut(rec) : ~Shows(view[KeyOf[v]], v)})
              \ ({x[2] : x \in rec} \ KeptOut(rec))

-----------------------------------------------------------------------------
(* Bootstrap *)

\* acceptSeq29PublicInboxBootstrap.  A higher sequence starts new append floors and
\* deletes those of the bootstrap it replaces.
Accept(t, b) ==
    /\ boot[t] = Absent
    /\ \/ floor = b /\ UNCHANGED <<floor, relay>>
       \/ /\ floor # Absent => SequenceOf[b] > SequenceOf[floor]
          /\ floor' = b
          /\ relay' = [r \in Relays |-> NoState]
    /\ boot' = [boot EXCEPT ![t] = b]
    /\ UNCHANGED <<epoch, view, viewCount, authored, seeds, poll, draft, reader, history>>

Reload(t) ==
    /\ boot[t] # Absent \/ draft[t] # Absent \/ reader[t] # Absent
    /\ boot' = [boot EXCEPT ![t] = Absent]
    /\ poll' = [poll EXCEPT ![t] = NoPoll]
    /\ draft' = [draft EXCEPT ![t] = Absent]
    /\ reader' = [reader EXCEPT ![t] = Absent]
    /\ UNCHANGED <<epoch, journal, history>>

-----------------------------------------------------------------------------
(* The poll of a tab *)

Polling(t) == poll[t].from # Absent
Answered(t) == Polling(t) /\ \A r \in Relays : poll[t].got[r] # Unread

\* getSeq29PublicInboxAppendFloors refuses a bootstrap that is no longer the durable one.
StartPoll(t) ==
    /\ boot[t] # Absent /\ boot[t] = floor
    /\ ~Polling(t)
    /\ poll' = [poll EXCEPT ![t].from = [r \in Relays |-> relay[r].append]]
    /\ UNCHANGED <<epoch, journal, boot, draft, reader, history>>

\* Frames that authenticated and yet are no record: validateAnnouncement compares the lease
\* epoch of the announcement with the clock of the reader.
Rejected(frame) == frame = Junk \/ EpochOf[frame] > epoch + 1

Larger(m, n) == IF m > n THEN m ELSE n

\* What this device publishes is authored first.
Published(r, n) == \A i \in 1..n : Inbox[r][i] \in Local => Inbox[r][i] \in authored

\* A READ pages through the snapshot from its first entry, within MAX_READ_PAGES.
ReadRelay(t, r) ==
    /\ Polling(t) /\ poll[t].got[r] = Unread
    /\ \E n \in 0..Len(Inbox[r]) :
          /\ n <= MaxReadEntries /\ Published(r, n)
          /\ poll' = [poll EXCEPT ![t].got[r] =
                [new |-> Larger(poll[t].from[r], n),
                 rejected |-> {i \in poll[t].from[r] + 1 .. n : Rejected(Inbox[r][i])}]]
    /\ UNCHANGED <<epoch, journal, boot, draft, reader, history>>

\* Any failure of either relay rejects the whole poll.
PollFails(t) ==
    /\ Polling(t)
    /\ poll' = [poll EXCEPT ![t] = NoPoll]
    /\ UNCHANGED <<epoch, journal, boot, draft, reader, history>>

\* Mutant: the floor a poll started from is not compared with the stored one.
AdvancesAnyhow(p, r) == p.got[r].new > p.from[r]

Advances(p, r)   == p.from[r] = relay[r].append /\ p.got[r].new > relay[r].append
Unmoved(p, r)    == p.from[r] = relay[r].append /\ p.got[r].new = relay[r].append
\* Another tab committed the same transition and saw the same entries.
Repeats(p, r)    == /\ p.from[r] # relay[r].append
                    /\ p.from[r] = relay[r].prev /\ p.got[r].new = relay[r].append
                    /\ p.got[r] = relay[r].seen

PollRecords(p) ==
    UNION {{<<RelayRank[r] * (MaxReadEntries + 1) + i, Inbox[r][i]>> :
            i \in (p.from[r] + 1 .. p.got[r].new) \ p.got[r].rejected} : r \in Relays}

Bound(t) == Answered(t) /\ floor = boot[t]

\* commitSeq29PublicInboxPoll: the winning records of both relays and the floors that passed
\* them, in one transaction.
CommitPoll(t) ==
    LET p == poll[t] IN
    /\ Bound(t)
    /\ \A r \in Relays : Advances(p, r) \/ Unmoved(p, r) \/ Repeats(p, r)
    /\ \E r \in Relays : Advances(p, r)
    /\ WriteView(Merged(PollRecords(p)))
    /\ relay' = [r \in Relays |->
          IF Advances(p, r)
          THEN [prev |-> p.from[r], append |-> p.got[r].new, seen |-> p.got[r]]
          ELSE relay[r]]
    /\ Pass(PollRecords(p), {v \in Versions : \E r \in Relays : \E i \in p.got[r].rejected :
                               Advances(p, r) /\ Inbox[r][i] = v})
    /\ poll' = [poll EXCEPT ![t] = NoPoll]
    /\ UNCHANGED <<epoch, authored, floor, seeds, boot, draft, reader, overwritten>>

\* Nothing new, or refused: the floors moved otherwise, the bootstrap was replaced, the view
\* is full.  No row changes.
PollEnds(t) ==
    LET p == poll[t] IN
    /\ Answered(t)
    /\ \/ floor # boot[t]
       \/ \A r \in Relays : Unmoved(p, r) \/ Repeats(p, r)
       \/ \E r \in Relays : ~(Advances(p, r) \/ Unmoved(p, r) \/ Repeats(p, r))
       \/ viewCount + NewRows(Merged(PollRecords(p))) > MaxViewRecords
    /\ poll' = [poll EXCEPT ![t] = NoPoll]
    /\ UNCHANGED <<epoch, journal, boot, draft, reader, history>>

-----------------------------------------------------------------------------
(* Records of this device *)

\* createCommunity and the edits look at the row, then seal, mint and sign for seconds.  A
\* signature is made once, by one tab.
Draft(t, v) ==
    /\ draft[t] = Absent /\ v \notin authored /\ \A u \in Tabs : draft[u] # v
    /\ \A w \in authored : KeyOf[w] = KeyOf[v] => EditOf[w] < EditOf[v]
    /\ view[KeyOf[v]] # Absent => OwnerOf[view[KeyOf[v]]] = OwnerOf[v]
    /\ draft' = [draft EXCEPT ![t] = v]
    /\ UNCHANGED <<epoch, journal, boot, poll, reader, history>>

\* Mutant: a new row of this device is not counted.
CommitDraftUncounted(t) ==
    /\ draft[t] # Absent
    /\ view' = [view EXCEPT ![KeyOf[draft[t]]] = draft[t]]
    /\ authored' = authored \cup {draft[t]}
    /\ draft' = [draft EXCEPT ![t] = Absent]
    /\ UNCHANGED <<epoch, viewCount, floor, relay, seeds, boot, poll, reader, history>>

\* commitIntent writes the row whatever it finds there, a newer record or another owner's.
\* (The same intent again, which changes nothing, is in PeeritJournal.)
CommitDraft(t) ==
    /\ draft[t] # Absent
    /\ WriteView([view EXCEPT ![KeyOf[draft[t]]] = draft[t]])
    /\ authored' = authored \cup {draft[t]}
    /\ overwritten' = overwritten \cup {k \in {KeyOf[draft[t]]} : ~Wins(draft[t], view[k])}
    /\ draft' = [draft EXCEPT ![t] = Absent]
    /\ UNCHANGED <<epoch, floor, relay, seeds, boot, poll, reader, lost>>

DraftFails(t) ==
    /\ draft[t] # Absent
    /\ viewCount + NewRows([view EXCEPT ![KeyOf[draft[t]]] = draft[t]]) > MaxViewRecords
    /\ draft' = [draft EXCEPT ![t] = Absent]
    /\ UNCHANGED <<epoch, journal, boot, poll, reader, history>>

-----------------------------------------------------------------------------
(* The seed *)

Seed == IF seeds = <<>> THEN Absent ELSE seeds[Len(seeds)]
Extends(a) == IF Seed = Absent THEN PlaceOf[a] = 0 /\ PriorOf[a] = Absent
              ELSE PriorOf[a] = Seed

\* read: a seed artifact below, beside or beyond the successor of the floor is refused
\* before any GET.
StartSeed(t, a) ==
    /\ reader[t] = Absent
    /\ Extends(a) /\ (Seed # Absent => PlaceOf[a] = PlaceOf[Seed] + 1)
    /\ reader' = [reader EXCEPT ![t] = a]
    /\ UNCHANGED <<epoch, journal, boot, poll, draft, history>>

SeedRecords(a) == {<<0, v>> : v \in Holds[a]}

\* Mutant: the floor is not read again in the transaction.
CommitSeedStale(t) ==
    LET a == reader[t] IN
    /\ a # Absent
    /\ WriteView(Merged(SeedRecords(a)))
    /\ seeds' = Append(seeds, a)
    /\ Pass(SeedRecords(a), {})
    /\ reader' = [reader EXCEPT ![t] = Absent]
    /\ UNCHANGED <<epoch, authored, floor, relay, boot, poll, draft, overwritten>>

\* commitDiscoveredBatch, once every record came from some replica.
CommitSeed(t) ==
    LET a == reader[t] IN
    /\ a # Absent
    /\ Extends(a) /\ (Seed # Absent => PlaceOf[a] > PlaceOf[Seed])
    /\ WriteView(Merged(SeedRecords(a)))
    /\ seeds' = Append(seeds, a)
    /\ Pass(SeedRecords(a), {})
    /\ reader' = [reader EXCEPT ![t] = Absent]
    /\ UNCHANGED <<epoch, authored, floor, relay, boot, poll, draft, overwritten>>

\* A record no replica returned, or another tab ingested the artifact or its rival first.
SeedEnds(t) ==
    /\ reader[t] # Absent
    /\ reader' = [reader EXCEPT ![t] = Absent]
    /\ UNCHANGED <<epoch, journal, boot, poll, draft, history>>

-----------------------------------------------------------------------------
(* Time *)

Tick ==
    /\ epoch < MaxEpoch
    /\ epoch' = epoch + 1
    /\ UNCHANGED <<journal, tabs, history>>

PollStep(t) ==
    StartPoll(t) \/ CommitPoll(t) \/ PollEnds(t) \/ \E r \in Relays : ReadRelay(t, r)

TabStep(t) ==
    \/ PollStep(t) \/ PollFails(t) \/ Reload(t)
    \/ CommitDraft(t) \/ DraftFails(t) \/ CommitSeed(t) \/ SeedEnds(t)
    \/ \E b \in Bootstraps : Accept(t, b)
    \/ \E v \in Local : Draft(t, v)
    \/ \E a \in Artifacts : StartSeed(t, a)

Next ==
    \/ \E t \in Tabs : TabStep(t)
    \/ Tick

Spec == Init /\ [][Next]_vars

-----------------------------------------------------------------------------
(* Properties *)

\* Two owners claim the key.
Contested(k) == \E v, w \in Versions : KeyOf[v] = k /\ KeyOf[w] = k /\ OwnerOf[v] # OwnerOf[w]

\* What the floors have passed: it is not read again.
Passed ==
    {v \in Versions : \/ \E r \in Relays : \E i \in 1..relay[r].append : Inbox[r][i] = v
                      \/ \E i \in 1..Len(seeds) : v \in Holds[seeds[i]]}

\* A record that a floor passed is shown, or a newer one of its owner is, whatever polls of
\* the other tab, seeds and records of this device come in between, and no other owner ever
\* takes its row (commitSeq29PublicInboxPoll, commitDiscoveredBatch).  What the code loses for
\* good is exactly this: a record whose announcement was ahead of the lease epoch of the
\* reader, one that a rival owner of its key kept out, and what stood where a record of this
\* device was written that would not have won.
PassedIsShown ==
    /\ \A v \in Passed :
          v \in lost \/ KeyOf[v] \in overwritten \/ Shows(view[KeyOf[v]], v)
    /\ \A v \in lost : EpochOf[v] > 1 \/ Contested(KeyOf[v])

\* The counter that enforces the limit of the view is the number of its rows, although three
\* kinds of transaction maintain it (commitIntent, the poll, the seed).
CountExact == viewCount = Cardinality({k \in Keys : view[k] # Absent})

\* A tab that polled from older floors, or under a bootstrap another tab replaced, never takes
\* a floor back.
FloorsAdvance ==
    [][/\ floor' # floor => floor = Absent \/ SequenceOf[floor'] > SequenceOf[floor]
       /\ \/ floor' # floor
          \/ \A r \in Relays : relay'[r].append >= relay[r].append]_vars

\* The ingested seeds are one chain without a gap, with two tabs fetching at a time.
SeedChain ==
    \A i \in 1..Len(seeds) :
        /\ PlaceOf[seeds[i]] = i - 1
        /\ i > 1 => PriorOf[seeds[i]] = seeds[i - 1]

\* data.js:794 lets the founder alone change a community "and have it propagate", data.js:323
\* keeps in the clear what "LWW/sticky needs".  updatedAt is not there: the versions of a
\* community or profile all carry the timestamp of the first one, and the larger signature wins.
EditsPropagate ==
    \A r \in Relays : \A i \in 1..relay[r].append :
        \/ Inbox[r][i] \in lost \cup {Junk}
        \/ LET v == Inbox[r][i]  row == view[KeyOf[v]]
           IN  row # Absent /\ OwnerOf[row] = OwnerOf[v] => EditOf[row] >= EditOf[v]

=============================================================================
