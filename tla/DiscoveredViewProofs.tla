------------------------ MODULE DiscoveredViewProofs ------------------------
(***************************************************************************)
(* The materialized view for any number of tabs, relays, keys, versions    *)
(* and seed artifacts: its counter, its floors, and what becomes of the    *)
(* records that the floors pass.                                           *)
(***************************************************************************)
EXTENDS DiscoveredView, FiniteSetTheorems, WellFoundedInduction, TLAPS

-----------------------------------------------------------------------------
(* The merge *)

\* A batch: places and versions.
Batch(rec) == rec \subseteq Nat \X Versions

LEMMA NatMin ==
    ASSUME NEW T \in SUBSET Nat, T # {}
    PROVE  \E x \in T : \A y \in T : x <= y
<1>1. IsWellFoundedOn(OpToRel(<, Nat), Nat)
  BY NatLessThanWellFounded
<1>2. PICK x \in T : \A y \in T : <<y, x>> \notin OpToRel(<, Nat)
  BY <1>1, WFMin, Zenon
<1>3. \A y \in T : x <= y
  <2> SUFFICES ASSUME NEW y \in T, ~(x <= y) PROVE FALSE
    OBVIOUS
  <2>1. <<y, x>> \in Nat \X Nat /\ y < x
    OBVIOUS
  <2>2. <<y, x>> \in OpToRel(<, Nat)
    BY <2>1, SMT DEF OpToRel
  <2> QED BY <1>2, <2>2
<1> QED BY <1>3

LEMMA BoundedMax ==
    ASSUME NEW T \in SUBSET (0..MaxValue), T # {}
    PROVE  \E x \in T : \A y \in T : y <= x
<1> DEFINE D == {MaxValue - x : x \in T}
<1>1. MaxValue \in Nat
  BY ViewAssumption
<1>2. D \in SUBSET Nat /\ D # {}
  <2>1. \A x \in T : MaxValue - x \in Nat
    BY <1>1
  <2>2. PICK x \in T : TRUE
    OBVIOUS
  <2>3. MaxValue - x \in D
    OBVIOUS
  <2> QED BY <2>1, <2>3
<1>3. PICK d \in D : \A e \in D : d <= e
  BY <1>2, NatMin
<1>4. PICK x \in T : d = MaxValue - x
  BY <1>3
<1>5. \A y \in T : y <= x
  BY <1>1, <1>3, <1>4
<1> QED BY <1>5

\* Any set of versions has one that no other is newer than.
LEMMA NewestExists ==
    ASSUME NEW W \in SUBSET Versions, W # {}
    PROVE  \E v \in W : \A w \in W : ~Newer(w, v)
<1> DEFINE S == {StampOf[v] : v \in W}
<1>1. /\ StampOf \in [Versions -> 0..MaxValue] /\ SigOf \in [Versions -> 0..MaxValue]
      /\ MaxValue \in Nat
  BY ViewAssumption
<1>2. PICK s \in S : \A u \in S : u <= s
  <2>1. \A v \in W : StampOf[v] \in 0..MaxValue
    BY <1>1
  <2>2. S \in SUBSET (0..MaxValue) /\ S # {}
    BY <2>1
  <2> QED BY <2>2, BoundedMax
<1> DEFINE L == {v \in W : StampOf[v] = s}
           G == {SigOf[v] : v \in L}
<1>3. L # {} /\ G \in SUBSET (0..MaxValue) /\ G # {}
  BY <1>1, <1>2
<1>4. PICK g \in G : \A u \in G : u <= g
  BY <1>3, BoundedMax
<1>5. PICK v \in L : SigOf[v] = g
  BY <1>4
<1>6. ASSUME NEW w \in W PROVE ~Newer(w, v)
  <2>1. StampOf[w] <= StampOf[v] /\ StampOf[v] = s
    BY <1>2, <1>5
  <2>2. StampOf[w] = StampOf[v] => SigOf[w] <= SigOf[v]
    BY <1>4, <1>5, <2>1
  <2>3. /\ StampOf[w] \in 0..MaxValue /\ StampOf[v] \in 0..MaxValue
        /\ SigOf[w] \in 0..MaxValue /\ SigOf[v] \in 0..MaxValue
    BY <1>1, <1>5
  <2> QED BY <1>1, <2>1, <2>2, <2>3 DEF Newer
<1> QED BY <1>5, <1>6

LEMMA NewerTransitive ==
    ASSUME NEW u \in Versions, NEW v \in Versions, NEW w \in Versions,
           ~Newer(u, v), ~Newer(v, w)
    PROVE  ~Newer(u, w)
<1>1. /\ StampOf \in [Versions -> 0..MaxValue] /\ SigOf \in [Versions -> 0..MaxValue]
      /\ MaxValue \in Nat
  BY ViewAssumption
<1>2. /\ StampOf[u] \in 0..MaxValue /\ StampOf[v] \in 0..MaxValue /\ StampOf[w] \in 0..MaxValue
      /\ SigOf[u] \in 0..MaxValue /\ SigOf[v] \in 0..MaxValue /\ SigOf[w] \in 0..MaxValue
  BY <1>1
<1> QED BY <1>1, <1>2 DEF Newer

LEMMA NewerAsymmetric ==
    ASSUME NEW v \in Versions, NEW w \in Versions, Newer(v, w)
    PROVE  ~Newer(w, v)
<1>1. /\ StampOf \in [Versions -> 0..MaxValue] /\ SigOf \in [Versions -> 0..MaxValue]
      /\ MaxValue \in Nat
  BY ViewAssumption
<1>2. /\ StampOf[v] \in 0..MaxValue /\ StampOf[w] \in 0..MaxValue
      /\ SigOf[v] \in 0..MaxValue /\ SigOf[w] \in 0..MaxValue
  BY <1>1
<1> QED BY <1>1, <1>2 DEF Newer

\* The candidate of a key is one of its versions in the batch, and the newest of its owner's.
LEMMA CandidateIsNewest ==
    ASSUME NEW rec, Batch(rec), NEW k, NEW z \in rec, KeyOf[z[2]] = k
    PROVE  LET c == Candidate(rec, k) IN
           /\ c \in Versions /\ KeyOf[c] = k /\ \E x \in rec : x[2] = c
           /\ OwnerOf[z[2]] = OwnerOf[c] => ~Newer(z[2], c)
<1> DEFINE same  == {x \in rec : KeyOf[x[2]] = k}
           first == CHOOSE x \in same : \A y \in same : x[1] <= y[1]
           mine  == {x[2] : x \in {y \in same : OwnerOf[y[2]] = OwnerOf[first[2]]}}
           good(v) == /\ OwnerOf[v] = OwnerOf[first[2]]
                      /\ \A y \in same : OwnerOf[y[2]] = OwnerOf[first[2]] => ~Newer(y[2], v)
           c == CHOOSE v \in {x[2] : x \in same} : good(v)
<1>1. \E x \in same : \A y \in same : x[1] <= y[1]
  <2> DEFINE P == {x[1] : x \in same}
  <2>1. P \in SUBSET Nat /\ P # {}
    BY DEF Batch
  <2>2. PICK p \in P : \A q \in P : p <= q
    BY <2>1, NatMin
  <2> QED BY <2>2
<1>2. first \in same
  BY <1>1
<1>3. mine \in SUBSET Versions /\ mine # {}
  BY <1>2 DEF Batch
<1>4. PICK v \in mine : \A w \in mine : ~Newer(w, v)
  BY <1>3, NewestExists
<1>5. v \in {x[2] : x \in same} /\ good(v)
  BY <1>4
<1>6. c \in {x[2] : x \in same} /\ good(c)
  BY <1>5
<1>7. c = Candidate(rec, k)
  BY DEF Candidate
<1>8. c \in Versions /\ KeyOf[c] = k /\ \E x \in rec : x[2] = c
  BY <1>6 DEF Batch
<1>9. OwnerOf[z[2]] = OwnerOf[c] => ~Newer(z[2], c)
  BY <1>6
<1> QED BY <1>7, <1>8, <1>9

\* The rows of the view stand at their keys.
RowsKeyed == \A k \in Keys : view[k] # Absent => KeyOf[view[k]] = k

\* A merge keeps the type of the view, never empties a row, and goes on showing what it showed.
LEMMA MergeKeeps ==
    ASSUME NEW rec, Batch(rec), view \in [Keys -> Versions \cup {Absent}], RowsKeyed
    PROVE  /\ Merged(rec) \in [Keys -> Versions \cup {Absent}]
           /\ \A k \in Keys : Merged(rec)[k] # Absent => KeyOf[Merged(rec)[k]] = k
           /\ \A k \in Keys : view[k] # Absent => Merged(rec)[k] # Absent
           /\ \A v \in Versions : Shows(view[KeyOf[v]], v) => Shows(Merged(rec)[KeyOf[v]], v)
<1>1. Absent \notin Versions /\ KeyOf \in [Versions -> Keys]
  BY ViewAssumption
<1>2. ASSUME NEW k \in Keys
      PROVE  /\ Merged(rec)[k] \in Versions \cup {Absent}
             /\ Merged(rec)[k] # view[k] =>
                   /\ Merged(rec)[k] \in Versions /\ KeyOf[Merged(rec)[k]] = k
                   /\ Wins(Merged(rec)[k], view[k])
  BY CandidateIsNewest DEF Merged
<1>3. ASSUME NEW v \in Versions, Shows(view[KeyOf[v]], v)
      PROVE  Shows(Merged(rec)[KeyOf[v]], v)
  <2> DEFINE row == view[KeyOf[v]]
             new == Merged(rec)[KeyOf[v]]
  <2>1. KeyOf[v] \in Keys /\ row # Absent /\ row \in Versions
    BY <1>1, <1>3 DEF Shows
  <2>2. CASE new = row
    BY <1>3, <2>2
  <2>3. CASE new # row
    <3>1. new \in Versions /\ OwnerOf[new] = OwnerOf[row] /\ Newer(new, row)
      BY <1>2, <2>1, <2>3 DEF Wins
    <3>2. OwnerOf[row] = OwnerOf[v] /\ ~Newer(v, row)
      BY <1>3 DEF Shows
    <3>3. ~Newer(row, new)
      BY <2>1, <3>1, NewerAsymmetric
    <3>4. ~Newer(v, new)
      BY <2>1, <3>1, <3>2, <3>3, NewerTransitive
    <3> QED BY <1>1, <3>1, <3>2, <3>4 DEF Shows
  <2> QED BY <2>2, <2>3
<1>4. \A k \in Keys : view[k] # Absent => Merged(rec)[k] # Absent
  BY <1>1, <1>2
<1>5. Merged(rec) \in [Keys -> Versions \cup {Absent}]
  BY <1>2 DEF Merged
<1>6. \A k \in Keys : Merged(rec)[k] # Absent => KeyOf[Merged(rec)[k]] = k
  BY <1>2 DEF RowsKeyed
<1> QED BY <1>3, <1>4, <1>5, <1>6

\* A merge shows every version of the batch that no rival keeps out.
LEMMA MergeShows ==
    ASSUME NEW rec, Batch(rec), view \in [Keys -> Versions \cup {Absent}],
           NEW z \in rec, z[2] \notin KeptOut(rec)
    PROVE  Shows(Merged(rec)[KeyOf[z[2]]], z[2])
<1> DEFINE v == z[2]
           k == KeyOf[v]
           c == Candidate(rec, k)
           row == view[k]
<1>1. Absent \notin Versions /\ v \in Versions /\ k \in Keys
  BY ViewAssumption DEF Batch
<1>2. OwnerOf[v] = OwnerOf[c] /\ (row # Absent => OwnerOf[v] = OwnerOf[row])
  BY DEF KeptOut
<1>3. c \in Versions /\ ~Newer(v, c)
  BY <1>2, CandidateIsNewest
<1>4. Merged(rec)[k] = IF Wins(c, row) THEN c ELSE row
  BY <1>1 DEF Merged
<1>5. CASE Wins(c, row)
  BY <1>1, <1>2, <1>3, <1>4, <1>5 DEF Shows
<1>6. CASE ~Wins(c, row)
  <2>1. row # Absent /\ row \in Versions
    BY <1>1, <1>6 DEF Wins
  <2>2. ~Newer(c, row)
    BY <1>2, <1>6, <2>1 DEF Wins
  <2>3. ~Newer(v, row)
    BY <1>1, <1>3, <2>1, <2>2, NewerTransitive
  <2> QED BY <1>2, <1>4, <1>6, <2>1, <2>3 DEF Shows
<1> QED BY <1>5, <1>6

\* A version that is kept out has a rival.
LEMMA KeptOutHasRival ==
    ASSUME NEW rec, Batch(rec), view \in [Keys -> Versions \cup {Absent}], RowsKeyed,
           NEW v \in KeptOut(rec)
    PROVE  v \in Versions /\ Contested(KeyOf[v])
<1>1. PICK z \in rec : z[2] = v
  BY DEF KeptOut
<1>2. v \in Versions /\ KeyOf[v] \in Keys
  BY <1>1, ViewAssumption DEF Batch
<1>3. CASE OwnerOf[v] # OwnerOf[Candidate(rec, KeyOf[v])]
  <2>1. Candidate(rec, KeyOf[v]) \in Versions /\ KeyOf[Candidate(rec, KeyOf[v])] = KeyOf[v]
    BY <1>1, CandidateIsNewest
  <2> QED BY <1>2, <1>3, <2>1 DEF Contested
<1>4. CASE view[KeyOf[v]] # Absent /\ OwnerOf[v] # OwnerOf[view[KeyOf[v]]]
  <2>1. view[KeyOf[v]] \in Versions /\ KeyOf[view[KeyOf[v]]] = KeyOf[v]
    BY <1>2, <1>4 DEF RowsKeyed
  <2> QED BY <1>2, <1>4, <2>1 DEF Contested
<1> QED BY <1>2, <1>3, <1>4 DEF KeptOut

-----------------------------------------------------------------------------
(* The inductive invariant *)

\* An answer of a poll goes on from the floor the poll started at, within the INBOX, and
\* rejects what opens to no record and else only what was ahead of the clock.
AnswerSound(t, r) ==
    LET p == poll[t]  a == poll[t].got[r] IN
    /\ p.from # Absent
    /\ a.new \in p.from[r]..Len(Inbox[r])
    /\ \A i \in p.from[r] + 1 .. a.new : Inbox[r][i] = Junk => i \in a.rejected
    /\ \A i \in a.rejected : Inbox[r][i] = Junk \/ EpochOf[Inbox[r][i]] > 1

FloorsSound ==
    /\ \A r \in Relays : relay[r].append \in 0..Len(Inbox[r])
    /\ \A t \in Tabs : Polling(t) =>
          /\ poll[t].from \in [Relays -> Nat]
          /\ \A r \in Relays : poll[t].from[r] \in 0..Len(Inbox[r])
    /\ \A t \in Tabs : \A r \in Relays : poll[t].got[r] # Unread => AnswerSound(t, r)

\* A seed being fetched follows the one it names.
ReadersSound ==
    \A t \in Tabs : reader[t] # Absent =>
        IF PriorOf[reader[t]] = Absent THEN PlaceOf[reader[t]] = 0
        ELSE PlaceOf[reader[t]] = PlaceOf[PriorOf[reader[t]]] + 1

ViewInv ==
    /\ ViewTypeOK
    /\ FloorsSound
    /\ ReadersSound
    /\ CountExact
    /\ SeedChain
    /\ RowsKeyed
    /\ PassedIsShown

LEMMA Constants ==
    /\ IsFiniteSet(Keys)
    /\ Absent \notin Versions /\ Absent \notin Bootstraps /\ Absent \notin Artifacts
    /\ Junk \notin Versions
    /\ RelayRank \in [Relays -> Nat]
    /\ KeyOf \in [Versions -> Keys]
    /\ \A r \in Relays : Inbox[r] \in Seq(Versions \cup {Junk}) /\ Len(Inbox[r]) \in Nat
    /\ \A r \in Relays : \A i \in 1..Len(Inbox[r]) : Inbox[r][i] \in Versions \cup {Junk}
    /\ Local \subseteq Versions
    /\ SequenceOf \in [Bootstraps -> Nat]
    /\ PlaceOf \in [Artifacts -> Nat] /\ PriorOf \in [Artifacts -> Artifacts \cup {Absent}]
    /\ \A a \in Artifacts : Holds[a] \subseteq Versions
    /\ MaxViewRecords \in Nat /\ MaxReadEntries \in Nat /\ MaxEpoch \in Nat
BY ViewAssumption

LEMMA InitInv == Init => ViewInv
<1> SUFFICES ASSUME Init PROVE ViewInv
  OBVIOUS
<1>1. ViewTypeOK
  BY Constants DEF Init, ViewTypeOK, NoState, NoPoll, Unread, Answers
<1>2. FloorsSound
  <2>1. \A r \in Relays : relay[r].append = 0 /\ Len(Inbox[r]) \in Nat
    BY Constants DEF Init, NoState
  <2>2. \A t \in Tabs : ~Polling(t) /\ \A r \in Relays : poll[t].got[r] = Unread
    BY DEF Init, NoPoll, Polling
  <2> QED BY <2>1, <2>2 DEF FloorsSound
<1>3. ReadersSound /\ SeedChain /\ RowsKeyed /\ PassedIsShown
  BY DEF Init, ReadersSound, SeedChain, RowsKeyed, PassedIsShown, Passed, NoState
<1>4. CountExact
  <2>1. {k \in Keys : view[k] # Absent} = {}
    BY DEF Init
  <2> QED BY <2>1, FS_EmptySet DEF Init, CountExact
<1> QED BY <1>1, <1>2, <1>3, <1>4 DEF ViewInv

\* Writing a view that empties no row keeps the counter exact and typed.
LEMMA WriteIsExact ==
    ASSUME ViewInv, NEW new \in [Keys -> Versions \cup {Absent}],
           \A k \in Keys : view[k] # Absent => new[k] # Absent,
           WriteView(new)
    PROVE  /\ view' = new /\ view' \in [Keys -> Versions \cup {Absent}]
           /\ viewCount' \in 0..MaxViewRecords
           /\ CountExact'
<1> DEFINE old   == {k \in Keys : view[k] # Absent}
           fresh == {k \in Keys : view[k] = Absent /\ new[k] # Absent}
<1>1. IsFiniteSet(old) /\ IsFiniteSet(fresh) /\ old \cap fresh = {}
  BY Constants, FS_Subset
<1>2. /\ Cardinality(old) \in Nat /\ Cardinality(fresh) \in Nat
      /\ Cardinality(old \cup fresh) = Cardinality(old) + Cardinality(fresh)
  <2>1. /\ Cardinality(old \cap fresh) = 0
        /\ Cardinality(old \cup fresh)
              = Cardinality(old) + Cardinality(fresh) - Cardinality(old \cap fresh)
    BY <1>1, FS_EmptySet, FS_Union
  <2> QED BY <1>1, <2>1, FS_CardinalityType
<1>3. old \cup fresh = {k \in Keys : new[k] # Absent}
  OBVIOUS
<1>4. viewCount = Cardinality(old) /\ viewCount' = viewCount + Cardinality(fresh)
  BY DEF ViewInv, CountExact, WriteView, NewRows
<1>5. view' = new
  BY DEF WriteView
<1>6. CountExact'
  BY <1>2, <1>3, <1>4, <1>5 DEF CountExact
<1>7. viewCount' \in 0..MaxViewRecords
  BY <1>2, <1>4, Constants DEF WriteView, NewRows
<1> QED BY <1>5, <1>6, <1>7

\* The records of a poll are versions of the two INBOXes.
LEMMA PollIsBatch ==
    ASSUME ViewInv, NEW t \in Tabs, Answered(t)
    PROVE  Batch(PollRecords(poll[t]))
<1> DEFINE p == poll[t]
           part(r) == {<<RelayRank[r] * (MaxReadEntries + 1) + i, Inbox[r][i]>> :
                          i \in (p.from[r] + 1 .. p.got[r].new) \ p.got[r].rejected}
<1>1. ASSUME NEW r \in Relays, NEW i \in (p.from[r] + 1 .. p.got[r].new) \ p.got[r].rejected
      PROVE  /\ RelayRank[r] * (MaxReadEntries + 1) + i \in Nat
             /\ i \in 1..Len(Inbox[r]) /\ Inbox[r][i] \in Versions
  <2>1. /\ p.from[r] \in 0..Len(Inbox[r]) /\ p.got[r].new \in p.from[r]..Len(Inbox[r])
        /\ i \in p.from[r] + 1 .. p.got[r].new /\ Inbox[r][i] # Junk
    BY DEF ViewInv, FloorsSound, AnswerSound, Answered
  <2>2. i \in 1..Len(Inbox[r])
    BY <2>1, Constants
  <2>3. RelayRank[r] \in Nat /\ MaxReadEntries \in Nat /\ i \in Nat
    BY <2>2, Constants
  <2>4. RelayRank[r] * (MaxReadEntries + 1) \in Nat
    BY <2>3
  <2> QED BY <2>1, <2>2, <2>3, <2>4, Constants
<1>2. PollRecords(p) = UNION {part(r) : r \in Relays}
  BY DEF PollRecords
<1>3. ASSUME NEW x \in PollRecords(p)
      PROVE  x \in Nat \X Versions
  <2>1. PICK r \in Relays : x \in part(r)
    BY <1>2
  <2>2. PICK i \in (p.from[r] + 1 .. p.got[r].new) \ p.got[r].rejected :
           x = <<RelayRank[r] * (MaxReadEntries + 1) + i, Inbox[r][i]>>
    BY <2>1
  <2> QED BY <1>1, <2>2
<1> QED BY <1>3 DEF Batch

LEMMA SeedIsBatch ==
    ASSUME NEW a \in Artifacts
    PROVE  Batch(SeedRecords(a))
BY ViewAssumption DEF Batch, SeedRecords

-----------------------------------------------------------------------------
(* One lemma per kind of step *)

\* Steps of a tab that write no row.
LEMMA JournalKept ==
    ASSUME ViewInv, UNCHANGED <<journal, history>>
    PROVE  CountExact' /\ SeedChain' /\ RowsKeyed' /\ PassedIsShown'
<1>1. UNCHANGED <<view, viewCount, authored, relay, seeds, lost, overwritten>>
  BY DEF journal, history
<1> QED BY <1>1 DEF ViewInv, CountExact, SeedChain, RowsKeyed, PassedIsShown, Passed

LEMMA QuietStep ==
    ASSUME ViewInv, NEW t \in Tabs,
           \/ Reload(t) \/ StartPoll(t) \/ PollFails(t) \/ PollEnds(t)
           \/ DraftFails(t) \/ SeedEnds(t)
           \/ \E r \in Relays : ReadRelay(t, r)
           \/ \E v \in Local : Draft(t, v)
           \/ \E a \in Artifacts : StartSeed(t, a)
    PROVE  ViewInv'
<1>1. UNCHANGED <<journal, history>>
  BY DEF Reload, StartPoll, PollFails, PollEnds, DraftFails, SeedEnds, ReadRelay, Draft,
         StartSeed
<1>2. UNCHANGED <<view, viewCount, authored, floor, relay, seeds, lost, overwritten>>
  BY <1>1 DEF journal, history
<1>3. ViewTypeOK /\ FloorsSound /\ ReadersSound
  BY DEF ViewInv
<1>4. /\ view' \in [Keys -> Versions \cup {Absent}] /\ viewCount' \in 0..MaxViewRecords
      /\ authored' \subseteq Local /\ floor' \in Bootstraps \cup {Absent}
      /\ relay' \in [Relays -> [prev : Nat, append : Nat, seen : Answers]]
      /\ seeds' \in Seq(Artifacts) /\ lost' \subseteq Versions /\ overwritten' \subseteq Keys
      /\ \A r \in Relays : relay'[r].append \in 0..Len(Inbox[r])
  BY <1>2, <1>3 DEF ViewTypeOK, FloorsSound
<1> DEFINE Rest ==
        /\ epoch' \in 0..MaxEpoch
        /\ boot' \in [Tabs -> Bootstraps \cup {Absent}]
        /\ draft' \in [Tabs -> Local \cup {Absent}]
        /\ reader' \in [Tabs -> Artifacts \cup {Absent}] /\ ReadersSound'
        /\ poll' \in [Tabs -> [from : [Relays -> Nat] \cup {Absent}, got : [Relays -> Answers]]]
        /\ \A u \in Tabs : Polling(u)' =>
              /\ poll'[u].from \in [Relays -> Nat]
              /\ \A r \in Relays : poll'[u].from[r] \in 0..Len(Inbox[r])
        /\ \A u \in Tabs : \A r \in Relays : poll'[u].got[r] # Unread => AnswerSound(u, r)'
<1>5. Rest => ViewInv'
  BY <1>1, <1>4, JournalKept DEF ViewInv, ViewTypeOK, FloorsSound
<1>6. /\ epoch \in 0..MaxEpoch /\ boot \in [Tabs -> Bootstraps \cup {Absent}]
      /\ draft \in [Tabs -> Local \cup {Absent}] /\ reader \in [Tabs -> Artifacts \cup {Absent}]
      /\ poll \in [Tabs -> [from : [Relays -> Nat] \cup {Absent}, got : [Relays -> Answers]]]
  BY <1>3 DEF ViewTypeOK
<1>7. /\ NoPoll \in [from : [Relays -> Nat] \cup {Absent}, got : [Relays -> Answers]]
      /\ NoPoll.from = Absent /\ \A r \in Relays : NoPoll.got[r] = Unread
  BY DEF NoPoll, Unread, Answers
<1>8. ASSUME Reload(t) \/ PollFails(t) \/ PollEnds(t)
      PROVE  Rest
  <2>1. /\ epoch' = epoch
        /\ poll' = [poll EXCEPT ![t] = NoPoll]
        /\ boot' = boot \/ boot' = [boot EXCEPT ![t] = Absent]
        /\ draft' = draft \/ draft' = [draft EXCEPT ![t] = Absent]
        /\ reader' = reader \/ reader' = [reader EXCEPT ![t] = Absent]
    BY <1>8 DEF Reload, PollFails, PollEnds
  <2>2. /\ boot' \in [Tabs -> Bootstraps \cup {Absent}]
        /\ draft' \in [Tabs -> Local \cup {Absent}]
        /\ reader' \in [Tabs -> Artifacts \cup {Absent}] /\ ReadersSound'
    BY <1>3, <1>6, <2>1 DEF ReadersSound
  <2>3. /\ poll' \in [Tabs -> [from : [Relays -> Nat] \cup {Absent}, got : [Relays -> Answers]]]
        /\ \A u \in Tabs : poll'[u] = IF u = t THEN NoPoll ELSE poll[u]
    BY <1>6, <1>7, <2>1
  <2>4. \A u \in Tabs : Polling(u)' => u # t /\ Polling(u)
    BY <1>7, <2>3 DEF Polling
  <2>5. \A u \in Tabs : \A r \in Relays : poll'[u].got[r] # Unread => AnswerSound(u, r)'
    BY <1>3, <1>7, <2>3 DEF FloorsSound, AnswerSound
  <2> QED BY <1>3, <1>6, <2>1, <2>2, <2>3, <2>4, <2>5 DEF FloorsSound
<1>9. ASSUME StartPoll(t)
      PROVE  Rest
  <2>1. /\ poll' = [poll EXCEPT ![t].from = [r \in Relays |-> relay[r].append]]
        /\ poll[t].from = Absent /\ UNCHANGED <<epoch, boot, draft, reader>>
    BY <1>9 DEF StartPoll, Polling
  <2>2. [r \in Relays |-> relay[r].append] \in [Relays -> Nat]
    BY <1>3 DEF ViewTypeOK
  <2>3. \A u \in Tabs : /\ poll'[u].got = poll[u].got
                        /\ u # t => poll'[u] = poll[u]
                        /\ u = t => poll'[u].from = [r \in Relays |-> relay[r].append]
    BY <1>6, <2>1
  <2>4. poll' \in [Tabs -> [from : [Relays -> Nat] \cup {Absent}, got : [Relays -> Answers]]]
    BY <1>6, <2>1, <2>2
  <2>5. \A u \in Tabs : \A r \in Relays :
           poll'[u].got[r] # Unread => u # t /\ AnswerSound(u, r)'
    BY <1>3, <2>1, <2>3 DEF FloorsSound, AnswerSound
  <2>6. ASSUME NEW u \in Tabs, Polling(u)'
        PROVE  /\ poll'[u].from \in [Relays -> Nat]
               /\ \A r \in Relays : poll'[u].from[r] \in 0..Len(Inbox[r])
    <3>1. CASE u = t
      <4>1. poll'[u].from = [r \in Relays |-> relay[r].append]
        BY <2>3, <3>1
      <4>2. \A r \in Relays : relay[r].append \in 0..Len(Inbox[r])
        BY <1>3 DEF FloorsSound
      <4> QED BY <2>2, <4>1, <4>2
    <3>2. CASE u # t
      BY <1>3, <2>3, <2>6, <3>2 DEF FloorsSound, Polling
    <3> QED BY <3>1, <3>2
  <2> QED BY <1>3, <1>6, <2>1, <2>4, <2>5, <2>6 DEF ReadersSound
<1>10. ASSUME NEW r \in Relays, ReadRelay(t, r)
       PROVE  Rest
  <2>1. PICK n \in 0..Len(Inbox[r]) :
           poll' = [poll EXCEPT ![t].got[r] =
              [new |-> Larger(poll[t].from[r], n),
               rejected |-> {i \in poll[t].from[r] + 1 .. n : Rejected(Inbox[r][i])}]]
    BY <1>10 DEF ReadRelay
  <2> DEFINE a == [new |-> Larger(poll[t].from[r], n),
                   rejected |-> {i \in poll[t].from[r] + 1 .. n : Rejected(Inbox[r][i])}]
  <2>2. Polling(t) /\ UNCHANGED <<epoch, boot, draft, reader>>
    BY <1>10 DEF ReadRelay
  <2>3. /\ poll[t].from \in [Relays -> Nat] /\ poll[t].from[r] \in 0..Len(Inbox[r])
        /\ Len(Inbox[r]) \in Nat
    BY <1>3, <2>2, Constants DEF FloorsSound
  <2>4. a \in Answers
    BY <2>1, <2>3 DEF Answers, Larger
  <2>5. a.new \in poll[t].from[r]..Len(Inbox[r])
    BY <2>1, <2>3 DEF Larger
  <2>6. /\ \A i \in poll[t].from[r] + 1 .. a.new : Inbox[r][i] = Junk => i \in a.rejected
        /\ \A i \in a.rejected : Inbox[r][i] = Junk \/ EpochOf[Inbox[r][i]] > 1
    <3>1. \A i \in poll[t].from[r] + 1 .. a.new : Inbox[r][i] = Junk => i \in a.rejected
      BY <2>1, <2>3 DEF Larger, Rejected
    <3>2. ASSUME NEW i \in a.rejected, Inbox[r][i] # Junk
          PROVE  EpochOf[Inbox[r][i]] > 1
      <4>1. i \in 1..Len(Inbox[r]) /\ EpochOf[Inbox[r][i]] > epoch + 1
        BY <2>1, <2>3, <3>2 DEF Rejected
      <4>2. EpochOf[Inbox[r][i]] \in Nat
        BY <3>2, <4>1, Constants, ViewAssumption
      <4> QED BY <1>6, <4>1, <4>2, Constants
    <3> QED BY <3>1, <3>2
  <2>7. /\ poll' \in [Tabs -> [from : [Relays -> Nat] \cup {Absent}, got : [Relays -> Answers]]]
        /\ \A u \in Tabs : poll'[u].from = poll[u].from
        /\ \A u \in Tabs : \A q \in Relays :
              poll'[u].got[q] = IF u = t /\ q = r THEN a ELSE poll[u].got[q]
    BY <1>6, <2>1, <2>4
  <2>8. \A u \in Tabs : Polling(u)' <=> Polling(u)
    BY <2>7 DEF Polling
  <2>9. ASSUME NEW u \in Tabs, NEW q \in Relays, poll'[u].got[q] # Unread
        PROVE  AnswerSound(u, q)'
    <3>1. CASE u = t /\ q = r
      BY <2>2, <2>5, <2>6, <2>7, <3>1 DEF AnswerSound, Polling
    <3>2. CASE ~(u = t /\ q = r)
      BY <1>3, <2>7, <2>9, <3>2 DEF AnswerSound, FloorsSound
    <3> QED BY <3>1, <3>2
  <2> QED BY <1>3, <1>6, <2>2, <2>7, <2>8, <2>9 DEF FloorsSound, ReadersSound
<1>11. ASSUME DraftFails(t) \/ (\E v \in Local : Draft(t, v))
       PROVE  Rest
  <2>1. /\ UNCHANGED <<epoch, boot, poll, reader>>
        /\ draft' \in [Tabs -> Local \cup {Absent}]
    BY <1>6, <1>11 DEF DraftFails, Draft
  <2> QED BY <1>3, <1>6, <2>1 DEF FloorsSound, ReadersSound, AnswerSound, Polling
<1>12. ASSUME SeedEnds(t)
       PROVE  Rest
  <2>1. /\ UNCHANGED <<epoch, boot, poll, draft>>
        /\ reader' = [reader EXCEPT ![t] = Absent]
    BY <1>12 DEF SeedEnds
  <2>2. reader' \in [Tabs -> Artifacts \cup {Absent}] /\ ReadersSound'
    BY <1>3, <1>6, <2>1 DEF ReadersSound
  <2> QED BY <1>3, <1>6, <2>1, <2>2 DEF FloorsSound, AnswerSound, Polling
<1>13. ASSUME NEW a \in Artifacts, StartSeed(t, a)
       PROVE  Rest
  <2>1. /\ UNCHANGED <<epoch, boot, poll, draft>>
        /\ reader' = [reader EXCEPT ![t] = a]
        /\ Extends(a) /\ (Seed # Absent => PlaceOf[a] = PlaceOf[Seed] + 1)
    BY <1>13 DEF StartSeed
  <2>2. IF PriorOf[a] = Absent THEN PlaceOf[a] = 0 ELSE PlaceOf[a] = PlaceOf[PriorOf[a]] + 1
    BY <2>1 DEF Extends
  <2>3. reader' \in [Tabs -> Artifacts \cup {Absent}] /\ ReadersSound'
    BY <1>3, <1>6, <2>1, <2>2 DEF ReadersSound
  <2> QED BY <1>3, <1>6, <2>1, <2>3 DEF FloorsSound, AnswerSound, Polling
<1>14. Rest
  BY <1>8, <1>9, <1>10, <1>11, <1>12, <1>13
<1> QED BY <1>5, <1>14

\* A replaced bootstrap starts again at the first frames, so its floors have passed nothing.
LEMMA AcceptStep ==
    ASSUME ViewInv, NEW t \in Tabs, NEW b \in Bootstraps, Accept(t, b)
    PROVE  ViewInv'
<1>1. /\ UNCHANGED <<epoch, view, viewCount, authored, seeds, poll, draft, reader>>
      /\ boot' = [boot EXCEPT ![t] = b]
      /\ UNCHANGED <<lost, overwritten>>
      /\ \/ UNCHANGED <<floor, relay>>
         \/ floor' = b /\ relay' = [r \in Relays |-> NoState]
  BY DEF Accept, history
<1>2. NoState \in [prev : Nat, append : Nat, seen : Answers] /\ NoState.append = 0
  BY DEF NoState, Answers, Unread
<1>3. ViewTypeOK'
  BY <1>1, <1>2 DEF ViewInv, ViewTypeOK
<1>4. relay' = relay \/ \A r \in Relays : relay'[r].append = 0
  BY <1>1, <1>2
<1>5. FloorsSound'
  <2>1. \A r \in Relays : relay'[r].append \in 0..Len(Inbox[r])
    BY <1>4, Constants DEF ViewInv, FloorsSound
  <2> QED BY <1>1, <2>1 DEF ViewInv, FloorsSound, AnswerSound, Polling
<1>6. ReadersSound' /\ SeedChain' /\ CountExact' /\ RowsKeyed'
  BY <1>1 DEF ViewInv, ReadersSound, SeedChain, CountExact, RowsKeyed
<1>7. PassedIsShown'
  <2>1. Passed' \subseteq Passed
    BY <1>1, <1>4 DEF Passed
  <2> QED BY <1>1, <2>1 DEF ViewInv, PassedIsShown
<1> QED BY <1>3, <1>5, <1>6, <1>7 DEF ViewInv

\* A merge whose batch and rejected versions are what the floors pass.
LEMMA PassKeepsShown ==
    ASSUME ViewInv, NEW rec, Batch(rec), NEW rejected \in SUBSET Versions,
           \A v \in rejected : EpochOf[v] > 1,
           view' = Merged(rec), Pass(rec, rejected), overwritten' = overwritten,
           Passed' \subseteq Passed \cup rejected \cup {x[2] : x \in rec}
    PROVE  PassedIsShown' /\ RowsKeyed' /\ lost' \subseteq Versions
<1>1. view \in [Keys -> Versions \cup {Absent}] /\ RowsKeyed /\ lost \subseteq Versions
  BY DEF ViewInv, ViewTypeOK
<1>2. RowsKeyed'
  BY <1>1, MergeKeeps DEF RowsKeyed
<1>3. \A v \in Versions : Shows(view[KeyOf[v]], v) => Shows(view'[KeyOf[v]], v)
  BY <1>1, MergeKeeps
<1>4. ASSUME NEW v \in Versions, v \in Passed'
      PROVE  v \in lost' \/ KeyOf[v] \in overwritten' \/ Shows(view'[KeyOf[v]], v)
  <2>1. CASE v \in {x[2] : x \in rec} \ KeptOut(rec)
    BY <1>1, <2>1, MergeShows
  <2>2. CASE v \in rejected \cup KeptOut(rec) /\ v \notin {x[2] : x \in rec} \ KeptOut(rec)
    <3>1. CASE Shows(view[KeyOf[v]], v)
      BY <1>3, <3>1
    <3>2. CASE ~Shows(view[KeyOf[v]], v)
      BY <2>2, <3>2 DEF Pass
    <3> QED BY <3>1, <3>2
  <2>3. CASE v \in Passed /\ v \notin {x[2] : x \in rec}
    <3>1. v \in lost => v \in lost'
      BY <2>3 DEF Pass
    <3> QED BY <1>3, <2>3, <3>1 DEF ViewInv, PassedIsShown
  <2> QED BY <1>4, <2>1, <2>2, <2>3
<1>5. ASSUME NEW v \in lost'
      PROVE  v \in Versions /\ (EpochOf[v] > 1 \/ Contested(KeyOf[v]))
  <2>1. v \in lost \/ v \in rejected \/ v \in KeptOut(rec)
    BY DEF Pass
  <2> QED BY <1>1, <2>1, KeptOutHasRival DEF ViewInv, PassedIsShown
<1>6. Passed' \subseteq Versions
  BY DEF Passed
<1> QED BY <1>2, <1>4, <1>5, <1>6 DEF PassedIsShown

LEMMA CommitPollStep ==
    ASSUME ViewInv, NEW t \in Tabs, CommitPoll(t)
    PROVE  ViewInv'
<1> DEFINE p   == poll[t]
           rec == PollRecords(p)
           on(r) == Advances(p, r)
           rejected == {v \in Versions : \E r \in Relays : \E i \in p.got[r].rejected :
                           on(r) /\ Inbox[r][i] = v}
<1>1. /\ UNCHANGED <<epoch, authored, floor, seeds, boot, draft, reader, overwritten>>
      /\ poll' = [poll EXCEPT ![t] = NoPoll]
      /\ WriteView(Merged(rec)) /\ Answered(t)
      /\ \A r \in Relays : on(r) \/ ~on(r)
  BY DEF CommitPoll, Bound
<1>2. /\ relay' = [r \in Relays |->
            IF on(r) THEN [prev |-> p.from[r], append |-> p.got[r].new, seen |-> p.got[r]]
            ELSE relay[r]]
      /\ Pass(rec, rejected)
  BY DEF CommitPoll
<1>3. Batch(rec)
  BY <1>1, PollIsBatch
<1>4. view \in [Keys -> Versions \cup {Absent}] /\ RowsKeyed
  BY DEF ViewInv, ViewTypeOK
<1>5. /\ view' = Merged(rec) /\ view' \in [Keys -> Versions \cup {Absent}]
      /\ viewCount' \in 0..MaxViewRecords /\ CountExact'
  BY <1>1, <1>3, <1>4, MergeKeeps, WriteIsExact
<1>6. ASSUME NEW r \in Relays
      PROVE  /\ p.from[r] \in 0..Len(Inbox[r]) /\ p.got[r].new \in p.from[r]..Len(Inbox[r])
             /\ p.got[r] \in Answers /\ p.got[r].new \in Nat
             /\ \A j \in p.got[r].rejected : Inbox[r][j] = Junk \/ EpochOf[Inbox[r][j]] > 1
  <2>1. AnswerSound(t, r) /\ p.from[r] \in 0..Len(Inbox[r])
    BY <1>1 DEF ViewInv, FloorsSound, Answered
  <2>2. p.got[r] \in Answers
    BY DEF ViewInv, ViewTypeOK
  <2> QED BY <2>1, <2>2, Constants DEF AnswerSound
<1>7. /\ relay' \in [Relays -> [prev : Nat, append : Nat, seen : Answers]]
      /\ \A r \in Relays : relay'[r].append \in 0..Len(Inbox[r])
  <2>1. ASSUME NEW r \in Relays
        PROVE  /\ relay'[r] \in [prev : Nat, append : Nat, seen : Answers]
               /\ relay'[r].append \in 0..Len(Inbox[r])
    <3>1. CASE on(r)
      <4>1. relay'[r] = [prev |-> p.from[r], append |-> p.got[r].new, seen |-> p.got[r]]
        BY <1>2, <3>1
      <4>2. p.from[r] \in Nat /\ p.got[r].new \in 0..Len(Inbox[r])
        BY <1>6, Constants
      <4> QED BY <1>6, <4>1, <4>2
    <3>2. CASE ~on(r)
      <4>1. relay'[r] = relay[r]
        BY <1>2, <3>2
      <4> QED BY <4>1 DEF ViewInv, ViewTypeOK, FloorsSound
    <3> QED BY <3>1, <3>2
  <2> QED BY <1>2, <2>1
<1>8. PassedIsShown' /\ RowsKeyed' /\ lost' \subseteq Versions
  <2>1. ASSUME NEW v \in rejected PROVE EpochOf[v] > 1
    BY <1>6, Constants
  <2>2. ASSUME NEW v \in Passed', v \notin Passed
        PROVE  v \in rejected \cup {x[2] : x \in rec}
    <3>0. PICK r \in Relays : \E j \in 1..relay'[r].append : Inbox[r][j] = v
      BY <1>1, <2>2 DEF Passed
    <3>1. PICK j \in 1..relay'[r].append : Inbox[r][j] = v
      BY <3>0
    <3>2. v \in Versions /\ j \notin 1..relay[r].append
      BY <2>2, <3>1 DEF Passed
    <3>3. on(r)
      BY <1>2, <3>1, <3>2
    <3>4. p.from[r] = relay[r].append /\ relay'[r].append = p.got[r].new
      BY <1>2, <3>3 DEF Advances
    <3>5. j \in p.from[r] + 1 .. p.got[r].new
      BY <1>6, <3>1, <3>2, <3>4
    <3>6. CASE j \in p.got[r].rejected
      BY <3>1, <3>2, <3>3, <3>6
    <3>7. CASE j \notin p.got[r].rejected
      <4> DEFINE x == <<RelayRank[r] * (MaxReadEntries + 1) + j, Inbox[r][j]>>
      <4>1. x \in rec
        BY <3>5, <3>7 DEF PollRecords
      <4>2. x[2] = v
        BY <3>1
      <4> QED BY <4>1, <4>2
    <3> QED BY <3>6, <3>7
  <2>3. rejected \in SUBSET Versions
    OBVIOUS
  <2> HIDE DEF rejected, rec
  <2> QED BY <1>1, <1>2, <1>3, <1>5, <2>1, <2>2, <2>3, PassKeepsShown
<1>9. /\ NoPoll \in [from : [Relays -> Nat] \cup {Absent}, got : [Relays -> Answers]]
      /\ NoPoll.from = Absent /\ \A r \in Relays : NoPoll.got[r] = Unread
  BY DEF NoPoll, Unread, Answers
<1>10. /\ poll' \in [Tabs -> [from : [Relays -> Nat] \cup {Absent}, got : [Relays -> Answers]]]
       /\ \A u \in Tabs : poll'[u] = IF u = t THEN NoPoll ELSE poll[u]
  BY <1>1, <1>9 DEF ViewInv, ViewTypeOK
<1>11. ViewTypeOK'
  BY <1>1, <1>5, <1>7, <1>8, <1>10 DEF ViewInv, ViewTypeOK
<1>12. FloorsSound'
  <2>1. \A u \in Tabs : Polling(u)' => u # t /\ Polling(u)
    BY <1>9, <1>10 DEF Polling
  <2>2. \A u \in Tabs : \A r \in Relays : poll'[u].got[r] # Unread => AnswerSound(u, r)'
    BY <1>9, <1>10 DEF ViewInv, FloorsSound, AnswerSound
  <2> QED BY <1>7, <1>10, <2>1, <2>2 DEF ViewInv, FloorsSound
<1>13. ReadersSound' /\ SeedChain'
  BY <1>1 DEF ViewInv, ReadersSound, SeedChain
<1> QED BY <1>5, <1>8, <1>11, <1>12, <1>13 DEF ViewInv

LEMMA CommitDraftStep ==
    ASSUME ViewInv, NEW t \in Tabs, CommitDraft(t)
    PROVE  ViewInv'
<1> DEFINE d == draft[t]
           new == [view EXCEPT ![KeyOf[d]] = d]
<1>1. /\ UNCHANGED <<epoch, floor, relay, seeds, boot, poll, reader, lost>>
      /\ draft' = [draft EXCEPT ![t] = Absent]
      /\ d # Absent
  BY DEF CommitDraft
<1>2. d \in Local /\ d \in Versions /\ d # Absent /\ KeyOf[d] \in Keys
  BY <1>1, Constants DEF ViewInv, ViewTypeOK
<1>3. /\ FloorsSound' /\ ReadersSound' /\ SeedChain'
      /\ draft' \in [Tabs -> Local \cup {Absent}]
  BY <1>1 DEF ViewInv, ViewTypeOK, FloorsSound, AnswerSound, Polling, ReadersSound, SeedChain
<1>4. view \in [Keys -> Versions \cup {Absent}]
  BY DEF ViewInv, ViewTypeOK
<1>5. /\ WriteView(new) /\ authored' = authored \cup {d}
      /\ overwritten' = overwritten \cup {k \in {KeyOf[d]} : ~Wins(d, view[k])}
  BY DEF CommitDraft
<1>6. /\ new \in [Keys -> Versions \cup {Absent}]
      /\ \A k \in Keys : k # KeyOf[d] => new[k] = view[k]
      /\ \A k \in Keys : view[k] # Absent => new[k] # Absent
  BY <1>2, <1>4
<1>7. /\ view' = new /\ view' \in [Keys -> Versions \cup {Absent}]
      /\ viewCount' \in 0..MaxViewRecords /\ CountExact'
  BY <1>5, <1>6, WriteIsExact
<1>8. ASSUME NEW v \in Versions, Shows(view[KeyOf[v]], v)
      PROVE  KeyOf[v] \in overwritten' \/ Shows(view'[KeyOf[v]], v)
  <2> DEFINE row == view[KeyOf[v]]
  <2>1. KeyOf[v] \in Keys /\ row \in Versions /\ row # Absent
    BY <1>4, <1>8, Constants DEF Shows
  <2>2. CASE KeyOf[v] = KeyOf[d] /\ ~Wins(d, row)
    BY <1>5, <2>2
  <2>3. CASE KeyOf[v] = KeyOf[d] /\ Wins(d, row)
    <3>1. view'[KeyOf[v]] = d
      BY <1>4, <1>7, <2>1, <2>3
    <3>2. OwnerOf[d] = OwnerOf[row] /\ Newer(d, row)
      BY <2>1, <2>3 DEF Wins
    <3>3. OwnerOf[row] = OwnerOf[v] /\ ~Newer(v, row)
      BY <1>8 DEF Shows
    <3>4. ~Newer(row, d)
      BY <1>2, <2>1, <3>2, NewerAsymmetric
    <3>5. ~Newer(v, d)
      BY <1>2, <2>1, <3>3, <3>4, NewerTransitive
    <3> QED BY <1>2, <3>1, <3>2, <3>3, <3>5 DEF Shows
  <2>4. CASE KeyOf[v] # KeyOf[d]
    BY <1>6, <1>7, <1>8, <2>1, <2>4
  <2> QED BY <2>2, <2>3, <2>4
<1>9. PassedIsShown' /\ RowsKeyed'
  <2>1. Passed' = Passed /\ Passed \subseteq Versions
    BY <1>1 DEF Passed
  <2>2. RowsKeyed'
    BY <1>2, <1>4, <1>6, <1>7 DEF ViewInv, RowsKeyed
  <2>3. overwritten \subseteq overwritten'
    BY <1>5
  <2> QED BY <1>1, <1>8, <2>1, <2>2, <2>3 DEF ViewInv, PassedIsShown
<1>10. ViewTypeOK'
  BY <1>1, <1>2, <1>3, <1>5, <1>7 DEF ViewInv, ViewTypeOK
<1> QED BY <1>3, <1>7, <1>9, <1>10 DEF ViewInv

LEMMA CommitSeedStep ==
    ASSUME ViewInv, NEW t \in Tabs, CommitSeed(t)
    PROVE  ViewInv'
<1> DEFINE a == reader[t]
           rec == SeedRecords(a)
<1>1. /\ UNCHANGED <<epoch, authored, floor, relay, boot, poll, draft, overwritten>>
      /\ Pass(rec, {})
      /\ reader' = [reader EXCEPT ![t] = Absent]
      /\ seeds' = Append(seeds, a)
      /\ WriteView(Merged(rec))
      /\ a # Absent /\ Extends(a)
  BY DEF CommitSeed
<1>2. a \in Artifacts /\ seeds \in Seq(Artifacts) /\ view \in [Keys -> Versions \cup {Absent}]
  BY <1>1 DEF ViewInv, ViewTypeOK
<1>3. Batch(rec) /\ RowsKeyed
  BY <1>2, SeedIsBatch DEF ViewInv
<1>4. /\ view' = Merged(rec) /\ view' \in [Keys -> Versions \cup {Absent}]
      /\ viewCount' \in 0..MaxViewRecords /\ CountExact'
  BY <1>1, <1>2, <1>3, MergeKeeps, WriteIsExact
<1>5. /\ Len(seeds) \in Nat /\ Len(seeds') = Len(seeds) + 1
      /\ seeds' \in Seq(Artifacts) /\ seeds'[Len(seeds) + 1] = a
      /\ \A j \in 1..Len(seeds) : seeds'[j] = seeds[j]
  BY <1>1, <1>2
<1>6. PassedIsShown' /\ RowsKeyed' /\ lost' \subseteq Versions
  <2>1. ASSUME NEW v \in Passed', v \notin Passed
        PROVE  v \in {x[2] : x \in rec}
    <3>1. PICK j \in 1..Len(seeds') : v \in Holds[seeds'[j]]
      BY <1>1, <2>1 DEF Passed
    <3>2. j \notin 1..Len(seeds)
      BY <1>5, <2>1, <3>1 DEF Passed
    <3>3. v \in Holds[a]
      BY <1>5, <3>1, <3>2
    <3>4. <<0, v>> \in rec /\ <<0, v>>[2] = v
      BY <3>3 DEF SeedRecords
    <3> QED BY <3>4
  <2> HIDE DEF rec
  <2> QED BY <1>1, <1>3, <1>4, <2>1, PassKeepsShown
<1>8. ViewTypeOK' /\ FloorsSound' /\ ReadersSound'
  BY <1>1, <1>2, <1>4, <1>5, <1>6
     DEF ViewInv, ViewTypeOK, FloorsSound, AnswerSound, Polling, ReadersSound
<1>7. SeedChain'
  <2>1. PlaceOf[a] = Len(seeds) /\ (Len(seeds) > 0 => PriorOf[a] = seeds[Len(seeds)])
    <3>1. CASE seeds = <<>>
      BY <1>1, <1>5, <3>1 DEF Extends, Seed
    <3>2. CASE seeds # <<>>
      <4>1. Len(seeds) \in 1..Len(seeds) /\ seeds[Len(seeds)] \in Artifacts
        BY <1>2, <1>5, <3>2
      <4>2. Seed = seeds[Len(seeds)] /\ Seed # Absent /\ PriorOf[a] = Seed
        BY <1>1, <3>2, <4>1, Constants DEF Extends, Seed
      <4>3. PlaceOf[a] = PlaceOf[Seed] + 1
        BY <1>1, <4>2 DEF ViewInv, ReadersSound
      <4>4. PlaceOf[Seed] = Len(seeds) - 1
        BY <4>1, <4>2 DEF ViewInv, SeedChain
      <4> QED BY <1>5, <4>2, <4>3, <4>4
    <3> QED BY <3>1, <3>2
  <2>2. ASSUME NEW j \in 1..Len(seeds')
        PROVE  /\ PlaceOf[seeds'[j]] = j - 1
               /\ j > 1 => PriorOf[seeds'[j]] = seeds'[j - 1]
    <3>1. CASE j = Len(seeds) + 1
      BY <1>5, <2>1, <3>1
    <3>2. CASE j \in 1..Len(seeds)
      <4>1. seeds'[j] = seeds[j] /\ (j > 1 => seeds'[j - 1] = seeds[j - 1])
        BY <1>5, <3>2
      <4> QED BY <3>2, <4>1 DEF ViewInv, SeedChain
    <3> QED BY <1>5, <2>2, <3>1, <3>2
  <2> QED BY <2>2 DEF SeedChain
<1> QED BY <1>4, <1>6, <1>7, <1>8 DEF ViewInv

-----------------------------------------------------------------------------
(* Theorems *)

LEMMA StepInv == ViewInv /\ [Next]_vars => ViewInv'
<1> SUFFICES ASSUME ViewInv, [Next]_vars PROVE ViewInv'
  OBVIOUS
<1>1. CASE UNCHANGED vars
  BY <1>1 DEF vars, journal, tabs, ViewInv, ViewTypeOK, FloorsSound, AnswerSound, Polling,
     ReadersSound, CountExact, SeedChain, RowsKeyed, PassedIsShown, Passed, history
<1>2. ASSUME NEW t \in Tabs, TabStep(t)
      PROVE  ViewInv'
  BY <1>2, QuietStep, AcceptStep, CommitPollStep, CommitDraftStep, CommitSeedStep
     DEF TabStep, PollStep
<1>3. CASE Tick
  <2>1. epoch' \in 0..MaxEpoch /\ UNCHANGED <<journal, tabs, history>>
    BY <1>3, Constants DEF Tick, ViewInv, ViewTypeOK
  <2>2. UNCHANGED <<view, viewCount, authored, floor, relay, seeds, boot, poll, draft, reader,
                    lost, overwritten>>
    BY <2>1 DEF journal, tabs, history
  <2>3. ViewTypeOK' /\ FloorsSound' /\ ReadersSound'
    BY <2>1, <2>2 DEF ViewInv, ViewTypeOK, FloorsSound, AnswerSound, Polling, ReadersSound
  <2> QED BY <2>1, <2>3, JournalKept DEF ViewInv
<1> QED BY <1>1, <1>2, <1>3 DEF Next

THEOREM ViewInvariant == Spec => []ViewInv
<1> QED BY InitInv, StepInv, PTL DEF Spec

\* Every row, floor and poll in flight has its type, and the view stays within its limit.
THEOREM ViewTypeCorrect == Spec => []ViewTypeOK
<1>1. ViewInv => ViewTypeOK
  BY DEF ViewInv
<1> QED BY ViewInvariant, <1>1, PTL

\* Every record that an append floor or the seed floor passed is shown, or a newer one of its
\* owner is, except those lost to a clock behind the lease epoch of their announcement or to a
\* rival owner of their key, and those at a key where a record of this device was written over
\* a row it does not win over: for any number of tabs, relays, owners, versions and seeds.
THEOREM PassedAreShown == Spec => []PassedIsShown
<1>1. ViewInv => PassedIsShown
  BY DEF ViewInv
<1> QED BY ViewInvariant, <1>1, PTL

\* The counter of the view is the number of its rows.
THEOREM CountCorrect == Spec => []CountExact
<1>1. ViewInv => CountExact
  BY DEF ViewInv
<1> QED BY ViewInvariant, <1>1, PTL

\* The ingested seeds are one chain.
THEOREM SeedsChain == Spec => []SeedChain
<1>1. ViewInv => SeedChain
  BY DEF ViewInv
<1> QED BY ViewInvariant, <1>1, PTL

\* No step takes an append floor back under the bootstrap it belongs to, and no step returns
\* to an earlier bootstrap.
THEOREM FloorsNeverReturn == Spec => FloorsAdvance
<1> DEFINE Ahead == /\ floor' # floor => floor = Absent \/ SequenceOf[floor'] > SequenceOf[floor]
                    /\ \/ floor' # floor
                       \/ \A r \in Relays : relay'[r].append >= relay[r].append
<1>1. ViewInv /\ [Next]_vars => [Ahead]_vars
  <2> SUFFICES ASSUME ViewInv, Next PROVE Ahead
    OBVIOUS
  <2>1. \A r \in Relays : relay[r].append \in Nat
    BY DEF ViewInv, ViewTypeOK
  <2>2. ASSUME UNCHANGED <<floor, relay>> PROVE Ahead
    BY <2>1, <2>2
  <2>3. ASSUME NEW t \in Tabs, NEW b \in Bootstraps, Accept(t, b) PROVE Ahead
    <3>1. CASE UNCHANGED <<floor, relay>>
      BY <2>2, <3>1
    <3>2. CASE floor' = b /\ (floor # Absent => SequenceOf[b] > SequenceOf[floor])
      <4>1. floor \in Bootstraps => SequenceOf[floor] \in Nat
        BY Constants
      <4>2. floor' # floor
        BY <3>2, <4>1, Constants DEF ViewInv, ViewTypeOK
      <4> QED BY <3>2, <4>2
    <3> QED BY <2>3, <3>1, <3>2 DEF Accept
  <2>4. ASSUME NEW t \in Tabs, CommitPoll(t) PROVE Ahead
    <3>1. ASSUME NEW r \in Relays PROVE relay'[r].append >= relay[r].append
      <4>1. CASE Advances(poll[t], r)
        <5>1. relay'[r].append = poll[t].got[r].new
          BY <2>4, <4>1 DEF CommitPoll
        <5>2. poll[t].got[r].new > relay[r].append
          BY <4>1 DEF Advances
        <5>3. poll[t].got[r].new \in Nat \cup {-1}
          BY DEF ViewInv, ViewTypeOK, Answers
        <5> QED BY <2>1, <5>1, <5>2, <5>3
      <4>2. CASE ~Advances(poll[t], r)
        <5>1. relay'[r] = relay[r]
          BY <2>4, <4>2 DEF CommitPoll
        <5> QED BY <2>1, <5>1
      <4> QED BY <4>1, <4>2
    <3>2. floor' = floor
      BY <2>4 DEF CommitPoll
    <3> QED BY <3>1, <3>2
  <2>5. ASSUME Tick PROVE UNCHANGED <<floor, relay>>
    BY <2>5 DEF Tick, journal
  <2>6. ASSUME NEW t \in Tabs, TabStep(t)
        PROVE  \/ UNCHANGED <<floor, relay>> \/ CommitPoll(t)
               \/ \E b \in Bootstraps : Accept(t, b)
    BY <2>6 DEF TabStep, PollStep, PollFails, Reload, CommitDraft, DraftFails, CommitSeed, SeedEnds,
       Draft, StartSeed, StartPoll, PollEnds, ReadRelay, journal
  <2> QED BY <2>2, <2>3, <2>4, <2>5, <2>6 DEF Next
<1>2. FloorsAdvance <=> [][Ahead]_vars
  BY PTL DEF FloorsAdvance
<1> QED BY ViewInvariant, <1>1, <1>2, PTL DEF Spec
=============================================================================
