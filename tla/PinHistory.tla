----------------------------- MODULE PinHistory -----------------------------
(***************************************************************************)
(* The durable witness of the signed release history                       *)
(* (js/substrate/pin-history-witness-backend.mjs) as a booting page uses   *)
(* it (js/substrate/pin-history-bootstrap.mjs).  The site serves a history *)
(* of release pins; it is verified from the genesis pin compiled into the  *)
(* page, compared with the terminal this browser has witnessed and, when   *)
(* it continues that terminal, appended to it before the page may go on.   *)
(* Pages of one browser share the witness and boot concurrently; each page *)
(* has a backend of its own, which remembers the last record it observed.  *)
(*                                                                         *)
(* A pin stands for the pin and its checkpoint.  Each names its            *)
(* predecessor by hash, so a pin determines the history that ends with it, *)
(* and a verified history is its last pin.  The authority may have signed  *)
(* two histories that fork, and the site may serve an old one.             *)
(*                                                                         *)
(* IndexedDB can be evicted, or come back from a backup of the profile:    *)
(* the store detects this only while a page that observed it lives.        *)
(***************************************************************************)
EXTENDS Naturals

CONSTANTS
    Pages,
    Pins, Genesis,
    Before,      \* <<a, b>>: a is b, or a predecessor of b
    SequenceOf,  \* releaseSequence
    None,
    MaxSegments, \* MAX_SEGMENTS
    MaxSeals, MaxLosses \* bounds of the checked instance

Records == [cas : Nat, generation : Nat, terminal : Pins, segments : 0..MaxSegments]

ASSUME PinAssumption ==
    /\ Genesis \in Pins /\ None \notin Records
    /\ SequenceOf \in [Pins -> Nat]
    /\ MaxSegments \in Nat /\ MaxSeals \in Nat /\ MaxLosses \in Nat

\* What verifyPeeritPinHistoryBundleV1 establishes: histories are chains from the
\* genesis pin, numbered without a gap.
ASSUME ChainAssumption ==
    /\ Before \subseteq Pins \X Pins
    /\ \A a \in Pins : <<a, a>> \in Before /\ <<Genesis, a>> \in Before
    /\ \A a, b, c \in Pins : <<a, b>> \in Before /\ <<b, c>> \in Before => <<a, c>> \in Before
    /\ \A a, b \in Pins : <<a, b>> \in Before =>
        /\ SequenceOf[a] <= SequenceOf[b]
        /\ SequenceOf[a] = SequenceOf[b] => a = b

VARIABLES
    record,   \* the witness: casVersion, generation, terminal, number of segments
    backup,   \* the witness in a backup of the browser profile
    seals,    \* records written, each with a generation of its own
    losses,
    \* per page
    pc,
    served,   \* terminal of the history the site served
    version,  \* summary.version
    anchor,   \* the rehydrated terminal
    loaded,   \* the record an append loaded
    observed, \* the last record the page's backend observed
    \* history
    accepted  \* terminals pages went on with since the last loss

pageVars == <<pc, served, version, anchor, loaded, observed>>
vars == <<record, backup, seals, losses, pageVars, accepted>>

Init ==
    /\ record = None /\ backup = None /\ seals = 0 /\ losses = 0
    /\ pc = [p \in Pages |-> "closed"]
    /\ served = [p \in Pages |-> Genesis]
    /\ version = [p \in Pages |-> 0]
    /\ anchor = [p \in Pages |-> Genesis]
    /\ loaded = [p \in Pages |-> None]
    /\ observed = [p \in Pages |-> None]
    /\ accepted = {}

Go(p, step) == pc' = [pc EXCEPT ![p] = step]

-----------------------------------------------------------------------------
(* The store as one backend sees it *)

\* observe: has this record replaced the last one without going back?
Follows(r, o) ==
    /\ r.cas >= o.cas
    /\ SequenceOf[r.terminal] >= SequenceOf[o.terminal]
    /\ r.cas = o.cas => r.generation = o.generation /\ r.terminal = o.terminal
    /\ SequenceOf[r.terminal] = SequenceOf[o.terminal] => r.terminal = o.terminal

\* load throws for an observed witness that disappeared, went back or forked.
LoadThrows(p) ==
    /\ observed[p] # None
    /\ record # None => ~Follows(record, observed[p])

Loads(p) == ~LoadThrows(p) /\ record # None

Observe(p, r) == observed' = [observed EXCEPT ![p] = r]

Sealed(cas, terminal, segments) ==
    [cas |-> cas, generation |-> seals + 1, terminal |-> terminal, segments |-> segments]

\* Mutant: the generation is not compared.
UnchangedByVersion(r) == record # None /\ record.cas = r.cas

\* The record comparison of the transaction of compareAndSwap.
Unchanged(r) == record # None /\ record.generation = r.generation /\ record.cas = r.cas

-----------------------------------------------------------------------------
(* Boot *)

\* The verified history of the site; a fetch or a verification that fails blocks the
\* page before it touches the witness.
Fetch(p, h) ==
    /\ pc[p] = "closed"
    /\ served' = [served EXCEPT ![p] = h]
    /\ Go(p, "read")
    /\ UNCHANGED <<record, backup, seals, losses, version, anchor, loaded, observed, accepted>>

Throws(p) ==
    /\ pc[p] \in {"read", "install", "rehydrate", "append"}
    /\ LoadThrows(p)
    /\ Go(p, "blocked")
    /\ UNCHANGED <<record, backup, seals, losses, served, version, anchor, loaded, observed, accepted>>

\* backend.read, before and after initialize
Read(p) ==
    /\ pc[p] = "read" /\ ~LoadThrows(p)
    /\ IF record = None
       THEN Go(p, "install") /\ UNCHANGED <<version, observed>>
       ELSE /\ version' = [version EXCEPT ![p] = record.cas]
            /\ Observe(p, record)
            /\ Go(p, "rehydrate")
    /\ UNCHANGED <<record, backup, seals, losses, served, anchor, loaded, accepted>>

\* initialize: its load, then its putIfAbsent.  Its result is not looked at.
Install(p) ==
    /\ pc[p] = "install" /\ ~LoadThrows(p)
    /\ IF record = None
       THEN Go(p, "insert") /\ UNCHANGED observed
       ELSE Observe(p, record) /\ Go(p, "read")
    /\ UNCHANGED <<record, backup, seals, losses, served, version, anchor, loaded, accepted>>

Insert(p) ==
    /\ pc[p] = "insert" /\ seals < MaxSeals
    /\ IF record = None
       THEN record' = Sealed(1, Genesis, 0) /\ seals' = seals + 1
       ELSE UNCHANGED <<record, seals>>
    /\ Observe(p, record')
    /\ Go(p, "read")
    /\ UNCHANGED <<backup, losses, served, version, anchor, loaded, accepted>>

\* A page that found, or made, its history the witnessed one goes on.
Accept(p) ==
    /\ accepted' = accepted \cup {served[p]}
    /\ Go(p, "finish")

\* Mutant: the release sequences are compared, the pin hashes are not.
RehydrateBySequence(p) ==
    /\ pc[p] = "rehydrate" /\ Loads(p)
    /\ Observe(p, record)
    /\ anchor' = [anchor EXCEPT ![p] = record.terminal]
    /\ IF SequenceOf[record.terminal] = SequenceOf[served[p]]
       THEN Accept(p)
       ELSE /\ Go(p, IF <<record.terminal, served[p]>> \in Before THEN "append" ELSE "blocked")
            /\ UNCHANGED accepted
    /\ UNCHANGED <<record, backup, seals, losses, served, version, loaded>>

\* rehydrate from the genesis pin, which is the base of every witness the boot makes
Rehydrate(p) ==
    /\ pc[p] = "rehydrate" /\ Loads(p)
    /\ Observe(p, record)
    /\ anchor' = [anchor EXCEPT ![p] = record.terminal]
    /\ IF record.terminal = served[p]
       THEN Accept(p)
       ELSE /\ Go(p, IF <<record.terminal, served[p]>> \in Before THEN "append" ELSE "blocked")
            /\ UNCHANGED accepted
    /\ UNCHANGED <<record, backup, seals, losses, served, version, loaded>>

\* Mutant: the number of segments is not bounded.
AppendUnbounded(p) ==
    /\ pc[p] = "append" /\ Loads(p)
    /\ Observe(p, record)
    /\ IF record.cas = version[p] /\ record.terminal = anchor[p]
       THEN Go(p, "swap") /\ loaded' = [loaded EXCEPT ![p] = record]
       ELSE Go(p, "blocked") /\ UNCHANGED loaded
    /\ UNCHANGED <<record, backup, seals, losses, served, version, anchor, accepted>>

\* append: its load and checks
Append(p) ==
    /\ pc[p] = "append" /\ Loads(p)
    /\ Observe(p, record)
    /\ IF /\ record.cas = version[p]
          /\ record.terminal = anchor[p]
          /\ record.segments < MaxSegments
       THEN Go(p, "swap") /\ loaded' = [loaded EXCEPT ![p] = record]
       ELSE Go(p, "blocked") /\ UNCHANGED loaded
    /\ UNCHANGED <<record, backup, seals, losses, served, version, anchor, accepted>>

\* append: its compareAndSwap; a lost one blocks the page until it is reloaded.
Swap(p) ==
    /\ pc[p] = "swap" /\ seals < MaxSeals
    /\ IF Unchanged(loaded[p])
       THEN /\ record' = Sealed(loaded[p].cas + 1, served[p], loaded[p].segments + 1)
            /\ seals' = seals + 1
            /\ Observe(p, record')
            /\ Accept(p)
       ELSE Go(p, "blocked") /\ UNCHANGED <<record, seals, observed, accepted>>
    /\ UNCHANGED <<backup, losses, served, version, anchor, loaded>>

\* The release sequence of the page itself decides, after the witness has moved.
Finish(p, ok) ==
    /\ pc[p] = "finish"
    /\ Go(p, IF ok THEN "active" ELSE "blocked")
    /\ UNCHANGED <<record, backup, seals, losses, served, version, anchor, loaded, observed, accepted>>

\* A reload or a crash: the next backend has observed nothing.
Close(p) ==
    /\ pc[p] # "closed"
    /\ Go(p, "closed")
    /\ served' = [served EXCEPT ![p] = Genesis]
    /\ version' = [version EXCEPT ![p] = 0]
    /\ anchor' = [anchor EXCEPT ![p] = Genesis]
    /\ loaded' = [loaded EXCEPT ![p] = None]
    /\ observed' = [observed EXCEPT ![p] = None]
    /\ UNCHANGED <<record, backup, seals, losses, accepted>>

PageStep(p) ==
    \/ \E h \in Pins : Fetch(p, h)
    \/ Throws(p) \/ Read(p) \/ Install(p) \/ Insert(p) \/ Rehydrate(p) \/ Append(p) \/ Swap(p)
    \/ \E ok \in BOOLEAN : Finish(p, ok)
    \/ Close(p)

-----------------------------------------------------------------------------
(* The browser profile *)

BackUp ==
    /\ backup' = record
    /\ UNCHANGED <<record, seals, losses, pageVars, accepted>>

Lose(r) ==
    /\ losses < MaxLosses
    /\ record' = r
    /\ losses' = losses + 1
    /\ accepted' = {}
    /\ UNCHANGED <<backup, seals, pageVars>>

Next == (\E p \in Pages : PageStep(p)) \/ BackUp \/ Lose(None) \/ Lose(backup)

Spec == Init /\ [][Next]_vars

-----------------------------------------------------------------------------
(* Properties *)

\* The type invariant of the witness, its backup and the pages.
PinTypeOK ==
    /\ record \in Records \cup {None} /\ backup \in Records \cup {None}
    /\ seals \in Nat /\ losses \in Nat
    /\ pc \in [Pages -> {"closed", "read", "install", "insert", "rehydrate", "append", "swap",
                         "finish", "active", "blocked"}]
    /\ served \in [Pages -> Pins] /\ anchor \in [Pages -> Pins]
    /\ version \in [Pages -> Nat]
    /\ loaded \in [Pages -> Records \cup {None}] /\ observed \in [Pages -> Records \cup {None}]
    /\ accepted \subseteq Pins

\* Nothing but a loss of the storage takes the witnessed terminal back or to another
\* branch, whatever was loaded before the write that moves it.
WitnessAdvances ==
    [][losses' = losses /\ record # None =>
        /\ record' # None
        /\ <<record.terminal, record'.terminal>> \in Before]_vars

\* A page goes on only with a history that continues those of all pages before it, so a
\* site that serves an old or a forked history to one page is refused (the storage kept).
RollbackRefused ==
    [][\A p \in Pages : pc'[p] = "finish" /\ pc[p] # "finish" =>
        \A h \in accepted : <<h, served[p]>> \in Before]_vars
=============================================================================
