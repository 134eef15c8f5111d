-------------------------- MODULE Seq29Publication --------------------------
(***************************************************************************)
(* The explicit publication of authored intents to the two relays of the   *)
(* Seq29 public inbox.  A user action starts a pass: the tab enters the    *)
(* writer session, puts the cells, reserves the next place of the author's *)
(* chain in the journal together with the exact APPEND requests, and then  *)
(* works through the relays, each under a lease of its own.  A pass that   *)
(* fails is repeated only by the user, whom a retry marker reminds of it.  *)
(*                                                                         *)
(* A step is a stretch between two awaits.  A tab may be closed or         *)
(* reloaded before any of them; an APPEND on the wire outlives its tab.    *)
(* Frames, requests and signatures are abstracted: an intent is its        *)
(* content, and an accepted answer implies that the relay has the frame.   *)
(***************************************************************************)
EXTENDS Integers, FiniteSets, Sequences

CONSTANTS
    Tabs,       \* open pages of the site
    Intents,    \* what users author, one intent per action
    RelayOrder, \* the relays, in the order every pass visits them
    Lease,      \* 60 s of the code
    MaxTime,    \* bound on the clock
    MaxPasses,  \* bound on the passes a tab starts
    Absent,     \* no intent, no row, no tab
    NoLocks     \* in place of a holder where the browser has no navigator.locks

Relays == {RelayOrder[k] : k \in DOMAIN RelayOrder}

VARIABLES
    \* the journal
    head,       \* the author head: next sequence, previous record
    row,        \* publication rows, Absent until committed
    clock,
    \* each tab
    pass,       \* the pass it is executing
    passes,     \* how many it has started
    pending,    \* the marker it holds in memory (ui.pendingIntentId)
    blocked,    \* it has latched a storage failure
    \* shared by the tabs
    lock,       \* holder of the writer session, or NoLocks for ever
    marker,     \* the marker in localStorage
    authored,   \* intents users have authored
    \* the relays
    wire,       \* APPENDs sent and neither stored nor lost
    frames,     \* <<intent, relay>> whose frame the relay has
    unread      \* history: APPENDs sent since a READ last reported absence

journalVars == <<head, row>>
uiVars      == <<pending, marker>>
relayVars   == <<wire, frames, unread>>
vars == <<head, row, clock, pass, passes, pending, blocked, lock, marker,
          authored, wire, frames, unread>>

Pairs   == Intents \X Relays
Heads   == [next : Nat, previous : Intents \cup {Absent}]
Stages  == {"prepared", "sending", "reconciling", "pending-unknown", "succeeded"}
Targets == [stage : Stages, token : Tabs \cup {Absent}, leaseUntil : Nat]
Rows    == [sequence : Nat,
            before   : Intents \cup {Absent},
            relays   : [Relays -> Targets]]

\* Where a pass is: before the reservation, between two relays, at a relay.
RelayPoints == {"sending", "awaiting", "reading", "marking", "completing", "failing"}
Points      == {"idle", "waiting", "putting", "visiting"} \cup RelayPoints
Passes      == [at : Points, intent : Intents \cup {Absent},
                visit : 0..Len(RelayOrder) + 1, head : Heads]

ASSUME PublicationAssumption ==
    /\ IsFiniteSet(Intents)
    /\ Lease \in Nat \ {0}
    /\ MaxTime \in Nat
    /\ MaxPasses \in Nat
    /\ Len(RelayOrder) \in Nat
    /\ DOMAIN RelayOrder = 1..Len(RelayOrder)
    /\ \A i, j \in DOMAIN RelayOrder : RelayOrder[i] = RelayOrder[j] => i = j
    /\ Absent \notin Tabs \cup Intents \cup Rows
    /\ NoLocks \notin Tabs \cup {Absent}

NoHead == [next |-> 0, previous |-> Absent]
Idle   == [at |-> "idle", intent |-> Absent, visit |-> 0, head |-> NoHead]

Init ==
    /\ head = NoHead
    /\ row = [h \in Intents |-> Absent]
    /\ clock = 0
    /\ pass = [t \in Tabs |-> Idle]
    /\ passes = [t \in Tabs |-> 0]
    /\ pending = [t \in Tabs |-> Absent]
    /\ blocked = {}
    /\ lock \in {Absent, NoLocks}
    /\ marker = Absent
    /\ authored = {}
    /\ wire = {}
    /\ frames = {}
    /\ unread = [p \in Pairs |-> 0]

-----------------------------------------------------------------------------
(* What a step of tab t reads.                                             *)

Committed(h) == row[h] # Absent
Reserved     == {h \in Intents : Committed(h)}
Confirmed(p) == Committed(p[1]) /\ row[p[1]].relays[p[2]].stage = "succeeded"
Completed(h) == \A r \in Relays : row[h].relays[r].stage = "succeeded"

Visiting(t) == RelayOrder[pass[t].visit]
Pair(t)     == <<pass[t].intent, Visiting(t)>>
Target(t)   == row[pass[t].intent].relays[Visiting(t)]

\* A live lease keeps everybody else out; it ends at its last instant.
Leased(target) == target.token # Absent /\ target.leaseUntil > clock

\* The holder may still write at that instant, unless it was replaced.
Holds(t) == Target(t).token = t /\ Target(t).leaseUntil >= clock

SetTarget(t, target) ==
    row' = [row EXCEPT ![pass[t].intent].relays[Visiting(t)] = target]

Goto(t, point) == pass' = [pass EXCEPT ![t].at = point]
NextRelay(t) ==
    pass' = [pass EXCEPT ![t].at = "visiting", ![t].visit = @ + 1]

\* The pass ends and the writer session with it.
Leave(t) ==
    /\ pass' = [pass EXCEPT ![t] = Idle]
    /\ lock' = IF lock = t THEN Absent ELSE lock

-----------------------------------------------------------------------------
(* The user and the page.                                                  *)

StartPass(t, h) ==
    /\ pass[t] = Idle
    /\ passes[t] < MaxPasses
    /\ passes' = [passes EXCEPT ![t] = @ + 1]
    /\ pending' = [pending EXCEPT ![t] = h]
    /\ marker' = h
    /\ pass' = [pass EXCEPT ![t] = [Idle EXCEPT !.at = "waiting", !.intent = h]]
    /\ UNCHANGED <<journalVars, clock, blocked, lock, relayVars>>

\* A new action is refused while the tab has a publication to retry, and
\* nothing can be journalled once the tab has latched a failure.
Author(t, h) ==
    /\ pending[t] = Absent
    /\ t \notin blocked
    /\ h \notin authored
    /\ authored' = authored \cup {h}
    /\ StartPass(t, h)

Retry(t) ==
    /\ pending[t] # Absent
    /\ StartPass(t, pending[t])
    /\ UNCHANGED authored

\* A page is closed or reloaded.  The new one takes the marker from storage.
Reload(t) ==
    /\ Leave(t)
    /\ pending' = [pending EXCEPT ![t] = marker]
    /\ blocked' = blocked \ {t}
    /\ UNCHANGED <<journalVars, clock, passes, marker, authored, relayVars>>

\* The pass rejects: the marker stays for the user to retry.
GivesUp(t) ==
    /\ Leave(t)
    /\ UNCHANGED <<journalVars, clock, passes, uiVars, blocked, authored,
                   relayVars>>

\* The pass resolves, completed or not, and the marker is removed.
Resolve(t) ==
    /\ pass[t].at = "visiting"
    /\ pass[t].visit > Len(RelayOrder)
    /\ Leave(t)
    /\ IF pending[t] = pass[t].intent
       THEN /\ pending' = [pending EXCEPT ![t] = Absent]
            /\ marker' = Absent
       ELSE UNCHANGED uiVars
    /\ UNCHANGED <<journalVars, clock, passes, blocked, authored, relayVars>>

-----------------------------------------------------------------------------
(* From the writer session to the reservation.  A tab that has latched a    *)
(* failure does not reserve: what it may still retry has its row already.  *)

\* [mutant] The session is entered without the lock.
AnySession == TRUE

\* With Web Locks one tab at a time; without, only the tab's own queue.
SessionFree == lock \in {Absent, NoLocks}

\* The row is looked up first.  A publication that has one continues with the
\* requests it stored; a new one reads the author head its AuthorBind names.
Enter(t) ==
    /\ pass[t].at = "waiting"
    /\ SessionFree
    /\ lock' = IF lock = NoLocks THEN NoLocks ELSE t
    /\ pass' = IF Committed(pass[t].intent)
               THEN [pass EXCEPT ![t].at = "visiting", ![t].visit = 1]
               ELSE [pass EXCEPT ![t].at = "putting", ![t].head = head]
    /\ UNCHANGED <<journalVars, clock, passes, uiVars, blocked, authored,
                   relayVars>>

EnterFails(t) == pass[t].at = "waiting" /\ SessionFree /\ GivesUp(t)

\* A PUT, its readback or the preparation of an APPEND fails.
PutsFail(t) == pass[t].at = "putting" /\ GivesUp(t)

\* [mutant] A stage the journal's own validation does not know.
NewTargetUnknown == [stage |-> "new", token |-> Absent, leaseUntil |-> 0]

NewTarget == [stage |-> "prepared", token |-> Absent, leaseUntil |-> 0]

\* [mutant] The reservation trusts the head the pass read.
CommitUnchecked(t) ==
    LET h == pass[t].intent IN
    /\ pass[t].at = "putting"
    /\ ~Committed(h)
    /\ row' = [row EXCEPT ![h] =
                 [sequence |-> pass[t].head.next,
                  before   |-> pass[t].head.previous,
                  relays   |-> [r \in Relays |-> NewTarget]]]
    /\ head' = [next |-> pass[t].head.next + 1, previous |-> h]
    /\ pass' = [pass EXCEPT ![t].at = "visiting", ![t].visit = 1]
    /\ UNCHANGED <<clock, passes, uiVars, blocked, lock, authored, relayVars>>

\* The requests and the advanced head become durable together.
Commit(t) ==
    LET h == pass[t].intent IN
    /\ pass[t].at = "putting"
    /\ ~Committed(h)
    /\ pass[t].head = head
    /\ row' = [row EXCEPT ![h] =
                 [sequence |-> head.next,
                  before   |-> head.previous,
                  relays   |-> [r \in Relays |-> NewTarget]]]
    /\ head' = [next |-> head.next + 1, previous |-> h]
    /\ pass' = [pass EXCEPT ![t].at = "visiting", ![t].visit = 1]
    /\ UNCHANGED <<clock, passes, uiVars, blocked, lock, authored, relayVars>>

\* AUTHOR_HEAD_STALE.
CommitStale(t) ==
    /\ pass[t].at = "putting"
    /\ ~Committed(pass[t].intent)
    /\ pass[t].head # head
    /\ GivesUp(t)

\* Another pass has reserved this intent with frames of its own: the bytes
\* differ, the journal reports corruption and the tab latches it.
CommitConflicts(t) ==
    /\ pass[t].at = "putting"
    /\ Committed(pass[t].intent)
    /\ blocked' = blocked \cup {t}
    /\ Leave(t)
    /\ UNCHANGED <<journalVars, clock, passes, uiVars, authored, relayVars>>

-----------------------------------------------------------------------------
(* One relay of a pass.                                                    *)

AtRelay(t) == pass[t].at = "visiting" /\ pass[t].visit <= Len(RelayOrder)

\* Settled, or leased to another attempt: the pass goes on to the next relay.
Skip(t) ==
    /\ AtRelay(t)
    /\ \/ Target(t).stage = "succeeded"
       \/ Leased(Target(t)) /\ t \notin blocked
    /\ NextRelay(t)
    /\ UNCHANGED <<journalVars, clock, passes, uiVars, blocked, lock, authored,
                   relayVars>>

\* [mutant] A failed attempt is taken for one that was never sent.
ClaimedAfterFailure(stage) ==
    IF stage \in {"prepared", "pending-unknown"} THEN "sending" ELSE "reconciling"

\* Only a request that nobody has claimed before may be sent unseen.
ClaimedStage(stage) == IF stage = "prepared" THEN "sending" ELSE "reconciling"

\* [mutant] The claim does not look whether the relay has succeeded.
ClaimSettled(t) ==
    LET stage == ClaimedStage(Target(t).stage) IN
    /\ AtRelay(t)
    /\ t \notin blocked
    /\ ~Leased(Target(t))
    /\ SetTarget(t, [stage |-> stage, token |-> t, leaseUntil |-> clock + Lease])
    /\ Goto(t, IF stage = "sending" THEN "sending" ELSE "reading")
    /\ UNCHANGED <<head, clock, passes, uiVars, blocked, lock, authored,
                   relayVars>>

Claim(t) ==
    LET stage == ClaimedStage(Target(t).stage) IN
    /\ AtRelay(t)
    /\ t \notin blocked
    /\ Target(t).stage # "succeeded"
    /\ ~Leased(Target(t))
    /\ SetTarget(t, [stage |-> stage, token |-> t, leaseUntil |-> clock + Lease])
    /\ Goto(t, IF stage = "sending" THEN "sending" ELSE "reading")
    /\ UNCHANGED <<head, clock, passes, uiVars, blocked, lock, authored,
                   relayVars>>

ClaimBlocked(t) ==
    /\ AtRelay(t)
    /\ t \in blocked
    /\ Target(t).stage # "succeeded"
    /\ GivesUp(t)

\* An authenticated READ of the whole snapshot.
ReadPresent(t) ==
    /\ pass[t].at = "reading"
    /\ Pair(t) \in frames
    /\ Goto(t, "completing")
    /\ UNCHANGED <<journalVars, clock, passes, uiVars, blocked, lock, authored,
                   relayVars>>

ReadAbsent(t) ==
    /\ pass[t].at = "reading"
    /\ Pair(t) \notin frames
    /\ unread' = [unread EXCEPT ![Pair(t)] = 0]
    /\ Goto(t, "marking")
    /\ UNCHANGED <<journalVars, clock, passes, uiVars, blocked, lock, authored,
                   wire, frames>>

MarkAbsent(t) ==
    /\ pass[t].at = "marking"
    /\ Holds(t)
    /\ SetTarget(t, [Target(t) EXCEPT !.stage = "sending"])
    /\ Goto(t, "sending")
    /\ UNCHANGED <<head, clock, passes, uiVars, blocked, lock, authored,
                   relayVars>>

SendAppend(t) ==
    /\ pass[t].at = "sending"
    /\ wire' = wire \cup {Pair(t)}
    /\ unread' = [unread EXCEPT ![Pair(t)] = @ + 1]
    /\ Goto(t, "awaiting")
    /\ UNCHANGED <<journalVars, clock, passes, uiVars, blocked, lock, authored,
                   frames>>

\* [mutant] An answer is accepted without the frame hash it must bind.
AppendUnbound(t) ==
    /\ pass[t].at = "awaiting"
    /\ Goto(t, "completing")
    /\ UNCHANGED <<journalVars, clock, passes, uiVars, blocked, lock, authored,
                   relayVars>>

AppendOk(t) ==
    /\ pass[t].at = "awaiting"
    /\ Pair(t) \in frames
    /\ Goto(t, "completing")
    /\ UNCHANGED <<journalVars, clock, passes, uiVars, blocked, lock, authored,
                   relayVars>>

Complete(t) ==
    /\ pass[t].at = "completing"
    /\ Holds(t)
    /\ SetTarget(t, [stage |-> "succeeded", token |-> Absent, leaseUntil |-> 0])
    /\ NextRelay(t)
    /\ UNCHANGED <<head, clock, passes, uiVars, blocked, lock, authored,
                   relayVars>>

\* A rejected, lost or late answer, an unreadable snapshot, a stale claim.
Fails(t) ==
    /\ \/ pass[t].at \in {"reading", "sending", "awaiting"}
       \/ pass[t].at \in {"marking", "completing"} /\ ~Holds(t)
    /\ Goto(t, "failing")
    /\ UNCHANGED <<journalVars, clock, passes, uiVars, blocked, lock, authored,
                   relayVars>>

\* The attempt is recorded as ambiguous if it is still this tab's, and the
\* error ends the pass: the relays after this one are not visited.
RecordFailure(t) ==
    /\ pass[t].at = "failing"
    /\ IF Holds(t)
       THEN SetTarget(t, [stage |-> "pending-unknown", token |-> Absent,
                          leaseUntil |-> 0])
       ELSE row' = row
    /\ Leave(t)
    /\ UNCHANGED <<head, clock, passes, uiVars, blocked, authored, relayVars>>

-----------------------------------------------------------------------------
(* The network, and time.                                                  *)

Arrive(p) ==
    /\ p \in wire
    /\ wire' = wire \ {p}
    /\ frames' = frames \cup {p}
    /\ UNCHANGED <<journalVars, clock, pass, passes, uiVars, blocked, lock,
                   authored, unread>>

Lose(p) ==
    /\ p \in wire
    /\ wire' = wire \ {p}
    /\ UNCHANGED <<journalVars, clock, pass, passes, uiVars, blocked, lock,
                   authored, frames, unread>>

Tick ==
    /\ clock < MaxTime
    /\ clock' = clock + 1
    /\ UNCHANGED <<journalVars, pass, passes, uiVars, blocked, lock, authored,
                   relayVars>>

PassStep(t) ==
    \/ Enter(t) \/ EnterFails(t)
    \/ PutsFail(t) \/ Commit(t) \/ CommitStale(t) \/ CommitConflicts(t)
    \/ Skip(t) \/ Claim(t) \/ ClaimBlocked(t)
    \/ ReadPresent(t) \/ ReadAbsent(t) \/ MarkAbsent(t)
    \/ SendAppend(t) \/ AppendOk(t)
    \/ Complete(t) \/ Fails(t) \/ RecordFailure(t)
    \/ Resolve(t)

Next ==
    \/ \E t \in Tabs : PassStep(t) \/ Retry(t) \/ Reload(t)
    \/ \E t \in Tabs, h \in Intents : Author(t, h)
    \/ \E p \in Pairs : Arrive(p) \/ Lose(p)
    \/ Tick

Spec == Init /\ [][Next]_vars

-----------------------------------------------------------------------------
(* Properties.                                                             *)

\* Every variable has its type: rows pass the journal's validation.
PublicationTypeOK ==
    /\ head \in Heads
    /\ row \in [Intents -> Rows \cup {Absent}]
    /\ clock \in 0..MaxTime
    /\ pass \in [Tabs -> Passes]
    /\ passes \in [Tabs -> 0..MaxPasses]
    /\ pending \in [Tabs -> Intents \cup {Absent}]
    /\ blocked \subseteq Tabs
    /\ lock \in Tabs \cup {Absent, NoLocks}
    /\ marker \in Intents \cup {Absent}
    /\ authored \subseteq Intents
    /\ wire \subseteq Pairs /\ frames \subseteq Pairs
    /\ unread \in [Pairs -> Nat]

\* The reservations of an author form one gapless chain that ends at the
\* stored head, whatever passes of whatever tabs reserve from heads they read
\* before their PUTs (commitSeq29PublicationIntent).
AuthorChain ==
    /\ {row[h].sequence : h \in Reserved} = 0..head.next - 1
    /\ Cardinality(Reserved) = head.next
    /\ \A h \in Reserved :
         IF row[h].sequence = 0
         THEN row[h].before = Absent
         ELSE /\ row[h].before \in Reserved
              /\ row[row[h].before].sequence = row[h].sequence - 1
    /\ head.next > 0 => /\ head.previous \in Reserved
                        /\ row[head.previous].sequence = head.next - 1

\* A relay recorded as succeeded has the frame, through lost answers, stale
\* claims and recoveries by READ.
SuccessIsEvidence == \A p \in Pairs : Confirmed(p) => p \in frames

\* The ledger the author is promised: places in the order of the reservations,
\* relays that get nothing else, confirmations that are evidence and stay, in
\* whatever order late and repeated passes write.
Ledger == INSTANCE AuthorLedger
            WITH Records   <- Intents,
                 next      <- head.next,
                 ledger    <- {<<row[h].sequence, h>> : h \in Reserved},
                 held      <- frames,
                 confirmed <- {p \in Pairs : Confirmed(p)}

ImplementsLedger == Ledger!Spec

\* After an APPEND went out, the same request goes out again only when an
\* authenticated READ made since then did not find its frame
\* (reconcilePeeritPublicInboxAnnouncementV1), across reloads and retries.  The
\* leases alone do not ensure it, for nothing fences the APPEND of a tab that
\* was suspended after its claim: it takes the lock of the writer session.
NoBlindResend == lock # NoLocks => \A p \in Pairs : unread[p] <= 1

\* No tab takes the publication of another tab for corrupt storage and locks
\* its user out of authoring until the page is reloaded.  This, too, takes the
\* lock: two passes of one intent have different frames.
NoFalseCorruption == lock # NoLocks => blocked = {}

\* docs/CURRENT-STATUS.md:120: an interrupted attempt leaves a durable retry
\* marker.  A reserved publication that is not complete and that no pass is
\* working on has the marker in storage.
MarkerKept ==
    \A h \in Intents :
        /\ Committed(h) /\ ~Completed(h)
        /\ \A t \in Tabs : pass[t].intent # h
        => marker = h
=============================================================================
