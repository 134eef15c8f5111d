------------------------ MODULE ReadbackRevalidation ------------------------
(***************************************************************************)
(* Is the latest publication still retrievable?  Every tab answers by an   *)
(* authenticated GET of its own from each relay that once proved it        *)
(* (_revalidateIntentReadback of js/substrate/peerit-substrate-sync.js),   *)
(* and the answers of all tabs meet in one target row of the journal       *)
(* (recordReadbackRevalidation of peerit-journal.js).                      *)
(*                                                                         *)
(* The row of one relay is modelled, as the rows do not interact.  An      *)
(* action is what runs between two awaits.  What the relay answers is its  *)
(* own affair.  The GET and the vault's record of it are an oracle that    *)
(* orders proofs by one revision counter (a compare-and-swap loop).        *)
(***************************************************************************)
EXTENDS Integers

CONSTANTS
    Tabs,
    FreshnessTtl,
    MaxAttempts,     \* where the attempt counter saturates
    Backoff(_),      \* retry delay after the n-th failure
    MaxInstalls, MaxFailures, MaxRevision, MaxTime    \* bounds of the checked instance

ASSUME RevalidationAssumption ==
    /\ {FreshnessTtl, MaxAttempts, MaxInstalls} \subseteq Nat \ {0}
    /\ \A n \in 1..MaxAttempts : Backoff(n) \in Nat \ {0}
    /\ {MaxFailures, MaxRevision, MaxTime} \subseteq Nat

VARIABLES
    now,
    row,            \* the readback fields of the target row, shared by the tabs
    vaultRevision,  \* revision of the newest proof in the capability vault, shared as well
    installed,      \* per tab: the adapter of this relay, a new one at every setRelays
    serving,        \* ... whether the installed set holds one at all
    validated,      \* _readbackValidatedTargets has this relay
    required,       \* _readbackRevalidationRequired has this relay
    attempt,        \* the revalidation in flight
    failures,       \* failed GETs so far
    overtaken       \* history: attempts during which some tab recorded a success

flags == <<installed, serving, validated, required>>
vars  == <<now, row, vaultRevision, flags, attempt, failures, overtaken>>

Never == -1
Idle  == [pc |-> "idle", adapter |-> 0, observed |-> 0, revision |-> 0, at |-> 0,
          repair |-> FALSE, recorded |-> FALSE]

EvidenceRow == [verifiedAt : 0..MaxTime \cup {Never}, revision : Nat, invalidated : BOOLEAN,
                repairNeeded : BOOLEAN, attempts : 0..MaxAttempts, nextAttemptAt : Nat]

AttemptRow == [pc : {"idle", "getting", "seen", "recording", "recorded", "failing", "failed"},
               adapter : 0..MaxInstalls, observed : Nat, revision : Nat,
               at : 0..MaxTime, repair : BOOLEAN, recorded : BOOLEAN]

ReadbackTypeOK ==
    /\ now \in 0..MaxTime
    /\ row \in EvidenceRow
    /\ vaultRevision \in Nat
    /\ installed \in [Tabs -> 1..MaxInstalls]
    /\ {serving, validated, required} \subseteq [Tabs -> BOOLEAN]
    /\ attempt \in [Tabs -> AttemptRow]
    /\ failures \in 0..MaxFailures
    /\ overtaken \subseteq Tabs

\* An earlier session delivered the publication, and recorded either a live GET of the relay,
\* or only the receipt of an earlier one, or failures whose retry is due.
Init ==
    /\ now = 0
    /\ row \in [verifiedAt : {Never}, revision : {0}, invalidated : {FALSE},
                repairNeeded : {FALSE}, attempts : {0}, nextAttemptAt : {0}]
          \cup [verifiedAt : {0}, revision : {1}, invalidated : {FALSE},
                repairNeeded : {FALSE}, attempts : {0}, nextAttemptAt : {0}]
          \cup [verifiedAt : {0}, revision : {1}, invalidated : {TRUE},
                repairNeeded : {FALSE}, attempts : {MaxAttempts}, nextAttemptAt : {0}]
    /\ vaultRevision = 1
    /\ installed = [t \in Tabs |-> 1]
    /\ serving = [t \in Tabs |-> TRUE]
    /\ validated = [t \in Tabs |-> FALSE]
    /\ required = [t \in Tabs |-> TRUE]
    /\ attempt = [t \in Tabs |-> Idle]
    /\ failures = 0
    /\ overtaken = {}

-----------------------------------------------------------------------------
(* The flush looks at the row *)

At(t, pc)   == attempt[t].pc = pc
Finish(t)   == attempt' = [attempt EXCEPT ![t] = Idle]

\* What the tab reports as currently retrievable.
Fresh(t) ==
    /\ row.verifiedAt # Never /\ now - row.verifiedAt < FreshnessTtl
    /\ ~row.invalidated /\ ~row.repairNeeded
    /\ validated[t]

\* Mutant: only what was put on the list is asked for, not what grew old.
OnlyRequired(t) == required[t]

\* The tab wants a GET of its own.
Due(t) == required[t] \/ ~Fresh(t)

\* A relay that lost the publication is not asked again by anyone.
SkipRepair(t) ==
    /\ serving[t] /\ At(t, "idle")
    /\ row.repairNeeded
    /\ validated[t] \/ required[t]
    /\ validated' = [validated EXCEPT ![t] = FALSE]
    /\ required' = [required EXCEPT ![t] = FALSE]
    /\ UNCHANGED <<now, row, vaultRevision, installed, serving, attempt, failures, overtaken>>

Begin(t) ==
    /\ serving[t] /\ At(t, "idle")
    /\ ~row.repairNeeded
    /\ row.nextAttemptAt <= now
    /\ Due(t)
    /\ attempt' = [attempt EXCEPT ![t].pc = "getting", ![t].adapter = installed[t],
                                  ![t].observed = row.revision]
    /\ overtaken' = overtaken \ {t}
    /\ UNCHANGED <<now, row, vaultRevision, flags, failures>>

-----------------------------------------------------------------------------
(* The GET, and what the vault keeps of it *)

StillInstalled(t) == serving[t] /\ attempt[t].adapter = installed[t]

Seen(t) ==
    /\ At(t, "getting")
    /\ attempt' = [attempt EXCEPT ![t].pc = "seen"]
    /\ UNCHANGED <<now, row, vaultRevision, flags, failures, overtaken>>

\* The proof is persisted under the next revision.  A replaced adapter goes no further.
Persist(t) ==
    /\ At(t, "seen")
    /\ vaultRevision < MaxRevision
    /\ vaultRevision' = vaultRevision + 1
    /\ IF StillInstalled(t)
         THEN attempt' = [attempt EXCEPT ![t].pc = "recording", ![t].at = now,
                                         ![t].revision = vaultRevision + 1]
         ELSE Finish(t)
    /\ UNCHANGED <<now, row, flags, failures, overtaken>>

\* The late failure of a replaced adapter is dropped.
Failing(t, repair) ==
    /\ failures < MaxFailures
    /\ failures' = failures + 1
    /\ IF StillInstalled(t)
         THEN attempt' = [attempt EXCEPT ![t].pc = "failing", ![t].at = now,
                                         ![t].repair = repair]
         ELSE Finish(t)
    /\ UNCHANGED <<now, row, flags, overtaken>>

\* repair: the relay does not have the Cell, or what it has is not the publication.
GetFails(t, repair) ==
    /\ At(t, "getting")
    /\ Failing(t, repair)
    /\ UNCHANGED vaultRevision

\* The deadline abandons the adapter, whose write to the vault may still go through.
TimesOut(t) ==
    /\ attempt[t].pc \in {"getting", "seen"}
    /\ Failing(t, FALSE)
    /\ \/ UNCHANGED vaultRevision
       \/ At(t, "seen") /\ vaultRevision < MaxRevision /\ vaultRevision' = vaultRevision + 1

-----------------------------------------------------------------------------
(* recordReadbackRevalidation, and what the tab does once it has returned *)

\* Mutant: any proof of the relay is taken.
AnyProof(t) == TRUE

\* Only a proof newer than the recorded one.
NewerProof(t) == attempt[t].revision > row.revision

RecordSuccess(t) ==
    /\ At(t, "recording")
    /\ IF NewerProof(t)
         THEN /\ row' = [verifiedAt |-> attempt[t].at, revision |-> attempt[t].revision,
                         invalidated |-> FALSE, repairNeeded |-> FALSE,
                         attempts |-> 0, nextAttemptAt |-> 0]
              /\ overtaken' = {u \in Tabs : attempt[u].pc # "idle"}
         ELSE UNCHANGED <<row, overtaken>>
    /\ attempt' = [attempt EXCEPT ![t].pc = "recorded", ![t].recorded = NewerProof(t)]
    /\ UNCHANGED <<now, vaultRevision, flags, failures>>

Adopted(t) ==
    /\ validated' = [validated EXCEPT ![t] = TRUE]
    /\ required' = [required EXCEPT ![t] = FALSE]

AdoptSuccess(t) ==
    /\ At(t, "recorded")
    /\ IF attempt[t].recorded THEN Adopted(t) ELSE UNCHANGED <<validated, required>>
    /\ Finish(t)
    /\ UNCHANGED <<now, row, vaultRevision, installed, serving, failures, overtaken>>

\* Mutant: a failure counts whatever was recorded since it began.
AnyEvidence(t) == TRUE

\* A failure counts only against the evidence it set out to renew.
SameEvidence(t) == attempt[t].observed = row.revision

\* Mutant: the counter grows without bound.
PlainNextAttempt == row.attempts + 1

NextAttempt == IF row.attempts < MaxAttempts THEN row.attempts + 1 ELSE MaxAttempts

RecordFailure(t) ==
    /\ At(t, "failing")
    /\ row' = IF SameEvidence(t)
                THEN [row EXCEPT !.invalidated = TRUE, !.repairNeeded = attempt[t].repair,
                                 !.attempts = NextAttempt,
                                 !.nextAttemptAt = IF attempt[t].repair THEN 0
                                                   ELSE attempt[t].at + Backoff(NextAttempt)]
                ELSE row
    /\ attempt' = [attempt EXCEPT ![t].pc = "failed"]
    /\ UNCHANGED <<now, vaultRevision, flags, failures, overtaken>>

AdoptFailure(t) ==
    /\ At(t, "failed")
    /\ validated' = [validated EXCEPT ![t] = FALSE]
    /\ required' = [required EXCEPT ![t] = @ /\ ~attempt[t].repair]
    /\ Finish(t)
    /\ UNCHANGED <<now, row, vaultRevision, installed, serving, failures, overtaken>>

-----------------------------------------------------------------------------
(* What else happens to a tab *)

\* Requalification installs new adapters, or none: the tab has to ask again.
SetRelays(t, usable) ==
    /\ installed[t] < MaxInstalls
    /\ installed' = [installed EXCEPT ![t] = @ + 1]
    /\ serving' = [serving EXCEPT ![t] = usable]
    /\ validated' = [validated EXCEPT ![t] = FALSE]
    /\ required' = [required EXCEPT ![t] = usable]
    /\ UNCHANGED <<now, row, vaultRevision, attempt, failures, overtaken>>

\* A reloaded page has no relays until they are qualified.
Reload(t) ==
    /\ serving[t]
    /\ serving' = [serving EXCEPT ![t] = FALSE]
    /\ validated' = [validated EXCEPT ![t] = FALSE]
    /\ required' = [required EXCEPT ![t] = FALSE]
    /\ Finish(t)
    /\ UNCHANGED <<now, row, vaultRevision, installed, failures, overtaken>>

Tick ==
    /\ now < MaxTime
    /\ now' = now + 1
    /\ UNCHANGED <<row, vaultRevision, flags, attempt, failures, overtaken>>

Flush(t) == SkipRepair(t) \/ Begin(t)

Step(t) ==
    \/ Seen(t) \/ Persist(t) \/ TimesOut(t)
    \/ \E repair \in BOOLEAN : GetFails(t, repair)
    \/ RecordSuccess(t) \/ AdoptSuccess(t)
    \/ RecordFailure(t) \/ AdoptFailure(t)

Next ==
    \/ \E t \in Tabs : Flush(t) \/ Step(t) \/ Reload(t)
    \/ \E t \in Tabs, usable \in BOOLEAN : SetRelays(t, usable)
    \/ Tick

Spec == Init /\ [][Next]_vars

\* _scheduleNextAttempt wakes the flush while something is due, and every await of an attempt
\* ends, at the latest by its deadline.
Fairness == \A t \in Tabs : WF_vars(Flush(t)) /\ WF_vars(Step(t))

FairSpec == Spec /\ Fairness

-----------------------------------------------------------------------------
(* Properties *)

\* Whatever order the answers of several tabs arrive in, the journal's evidence reference
\* only moves to newer proofs, it names a proof the vault holds, and a target that needs no
\* repair and is not invalidated after a failed attempt has been proved since.
EvidenceAdvances ==
    [][/\ row'.revision >= row.revision
       /\ row'.revision <= vaultRevision'
       /\ row.invalidated /\ ~row'.invalidated => row'.revision > row.revision]_vars

\* A failure that began before a success some tab has recorded since changes nothing ("a
\* stale failure observed at an older evidence revision cannot invalidate a newer success").
StaleFailureIsHarmless ==
    [][\A t \in overtaken : At(t, "failing") /\ attempt'[t].pc = "failed" => row' = row]_vars

\* Every tab with a relay ends up knowing: its copy is fresh by its own account, the relay
\* needs repair, or a retry is scheduled.  Tabs whose proofs overtake one another do not ask
\* for ever.
Known(t) ==
    \/ row.repairNeeded
    \/ row.nextAttemptAt > now
    \/ Fresh(t) /\ ~required[t]

EveryTabKnows == <>[](\A t \in Tabs : serving[t] => Known(t))
=============================================================================
