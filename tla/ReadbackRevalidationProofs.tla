--------------------- MODULE ReadbackRevalidationProofs ---------------------
(***************************************************************************)
(* Revalidation of one relay's copy, for every number of tabs and every    *)
(* value of the bounds: the evidence in the journal only advances, and a   *)
(* failure that was overtaken by a success is harmless.                    *)
(***************************************************************************)
EXTENDS ReadbackRevalidation, TLAPS

\* What the row and the attempts know of the vault: every revision they name is one the vault
\* has issued, and an attempt remembers a revision the row has had.
EvidenceKnown ==
    /\ row.revision <= vaultRevision
    /\ \A t \in Tabs : /\ attempt[t].revision <= vaultRevision
                       /\ attempt[t].pc # "idle" => attempt[t].observed <= row.revision

\* A success recorded during an attempt moved the row past what the attempt observed.
OvertakenIsOld ==
    \A t \in overtaken : attempt[t].pc # "idle" => attempt[t].observed < row.revision

\* Inductive: neither action property follows from the types alone.
RevalidationInv == ReadbackTypeOK /\ EvidenceKnown /\ OvertakenIsOld

USE RevalidationAssumption

-----------------------------------------------------------------------------
(* Types *)

\* The fields an attempt has rewritten, for any sets the fields range over.
LEMMA AttemptFields ==
    ASSUME NEW P, NEW A, NEW N, NEW T, NEW B, NEW R,
           R = [pc : P, adapter : A, observed : N, revision : N, at : T, repair : B,
                recorded : B],
           NEW a \in R,
           NEW p \in P, NEW d \in A, NEW n \in N, NEW u \in T, NEW b \in B
    PROVE  /\ [a EXCEPT !.pc = p] \in R
           /\ [a EXCEPT !.pc = p, !.adapter = d, !.observed = n] \in R
           /\ [a EXCEPT !.pc = p, !.at = u, !.revision = n] \in R
           /\ [a EXCEPT !.pc = p, !.at = u, !.repair = b] \in R
           /\ [a EXCEPT !.pc = p, !.recorded = b] \in R
OBVIOUS

LEMMA RowFields ==
    ASSUME NEW V, NEW N, NEW B, NEW C, NEW R,
           R = [verifiedAt : V, revision : N, invalidated : B, repairNeeded : B,
                attempts : C, nextAttemptAt : N],
           NEW e \in R,
           NEW v \in V, NEW r \in N, NEW n \in N, NEW b1 \in B, NEW b2 \in B, NEW c \in C
    PROVE  /\ [verifiedAt |-> v, revision |-> r, invalidated |-> b1, repairNeeded |-> b2,
               attempts |-> c, nextAttemptAt |-> n] \in R
           /\ [e EXCEPT !.invalidated = b1, !.repairNeeded = b2, !.attempts = c,
                        !.nextAttemptAt = n] \in R
OBVIOUS

\* The fields of the row and of an attempt, one by one.
LEMMA FieldTypes ==
    ASSUME ReadbackTypeOK, NEW t \in Tabs
    PROVE  /\ attempt[t] \in AttemptRow /\ row \in EvidenceRow
           /\ attempt[t].adapter \in 0..MaxInstalls
           /\ attempt[t].observed \in Nat /\ attempt[t].revision \in Nat
           /\ attempt[t].at \in 0..MaxTime
           /\ attempt[t].repair \in BOOLEAN
           /\ row.revision \in Nat /\ row.attempts \in 0..MaxAttempts
<1>1. attempt[t] \in AttemptRow /\ row \in EvidenceRow
  BY DEF ReadbackTypeOK
<1>2. attempt[t].adapter \in 0..MaxInstalls /\ attempt[t].at \in 0..MaxTime
  BY <1>1 DEF AttemptRow
<1>3. attempt[t].observed \in Nat /\ attempt[t].revision \in Nat
  BY <1>1 DEF AttemptRow
<1>4. attempt[t].repair \in BOOLEAN
  BY <1>1 DEF AttemptRow
<1>5. row.revision \in Nat /\ row.attempts \in 0..MaxAttempts
  BY <1>1 DEF EvidenceRow
<1> QED BY <1>1, <1>2, <1>3, <1>4, <1>5

LEMMA IdleTyped == Idle \in AttemptRow
BY DEF AttemptRow, Idle

LEMMA AttemptTyped ==
    ASSUME ReadbackTypeOK, NEW t \in Tabs, Begin(t) \/ Step(t) \/ Reload(t)
    PROVE  attempt' \in [Tabs -> AttemptRow]
<1> DEFINE a == attempt[t]
           Points == {"idle", "getting", "seen", "recording", "recorded", "failing", "failed"}
<1>0. /\ attempt \in [Tabs -> AttemptRow] /\ a \in AttemptRow
      /\ now \in 0..MaxTime /\ vaultRevision + 1 \in Nat
      /\ installed[t] \in 0..MaxInstalls /\ row.revision \in Nat
  <2>1. attempt \in [Tabs -> AttemptRow] /\ a \in AttemptRow
    BY DEF ReadbackTypeOK
  <2>2. now \in 0..MaxTime /\ vaultRevision + 1 \in Nat
    BY DEF ReadbackTypeOK
  <2>3. installed[t] \in 1..MaxInstalls
    BY DEF ReadbackTypeOK
  <2>4. installed[t] \in 0..MaxInstalls
    BY <2>3
  <2> QED BY <2>1, <2>2, <2>4, FieldTypes
<1>1. ASSUME NEW p \in Points, NEW d \in 0..MaxInstalls, NEW n \in Nat, NEW u \in 0..MaxTime,
             NEW b \in BOOLEAN
      PROVE  /\ [a EXCEPT !.pc = p] \in AttemptRow
             /\ [a EXCEPT !.pc = p, !.adapter = d, !.observed = n] \in AttemptRow
             /\ [a EXCEPT !.pc = p, !.at = u, !.revision = n] \in AttemptRow
             /\ [a EXCEPT !.pc = p, !.at = u, !.repair = b] \in AttemptRow
             /\ [a EXCEPT !.pc = p, !.recorded = b] \in AttemptRow
  BY <1>0, AttemptFields DEF AttemptRow
<1>2. ASSUME NEW x \in AttemptRow, attempt' = [attempt EXCEPT ![t] = x]
      PROVE  attempt' \in [Tabs -> AttemptRow]
  BY <1>0, <1>2
<1> SUFFICES \E x \in AttemptRow : attempt' = [attempt EXCEPT ![t] = x]
  BY <1>2
<1>3. ASSUME Finish(t) PROVE \E x \in AttemptRow : attempt' = [attempt EXCEPT ![t] = x]
  BY <1>3, IdleTyped DEF Finish
<1>4. CASE Begin(t)
  <2>1. attempt' = [attempt EXCEPT ![t] = [a EXCEPT !.pc = "getting", !.adapter = installed[t],
                                                    !.observed = row.revision]]
    BY <1>0, <1>4 DEF Begin
  <2> QED BY <1>0, <1>1, <2>1
<1>5. CASE Seen(t)
  <2>1. attempt' = [attempt EXCEPT ![t] = [a EXCEPT !.pc = "seen"]]
    BY <1>0, <1>5 DEF Seen
  <2> QED BY <1>0, <1>1, <2>1
<1>6. CASE Persist(t)
  <2>1. CASE StillInstalled(t)
    <3>1. attempt' = [attempt EXCEPT ![t] = [a EXCEPT !.pc = "recording", !.at = now,
                                                      !.revision = vaultRevision + 1]]
      BY <1>0, <1>6, <2>1 DEF Persist
    <3> QED BY <1>0, <1>1, <3>1
  <2>2. CASE ~StillInstalled(t)
    BY <1>3, <1>6, <2>2 DEF Persist
  <2> QED BY <2>1, <2>2
<1>7. ASSUME NEW repair \in BOOLEAN, Failing(t, repair)
      PROVE  \E x \in AttemptRow : attempt' = [attempt EXCEPT ![t] = x]
  <2>1. CASE StillInstalled(t)
    <3>1. attempt' = [attempt EXCEPT ![t] = [a EXCEPT !.pc = "failing", !.at = now,
                                                      !.repair = repair]]
      BY <1>0, <1>7, <2>1 DEF Failing
    <3> QED BY <1>0, <1>1, <3>1
  <2>2. CASE ~StillInstalled(t)
    BY <1>3, <1>7, <2>2 DEF Failing
  <2> QED BY <2>1, <2>2
<1>8. CASE TimesOut(t) \/ \E repair \in BOOLEAN : GetFails(t, repair)
  BY <1>7, <1>8 DEF TimesOut, GetFails
<1>9. CASE RecordSuccess(t)
  <2>1. NewerProof(t) \in BOOLEAN
    BY DEF NewerProof
  <2>2. attempt' = [attempt EXCEPT ![t] = [a EXCEPT !.pc = "recorded",
                                                    !.recorded = NewerProof(t)]]
    BY <1>0, <1>9 DEF RecordSuccess
  <2> QED BY <1>1, <2>1, <2>2, <1>0
<1>10. CASE RecordFailure(t)
  <2>1. attempt' = [attempt EXCEPT ![t] = [a EXCEPT !.pc = "failed"]]
    BY <1>0, <1>10 DEF RecordFailure
  <2> QED BY <1>0, <1>1, <2>1
<1>11. CASE AdoptSuccess(t) \/ AdoptFailure(t) \/ Reload(t)
  BY <1>3, <1>11 DEF AdoptSuccess, AdoptFailure, Reload
<1> QED BY <1>4, <1>5, <1>6, <1>8, <1>9, <1>10, <1>11 DEF Step

LEMMA RowTyped ==
    ASSUME ReadbackTypeOK, NEW t \in Tabs, RecordSuccess(t) \/ RecordFailure(t)
    PROVE  row' \in EvidenceRow
<1>0. FALSE \in BOOLEAN /\ TRUE \in BOOLEAN
  OBVIOUS
<1>1. CASE RecordSuccess(t)
  <2>1. attempt[t].at \in 0..MaxTime \cup {Never}
    BY FieldTypes
  <2>2. 0 \in 0..MaxAttempts /\ 0 \in Nat
    OBVIOUS
  <2>3. CASE NewerProof(t)
    <3>1. row' = [verifiedAt |-> attempt[t].at, revision |-> attempt[t].revision,
                  invalidated |-> FALSE, repairNeeded |-> FALSE,
                  attempts |-> 0, nextAttemptAt |-> 0]
      BY <1>1, <2>3 DEF RecordSuccess
    <3> QED BY <1>0, <2>1, <2>2, <3>1, FieldTypes, RowFields DEF EvidenceRow
  <2>4. CASE ~NewerProof(t)
    BY <1>1, <2>4, FieldTypes DEF RecordSuccess
  <2> QED BY <2>3, <2>4
<1>2. CASE RecordFailure(t)
  <2> DEFINE due == IF attempt[t].repair THEN 0 ELSE attempt[t].at + Backoff(NextAttempt)
  <2>1. NextAttempt \in 1..MaxAttempts
    BY FieldTypes DEF NextAttempt
  <2>2. Backoff(NextAttempt) \in Nat /\ NextAttempt \in 0..MaxAttempts
    BY <2>1
  <2>3. attempt[t].at + Backoff(NextAttempt) \in Nat
    BY <2>2, FieldTypes
  <2>4. due \in Nat
    BY <2>3
  <2>5. CASE SameEvidence(t)
    <3>1. row' = [row EXCEPT !.invalidated = TRUE, !.repairNeeded = attempt[t].repair,
                             !.attempts = NextAttempt, !.nextAttemptAt = due]
      BY <1>2, <2>5 DEF RecordFailure
    <3>2. row \in EvidenceRow /\ attempt[t].repair \in BOOLEAN
      BY FieldTypes
    <3> HIDE DEF due
    <3>3. [row EXCEPT !.invalidated = TRUE, !.repairNeeded = attempt[t].repair,
                      !.attempts = NextAttempt, !.nextAttemptAt = due] \in EvidenceRow
      BY <1>0, <2>2, <2>4, <3>2, RowFields DEF EvidenceRow
    <3> QED BY <3>1, <3>3, Zenon
  <2>6. CASE ~SameEvidence(t)
    BY <1>2, <2>6, FieldTypes DEF RecordFailure
  <2> QED BY <2>5, <2>6
<1> QED BY <1>1, <1>2

LEMMA FlagsTyped ==
    ASSUME ReadbackTypeOK, NEW t \in Tabs,
           \/ SkipRepair(t) \/ AdoptSuccess(t) \/ AdoptFailure(t) \/ Reload(t)
           \/ \E usable \in BOOLEAN : SetRelays(t, usable)
    PROVE  {serving', validated', required'} \subseteq [Tabs -> BOOLEAN]
<1>1. {serving, validated, required} \subseteq [Tabs -> BOOLEAN]
  BY DEF ReadbackTypeOK
<1>2. \A f \in [Tabs -> BOOLEAN], b \in BOOLEAN : [f EXCEPT ![t] = b] \in [Tabs -> BOOLEAN]
  OBVIOUS
<1>3. (required[t] /\ ~attempt[t].repair) \in BOOLEAN
  OBVIOUS
<1>4. CASE SkipRepair(t)
  BY <1>1, <1>2, <1>4, Zenon DEF SkipRepair
<1>5. CASE AdoptSuccess(t)
  <2>1. serving' = serving /\ FALSE \in BOOLEAN /\ TRUE \in BOOLEAN
    BY <1>5, Zenon DEF AdoptSuccess
  <2>2. \/ validated' = validated /\ required' = required
        \/ /\ validated' = [validated EXCEPT ![t] = TRUE]
           /\ required' = [required EXCEPT ![t] = FALSE]
    BY <1>5, Zenon DEF AdoptSuccess, Adopted
  <2>3. CASE validated' = validated /\ required' = required
    BY <1>1, <2>1, <2>3, Zenon
  <2>4. CASE /\ validated' = [validated EXCEPT ![t] = TRUE]
             /\ required' = [required EXCEPT ![t] = FALSE]
    BY <1>1, <1>2, <2>1, <2>4, Zenon
  <2> QED BY <2>2, <2>3, <2>4
<1>6. CASE AdoptFailure(t)
  <2>1. required' = [required EXCEPT ![t] = required[t] /\ ~attempt[t].repair]
    BY <1>6, Zenon DEF AdoptFailure
  <2>2. required' \in [Tabs -> BOOLEAN]
    BY <1>1, <1>2, <1>3, <2>1, Zenon
  <2>3. /\ serving' = serving /\ FALSE \in BOOLEAN
        /\ validated' = [validated EXCEPT ![t] = FALSE]
    BY <1>6, Zenon DEF AdoptFailure
  <2> QED BY <1>1, <1>2, <2>2, <2>3, Zenon
<1>7. CASE Reload(t)
  <2>1. /\ serving' = [serving EXCEPT ![t] = FALSE] /\ FALSE \in BOOLEAN
        /\ validated' = [validated EXCEPT ![t] = FALSE]
        /\ required' = [required EXCEPT ![t] = FALSE]
    BY <1>7, Zenon DEF Reload
  <2> QED BY <1>1, <1>2, <2>1, Zenon
<1>8. ASSUME NEW usable \in BOOLEAN, SetRelays(t, usable)
      PROVE  {serving', validated', required'} \subseteq [Tabs -> BOOLEAN]
  <2>1. /\ serving' = [serving EXCEPT ![t] = usable] /\ FALSE \in BOOLEAN
        /\ validated' = [validated EXCEPT ![t] = FALSE]
        /\ required' = [required EXCEPT ![t] = usable]
    BY <1>8, Zenon DEF SetRelays
  <2> QED BY <1>1, <1>2, <2>1, Zenon
<1> QED BY <1>4, <1>5, <1>6, <1>7, <1>8
-----------------------------------------------------------------------------
(* The invariant *)

\* Who writes what, whichever step it is.
LEMMA StepWrites ==
    ASSUME Next
    PROVE  \/ \E t \in Tabs : Begin(t) \/ Step(t) \/ Reload(t) \/ SkipRepair(t)
           \/ \E t \in Tabs, usable \in BOOLEAN : SetRelays(t, usable)
           \/ Tick
BY DEF Next, Flush

LEMMA InitInv == Init => RevalidationInv
<1> SUFFICES ASSUME Init PROVE RevalidationInv
  OBVIOUS
<1>1. row \in EvidenceRow
  <2>1. /\ Never \in 0..MaxTime \cup {Never} /\ 0 \in 0..MaxTime \cup {Never}
        /\ 0 \in 0..MaxAttempts /\ MaxAttempts \in 0..MaxAttempts
    OBVIOUS
  <2>2. \A v \in {Never, 0}, n \in {0, 1}, b \in BOOLEAN, c \in {0, MaxAttempts} :
          [verifiedAt |-> v, revision |-> n, invalidated |-> b, repairNeeded |-> FALSE,
           attempts |-> c, nextAttemptAt |-> 0] \in EvidenceRow
    BY <2>1 DEF EvidenceRow
  <2>3. \E v \in {Never, 0}, n \in {0, 1}, b \in BOOLEAN, c \in {0, MaxAttempts} :
          row = [verifiedAt |-> v, revision |-> n, invalidated |-> b, repairNeeded |-> FALSE,
                 attempts |-> c, nextAttemptAt |-> 0]
    BY DEF Init
  <2> QED BY <2>2, <2>3, Zenon
<1>2. row.revision = 0 \/ row.revision = 1
  BY DEF Init
<1>3. attempt \in [Tabs -> AttemptRow]
  BY IdleTyped DEF Init
<1>4. {serving, validated, required} \subseteq [Tabs -> BOOLEAN]
  BY DEF Init
<1>5. installed \in [Tabs -> 1..MaxInstalls]
  BY DEF Init
<1>6. ReadbackTypeOK
  BY <1>1, <1>3, <1>4, <1>5 DEF Init, ReadbackTypeOK
<1>7. EvidenceKnown
  BY <1>2 DEF Init, EvidenceKnown, Idle
<1>8. OvertakenIsOld
  BY DEF Init, OvertakenIsOld
<1> QED BY <1>6, <1>7, <1>8 DEF RevalidationInv

LEMMA TypeStep == ReadbackTypeOK /\ [Next]_vars => ReadbackTypeOK'
<1> SUFFICES ASSUME ReadbackTypeOK, [Next]_vars PROVE ReadbackTypeOK'
  OBVIOUS
<1>1. attempt' \in [Tabs -> AttemptRow]
  <2>1. ASSUME UNCHANGED attempt PROVE attempt' \in [Tabs -> AttemptRow]
    BY <2>1 DEF ReadbackTypeOK
  <2> QED BY <2>1, StepWrites, AttemptTyped DEF SkipRepair, SetRelays, Tick, vars
<1>2. row' \in EvidenceRow
  <2>1. ASSUME UNCHANGED row PROVE row' \in EvidenceRow
    BY <2>1 DEF ReadbackTypeOK
  <2>2. ASSUME NEW t \in Tabs, Step(t) PROVE row' \in EvidenceRow
    BY <2>1, <2>2, RowTyped DEF Step, Seen, Persist, TimesOut, Failing, GetFails,
       AdoptSuccess, AdoptFailure
  <2> QED BY <2>1, <2>2, StepWrites DEF SkipRepair, Begin, Reload, SetRelays, Tick, vars
<1>3. {serving', validated', required'} \subseteq [Tabs -> BOOLEAN]
  <2>1. ASSUME UNCHANGED flags PROVE {serving', validated', required'} \subseteq [Tabs -> BOOLEAN]
    BY <2>1, Zenon DEF ReadbackTypeOK, flags
  <2>2. ASSUME NEW t \in Tabs, Step(t)
        PROVE  {serving', validated', required'} \subseteq [Tabs -> BOOLEAN]
    BY <2>1, <2>2, FlagsTyped, Zenon DEF Step, Seen, Persist, TimesOut, Failing, GetFails,
       RecordSuccess, RecordFailure
  <2> QED BY <2>1, <2>2, StepWrites, FlagsTyped, Zenon DEF Begin, Tick, vars
<1>4. /\ now' \in 0..MaxTime /\ vaultRevision' \in Nat
      /\ failures' \in 0..MaxFailures
  <2>1. /\ now' = now \/ (now < MaxTime /\ now' = now + 1)
        /\ vaultRevision' = vaultRevision \/ vaultRevision' = vaultRevision + 1
        /\ failures' = failures \/ (failures < MaxFailures /\ failures' = failures + 1)
    BY DEF Next, Flush, Step, SkipRepair, Begin, Seen, Persist, Failing, GetFails, TimesOut,
           RecordSuccess, AdoptSuccess, RecordFailure, AdoptFailure, SetRelays, Reload, Tick, vars
  <2> QED BY <2>1 DEF ReadbackTypeOK
<1>5. installed' \in [Tabs -> 1..MaxInstalls]
  <2>1. ASSUME UNCHANGED installed PROVE installed' \in [Tabs -> 1..MaxInstalls]
    BY <2>1 DEF ReadbackTypeOK
  <2>2. ASSUME NEW t \in Tabs, NEW usable \in BOOLEAN, SetRelays(t, usable)
        PROVE  installed' \in [Tabs -> 1..MaxInstalls]
    BY <2>2 DEF SetRelays, ReadbackTypeOK
  <2>3. UNCHANGED installed \/ \E t \in Tabs, usable \in BOOLEAN : SetRelays(t, usable)
    BY DEF Next, Flush, Step, SkipRepair, Begin, Seen, Persist, Failing, GetFails, TimesOut,
           RecordSuccess, AdoptSuccess, RecordFailure, AdoptFailure, Reload, Tick, vars, flags
  <2> QED BY <2>1, <2>2, <2>3
<1>6. overtaken' \subseteq Tabs
  <2>1. \/ overtaken' = overtaken
        \/ \E t \in Tabs : overtaken' = overtaken \ {t}
        \/ overtaken' = {u \in Tabs : attempt[u].pc # "idle"}
    BY DEF Next, Flush, Step, SkipRepair, Begin, Seen, Persist, Failing, GetFails, TimesOut,
           RecordSuccess, AdoptSuccess, RecordFailure, AdoptFailure, SetRelays, Reload, Tick, vars
  <2> QED BY <2>1 DEF ReadbackTypeOK
<1> QED BY <1>1, <1>2, <1>3, <1>4, <1>5, <1>6, Zenon DEF ReadbackTypeOK

\* How the row's revision and the vault's move: a recorded proof is newer than the row and
\* known to the vault, and nothing else touches the revision of the row.
LEMMA RevisionMoves ==
    ASSUME RevalidationInv, [Next]_vars
    PROVE  /\ vaultRevision' >= vaultRevision
           /\ \/ row'.revision = row.revision
              \/ \E t \in Tabs : /\ RecordSuccess(t) /\ NewerProof(t)
                                 /\ row'.revision = attempt[t].revision
<1>1. vaultRevision' = vaultRevision \/ vaultRevision' = vaultRevision + 1
  BY DEF Next, Flush, Step, SkipRepair, Begin, Seen, Persist, Failing, GetFails, TimesOut,
         RecordSuccess, AdoptSuccess, RecordFailure, AdoptFailure, SetRelays, Reload, Tick, vars
<1>2. vaultRevision' >= vaultRevision
  BY <1>1 DEF RevalidationInv, ReadbackTypeOK
<1>3. \/ row' = row
      \/ \E t \in Tabs : RecordSuccess(t) /\ NewerProof(t)
      \/ \E t \in Tabs : RecordFailure(t)
  BY DEF Next, Flush, Step, SkipRepair, Begin, Seen, Persist, Failing, GetFails, TimesOut,
         RecordSuccess, AdoptSuccess, AdoptFailure, SetRelays, Reload, Tick, vars
<1>4. ASSUME NEW t \in Tabs, RecordSuccess(t), NewerProof(t)
      PROVE  row'.revision = attempt[t].revision
  BY <1>4 DEF RecordSuccess
<1>5. ASSUME NEW t \in Tabs, RecordFailure(t)
      PROVE  row'.revision = row.revision
  <2>1. row \in EvidenceRow
    BY DEF RevalidationInv, ReadbackTypeOK
  <2> QED BY <1>5, <2>1 DEF RecordFailure, EvidenceRow
<1> QED BY <1>2, <1>3, <1>4, <1>5

\* What becomes of the attempt of a tab.
LEMMA AttemptMoves ==
    ASSUME RevalidationInv, [Next]_vars, NEW u \in Tabs
    PROVE  \/ attempt'[u] = Idle
           \/ /\ u \notin overtaken' /\ attempt'[u].observed = row.revision
              /\ attempt'[u].revision = attempt[u].revision
           \/ /\ attempt'[u].observed = attempt[u].observed
              /\ attempt[u].pc = "idle" => attempt'[u].pc = "idle"
              /\ attempt'[u].revision \in {attempt[u].revision, vaultRevision'}
<1>0. /\ attempt \in [Tabs -> AttemptRow] /\ attempt[u] \in AttemptRow
      /\ \A t \in Tabs : attempt[t] \in AttemptRow
  BY DEF RevalidationInv, ReadbackTypeOK
<1> DEFINE Same == /\ attempt'[u].observed = attempt[u].observed
                   /\ attempt[u].pc = "idle" => attempt'[u].pc = "idle"
                   /\ attempt'[u].revision \in {attempt[u].revision, vaultRevision'}
           Begun == /\ u \notin overtaken' /\ attempt'[u].observed = row.revision
                    /\ attempt'[u].revision = attempt[u].revision
<1>1. ASSUME UNCHANGED attempt PROVE Same
  BY <1>1
<1>2. ASSUME NEW t \in Tabs, Finish(t) PROVE attempt'[u] = Idle \/ Same
  BY <1>0, <1>2 DEF Finish
<1>3. ASSUME NEW t \in Tabs, Begin(t)
      PROVE  Same \/ Begun
  <2>1. /\ overtaken' = overtaken \ {t}
        /\ attempt' = [attempt EXCEPT ![t].pc = "getting", ![t].adapter = installed[t],
                                      ![t].observed = row.revision]
    BY <1>3 DEF Begin
  <2> QED BY <1>0, <2>1 DEF AttemptRow
<1>4. ASSUME NEW t \in Tabs, Seen(t) PROVE Same
  BY <1>0, <1>4 DEF Seen, At, AttemptRow
<1>5. ASSUME NEW t \in Tabs, Persist(t) PROVE attempt'[u] = Idle \/ Same
  BY <1>0, <1>2, <1>5 DEF Persist, At, AttemptRow
<1>6. ASSUME NEW t \in Tabs, NEW repair, Failing(t, repair), attempt[t].pc # "idle"
      PROVE  attempt'[u] = Idle \/ Same
  BY <1>0, <1>2, <1>6 DEF Failing, AttemptRow
<1>7. ASSUME NEW t \in Tabs, TimesOut(t) \/ \E repair \in BOOLEAN : GetFails(t, repair)
      PROVE  attempt'[u] = Idle \/ Same
  BY <1>6, <1>7 DEF TimesOut, GetFails, At
<1>8. ASSUME NEW t \in Tabs, RecordSuccess(t) PROVE Same
  BY <1>0, <1>8 DEF RecordSuccess, At, AttemptRow
<1>9. ASSUME NEW t \in Tabs, RecordFailure(t) PROVE Same
  BY <1>0, <1>9 DEF RecordFailure, At, AttemptRow
<1>10. ASSUME NEW t \in Tabs, AdoptSuccess(t) \/ AdoptFailure(t) \/ Reload(t)
       PROVE  attempt'[u] = Idle \/ Same
  BY <1>2, <1>10 DEF AdoptSuccess, AdoptFailure, Reload
<1> HIDE DEF Same, Begun
<1>11. ASSUME NEW t \in Tabs, Step(t) PROVE attempt'[u] = Idle \/ Same
  BY <1>4, <1>5, <1>7, <1>8, <1>9, <1>10, <1>11 DEF Step
<1>12. attempt'[u] = Idle \/ Same \/ Begun
  <2>1. CASE UNCHANGED attempt
    BY <1>1, <2>1
  <2>2. CASE \E t \in Tabs : Begin(t)
    BY <1>3, <2>2
  <2>3. CASE \E t \in Tabs : Step(t) \/ Reload(t)
    BY <1>10, <1>11, <2>3
  <2> QED BY <2>1, <2>2, <2>3, StepWrites DEF SkipRepair, SetRelays, Tick, vars
<1> QED BY <1>12 DEF Same, Begun

LEMMA EvidenceStep == RevalidationInv /\ [Next]_vars => EvidenceKnown'
<1> SUFFICES ASSUME RevalidationInv, [Next]_vars PROVE EvidenceKnown'
  OBVIOUS
<1>1. /\ vaultRevision \in Nat /\ vaultRevision' \in Nat
      /\ row.revision \in Nat /\ row'.revision \in Nat
      /\ \A t \in Tabs : attempt[t].observed \in Nat /\ attempt[t].revision \in Nat
  <2>1. vaultRevision \in Nat /\ vaultRevision' \in Nat
    BY TypeStep DEF RevalidationInv, ReadbackTypeOK
  <2>2. row.revision \in Nat /\ row'.revision \in Nat
    BY TypeStep DEF RevalidationInv, ReadbackTypeOK, EvidenceRow
  <2> QED BY <2>1, <2>2, FieldTypes DEF RevalidationInv
<1>2. row'.revision >= row.revision /\ row'.revision <= vaultRevision'
  BY <1>1, RevisionMoves DEF RevalidationInv, EvidenceKnown, NewerProof
<1>3. ASSUME NEW u \in Tabs
      PROVE  /\ attempt'[u].revision <= vaultRevision'
             /\ attempt'[u].pc # "idle" => attempt'[u].observed <= row'.revision
  <2>1. /\ attempt[u].revision <= vaultRevision /\ vaultRevision <= vaultRevision'
        /\ attempt[u].pc # "idle" => attempt[u].observed <= row.revision
    BY <1>1, RevisionMoves DEF RevalidationInv, EvidenceKnown
  <2> QED BY <1>1, <1>2, <2>1, AttemptMoves DEF Idle
<1> QED BY <1>2, <1>3 DEF EvidenceKnown

LEMMA OvertakenStep == RevalidationInv /\ [Next]_vars => OvertakenIsOld'
<1> SUFFICES ASSUME RevalidationInv, [Next]_vars, NEW u \in overtaken', attempt'[u].pc # "idle"
             PROVE  attempt'[u].observed < row'.revision
  BY DEF OvertakenIsOld
<1>0. u \in Tabs
  BY TypeStep DEF RevalidationInv, ReadbackTypeOK
<1>1. /\ row.revision \in Nat /\ row'.revision \in Nat
      /\ \A t \in Tabs : attempt[t].observed \in Nat /\ attempt[t].revision \in Nat
  <2>1. row.revision \in Nat /\ row'.revision \in Nat
    BY TypeStep DEF RevalidationInv, ReadbackTypeOK, EvidenceRow
  <2> QED BY <2>1, FieldTypes DEF RevalidationInv
<1>2. \/ u \in overtaken /\ row'.revision >= row.revision
      \/ /\ attempt[u].pc # "idle" /\ row'.revision > row.revision
         /\ \E t \in Tabs : RecordSuccess(t)
  <2>1. CASE \E t \in Tabs : RecordSuccess(t) /\ NewerProof(t)
    <3>1. PICK t \in Tabs : RecordSuccess(t) /\ NewerProof(t)
      BY <2>1
    <3>2. row'.revision = attempt[t].revision /\ attempt[u].pc # "idle"
      BY <3>1 DEF RecordSuccess
    <3> QED BY <1>1, <3>1, <3>2 DEF NewerProof
  <2>2. CASE ~\E t \in Tabs : RecordSuccess(t) /\ NewerProof(t)
    <3>1. row'.revision = row.revision
      BY <2>2, RevisionMoves
    <3>2. overtaken' \subseteq overtaken
      BY <2>2 DEF Next, Flush, Step, SkipRepair, Begin, Seen, Persist, Failing, GetFails,
             TimesOut, RecordSuccess, AdoptSuccess, RecordFailure, AdoptFailure, SetRelays,
             Reload, Tick, vars
    <3> QED BY <1>1, <3>1, <3>2
  <2> QED BY <2>1, <2>2
<1>3. attempt'[u].observed = attempt[u].observed /\ attempt[u].pc # "idle"
  BY <1>0, AttemptMoves DEF Idle
<1>4. /\ attempt[u].observed <= row.revision
      /\ u \in overtaken => attempt[u].observed < row.revision
  BY <1>0, <1>3 DEF RevalidationInv, EvidenceKnown, OvertakenIsOld
<1> QED BY <1>0, <1>1, <1>2, <1>3, <1>4

LEMMA InvStep == RevalidationInv /\ [Next]_vars => RevalidationInv'
BY TypeStep, EvidenceStep, OvertakenStep DEF RevalidationInv

LEMMA RevalidationInvariant == Spec => []RevalidationInv
BY InitInv, InvStep, PTL DEF Spec

-----------------------------------------------------------------------------
(* Theorems *)

\* The row, the vault's revision and every attempt in flight keep their shape, the saturating
\* attempt counter included.
THEOREM ReadbackTypeCorrect == Spec => []ReadbackTypeOK
<1>1. RevalidationInv => ReadbackTypeOK
  BY DEF RevalidationInv
<1> QED BY <1>1, RevalidationInvariant, PTL

\* However the answers of any number of tabs interleave, recordReadbackRevalidation moves the
\* evidence reference only to newer proofs the vault holds, and a target that was invalidated
\* is valid again only after a newer proof.
THEOREM EvidenceOnlyAdvances == Spec => EvidenceAdvances
<1>1. RevalidationInv /\ RevalidationInv' /\ [Next]_vars
        => [/\ row'.revision >= row.revision
            /\ row'.revision <= vaultRevision'
            /\ row.invalidated /\ ~row'.invalidated => row'.revision > row.revision]_vars
  <2> SUFFICES ASSUME RevalidationInv, RevalidationInv', [Next]_vars
               PROVE  /\ row'.revision >= row.revision
                      /\ row'.revision <= vaultRevision'
                      /\ row.invalidated /\ ~row'.invalidated => row'.revision > row.revision
    OBVIOUS
  <2>1. row.revision \in Nat /\ \A t \in Tabs : attempt[t].revision \in Nat
    BY FieldTypes DEF RevalidationInv, ReadbackTypeOK, EvidenceRow
  <2>2. row'.revision >= row.revision
    BY <2>1, RevisionMoves DEF NewerProof
  <2>3. row'.revision <= vaultRevision'
    BY DEF RevalidationInv, EvidenceKnown
  <2>4. ASSUME row.invalidated, ~row'.invalidated
        PROVE  \E t \in Tabs : RecordSuccess(t) /\ NewerProof(t)
    <3>1. row' # row
      BY <2>4, Zenon
    <3>2. ASSUME NEW t \in Tabs, RecordFailure(t) PROVE FALSE
      <4>1. row \in EvidenceRow
        BY DEF RevalidationInv, ReadbackTypeOK
      <4> QED BY <2>4, <3>1, <3>2, <4>1 DEF RecordFailure, EvidenceRow
    <3> QED BY <3>1, <3>2 DEF Next, Flush, Step, SkipRepair, Begin, Seen, Persist, Failing,
               GetFails, TimesOut, RecordSuccess, AdoptSuccess, AdoptFailure, SetRelays,
               Reload, Tick, vars
  <2>5. ASSUME NEW t \in Tabs, RecordSuccess(t), NewerProof(t)
        PROVE  row'.revision > row.revision
    BY <2>1, <2>5 DEF RecordSuccess, NewerProof
  <2> QED BY <2>2, <2>3, <2>4, <2>5
<1> QED BY <1>1, RevalidationInvariant, PTL DEF Spec, EvidenceAdvances

\* A failed GET during which any tab has recorded a success does not touch the row:
\* recordReadbackRevalidation compares the evidence reference the failure set out from.
THEOREM StaleFailuresAreHarmless == Spec => StaleFailureIsHarmless
<1>1. RevalidationInv /\ [Next]_vars
        => [\A t \in overtaken : At(t, "failing") /\ attempt'[t].pc = "failed" => row' = row]_vars
  <2> SUFFICES ASSUME RevalidationInv, Next, NEW t \in overtaken, At(t, "failing"),
                      attempt'[t].pc = "failed"
               PROVE  row' = row
    BY DEF vars
  <2>1. t \in Tabs /\ attempt[t].observed \in Nat /\ row.revision \in Nat
    BY FieldTypes DEF RevalidationInv, ReadbackTypeOK
  <2>2. ~SameEvidence(t)
    BY <2>1 DEF RevalidationInv, OvertakenIsOld, At, SameEvidence
  <2>3. attempt \in [Tabs -> AttemptRow]
    BY DEF RevalidationInv, ReadbackTypeOK
  <2>4. ASSUME NEW u \in Tabs, RecordFailure(u) \/ RecordSuccess(u), u # t PROVE FALSE
    BY <2>1, <2>3, <2>4 DEF RecordFailure, RecordSuccess, At
  <2>5. ~RecordSuccess(t)
    BY DEF RecordSuccess, At
  <2>6. RecordFailure(t) => row' = row
    BY <2>2 DEF RecordFailure
  <2> QED BY <2>4, <2>5, <2>6 DEF Next, Flush, Step, SkipRepair, Begin, Seen, Persist, Failing,
             GetFails, TimesOut, AdoptSuccess, AdoptFailure, SetRelays, Reload, Tick
<1> QED BY <1>1, RevalidationInvariant, PTL DEF Spec, StaleFailureIsHarmless
=============================================================================
