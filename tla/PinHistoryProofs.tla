-------------------------- MODULE PinHistoryProofs --------------------------
(***************************************************************************)
(* Proofs about PinHistory, for any number of pages and any tree of signed *)
(* pins: the witness never goes back but by a loss of the storage, and no  *)
(* page goes on with a history that contradicts one that was accepted.     *)
(***************************************************************************)
EXTENDS PinHistory, TLAPS

-----------------------------------------------------------------------------
(* The inductive invariant *)

\* A generation names one record, among all that may still be compared.
Known == ({record, backup} \cup {loaded[p] : p \in Pages}) \ {None}

GenerationsNameRecords ==
    \A r, s \in Known : r.generation <= seals /\ (r.generation = s.generation => r = s)

\* Between the rehydration and the swap a page holds a pair that continues.
AppendsContinue ==
    \A p \in Pages :
        /\ pc[p] = "append" => <<anchor[p], served[p]>> \in Before
        /\ pc[p] = "swap" =>
            /\ loaded[p] # None
            /\ loaded[p].segments < MaxSegments
            /\ <<loaded[p].terminal, served[p]>> \in Before

\* Every history that a page went on with since the last loss is still witnessed: it is
\* the witnessed one or the beginning of it.
AcceptedIsWitnessed ==
    \A h \in accepted : record # None /\ <<h, record.terminal>> \in Before

PinInv == PinTypeOK /\ GenerationsNameRecords /\ AppendsContinue /\ AcceptedIsWitnessed

-----------------------------------------------------------------------------
(* Records *)

\* Every history continues the genesis pin and itself.
LEMMA GenesisFirst == ASSUME NEW h \in Pins PROVE <<Genesis, h>> \in Before /\ <<h, h>> \in Before
BY ChainAssumption

\* The page that swaps still finds the record it loaded, however often the witness was lost
\* and restored in between.
LEMMA SwapFindsLoaded ==
    ASSUME PinInv, NEW p \in Pages, pc[p] = "swap", Unchanged(loaded[p])
    PROVE  record = loaded[p] /\ record \in Records
BY DEF PinInv, PinTypeOK, GenerationsNameRecords, Known, AppendsContinue, Unchanged

-----------------------------------------------------------------------------
(* The actions *)

LEMMA InitInv == Init => PinInv
BY PinAssumption DEF Init, PinInv, PinTypeOK, GenerationsNameRecords, Known, AppendsContinue,
    AcceptedIsWitnessed

\* A served history does not touch the witness.
LEMMA FetchInv == ASSUME PinInv, NEW p \in Pages, NEW h \in Pins, Fetch(p, h) PROVE PinInv'
<1> USE DEF Fetch, Go
<1>1. PinTypeOK'
  BY PinAssumption DEF PinInv, PinTypeOK, Records, Observe, Accept, Loads
<1>2. GenerationsNameRecords'
  BY DEF PinInv, PinTypeOK, GenerationsNameRecords, Known, Loads
<1>3. AppendsContinue'
  BY GenesisFirst DEF PinInv, PinTypeOK, AppendsContinue, Records, Accept, Loads
<1>4. AcceptedIsWitnessed'
  BY GenesisFirst DEF PinInv, PinTypeOK, AcceptedIsWitnessed, Records, Accept, Loads
<1> QED BY <1>1, <1>2, <1>3, <1>4 DEF PinInv

\* Nor does a page that stops.
LEMMA ThrowsInv == ASSUME PinInv, NEW p \in Pages, Throws(p) PROVE PinInv'
<1> USE DEF Throws, Go
<1>1. PinTypeOK'
  BY PinAssumption DEF PinInv, PinTypeOK, Records, Observe, Accept, Loads
<1>2. GenerationsNameRecords'
  BY DEF PinInv, PinTypeOK, GenerationsNameRecords, Known, Loads
<1>3. AppendsContinue'
  BY GenesisFirst DEF PinInv, PinTypeOK, AppendsContinue, Records, Accept, Loads
<1>4. AcceptedIsWitnessed'
  BY GenesisFirst DEF PinInv, PinTypeOK, AcceptedIsWitnessed, Records, Accept, Loads
<1> QED BY <1>1, <1>2, <1>3, <1>4 DEF PinInv

\* The version read is one of a record.
LEMMA ReadInv == ASSUME PinInv, NEW p \in Pages, Read(p) PROVE PinInv'
<1> USE DEF Read, Go
<1>1. PinTypeOK'
  BY PinAssumption DEF PinInv, PinTypeOK, Records, Observe, Accept, Loads
<1>2. GenerationsNameRecords'
  BY DEF PinInv, PinTypeOK, GenerationsNameRecords, Known, Loads
<1>3. AppendsContinue'
  BY GenesisFirst DEF PinInv, PinTypeOK, AppendsContinue, Records, Accept, Loads
<1>4. AcceptedIsWitnessed'
  BY GenesisFirst DEF PinInv, PinTypeOK, AcceptedIsWitnessed, Records, Accept, Loads
<1> QED BY <1>1, <1>2, <1>3, <1>4 DEF PinInv

\* The load of initialize.
LEMMA InstallInv == ASSUME PinInv, NEW p \in Pages, Install(p) PROVE PinInv'
<1> USE DEF Install, Go
<1>1. PinTypeOK'
  BY PinAssumption DEF PinInv, PinTypeOK, Records, Observe, Accept, Loads
<1>2. GenerationsNameRecords'
  BY DEF PinInv, PinTypeOK, GenerationsNameRecords, Known, Loads
<1>3. AppendsContinue'
  BY GenesisFirst DEF PinInv, PinTypeOK, AppendsContinue, Records, Accept, Loads
<1>4. AcceptedIsWitnessed'
  BY GenesisFirst DEF PinInv, PinTypeOK, AcceptedIsWitnessed, Records, Accept, Loads
<1> QED BY <1>1, <1>2, <1>3, <1>4 DEF PinInv

\* The record loaded for the swap is the present one, and its terminal is the anchor.
LEMMA AppendInv == ASSUME PinInv, NEW p \in Pages, Append(p) PROVE PinInv'
<1> USE DEF Append, Go
<1>1. PinTypeOK'
  BY PinAssumption DEF PinInv, PinTypeOK, Records, Observe, Accept, Loads
<1>2. GenerationsNameRecords'
  BY DEF PinInv, PinTypeOK, GenerationsNameRecords, Known, Loads
<1>3. AppendsContinue'
  BY GenesisFirst DEF PinInv, PinTypeOK, AppendsContinue, Records, Accept, Loads
<1>4. AcceptedIsWitnessed'
  BY GenesisFirst DEF PinInv, PinTypeOK, AcceptedIsWitnessed, Records, Accept, Loads
<1> QED BY <1>1, <1>2, <1>3, <1>4 DEF PinInv

\* The end of the boot.
LEMMA FinishInv == ASSUME PinInv, NEW p \in Pages, NEW ok \in BOOLEAN, Finish(p, ok) PROVE PinInv'
<1> USE DEF Finish, Go
<1>1. PinTypeOK'
  BY PinAssumption DEF PinInv, PinTypeOK, Records, Observe, Accept, Loads
<1>2. GenerationsNameRecords'
  BY DEF PinInv, PinTypeOK, GenerationsNameRecords, Known, Loads
<1>3. AppendsContinue'
  BY GenesisFirst DEF PinInv, PinTypeOK, AppendsContinue, Records, Accept, Loads
<1>4. AcceptedIsWitnessed'
  BY GenesisFirst DEF PinInv, PinTypeOK, AcceptedIsWitnessed, Records, Accept, Loads
<1> QED BY <1>1, <1>2, <1>3, <1>4 DEF PinInv

\* A page that is closed forgets what it loaded.
LEMMA CloseInv == ASSUME PinInv, NEW p \in Pages, Close(p) PROVE PinInv'
<1> USE DEF Close, Go
<1>1. PinTypeOK'
  BY PinAssumption DEF PinInv, PinTypeOK, Records, Observe, Accept, Loads
<1>2. GenerationsNameRecords'
  BY DEF PinInv, PinTypeOK, GenerationsNameRecords, Known, Loads
<1>3. AppendsContinue'
  BY GenesisFirst DEF PinInv, PinTypeOK, AppendsContinue, Records, Accept, Loads
<1>4. AcceptedIsWitnessed'
  BY GenesisFirst DEF PinInv, PinTypeOK, AcceptedIsWitnessed, Records, Accept, Loads
<1> QED BY <1>1, <1>2, <1>3, <1>4 DEF PinInv

\* The anchor is the present terminal; a page goes on only if it serves that one.
LEMMA RehydrateInv == ASSUME PinInv, NEW p \in Pages, Rehydrate(p) PROVE PinInv'
<1> USE DEF Rehydrate, Go
<1>1. PinTypeOK'
  BY PinAssumption DEF PinInv, PinTypeOK, Records, Observe, Accept, Loads
<1>2. GenerationsNameRecords'
  BY DEF PinInv, PinTypeOK, GenerationsNameRecords, Known, Loads
<1>3. AppendsContinue'
  BY GenesisFirst DEF PinInv, PinTypeOK, AppendsContinue, Records, Accept, Loads
<1>4. AcceptedIsWitnessed'
  BY GenesisFirst DEF PinInv, PinTypeOK, AcceptedIsWitnessed, Records, Accept, Loads
<1> QED BY <1>1, <1>2, <1>3, <1>4 DEF PinInv

\* The first record: nothing can have been accepted without a witness.
LEMMA InsertInv == ASSUME PinInv, NEW p \in Pages, Insert(p) PROVE PinInv'
<1> USE DEF Insert, Go, Sealed
<1>1. PinTypeOK'
  BY PinAssumption DEF PinInv, PinTypeOK, Records, Observe
<1>2. GenerationsNameRecords'
  BY DEF PinInv, PinTypeOK, GenerationsNameRecords, Known, Records
<1>3. AppendsContinue'
  BY DEF PinInv, PinTypeOK, AppendsContinue
<1>4. AcceptedIsWitnessed'
  BY DEF PinInv, PinTypeOK, AcceptedIsWitnessed
<1> QED BY <1>1, <1>2, <1>3, <1>4 DEF PinInv

\* The swap moves the witness on from the record it finds.
LEMMA SwapInv == ASSUME PinInv, NEW p \in Pages, Swap(p) PROVE PinInv'
<1> USE DEF Swap, Go, Sealed
<1>0. Unchanged(loaded[p]) => record = loaded[p] /\ record \in Records
  BY SwapFindsLoaded
<1>1. Unchanged(loaded[p]) => record' \in Records /\ record' # None
  <2> SUFFICES ASSUME Unchanged(loaded[p]) PROVE record' \in Records
    BY PinAssumption
  <2>1. loaded[p] \in Records /\ loaded[p].segments < MaxSegments
    BY <1>0 DEF PinInv, AppendsContinue
  <2>2. /\ loaded[p].cas + 1 \in Nat /\ loaded[p].segments + 1 \in 0..MaxSegments
        /\ seals + 1 \in Nat /\ served[p] \in Pins
    BY <2>1, PinAssumption DEF PinInv, PinTypeOK, Records
  <2> QED BY <2>2 DEF Records
<1>2. PinTypeOK'
  <2>1. CASE Unchanged(loaded[p])
    BY <1>1, <2>1 DEF PinInv, PinTypeOK, Observe, Accept
  <2>2. CASE ~Unchanged(loaded[p])
    BY <2>2 DEF PinInv, PinTypeOK
  <2> QED BY <2>1, <2>2
<1>3. GenerationsNameRecords'
  <2>1. CASE Unchanged(loaded[p])
    <3>1. \A r \in Known' : r = record' \/ r \in Known
      BY <2>1 DEF Known
    <3>2. \A r \in Known : r \in Records
      BY DEF PinInv, PinTypeOK, Known
    <3>3. record'.generation = seals + 1 /\ seals' = seals + 1 /\ seals \in Nat
      BY <2>1 DEF PinInv, PinTypeOK
    <3>4. \A r \in Known : r.generation \in Nat /\ r.generation <= seals
      BY <3>2 DEF PinInv, GenerationsNameRecords, Records
    <3> SUFFICES ASSUME NEW r \in Known', NEW t \in Known'
                 PROVE  r.generation <= seals' /\ (r.generation = t.generation => r = t)
      BY DEF GenerationsNameRecords
    <3>5. CASE r \in Known /\ t \in Known
      BY <3>3, <3>4, <3>5 DEF PinInv, GenerationsNameRecords
    <3>6. CASE r = record' /\ t = record'
      BY <3>3, <3>6
    <3>7. CASE r = record' /\ t \in Known
      <4>1. t.generation # r.generation
        BY <3>3, <3>4, <3>7
      <4> QED BY <3>3, <3>7, <4>1
    <3>8. CASE r \in Known /\ t = record'
      <4>1. t.generation # r.generation /\ r.generation <= seals'
        BY <3>3, <3>4, <3>8
      <4> QED BY <4>1
    <3> QED BY <3>1, <3>5, <3>6, <3>7, <3>8
  <2>2. CASE ~Unchanged(loaded[p])
    BY <2>2 DEF PinInv, GenerationsNameRecords, Known
  <2> QED BY <2>1, <2>2
<1>4. AppendsContinue'
  BY DEF PinInv, PinTypeOK, AppendsContinue, Accept
<1>5. AcceptedIsWitnessed'
  <2>1. CASE Unchanged(loaded[p])
    <3>1. record' # None /\ record'.terminal = served[p]
      BY <2>1, <1>1
    <3>2. <<record.terminal, served[p]>> \in Before
      BY <1>0, <2>1 DEF PinInv, AppendsContinue
    <3>3. record.terminal \in Pins /\ served[p] \in Pins
      BY <1>0, <2>1 DEF PinInv, PinTypeOK, Records
    <3>4. \A h \in accepted : h \in Pins /\ <<h, record.terminal>> \in Before
      BY DEF PinInv, PinTypeOK, AcceptedIsWitnessed
    <3>5. accepted' = accepted \cup {served[p]}
      BY <2>1 DEF Accept
    <3> QED BY <3>1, <3>2, <3>3, <3>4, <3>5, ChainAssumption DEF AcceptedIsWitnessed
  <2>2. CASE ~Unchanged(loaded[p])
    BY <2>2 DEF PinInv, AcceptedIsWitnessed
  <2> QED BY <2>1, <2>2
<1> QED BY <1>2, <1>3, <1>4, <1>5 DEF PinInv

\* A copy, or the return of one, adds no record to those that are known.
LEMMA ProfileInv == ASSUME PinInv, BackUp \/ Lose(None) \/ Lose(backup) PROVE PinInv'
<1> USE DEF BackUp, Lose, pageVars
<1>1. PinTypeOK'
  BY DEF PinInv, PinTypeOK
<1>2. GenerationsNameRecords'
  BY DEF PinInv, PinTypeOK, GenerationsNameRecords, Known
<1>3. AppendsContinue'
  BY DEF PinInv, AppendsContinue
<1>4. AcceptedIsWitnessed'
  BY DEF PinInv, AcceptedIsWitnessed
<1> QED BY <1>1, <1>2, <1>3, <1>4 DEF PinInv

LEMMA NextInv == PinInv /\ [Next]_vars => PinInv'
<1> SUFFICES ASSUME PinInv, [Next]_vars PROVE PinInv'
  OBVIOUS
<1>1. CASE \E p \in Pages : PageStep(p)
  <2> PICK p \in Pages : PageStep(p)
    BY <1>1
  <2> QED
    BY FetchInv, ThrowsInv, ReadInv, InstallInv, InsertInv, RehydrateInv, AppendInv, SwapInv,
      FinishInv, CloseInv DEF PageStep
<1>2. CASE BackUp \/ Lose(None) \/ Lose(backup)
  BY <1>2, ProfileInv
<1>3. CASE UNCHANGED vars
  BY <1>3 DEF vars, pageVars, PinInv, PinTypeOK, GenerationsNameRecords, Known, AppendsContinue,
    AcceptedIsWitnessed
<1> QED BY <1>1, <1>2, <1>3 DEF Next

-----------------------------------------------------------------------------
(* Theorems *)

\* The invariant holds of every behaviour.
THEOREM PinInvariant == Spec => []PinInv
BY InitInv, NextInv, PTL DEF Spec

\* Types, among them that no witness has more segments than MAX_SEGMENTS.
THEOREM PinTypeCorrect == Spec => []PinTypeOK
<1>1. PinInv => PinTypeOK
  BY DEF PinInv
<1> QED BY <1>1, PinInvariant, PTL

\* The witness goes on along one branch of the signed history while the storage is kept.
THEOREM WitnessNeverReturns == Spec => WitnessAdvances
<1> DEFINE Advances ==
      losses' = losses /\ record # None =>
        record' # None /\ <<record.terminal, record'.terminal>> \in Before
<1>1. PinInv /\ [Next]_vars => [Advances]_vars
  <2> SUFFICES ASSUME PinInv, Next, losses' = losses, record # None
               PROVE  record' # None /\ <<record.terminal, record'.terminal>> \in Before
    OBVIOUS
  <2>1. record \in Records
    BY DEF PinInv, PinTypeOK
  <2>2. CASE record' = record
    BY <2>1, <2>2, GenesisFirst DEF Records
  <2>3. ASSUME NEW p \in Pages, Swap(p), Unchanged(loaded[p])
        PROVE  record' # None /\ <<record.terminal, record'.terminal>> \in Before
    <3>1. served[p] \in accepted' /\ record'.terminal = served[p]
      BY <2>3 DEF Swap, Sealed, Accept
    <3>2. record' # None
      BY <2>3, <3>1, SwapInv DEF PinInv, AcceptedIsWitnessed
    <3> QED BY <2>3, <3>1, <3>2, SwapFindsLoaded DEF Swap, PinInv, AppendsContinue
  <2>4. record' = record \/ \E p \in Pages : Swap(p) /\ Unchanged(loaded[p])
    <3>1. CASE \E p \in Pages : PageStep(p)
      BY <3>1 DEF PageStep, Fetch, Throws, Read, Install, Insert, Rehydrate, Append, Swap, Finish, Close
    <3>2. CASE BackUp \/ Lose(None) \/ Lose(backup)
      BY <3>2 DEF BackUp, Lose, PinInv, PinTypeOK
    <3> QED BY <3>1, <3>2 DEF Next
  <2> QED BY <2>2, <2>3, <2>4
<1> QED BY <1>1, PinInvariant, PTL DEF Spec, WitnessAdvances

\* A page that serves an old or a forked history is refused while the storage is kept.
THEOREM RollbacksAreRefused == Spec => RollbackRefused
<1>1. PinInv /\ [Next]_vars =>
        [\A p \in Pages : pc'[p] = "finish" /\ pc[p] # "finish" =>
          \A h \in accepted : <<h, served[p]>> \in Before]_vars
  <2> SUFFICES ASSUME PinInv, Next, NEW p \in Pages, pc'[p] = "finish", pc[p] # "finish",
                      NEW h \in accepted
               PROVE  <<h, served[p]>> \in Before
    OBVIOUS
  <2>1. record # None /\ record \in Records /\ <<h, record.terminal>> \in Before
    BY DEF PinInv, PinTypeOK, AcceptedIsWitnessed
  <2>2. CASE Rehydrate(p) /\ record.terminal = served[p]
    BY <2>1, <2>2
  <2>3. CASE Swap(p) /\ Unchanged(loaded[p])
    <3>1. <<record.terminal, served[p]>> \in Before
      BY <2>3, SwapFindsLoaded DEF Swap, PinInv, AppendsContinue
    <3> QED BY <2>1, <3>1, ChainAssumption DEF PinInv, PinTypeOK, Records
  <2>4. (Rehydrate(p) /\ record.terminal = served[p]) \/ (Swap(p) /\ Unchanged(loaded[p]))
    <3>1. CASE \E q \in Pages : PageStep(q)
      <4> PICK q \in Pages : PageStep(q)
        BY <3>1
      <4>1. p = q
        BY DEF PageStep, Fetch, Throws, Read, Install, Insert, Rehydrate, Append, Swap, Finish,
          Close, Go, Accept, PinInv, PinTypeOK
      <4> QED
        BY <4>1 DEF PageStep, Fetch, Throws, Read, Install, Insert, Rehydrate, Append, Swap,
          Finish, Close, Go, Accept, PinInv, PinTypeOK
    <3>2. CASE BackUp \/ Lose(None) \/ Lose(backup)
      BY <3>2 DEF BackUp, Lose, pageVars
    <3> QED BY <3>1, <3>2 DEF Next
  <2> QED BY <2>2, <2>3, <2>4
<1> QED BY <1>1, PinInvariant, PTL DEF Spec, RollbackRefused
=============================================================================
