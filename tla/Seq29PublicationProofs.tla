----------------------- MODULE Seq29PublicationProofs -----------------------
(***************************************************************************)
(* What Seq29Publication guarantees for any number of tabs, intents and    *)
(* relays, with and without Web Locks: its types, the author chain, that a *)
(* recorded success is evidence and final, and what the lock of the writer *)
(* session adds: one pass works at a time, so no tab takes another's       *)
(* publication for corrupt storage and no APPEND goes out twice without a  *)
(* READ in between.                                                        *)
(***************************************************************************)
EXTENDS Seq29Publication, FiniteSetTheorems, TLAPS

\* A pass that is under way has an intent, one that has reached the relays has a row for it,
\* and one that is at a relay knows which.
PassesAtRow ==
    \A t \in Tabs :
        /\ pass[t].at # "idle" => pass[t].intent \in Intents
        /\ pass[t].at \in RelayPoints \cup {"visiting"} =>
             row[pass[t].intent] # Absent /\ pass[t].visit >= 1
        /\ pass[t].at \in RelayPoints => pass[t].visit \in DOMAIN RelayOrder

\* Whoever is about to complete a relay has seen its frame there, and a relay that has
\* succeeded is nobody's.
EvidenceAtHand ==
    /\ \A t \in Tabs : pass[t].at = "completing" => Pair(t) \in frames
    /\ \A h \in Intents, r \in Relays :
         Committed(h) /\ row[h].relays[r].stage = "succeeded"
            => row[h].relays[r].token = Absent /\ <<h, r>> \in frames

TypeInv  == PublicationTypeOK /\ PassesAtRow
Evidence == TypeInv /\ EvidenceAtHand

\* The chain of the rows, and an author head that names no record before the first.
Chain == TypeInv /\ AuthorChain /\ (head.next = 0 => head.previous = Absent)

-----------------------------------------------------------------------------
(* Relays and their rows.                                                  *)

\* A pass at a relay has a place for it in its row.
LEMMA RelayOfPass ==
    ASSUME TypeInv, NEW t \in Tabs,
           \/ pass[t].at \in RelayPoints
           \/ AtRelay(t)
    PROVE  /\ pass[t].intent \in Intents
           /\ Visiting(t) \in Relays
           /\ row[pass[t].intent] \in Rows
           /\ Target(t) \in Targets
           /\ Pair(t) \in Pairs
           /\ pass[t].visit \in DOMAIN RelayOrder
<1>1. pass[t] \in Passes /\ row \in [Intents -> Rows \cup {Absent}]
  BY DEF TypeInv, PublicationTypeOK
<1>2. pass[t].intent \in Intents /\ row[pass[t].intent] # Absent
  BY DEF TypeInv, PassesAtRow, AtRelay, RelayPoints
<1>3. pass[t].visit \in DOMAIN RelayOrder
  BY <1>1, PublicationAssumption DEF TypeInv, PassesAtRow, AtRelay, Passes
<1>4. Visiting(t) \in Relays
  BY <1>3 DEF Visiting, Relays
<1>5. row[pass[t].intent] \in Rows
  BY <1>1, <1>2
<1> QED BY <1>2, <1>3, <1>4, <1>5 DEF Target, Rows, Pair, Pairs

\* Writing one relay of a row leaves all the rest as it was.
LEMMA SetTargetWrites ==
    ASSUME TypeInv, NEW t \in Tabs, NEW target \in Targets,
           pass[t].intent \in Intents, Visiting(t) \in Relays,
           row[pass[t].intent] \in Rows,
           SetTarget(t, target)
    PROVE  /\ row' \in [Intents -> Rows \cup {Absent}]
           /\ \A h \in Intents : row'[h] = Absent <=> row[h] = Absent
           /\ \A h \in Intents : row[h] # Absent =>
                /\ row'[h].sequence = row[h].sequence
                /\ row'[h].before = row[h].before
                /\ \A r \in Relays :
                     row'[h].relays[r] = IF h = pass[t].intent /\ r = Visiting(t)
                                         THEN target ELSE row[h].relays[r]
<1> DEFINE h == pass[t].intent
           r == Visiting(t)
<1>1. row \in [Intents -> Rows \cup {Absent}]
  BY DEF TypeInv, PublicationTypeOK
<1>2. row' = [row EXCEPT ![h] = [row[h] EXCEPT !.relays = [row[h].relays EXCEPT ![r] = target]]]
  BY DEF SetTarget
<1>3. [row[h].relays EXCEPT ![r] = target] \in [Relays -> Targets]
  BY DEF Rows
<1>4. /\ row'[h] = [row[h] EXCEPT !.relays = [row[h].relays EXCEPT ![r] = target]]
      /\ \A g \in Intents \ {h} : row'[g] = row[g]
      /\ DOMAIN row' = Intents
  BY <1>1, <1>2
<1>5. /\ row'[h] \in Rows
      /\ row'[h].sequence = row[h].sequence
      /\ row'[h].before = row[h].before
      /\ row'[h].relays = [row[h].relays EXCEPT ![r] = target]
  BY <1>3, <1>4 DEF Rows
<1>6. row'[h] # Absent /\ row[h] # Absent
  BY <1>5, PublicationAssumption
<1>7. row' \in [Intents -> Rows \cup {Absent}]
  BY <1>1, <1>2, <1>4, <1>5
<1>8. \A q \in Relays : row'[h].relays[q] = IF q = r THEN target ELSE row[h].relays[q]
  BY <1>5 DEF Rows
<1>9. \A g \in Intents : row'[g] = Absent <=> row[g] = Absent
  BY <1>4, <1>6
<1>10. ASSUME NEW g \in Intents, row[g] # Absent
       PROVE  /\ row'[g].sequence = row[g].sequence
              /\ row'[g].before = row[g].before
              /\ \A q \in Relays :
                   row'[g].relays[q] = IF g = h /\ q = r THEN target ELSE row[g].relays[q]
  <2>1. CASE g = h
    BY <2>1, <1>5, <1>8
  <2>2. CASE g # h
    BY <2>2, <1>4
  <2> QED BY <2>1, <2>2
<1> QED BY <1>7, <1>9, <1>10

\* Rows never go away: any pass may move on to a place its row allows.
LEMMA PassMoves ==
    ASSUME TypeInv, NEW t \in Tabs, NEW p \in Passes,
           pass' = [pass EXCEPT ![t] = p],
           \A h \in Intents : row[h] # Absent => row'[h] # Absent,
           p.at # "idle" => p.intent \in Intents,
           p.at \in RelayPoints \cup {"visiting"} => row'[p.intent] # Absent /\ p.visit >= 1,
           p.at \in RelayPoints => p.visit \in DOMAIN RelayOrder
    PROVE  pass' \in [Tabs -> Passes] /\ PassesAtRow'
<1>1. pass \in [Tabs -> Passes] /\ PassesAtRow
  BY DEF TypeInv, PublicationTypeOK
<1>2. pass' \in [Tabs -> Passes]
  BY <1>1
<1>3. ASSUME NEW u \in Tabs
      PROVE  /\ pass'[u].at # "idle" => pass'[u].intent \in Intents
             /\ pass'[u].at \in RelayPoints \cup {"visiting"} =>
                  row'[pass'[u].intent] # Absent /\ pass'[u].visit >= 1
             /\ pass'[u].at \in RelayPoints => pass'[u].visit \in DOMAIN RelayOrder
  <2>1. CASE u = t
    <3>1. pass'[u] = p
      BY <2>1, <1>1
    <3> QED BY <3>1
  <2>2. CASE u # t
    <3>1. pass'[u] = pass[u]
      BY <2>2, <1>1
    <3>2. pass[u].at \in RelayPoints \cup {"visiting"} => pass[u].intent \in Intents
      BY <1>1 DEF PassesAtRow, RelayPoints
    <3> QED BY <3>1, <3>2, <1>1 DEF PassesAtRow
  <2> QED BY <2>1, <2>2
<1> QED BY <1>2, <1>3 DEF PassesAtRow

\* The end of a pass.
LEMMA LeaveMoves ==
    ASSUME TypeInv, NEW t \in Tabs, Leave(t),
           \A h \in Intents : row[h] # Absent => row'[h] # Absent
    PROVE  /\ pass' \in [Tabs -> Passes] /\ PassesAtRow'
           /\ lock' \in Tabs \cup {Absent, NoLocks}
<1>1. lock' \in Tabs \cup {Absent, NoLocks}
  BY DEF Leave, TypeInv, PublicationTypeOK
<1>2. Idle \in Passes
  BY PublicationAssumption DEF Idle, Passes, Points, Heads, NoHead
<1>3. pass' = [pass EXCEPT ![t] = Idle]
  BY DEF Leave
<1>4. Idle.at = "idle"
  BY DEF Idle
<1> HIDE DEF Idle
<1>5. pass' \in [Tabs -> Passes] /\ PassesAtRow'
  BY <1>2, <1>3, <1>4, PassMoves DEF RelayPoints
<1> QED BY <1>1, <1>5

\* A step from one point of a relay to another.
LEMMA GotoMoves ==
    ASSUME TypeInv, NEW t \in Tabs, NEW point \in RelayPoints, Goto(t, point),
           pass[t].at \in RelayPoints \/ AtRelay(t),
           \A h \in Intents : row[h] # Absent => row'[h] # Absent
    PROVE  pass' \in [Tabs -> Passes] /\ PassesAtRow'
<1>1. pass \in [Tabs -> Passes]
  BY DEF TypeInv, PublicationTypeOK
<1> DEFINE p == [pass[t] EXCEPT !.at = point]
<1>2. /\ p \in Passes /\ p.at = point
      /\ p.intent = pass[t].intent /\ p.visit = pass[t].visit
  BY <1>1 DEF Passes, Points
<1>3. /\ pass[t].intent \in Intents /\ pass[t].visit \in DOMAIN RelayOrder
      /\ row[pass[t].intent] # Absent /\ pass[t].visit >= 1
  BY RelayOfPass DEF TypeInv, PassesAtRow, AtRelay
<1>4. pass' = [pass EXCEPT ![t] = p]
  BY DEF Goto
<1> HIDE DEF p
<1> QED BY <1>2, <1>3, <1>4, PassMoves

\* A pass goes on to its next relay.
LEMMA NextRelayMoves ==
    ASSUME TypeInv, NEW t \in Tabs, NextRelay(t),
           pass[t].at \in RelayPoints \/ AtRelay(t),
           \A h \in Intents : row[h] # Absent => row'[h] # Absent
    PROVE  pass' \in [Tabs -> Passes] /\ PassesAtRow'
<1>1. pass \in [Tabs -> Passes]
  BY DEF TypeInv, PublicationTypeOK
<1>2. /\ pass[t].intent \in Intents /\ pass[t].visit \in 1..Len(RelayOrder)
      /\ row[pass[t].intent] # Absent
  BY RelayOfPass, PublicationAssumption DEF TypeInv, PassesAtRow, AtRelay
<1> DEFINE p == [pass[t] EXCEPT !.at = "visiting", !.visit = @ + 1]
<1>3. pass[t].visit + 1 \in 0..Len(RelayOrder) + 1 /\ pass[t].visit + 1 >= 1
  BY <1>2, PublicationAssumption
<1>4. /\ p \in Passes /\ p.at = "visiting"
      /\ p.intent = pass[t].intent /\ p.visit = pass[t].visit + 1
  BY <1>1, <1>3 DEF Passes, Points
<1>5. pass' = [pass EXCEPT ![t] = p]
  BY DEF NextRelay
<1> HIDE DEF p
<1> QED BY <1>2, <1>3, <1>4, <1>5, PassMoves DEF RelayPoints

-----------------------------------------------------------------------------
(* Types.                                                                  *)

\* The row a reservation writes.
LEMMA CommitWrites ==
    ASSUME TypeInv, NEW t \in Tabs, Commit(t)
    PROVE  /\ pass[t].intent \in Intents
           /\ row' \in [Intents -> Rows \cup {Absent}]
           /\ \A h \in Intents : h # pass[t].intent => row'[h] = row[h]
           /\ row'[pass[t].intent] \in Rows
           /\ row'[pass[t].intent].sequence = head.next
           /\ row'[pass[t].intent].before = head.previous
           /\ \A r \in Relays : row'[pass[t].intent].relays[r] = NewTarget
           /\ head' \in Heads
           /\ head' = [next |-> head.next + 1, previous |-> pass[t].intent]
<1> DEFINE new == [sequence |-> head.next, before |-> head.previous,
                   relays |-> [r \in Relays |-> NewTarget]]
<1>1. /\ head \in Heads /\ row \in [Intents -> Rows \cup {Absent}]
      /\ pass[t].intent \in Intents
  BY DEF Commit, TypeInv, PublicationTypeOK, PassesAtRow
<1>2. NewTarget \in Targets
  BY DEF NewTarget, Targets, Stages
<1>3. new \in Rows
  BY <1>1, <1>2 DEF Heads, Rows
<1>4. /\ row' = [row EXCEPT ![pass[t].intent] = new]
      /\ head' = [next |-> head.next + 1, previous |-> pass[t].intent]
  BY DEF Commit
<1>5. head' \in Heads
  BY <1>1, <1>4 DEF Heads
<1>6. new.sequence = head.next /\ new.before = head.previous
      /\ \A r \in Relays : new.relays[r] = NewTarget
  OBVIOUS
<1> HIDE DEF new
<1> QED BY <1>1, <1>3, <1>4, <1>5, <1>6

\* A claim, the three ways to record its outcome, and the target they write.
LEMMA RelayWrites ==
    ASSUME TypeInv, NEW t \in Tabs,
           Claim(t) \/ MarkAbsent(t) \/ Complete(t) \/ (RecordFailure(t) /\ Holds(t))
    PROVE  \E target \in Targets :
              /\ SetTarget(t, target)
              /\ target.stage = "succeeded" => Complete(t) /\ target.token = Absent
              /\ target.stage # "prepared"
<1>1. CASE Claim(t)
  <2>1. Target(t) \in Targets
    BY <1>1, RelayOfPass DEF Claim
  <2>2. clock + Lease \in Nat
    BY PublicationAssumption DEF TypeInv, PublicationTypeOK
  <2> DEFINE target == [stage |-> ClaimedStage(Target(t).stage), token |-> t,
                        leaseUntil |-> clock + Lease]
  <2>3. target \in Targets /\ target.stage \notin {"succeeded", "prepared"}
    BY <2>1, <2>2 DEF Targets, Stages, ClaimedStage
  <2>4. SetTarget(t, target)
    BY <1>1 DEF Claim
  <2> QED BY <2>3, <2>4
<1>2. CASE MarkAbsent(t)
  <2>1. Target(t) \in Targets
    BY <1>2, RelayOfPass DEF MarkAbsent, RelayPoints
  <2> DEFINE target == [Target(t) EXCEPT !.stage = "sending"]
  <2>2. target \in Targets /\ target.stage \notin {"succeeded", "prepared"}
    BY <2>1 DEF Targets, Stages
  <2>3. SetTarget(t, target)
    BY <1>2 DEF MarkAbsent
  <2> QED BY <2>2, <2>3
<1>3. CASE Complete(t)
  BY <1>3 DEF Complete, Targets, Stages
<1>4. CASE RecordFailure(t) /\ Holds(t)
  BY <1>4 DEF RecordFailure, Targets, Stages
<1> QED BY <1>1, <1>2, <1>3, <1>4

\* What they do to the rows.
LEMMA RelayRows ==
    ASSUME TypeInv, NEW t \in Tabs,
           Claim(t) \/ MarkAbsent(t) \/ Complete(t) \/ RecordFailure(t)
    PROVE  /\ row' \in [Intents -> Rows \cup {Absent}]
           /\ \A h \in Intents : row'[h] = Absent <=> row[h] = Absent
           /\ \A h \in Intents : row[h] # Absent =>
                /\ row'[h].sequence = row[h].sequence
                /\ row'[h].before = row[h].before
<1>1. CASE RecordFailure(t) /\ ~Holds(t)
  BY <1>1 DEF RecordFailure, TypeInv, PublicationTypeOK
<1>2. CASE Claim(t) \/ MarkAbsent(t) \/ Complete(t) \/ (RecordFailure(t) /\ Holds(t))
  <2>1. PICK target \in Targets : SetTarget(t, target)
    BY <1>2, RelayWrites
  <2>2. /\ pass[t].intent \in Intents /\ Visiting(t) \in Relays
        /\ row[pass[t].intent] \in Rows
    BY <1>2, RelayOfPass DEF Claim, MarkAbsent, Complete, RecordFailure, RelayPoints
  <2> QED BY <2>1, <2>2, SetTargetWrites
<1> QED BY <1>1, <1>2

LEMMA TypeInit == Init => TypeInv
<1> SUFFICES ASSUME Init PROVE TypeInv
  OBVIOUS
<1>1. Idle \in Passes /\ Idle.at = "idle" /\ NoHead \in Heads
  BY PublicationAssumption DEF Idle, Passes, Points, Heads, NoHead
<1>2. pass = [t \in Tabs |-> Idle]
  BY DEF Init
<1> HIDE DEF Idle, NoHead
<1>3. pass \in [Tabs -> Passes] /\ PassesAtRow
  BY <1>1, <1>2 DEF PassesAtRow, RelayPoints
<1>4. PublicationTypeOK
  BY <1>1, <1>3, PublicationAssumption DEF Init, PublicationTypeOK
<1> QED BY <1>3, <1>4 DEF TypeInv

\* The steps of a pass.
LEMMA TypePass ==
    ASSUME TypeInv, NEW t \in Tabs, PassStep(t)
    PROVE  TypeInv'
<1> USE DEF TypeInv
<1>t. PublicationTypeOK
  OBVIOUS
<1>1. CASE EnterFails(t)
  <2>1. Leave(t) /\ row' = row
    BY <1>1 DEF EnterFails, GivesUp, journalVars
  <2>2. pass' \in [Tabs -> Passes] /\ PassesAtRow' /\ lock' \in Tabs \cup {Absent, NoLocks}
    BY <2>1, LeaveMoves
  <2> QED BY <2>2, <1>t, <1>1
      DEF EnterFails, GivesUp, PublicationTypeOK, journalVars, uiVars, relayVars
<1>2. CASE PutsFail(t)
  <2>1. Leave(t) /\ row' = row
    BY <1>2 DEF PutsFail, GivesUp, journalVars
  <2>2. pass' \in [Tabs -> Passes] /\ PassesAtRow' /\ lock' \in Tabs \cup {Absent, NoLocks}
    BY <2>1, LeaveMoves
  <2> QED BY <2>2, <1>t, <1>2
      DEF PutsFail, GivesUp, PublicationTypeOK, journalVars, uiVars, relayVars
<1>3. CASE CommitStale(t)
  <2>1. Leave(t) /\ row' = row
    BY <1>3 DEF CommitStale, GivesUp, journalVars
  <2>2. pass' \in [Tabs -> Passes] /\ PassesAtRow' /\ lock' \in Tabs \cup {Absent, NoLocks}
    BY <2>1, LeaveMoves
  <2> QED BY <2>2, <1>t, <1>3
      DEF CommitStale, GivesUp, PublicationTypeOK, journalVars, uiVars, relayVars
<1>4. CASE CommitConflicts(t)
  <2>1. Leave(t) /\ row' = row
    BY <1>4 DEF CommitConflicts, journalVars
  <2>2. pass' \in [Tabs -> Passes] /\ PassesAtRow' /\ lock' \in Tabs \cup {Absent, NoLocks}
    BY <2>1, LeaveMoves
  <2> QED BY <2>2, <1>t, <1>4
      DEF CommitConflicts, PublicationTypeOK, journalVars, uiVars, relayVars
<1>5. CASE ClaimBlocked(t)
  <2>1. Leave(t) /\ row' = row
    BY <1>5 DEF ClaimBlocked, GivesUp, journalVars
  <2>2. pass' \in [Tabs -> Passes] /\ PassesAtRow' /\ lock' \in Tabs \cup {Absent, NoLocks}
    BY <2>1, LeaveMoves
  <2> QED BY <2>2, <1>t, <1>5
      DEF ClaimBlocked, GivesUp, PublicationTypeOK, journalVars, uiVars, relayVars
<1>6. CASE Resolve(t)
  <2>1. Leave(t) /\ row' = row
    BY <1>6 DEF Resolve, journalVars
  <2>2. pass' \in [Tabs -> Passes] /\ PassesAtRow' /\ lock' \in Tabs \cup {Absent, NoLocks}
    BY <2>1, LeaveMoves
  <2>3. pending' \in [Tabs -> Intents \cup {Absent}] /\ marker' \in Intents \cup {Absent}
    BY <1>t, <1>6 DEF Resolve, PublicationTypeOK, uiVars
  <2> QED BY <2>2, <2>3, <1>t, <1>6
      DEF Resolve, PublicationTypeOK, journalVars, uiVars, relayVars
<1>7. CASE Enter(t)
  <2> DEFINE p == IF Committed(pass[t].intent)
                  THEN [pass[t] EXCEPT !.at = "visiting", !.visit = 1]
                  ELSE [pass[t] EXCEPT !.at = "putting", !.head = head]
  <2>1. pass' = [pass EXCEPT ![t] = p] /\ row' = row
    BY <1>7 DEF Enter, journalVars
  <2>2. pass[t] \in Passes /\ head \in Heads /\ pass[t].intent \in Intents
    BY <1>t, <1>7 DEF Enter, PublicationTypeOK, PassesAtRow
  <2>3. /\ p \in Passes /\ p.intent = pass[t].intent
        /\ \/ p.at = "visiting" /\ p.visit = 1 /\ row[pass[t].intent] # Absent
           \/ p.at = "putting"
    <3>0. 1 \in 0..Len(RelayOrder) + 1
      BY PublicationAssumption
    <3>1. CASE Committed(pass[t].intent)
      <4>1. p = [pass[t] EXCEPT !.at = "visiting", !.visit = 1]
        BY <3>1
      <4> HIDE DEF p
      <4> QED BY <2>2, <3>0, <3>1, <4>1 DEF Passes, Points, Committed
    <3>2. CASE ~Committed(pass[t].intent)
      <4>1. p = [pass[t] EXCEPT !.at = "putting", !.head = head]
        BY <3>2
      <4> HIDE DEF p
      <4> QED BY <2>2, <4>1 DEF Passes, Points
    <3> QED BY <3>1, <3>2
  <2> HIDE DEF p
  <2>4. pass' \in [Tabs -> Passes] /\ PassesAtRow'
    <3>1. p.at # "idle" /\ p.at \notin RelayPoints
      BY <2>3 DEF RelayPoints
    <3>2. p.at \in RelayPoints \cup {"visiting"} => row'[p.intent] # Absent /\ p.visit >= 1
      BY <2>1, <2>3, <3>1
    <3> QED BY <2>1, <2>2, <2>3, <3>1, <3>2, PassMoves
  <2> QED BY <2>4, <1>t, <1>7 DEF Enter, PublicationTypeOK, journalVars, uiVars, relayVars
<1>8. CASE Commit(t)
  <2> DEFINE p == [pass[t] EXCEPT !.at = "visiting", !.visit = 1]
  <2>1. pass' = [pass EXCEPT ![t] = p]
    BY <1>8 DEF Commit
  <2>2. /\ pass[t].intent \in Intents /\ row' \in [Intents -> Rows \cup {Absent}]
        /\ row'[pass[t].intent] # Absent /\ head' \in Heads
        /\ \A h \in Intents : row[h] # Absent => row'[h] # Absent
    BY <1>8, CommitWrites, PublicationAssumption
  <2>3. pass[t] \in Passes
    BY <1>t DEF PublicationTypeOK
  <2>4. p \in Passes /\ p.intent = pass[t].intent /\ p.at = "visiting" /\ p.visit = 1
    <3>1. 1 \in 0..Len(RelayOrder) + 1
      BY PublicationAssumption
    <3> QED BY <2>3, <3>1 DEF Passes, Points
  <2> HIDE DEF p
  <2>5. pass' \in [Tabs -> Passes] /\ PassesAtRow'
    <3>1. p.at # "idle" /\ p.at \notin RelayPoints
      BY <2>4 DEF RelayPoints
    <3>2. p.at \in RelayPoints \cup {"visiting"} => row'[p.intent] # Absent /\ p.visit >= 1
      BY <2>2, <2>4, <3>1
    <3> QED BY <2>1, <2>2, <2>4, <3>1, <3>2, PassMoves
  <2> QED BY <2>2, <2>5, <1>t, <1>8
      DEF Commit, PublicationTypeOK, journalVars, uiVars, relayVars
<1>9. CASE Skip(t)
  <2>1. pass' \in [Tabs -> Passes] /\ PassesAtRow'
    BY <1>9, NextRelayMoves DEF Skip, journalVars
  <2> QED BY <2>1, <1>t, <1>9 DEF Skip, PublicationTypeOK, journalVars, uiVars, relayVars
<1>10. CASE ReadPresent(t)
  <2>1. pass' \in [Tabs -> Passes] /\ PassesAtRow'
    BY <1>10, GotoMoves DEF ReadPresent, RelayPoints, journalVars
  <2> QED BY <2>1, <1>t, <1>10
      DEF ReadPresent, PublicationTypeOK, journalVars, uiVars, relayVars
<1>11. CASE AppendOk(t)
  <2>1. pass' \in [Tabs -> Passes] /\ PassesAtRow'
    BY <1>11, GotoMoves DEF AppendOk, RelayPoints, journalVars
  <2> QED BY <2>1, <1>t, <1>11 DEF AppendOk, PublicationTypeOK, journalVars, uiVars, relayVars
<1>12. CASE Fails(t)
  <2>1. pass' \in [Tabs -> Passes] /\ PassesAtRow'
    BY <1>12, GotoMoves DEF Fails, RelayPoints, journalVars
  <2> QED BY <2>1, <1>t, <1>12 DEF Fails, PublicationTypeOK, journalVars, uiVars, relayVars
<1>13. CASE ReadAbsent(t)
  <2>1. pass' \in [Tabs -> Passes] /\ PassesAtRow'
    BY <1>13, GotoMoves DEF ReadAbsent, RelayPoints, journalVars
  <2>2. Pair(t) \in Pairs
    BY <1>13, RelayOfPass DEF ReadAbsent, RelayPoints
  <2>3. wire' \subseteq Pairs /\ unread' \in [Pairs -> Nat]
    BY <2>2, <1>t, <1>13 DEF ReadAbsent, PublicationTypeOK
  <2> QED BY <2>1, <2>3, <1>t, <1>13
      DEF ReadAbsent, PublicationTypeOK, journalVars, uiVars, relayVars
<1>14. CASE SendAppend(t)
  <2>1. pass' \in [Tabs -> Passes] /\ PassesAtRow'
    BY <1>14, GotoMoves DEF SendAppend, RelayPoints, journalVars
  <2>2. Pair(t) \in Pairs
    BY <1>14, RelayOfPass DEF SendAppend, RelayPoints
  <2>3. wire' \subseteq Pairs /\ unread' \in [Pairs -> Nat]
    BY <2>2, <1>t, <1>14 DEF SendAppend, PublicationTypeOK
  <2> QED BY <2>1, <2>3, <1>t, <1>14
      DEF SendAppend, PublicationTypeOK, journalVars, uiVars, relayVars
<1>15. CASE Claim(t)
  <2>1. /\ row' \in [Intents -> Rows \cup {Absent}]
        /\ \A h \in Intents : row[h] # Absent => row'[h] # Absent
    BY <1>15, RelayRows
  <2>2. pass' \in [Tabs -> Passes] /\ PassesAtRow'
    <3>1. PICK point \in RelayPoints : Goto(t, point)
      BY <1>15 DEF Claim, RelayPoints
    <3> QED BY <2>1, <3>1, <1>15, GotoMoves DEF Claim
  <2> QED BY <2>1, <2>2, <1>t, <1>15
      DEF Claim, PublicationTypeOK, journalVars, uiVars, relayVars
<1>16. CASE MarkAbsent(t)
  <2>1. /\ row' \in [Intents -> Rows \cup {Absent}]
        /\ \A h \in Intents : row[h] # Absent => row'[h] # Absent
    BY <1>16, RelayRows
  <2>2. pass' \in [Tabs -> Passes] /\ PassesAtRow'
    BY <2>1, <1>16, GotoMoves DEF MarkAbsent, RelayPoints
  <2> QED BY <2>1, <2>2, <1>t, <1>16
      DEF MarkAbsent, PublicationTypeOK, journalVars, uiVars, relayVars
<1>17. CASE Complete(t)
  <2>1. /\ row' \in [Intents -> Rows \cup {Absent}]
        /\ \A h \in Intents : row[h] # Absent => row'[h] # Absent
    BY <1>17, RelayRows
  <2>2. pass' \in [Tabs -> Passes] /\ PassesAtRow'
    BY <2>1, <1>17, NextRelayMoves DEF Complete, RelayPoints
  <2> QED BY <2>1, <2>2, <1>t, <1>17
      DEF Complete, PublicationTypeOK, journalVars, uiVars, relayVars
<1>18. CASE RecordFailure(t)
  <2>1. /\ row' \in [Intents -> Rows \cup {Absent}]
        /\ \A h \in Intents : row[h] # Absent => row'[h] # Absent
    BY <1>18, RelayRows
  <2>2. pass' \in [Tabs -> Passes] /\ PassesAtRow' /\ lock' \in Tabs \cup {Absent, NoLocks}
    BY <2>1, <1>18, LeaveMoves DEF RecordFailure
  <2> QED BY <2>1, <2>2, <1>t, <1>18
      DEF RecordFailure, PublicationTypeOK, journalVars, uiVars, relayVars
<1> QED BY <1>1, <1>2, <1>3, <1>4, <1>5, <1>6, <1>7, <1>8, <1>9, <1>10, <1>11, <1>12, <1>13,
       <1>14, <1>15, <1>16, <1>17, <1>18
    DEF PassStep

LEMMA TypeStep == TypeInv /\ [Next]_vars => TypeInv'
<1> SUFFICES ASSUME TypeInv, [Next]_vars PROVE TypeInv'
  OBVIOUS
<1>t. PublicationTypeOK /\ PassesAtRow
  BY DEF TypeInv
<1>1. ASSUME NEW t \in Tabs, PassStep(t) PROVE TypeInv'
  BY <1>1, TypePass
<1>2. ASSUME NEW t \in Tabs, NEW h \in Intents, StartPass(t, h), authored' \subseteq Intents
      PROVE  TypeInv'
  <2> DEFINE p == [Idle EXCEPT !.at = "waiting", !.intent = h]
  <2>1. p \in Passes /\ p.at = "waiting" /\ p.intent = h
    <3>1. Idle \in Passes
      BY PublicationAssumption DEF Idle, Passes, Points, Heads, NoHead
    <3> HIDE DEF Idle
    <3> QED BY <3>1 DEF Passes, Points
  <2>2. pass' = [pass EXCEPT ![t] = p] /\ row' = row
    BY <1>2 DEF StartPass, journalVars
  <2> HIDE DEF p
  <2>3. pass' \in [Tabs -> Passes] /\ PassesAtRow'
    BY <2>1, <2>2, PassMoves DEF RelayPoints
  <2>4. passes' \in [Tabs -> 0..MaxPasses]
    <3>1. passes[t] + 1 \in 0..MaxPasses
      BY <1>2, <1>t, PublicationAssumption DEF StartPass, PublicationTypeOK
    <3> QED BY <3>1, <1>2, <1>t DEF StartPass, PublicationTypeOK
  <2> QED BY <2>3, <2>4, <1>2, <1>t
      DEF StartPass, TypeInv, PublicationTypeOK, journalVars, relayVars
<1>3. ASSUME NEW t \in Tabs, Retry(t) PROVE TypeInv'
  BY <1>2, <1>3, <1>t DEF Retry, PublicationTypeOK
<1>4. ASSUME NEW t \in Tabs, NEW h \in Intents, Author(t, h) PROVE TypeInv'
  BY <1>2, <1>4, <1>t DEF Author, PublicationTypeOK
<1>5. ASSUME NEW t \in Tabs, Reload(t) PROVE TypeInv'
  <2>1. pass' \in [Tabs -> Passes] /\ PassesAtRow' /\ lock' \in Tabs \cup {Absent, NoLocks}
    BY <1>5, LeaveMoves DEF Reload, journalVars
  <2> QED BY <2>1, <1>5, <1>t DEF Reload, TypeInv, PublicationTypeOK, journalVars, relayVars
<1>6. ASSUME NEW p \in Pairs, Arrive(p) \/ Lose(p) PROVE TypeInv'
  BY <1>6, <1>t DEF Arrive, Lose, TypeInv, PublicationTypeOK, PassesAtRow, journalVars, uiVars
<1>7. CASE Tick
  <2>1. clock' \in 0..MaxTime
    BY <1>7, <1>t, PublicationAssumption DEF Tick, PublicationTypeOK
  <2> QED BY <2>1, <1>7, <1>t DEF Tick, TypeInv, PublicationTypeOK, PassesAtRow, journalVars,
          uiVars, relayVars
<1>8. CASE UNCHANGED vars
  BY <1>8, <1>t DEF vars, TypeInv, PublicationTypeOK, PassesAtRow
<1> QED BY <1>1, <1>3, <1>4, <1>5, <1>6, <1>7, <1>8 DEF Next

\* The types of every reachable state: rows pass the journal's own validation, and a pass at
\* a relay has the row it writes to.
THEOREM PublicationTypeCorrect == Spec => []PublicationTypeOK
<1>1. TypeInv => PublicationTypeOK
  BY DEF TypeInv
<1> QED BY <1>1, TypeInit, TypeStep, PTL DEF Spec

-----------------------------------------------------------------------------
(* Which steps write what.                                                 *)

\* The four steps of a pass that write to one relay of its row.
WritesRelay(t) ==
    Claim(t) \/ MarkAbsent(t) \/ Complete(t) \/ (RecordFailure(t) /\ Holds(t))

\* Apart from a reservation, only those write to the rows.
LEMMA WhoWrites ==
    ASSUME [Next]_vars
    PROVE  \/ \E t \in Tabs : Commit(t)
           \/ head' = head /\ row' = row
           \/ head' = head /\ \E t \in Tabs : WritesRelay(t)
<1>1. ASSUME NEW t \in Tabs, PassStep(t)
      PROVE  \/ Commit(t)
             \/ head' = head /\ row' = row
             \/ head' = head /\ WritesRelay(t)
  <2>1. CASE Enter(t) \/ EnterFails(t) \/ PutsFail(t) \/ CommitStale(t) \/ CommitConflicts(t)
    BY <2>1 DEF Enter, EnterFails, PutsFail, CommitStale, CommitConflicts, GivesUp, journalVars
  <2>2. CASE Skip(t) \/ ClaimBlocked(t) \/ ReadPresent(t) \/ ReadAbsent(t) \/ SendAppend(t)
    BY <2>2 DEF Skip, ClaimBlocked, GivesUp, ReadPresent, ReadAbsent, SendAppend, journalVars
  <2>3. CASE AppendOk(t) \/ Fails(t) \/ Resolve(t)
    BY <2>3 DEF AppendOk, Fails, Resolve, journalVars
  <2>4. CASE Claim(t) \/ MarkAbsent(t) \/ Complete(t)
    BY <2>4 DEF WritesRelay, Claim, MarkAbsent, Complete
  <2>5. CASE RecordFailure(t)
    BY <2>5 DEF WritesRelay, RecordFailure
  <2> QED BY <1>1, <2>1, <2>2, <2>3, <2>4, <2>5 DEF PassStep
<1>2. ASSUME NEW t \in Tabs, Retry(t) \/ Reload(t) \/ \E h \in Intents : Author(t, h)
      PROVE  head' = head /\ row' = row
  BY <1>2 DEF Retry, Reload, Author, StartPass, journalVars
<1>3. ASSUME NEW p \in Pairs, Arrive(p) \/ Lose(p) PROVE head' = head /\ row' = row
  BY <1>3 DEF Arrive, Lose, journalVars
<1>4. CASE Tick \/ UNCHANGED vars
  BY <1>4 DEF Tick, vars, journalVars
<1> QED BY <1>1, <1>2, <1>3, <1>4 DEF Next

\* A pass gets to the point of completing a relay only by seeing its frame there, and relays
\* keep their frames.
LEMMA WhoSees ==
    ASSUME TypeInv, [Next]_vars
    PROVE  /\ frames \subseteq frames'
           /\ \A t \in Tabs : pass'[t].at = "completing" =>
                pass'[t] = pass[t] \/ (Pair(t) \in frames /\ Goto(t, "completing"))
<1> DEFINE Seen(u) == pass'[u].at = "completing" =>
                        pass'[u] = pass[u] \/ (Pair(u) \in frames /\ Goto(u, "completing"))
<1>p. pass \in [Tabs -> Passes]
  BY DEF TypeInv, PublicationTypeOK
<1>i. Idle.at = "idle"
  BY DEF Idle
<1> HIDE DEF Idle
<1>1. ASSUME NEW t \in Tabs, NEW p, pass' = [pass EXCEPT ![t] = p], p.at # "completing"
      PROVE  \A u \in Tabs : Seen(u)
  BY <1>1, <1>p
<1>2. ASSUME NEW t \in Tabs, Leave(t) PROVE \A u \in Tabs : Seen(u)
  <2>1. pass' = [pass EXCEPT ![t] = Idle] /\ Idle.at # "completing"
    BY <1>2, <1>i DEF Leave
  <2> HIDE DEF Seen
  <2> QED BY <2>1, <1>1
<1>3. ASSUME NEW t \in Tabs, NEW point \in RelayPoints \ {"completing"}, Goto(t, point)
      PROVE  \A u \in Tabs : Seen(u)
  <2>1. pass' = [pass EXCEPT ![t] = [pass[t] EXCEPT !.at = point]]
    BY <1>3 DEF Goto
  <2>2. [pass[t] EXCEPT !.at = point].at # "completing"
    BY <1>p DEF Passes
  <2> HIDE DEF Seen
  <2> QED BY <2>1, <2>2, <1>1
<1>4. ASSUME NEW t \in Tabs, NextRelay(t) PROVE \A u \in Tabs : Seen(u)
  <2>1. pass' = [pass EXCEPT ![t] = [pass[t] EXCEPT !.at = "visiting", !.visit = @ + 1]]
    BY <1>4 DEF NextRelay
  <2>2. [pass[t] EXCEPT !.at = "visiting", !.visit = @ + 1].at # "completing"
    BY <1>p DEF Passes
  <2> HIDE DEF Seen
  <2> QED BY <2>1, <2>2, <1>1
<1>5. ASSUME NEW t \in Tabs, Goto(t, "completing"), Pair(t) \in frames
      PROVE  \A u \in Tabs : Seen(u)
  <2>1. \A u \in Tabs : u # t => pass'[u] = pass[u]
    BY <1>5, <1>p DEF Goto
  <2> QED BY <2>1, <1>5
<1>6. ASSUME NEW t \in Tabs, PassStep(t)
      PROVE  frames' = frames /\ \A u \in Tabs : Seen(u)
  <2> HIDE DEF Seen
  <2>1. CASE EnterFails(t) \/ PutsFail(t) \/ CommitStale(t) \/ CommitConflicts(t)
    BY <2>1, <1>2 DEF EnterFails, PutsFail, CommitStale, CommitConflicts, GivesUp, relayVars
  <2>2. CASE ClaimBlocked(t) \/ RecordFailure(t) \/ Resolve(t)
    BY <2>2, <1>2 DEF ClaimBlocked, GivesUp, RecordFailure, Resolve, relayVars
  <2>3. CASE Enter(t)
    <3>1. CASE Committed(pass[t].intent)
      <4>1. pass' = [pass EXCEPT ![t] = [pass[t] EXCEPT !.at = "visiting", !.visit = 1]]
        BY <2>3, <3>1 DEF Enter
      <4>2. [pass[t] EXCEPT !.at = "visiting", !.visit = 1].at # "completing"
        BY <1>p DEF Passes
      <4> QED BY <4>1, <4>2, <1>1, <2>3 DEF Enter, relayVars
    <3>2. CASE ~Committed(pass[t].intent)
      <4>1. pass' = [pass EXCEPT ![t] = [pass[t] EXCEPT !.at = "putting", !.head = head]]
        BY <2>3, <3>2 DEF Enter
      <4>2. [pass[t] EXCEPT !.at = "putting", !.head = head].at # "completing"
        BY <1>p DEF Passes
      <4> QED BY <4>1, <4>2, <1>1, <2>3 DEF Enter, relayVars
    <3> QED BY <3>1, <3>2
  <2>4. CASE Commit(t)
    <3>1. pass' = [pass EXCEPT ![t] = [pass[t] EXCEPT !.at = "visiting", !.visit = 1]]
      BY <2>4 DEF Commit
    <3>2. [pass[t] EXCEPT !.at = "visiting", !.visit = 1].at # "completing"
      BY <1>p DEF Passes
    <3> QED BY <3>1, <3>2, <1>1, <2>4 DEF Commit, relayVars
  <2>5. CASE Skip(t) \/ Complete(t)
    BY <2>5, <1>4 DEF Skip, Complete, relayVars
  <2>6. CASE Claim(t)
    <3>1. PICK point \in RelayPoints \ {"completing"} : Goto(t, point)
      BY <2>6 DEF Claim, RelayPoints
    <3> QED BY <3>1, <1>3, <2>6 DEF Claim, relayVars
  <2>7. CASE ReadAbsent(t) \/ MarkAbsent(t) \/ SendAppend(t) \/ Fails(t)
    <3>1. PICK point \in RelayPoints \ {"completing"} : Goto(t, point)
      BY <2>7 DEF ReadAbsent, MarkAbsent, SendAppend, Fails, RelayPoints
    <3>2. frames' = frames
      BY <2>7 DEF ReadAbsent, MarkAbsent, SendAppend, Fails, relayVars
    <3> QED BY <3>1, <3>2, <1>3
  <2>8. CASE ReadPresent(t) \/ AppendOk(t)
    BY <2>8, <1>5 DEF ReadPresent, AppendOk, relayVars
  <2> QED BY <1>6, <2>1, <2>2, <2>3, <2>4, <2>5, <2>6, <2>7, <2>8 DEF PassStep
<1>7. ASSUME NEW t \in Tabs, NEW h \in Intents, StartPass(t, h)
      PROVE  frames' = frames /\ \A u \in Tabs : Seen(u)
  <2>1. pass' = [pass EXCEPT ![t] = [Idle EXCEPT !.at = "waiting", !.intent = h]]
    BY <1>7 DEF StartPass
  <2>2. [Idle EXCEPT !.at = "waiting", !.intent = h].at # "completing"
    BY DEF Idle
  <2> HIDE DEF Seen
  <2> QED BY <2>1, <2>2, <1>1, <1>7 DEF StartPass, relayVars
<1>8. ASSUME NEW t \in Tabs, Reload(t)
      PROVE  frames' = frames /\ \A u \in Tabs : Seen(u)
  <2> HIDE DEF Seen
  <2> QED BY <1>8, <1>2 DEF Reload, relayVars
<1>9. ASSUME NEW p \in Pairs, Arrive(p) \/ Lose(p)
      PROVE  frames \subseteq frames' /\ \A u \in Tabs : Seen(u)
  BY <1>9 DEF Arrive, Lose
<1>10. CASE Tick \/ UNCHANGED vars
  BY <1>10 DEF Tick, vars, relayVars
<1> HIDE DEF Seen
<1>11. frames \subseteq frames' /\ \A u \in Tabs : Seen(u)
  <2>1. ASSUME NEW t \in Tabs, Retry(t) PROVE frames \subseteq frames' /\ \A u \in Tabs : Seen(u)
    BY <2>1, <1>7 DEF Retry, TypeInv, PublicationTypeOK
  <2>2. ASSUME NEW t \in Tabs, NEW h \in Intents, Author(t, h)
        PROVE  frames \subseteq frames' /\ \A u \in Tabs : Seen(u)
    BY <2>2, <1>7 DEF Author
  <2>3. CASE Tick \/ UNCHANGED vars
    BY <2>3, <1>10 DEF Seen, Tick, vars, relayVars
  <2> QED BY <2>1, <2>2, <2>3, <1>6, <1>8, <1>9 DEF Next
<1> QED BY <1>11 DEF Seen

-----------------------------------------------------------------------------
(* A success is evidence, and final.                                       *)

\* The rows a reservation does not write stay; the new one has no success.
LEMMA CommitKeeps ==
    ASSUME TypeInv, NEW t \in Tabs, Commit(t), NEW h \in Intents, NEW r \in Relays,
           row'[h] # Absent, row'[h].relays[r].stage = "succeeded"
    PROVE  row[h] # Absent /\ row'[h] = row[h]
<1>1. CASE h = pass[t].intent
  <2>1. row'[h].relays[r] = NewTarget
    BY <1>1, CommitWrites
  <2> QED BY <2>1 DEF NewTarget
<1>2. CASE h # pass[t].intent
  BY <1>2, CommitWrites
<1> QED BY <1>1, <1>2

\* Nobody holds or claims a relay that has succeeded.
LEMMA SettledIsLeft ==
    ASSUME Evidence, NEW t \in Tabs, WritesRelay(t)
    PROVE  /\ pass[t].intent \in Intents /\ Visiting(t) \in Relays
           /\ row[pass[t].intent] \in Rows
           /\ Committed(pass[t].intent)
           /\ Target(t).stage # "succeeded"
<1>1. pass[t].at \in RelayPoints \/ AtRelay(t)
  BY DEF WritesRelay, Claim, MarkAbsent, Complete, RecordFailure, RelayPoints
<1>2. /\ pass[t].intent \in Intents /\ Visiting(t) \in Relays
      /\ row[pass[t].intent] \in Rows
  BY <1>1, RelayOfPass DEF Evidence
<1>3. Committed(pass[t].intent)
  BY <1>2, PublicationAssumption DEF Committed
<1>4. CASE Claim(t)
  BY <1>2, <1>3, <1>4 DEF Claim
<1>5. CASE Holds(t)
  BY <1>2, <1>3, <1>5, PublicationAssumption DEF Evidence, EvidenceAtHand, Holds, Target
<1>6. Claim(t) \/ Holds(t)
  BY DEF WritesRelay, MarkAbsent, Complete
<1> QED BY <1>2, <1>3, <1>4, <1>5, <1>6

\* A success stays as it is, in whatever step.
LEMMA SuccessKept ==
    ASSUME Evidence, [Next]_vars, NEW h \in Intents, NEW r \in Relays,
           Committed(h), row[h].relays[r].stage = "succeeded"
    PROVE  row'[h].relays[r] = row[h].relays[r]
<1>1. ASSUME NEW t \in Tabs, Commit(t) PROVE row'[h] = row[h]
  <2>1. h # pass[t].intent
    BY <1>1 DEF Commit
  <2> QED BY <1>1, <2>1, CommitWrites DEF Evidence
<1>2. ASSUME NEW t \in Tabs, WritesRelay(t)
      PROVE  row'[h].relays[r] = row[h].relays[r]
  <2>1. ~(h = pass[t].intent /\ r = Visiting(t))
    BY <1>2, SettledIsLeft DEF Target
  <2>2. PICK target \in Targets : SetTarget(t, target)
    BY <1>2, RelayWrites DEF Evidence, WritesRelay
  <2>3. row[h] # Absent
    BY DEF Committed
  <2> QED BY <1>2, <2>1, <2>2, <2>3, SettledIsLeft, SetTargetWrites DEF Evidence
<1> QED BY <1>1, <1>2, WhoWrites

\* A relay becomes succeeded only by the step that completes it.
LEMMA NewSuccess ==
    ASSUME Evidence, NEW t \in Tabs, WritesRelay(t), NEW h \in Intents, NEW r \in Relays,
           row'[h] # Absent, row'[h].relays[r].stage = "succeeded"
    PROVE  /\ row[h] # Absent
           /\ \/ row'[h].relays[r] = row[h].relays[r]
              \/ row'[h].relays[r].token = Absent /\ <<h, r>> \in frames
<1>1. PICK target \in Targets :
            /\ SetTarget(t, target)
            /\ target.stage = "succeeded" => Complete(t) /\ target.token = Absent
  BY RelayWrites DEF Evidence, WritesRelay
<1>2. /\ row[h] # Absent
      /\ row'[h].relays[r] = IF h = pass[t].intent /\ r = Visiting(t)
                             THEN target ELSE row[h].relays[r]
  BY <1>1, SettledIsLeft, SetTargetWrites DEF Evidence
<1>3. CASE h = pass[t].intent /\ r = Visiting(t)
  <2>1. Complete(t) /\ target.token = Absent
    BY <1>1, <1>2, <1>3
  <2>2. Pair(t) \in frames
    BY <2>1 DEF Complete, Evidence, EvidenceAtHand
  <2> QED BY <1>2, <1>3, <2>1, <2>2 DEF Pair
<1> QED BY <1>2, <1>3

LEMMA EvidenceInit == Init => Evidence
<1> SUFFICES ASSUME Init PROVE Evidence
  OBVIOUS
<1>1. TypeInv
  BY TypeInit
<1>2. EvidenceAtHand
  BY DEF Init, EvidenceAtHand, Idle, Committed
<1> QED BY <1>1, <1>2 DEF Evidence

LEMMA EvidenceStep == Evidence /\ [Next]_vars => Evidence'
<1> SUFFICES ASSUME Evidence, [Next]_vars PROVE Evidence'
  OBVIOUS
<1>1. TypeInv /\ TypeInv'
  BY TypeStep DEF Evidence
<1>2. frames \subseteq frames'
  BY <1>1, WhoSees
<1>3. ASSUME NEW t \in Tabs, pass'[t].at = "completing" PROVE (Pair(t) \in frames)'
  <2>1. CASE pass'[t] = pass[t]
    <3>1. Pair(t) \in frames
      BY <1>3, <2>1 DEF Evidence, EvidenceAtHand
    <3>2. Pair(t)' = Pair(t)
      BY <2>1 DEF Pair, Visiting
    <3> QED BY <3>1, <3>2, <1>2
  <2>2. CASE Pair(t) \in frames /\ Goto(t, "completing")
    <3>1. pass'[t] = [pass[t] EXCEPT !.at = "completing"] /\ pass[t] \in Passes
      BY <2>2, <1>1 DEF Goto, TypeInv, PublicationTypeOK
    <3>2. pass'[t].intent = pass[t].intent /\ pass'[t].visit = pass[t].visit
      BY <3>1 DEF Passes
    <3>3. Pair(t)' = Pair(t)
      BY <3>2 DEF Pair, Visiting
    <3> QED BY <2>2, <3>3, <1>2
  <2> QED BY <2>1, <2>2, <1>1, <1>3, WhoSees
<1>4. ASSUME NEW h \in Intents, NEW r \in Relays,
             row'[h] # Absent, row'[h].relays[r].stage = "succeeded"
      PROVE  row'[h].relays[r].token = Absent /\ <<h, r>> \in frames'
  <2>1. CASE row[h] # Absent /\ row'[h].relays[r] = row[h].relays[r]
    BY <2>1, <1>2, <1>4 DEF Evidence, EvidenceAtHand, Committed
  <2>2. ASSUME NEW t \in Tabs, Commit(t)
        PROVE  row[h] # Absent /\ row'[h].relays[r] = row[h].relays[r]
    BY <1>1, <1>4, <2>2, CommitKeeps
  <2>3. ASSUME NEW t \in Tabs, WritesRelay(t)
        PROVE  \/ row[h] # Absent /\ row'[h].relays[r] = row[h].relays[r]
               \/ row'[h].relays[r].token = Absent /\ <<h, r>> \in frames
    BY <1>4, <2>3, NewSuccess
  <2>4. CASE row' = row
    BY <2>1, <2>4, <1>4
  <2> QED BY <1>2, <2>1, <2>2, <2>3, <2>4, WhoWrites
<1>5. EvidenceAtHand'
  BY <1>3, <1>4 DEF EvidenceAtHand, Committed
<1> QED BY <1>1, <1>5 DEF Evidence

\* A relay recorded as succeeded has the frame, however many passes of however many tabs work
\* on it and whatever answers are lost.
THEOREM SuccessCorrect == Spec => []SuccessIsEvidence
<1>1. Evidence => SuccessIsEvidence
  BY DEF Evidence, EvidenceAtHand, SuccessIsEvidence, Confirmed, Pairs
<1> QED BY <1>1, EvidenceInit, EvidenceStep, PTL DEF Spec

\* Nothing a late or repeated pass writes takes a success back, or touches its row.
SuccessIsFinal ==
    [][\A h \in Intents, r \in Relays :
         Committed(h) /\ row[h].relays[r].stage = "succeeded"
            => row'[h].relays[r] = row[h].relays[r]]_vars

\* No step takes a success back.
THEOREM SuccessStays == Spec => SuccessIsFinal
<1>1. Evidence /\ [Next]_vars =>
        [\A h \in Intents, r \in Relays :
           Committed(h) /\ row[h].relays[r].stage = "succeeded"
              => row'[h].relays[r] = row[h].relays[r]]_vars
  BY SuccessKept
<1> QED BY <1>1, EvidenceInit, EvidenceStep, PTL DEF Spec, SuccessIsFinal

-----------------------------------------------------------------------------
(* The chain.                                                              *)

LEMMA ChainInit == Init => Chain
<1> SUFFICES ASSUME Init PROVE Chain
  OBVIOUS
<1>1. TypeInv
  BY TypeInit
<1>2. head.next = 0 /\ head.previous = Absent
  BY DEF Init, NoHead
<1>3. Reserved = {}
  BY DEF Init, Reserved, Committed
<1>4. Cardinality({}) = 0
  BY FS_EmptySet
<1>5. 0..head.next - 1 = {}
  BY <1>2
<1>6. AuthorChain
  BY <1>2, <1>3, <1>4, <1>5 DEF AuthorChain
<1> QED BY <1>1, <1>2, <1>6 DEF Chain

\* A step that reserves nothing leaves the chain as it is.
LEMMA ChainKept ==
    ASSUME Chain, head' = head,
           \A h \in Intents : row'[h] = Absent <=> row[h] = Absent,
           \A h \in Intents : row[h] # Absent =>
                /\ row'[h].sequence = row[h].sequence
                /\ row'[h].before = row[h].before
    PROVE  AuthorChain' /\ (head'.next = 0 => head'.previous = Absent)
<1>1. Reserved' = Reserved
  BY DEF Reserved, Committed
<1>2. /\ {row[h].sequence : h \in Reserved} = 0..head.next - 1
      /\ Cardinality(Reserved) = head.next
      /\ \A h \in Reserved :
           IF row[h].sequence = 0
           THEN row[h].before = Absent
           ELSE /\ row[h].before \in Reserved
                /\ row[row[h].before].sequence = row[h].sequence - 1
      /\ head.next > 0 => /\ head.previous \in Reserved
                          /\ row[head.previous].sequence = head.next - 1
      /\ head.next = 0 => head.previous = Absent
  BY DEF Chain, AuthorChain
<1>3. \A h \in Reserved : h \in Intents /\ row[h] # Absent
  BY DEF Reserved, Committed
<1>4. \A h \in Reserved : row'[h].sequence = row[h].sequence /\ row'[h].before = row[h].before
  BY <1>3
<1> HIDE DEF Reserved
<1>5. {row'[h].sequence : h \in Reserved} = {row[h].sequence : h \in Reserved}
  BY <1>4
<1>6. /\ {row'[h].sequence : h \in Reserved} = 0..head'.next - 1
      /\ Cardinality(Reserved) = head'.next
      /\ \A h \in Reserved :
           IF row'[h].sequence = 0
           THEN row'[h].before = Absent
           ELSE /\ row'[h].before \in Reserved
                /\ row'[row'[h].before].sequence = row'[h].sequence - 1
      /\ head'.next > 0 => /\ head'.previous \in Reserved
                           /\ row'[head'.previous].sequence = head'.next - 1
  BY <1>2, <1>4, <1>5
<1> QED BY <1>1, <1>2, <1>6 DEF AuthorChain

\* A reservation adds the next link.
LEMMA ChainGrows ==
    ASSUME Chain, NEW t \in Tabs, Commit(t)
    PROVE  AuthorChain' /\ (head'.next = 0 => head'.previous = Absent)
<1> DEFINE g == pass[t].intent
           n == head.next
<1>1. TypeInv /\ n \in Nat
  BY DEF Chain, TypeInv, PublicationTypeOK, Heads
<1>2. /\ g \in Intents
      /\ \A h \in Intents : h # g => row'[h] = row[h]
      /\ row'[g] # Absent /\ row'[g].sequence = n /\ row'[g].before = head.previous
      /\ head'.next = n + 1 /\ head'.previous = g
  BY <1>1, CommitWrites, PublicationAssumption
<1>3. g \notin Reserved
  BY DEF Commit, Reserved
<1>4. Reserved' = Reserved \cup {g}
  BY <1>2 DEF Reserved, Committed
<1>5. /\ {row[h].sequence : h \in Reserved} = 0..n - 1
      /\ Cardinality(Reserved) = n
      /\ \A h \in Reserved :
           IF row[h].sequence = 0
           THEN row[h].before = Absent
           ELSE /\ row[h].before \in Reserved
                /\ row[row[h].before].sequence = row[h].sequence - 1
      /\ n > 0 => /\ head.previous \in Reserved
                  /\ row[head.previous].sequence = n - 1
      /\ n = 0 => head.previous = Absent
  BY DEF Chain, AuthorChain
<1>6. \A h \in Reserved : row'[h] = row[h]
  BY <1>2, <1>3 DEF Reserved
<1>7. IsFiniteSet(Reserved)
  BY FS_Subset, PublicationAssumption DEF Reserved
<1> HIDE DEF Reserved, g, n
<1>8. Cardinality(Reserved \cup {g}) = n + 1
  BY <1>3, <1>5, <1>7, FS_AddElement
<1>9. {row'[h].sequence : h \in Reserved \cup {g}} = 0..n
  <2>1. {row'[h].sequence : h \in Reserved \cup {g}} = {row[h].sequence : h \in Reserved} \cup {n}
    BY <1>2, <1>6
  <2>2. (0..n - 1) \cup {n} = 0..n
    BY <1>1
  <2> QED BY <2>1, <2>2, <1>5
<1>10. ASSUME NEW h \in Reserved \cup {g}
       PROVE  IF row'[h].sequence = 0
              THEN row'[h].before = Absent
              ELSE /\ row'[h].before \in Reserved \cup {g}
                   /\ row'[row'[h].before].sequence = row'[h].sequence - 1
  <2>1. CASE h = g
    BY <2>1, <1>1, <1>2, <1>5, <1>6
  <2>2. CASE h \in Reserved
    BY <2>2, <1>5, <1>6
  <2> QED BY <2>1, <2>2
<1>11. /\ head'.next # 0 /\ head'.next - 1 = n
       /\ head'.previous \in Reserved \cup {g} /\ row'[head'.previous].sequence = head'.next - 1
  BY <1>1, <1>2
<1>12. /\ {row'[h].sequence : h \in Reserved \cup {g}} = 0..head'.next - 1
       /\ Cardinality(Reserved \cup {g}) = head'.next
  BY <1>2, <1>8, <1>9, <1>11
<1>13. AuthorChain'
  BY <1>4, <1>10, <1>11, <1>12 DEF AuthorChain
<1> QED BY <1>11, <1>13

LEMMA ChainStep == Chain /\ [Next]_vars => Chain'
<1> SUFFICES ASSUME Chain, [Next]_vars PROVE Chain'
  OBVIOUS
<1>1. TypeInv /\ TypeInv'
  BY TypeStep DEF Chain
<1>2. ASSUME NEW t \in Tabs, Commit(t)
      PROVE  AuthorChain' /\ (head'.next = 0 => head'.previous = Absent)
  BY <1>2, ChainGrows
<1>3. ASSUME NEW t \in Tabs, WritesRelay(t), head' = head
      PROVE  AuthorChain' /\ (head'.next = 0 => head'.previous = Absent)
  BY <1>1, <1>3, RelayRows, ChainKept DEF WritesRelay
<1>4. CASE head' = head /\ row' = row
  <2>1. AuthorChain' /\ (head'.next = 0 => head'.previous = Absent)
    BY <1>4, ChainKept
  <2> QED BY <1>1, <2>1 DEF Chain
<1> QED BY <1>1, <1>2, <1>3, <1>4, WhoWrites DEF Chain

\* Whatever passes of whatever tabs reserve, with and without the lock of the writer session,
\* from heads they read before their PUTs: the reservations form one gapless chain that ends
\* at the stored head.
THEOREM ChainCorrect == Spec => []AuthorChain
<1>1. Chain => AuthorChain
  BY DEF Chain
<1> QED BY <1>1, ChainInit, ChainStep, PTL DEF Spec

-----------------------------------------------------------------------------
(* The ledger.                                                             *)

\* What is on its way to a relay, or there, has a place in the chain.
SentIsReserved == \A p \in wire \cup frames : Committed(p[1])

LedgerInv == Evidence /\ Chain /\ SentIsReserved

\* The ledger as the rows give it.
Entries == {<<row[h].sequence, h>> : h \in Reserved}
Successes == {p \in Pairs : Confirmed(p)}
LedgerUnchanged == UNCHANGED <<head.next, Entries, frames, Successes>>

\* An APPEND goes out from a pass at a relay only, and the rest loses it or stores it.
LEMMA WhoSends ==
    ASSUME [Next]_vars
    PROVE  \/ wire' \subseteq wire /\ frames' = frames
           \/ \E t \in Tabs : SendAppend(t)
           \/ \E p \in Pairs : Arrive(p)
<1>1. ASSUME NEW t \in Tabs, PassStep(t), ~SendAppend(t)
      PROVE  wire' = wire /\ frames' = frames
  <2>1. CASE Enter(t) \/ EnterFails(t) \/ PutsFail(t) \/ CommitStale(t) \/ CommitConflicts(t)
    BY <2>1 DEF Enter, EnterFails, PutsFail, CommitStale, CommitConflicts, GivesUp, relayVars
  <2>2. CASE Skip(t) \/ ClaimBlocked(t) \/ ReadPresent(t) \/ ReadAbsent(t) \/ Commit(t)
    BY <2>2 DEF Skip, ClaimBlocked, GivesUp, ReadPresent, ReadAbsent, Commit, relayVars
  <2>3. CASE AppendOk(t) \/ Fails(t) \/ Resolve(t)
    BY <2>3 DEF AppendOk, Fails, Resolve, relayVars
  <2>4. CASE Claim(t) \/ MarkAbsent(t) \/ Complete(t) \/ RecordFailure(t)
    BY <2>4 DEF Claim, MarkAbsent, Complete, RecordFailure, relayVars
  <2> QED BY <1>1, <2>1, <2>2, <2>3, <2>4 DEF PassStep
<1>2. ASSUME NEW t \in Tabs, Retry(t) \/ Reload(t) \/ \E h \in Intents : Author(t, h)
      PROVE  wire' = wire /\ frames' = frames
  BY <1>2 DEF Retry, Reload, Author, StartPass, relayVars
<1>3. ASSUME NEW p \in Pairs, Lose(p) PROVE wire' \subseteq wire /\ frames' = frames
  BY <1>3 DEF Lose
<1>4. CASE Tick \/ UNCHANGED vars
  BY <1>4 DEF Tick, vars, relayVars
<1> QED BY <1>1, <1>2, <1>3, <1>4 DEF Next

\* Rows are for ever.
LEMMA ReservedStay ==
    ASSUME TypeInv, [Next]_vars, NEW h \in Intents, Committed(h)
    PROVE  Committed(h)'
<1>1. ASSUME NEW t \in Tabs, Commit(t) PROVE Committed(h)'
  BY <1>1, CommitWrites, PublicationAssumption DEF Committed
<1>2. ASSUME NEW t \in Tabs, WritesRelay(t) PROVE Committed(h)'
  BY <1>2, RelayRows DEF WritesRelay, Committed
<1> QED BY <1>1, <1>2, WhoWrites DEF Committed

LEMMA LedgerInit == Init => LedgerInv
<1> SUFFICES ASSUME Init PROVE LedgerInv
  OBVIOUS
<1>1. Evidence /\ Chain
  BY EvidenceInit, ChainInit
<1>2. SentIsReserved
  BY DEF Init, SentIsReserved
<1> QED BY <1>1, <1>2 DEF LedgerInv

LEMMA LedgerStep == LedgerInv /\ [Next]_vars => LedgerInv'
<1> SUFFICES ASSUME LedgerInv, [Next]_vars PROVE LedgerInv'
  OBVIOUS
<1>1. TypeInv /\ SentIsReserved /\ Evidence' /\ Chain'
  BY EvidenceStep, ChainStep DEF LedgerInv, Chain
<1>2. wire \subseteq Pairs /\ frames \subseteq Pairs
  BY <1>1 DEF TypeInv, PublicationTypeOK
<1>3. ASSUME NEW p \in wire' \cup frames' PROVE Committed(p[1])'
  <2>1. CASE p \in wire \cup frames
    BY <2>1, <1>1, <1>2, ReservedStay DEF SentIsReserved, Pairs
  <2>2. ASSUME NEW t \in Tabs, SendAppend(t) PROVE Committed(p[1])'
    <3>1. wire' = wire \cup {Pair(t)} /\ frames' = frames
      BY <2>2 DEF SendAppend
    <3>2. PICK h \in Intents : h = pass[t].intent /\ Committed(h)
      BY <1>1, <2>2 DEF SendAppend, TypeInv, PassesAtRow, RelayPoints, Committed
    <3>3. Committed(h)'
      BY <1>1, <3>2, ReservedStay
    <3>4. CASE p = Pair(t)
      <4>1. p[1] = h
        BY <3>2, <3>4 DEF Pair
      <4> QED BY <3>3, <4>1
    <3> QED BY <1>3, <2>1, <3>1, <3>4
  <2>3. ASSUME NEW q \in Pairs, Arrive(q) PROVE Committed(p[1])'
    BY <1>3, <2>1, <2>3 DEF Arrive
  <2> QED BY <1>3, <2>1, <2>2, <2>3, WhoSends
<1>4. SentIsReserved'
  BY <1>3 DEF SentIsReserved
<1> QED BY <1>1, <1>4 DEF LedgerInv

LEMMA LedgerInvariant == Spec => []LedgerInv
BY LedgerInit, LedgerStep, PTL DEF Spec

\* A record has one place and a place one record.
LEMMA PlacesAreDistinct ==
    ASSUME Chain, NEW g \in Reserved, NEW h \in Reserved, row[g].sequence = row[h].sequence
    PROVE  g = h
<1> DEFINE n == head.next
           place == [k \in Reserved |-> row[k].sequence]
<1>1. /\ n \in Nat
      /\ {row[k].sequence : k \in Reserved} = 0..n - 1
      /\ Cardinality(Reserved) = n
  BY DEF Chain, AuthorChain, TypeInv, PublicationTypeOK, Heads
<1>2. IsFiniteSet(Reserved)
  BY FS_Subset, PublicationAssumption DEF Reserved
<1>3. Cardinality(0..n - 1) = n
  BY <1>1, FS_Interval
<1>4. place \in Surjection(Reserved, 0..n - 1)
  BY <1>1 DEF Surjection
<1>5. place \in Injection(Reserved, 0..n - 1)
  BY <1>1, <1>2, <1>3, <1>4, FS_SurjSameCardinalityImpliesInj
<1>6. \A k, l \in Reserved : place[k] = place[l] => k = l
  BY <1>5 DEF Injection, IsInjective
<1> QED BY <1>6

\* The records of the ledger are the reserved ones, the places theirs.
LEMMA EntriesOfRows ==
    /\ {e[2] : e \in Entries} = Reserved
    /\ {e[1] : e \in Entries} = {row[h].sequence : h \in Reserved}
<1> DEFINE Entry(h) == <<row[h].sequence, h>>
<1>1. \A h \in Reserved : Entry(h) \in Entries
  BY DEF Entries
<1>2. \A e \in Entries : \E h \in Reserved : e = Entry(h)
  BY DEF Entries
<1>3. \A h : Entry(h)[1] = row[h].sequence /\ Entry(h)[2] = h
  OBVIOUS
<1> HIDE DEF Entry
<1>4. {e[2] : e \in Entries} = Reserved
  BY <1>1, <1>2, <1>3
<1>5. {e[1] : e \in Entries} = {row[h].sequence : h \in Reserved}
  BY <1>1, <1>2, <1>3
<1> QED BY <1>4, <1>5

\* Entries are those of rows that stay.
LEMMA LedgerKept ==
    ASSUME Reserved' = Reserved,
           \A h \in Reserved : row'[h].sequence = row[h].sequence
    PROVE  Entries' = Entries
BY DEF Entries

\* A reservation enters its record at the end.
LEMMA CommitEnters ==
    ASSUME LedgerInv, NEW t \in Tabs, Commit(t)
    PROVE  \E h \in Intents : Ledger!Reserve(h)
<1> DEFINE g == pass[t].intent
<1>1. Chain /\ TypeInv
  BY DEF LedgerInv, Chain
<1>2. /\ g \in Intents
      /\ \A h \in Intents : h # g => row'[h] = row[h]
      /\ row'[g] # Absent /\ row'[g].sequence = head.next
      /\ \A r \in Relays : row'[g].relays[r] = NewTarget
  BY <1>1, CommitWrites, PublicationAssumption
<1>3. g \notin Reserved /\ ~Committed(g)
  BY DEF Commit, Reserved
<1>4. Reserved' = Reserved \cup {g}
  BY <1>2 DEF Reserved, Committed
<1>5. \A h \in Reserved : row'[h] = row[h]
  BY <1>2, <1>3 DEF Reserved
<1>6. Entries' = Entries \cup {<<head.next, g>>}
  BY <1>2, <1>4, <1>5 DEF Entries
<1>7. Successes' = Successes
  <2>1. ASSUME NEW p \in Pairs PROVE Confirmed(p)' <=> Confirmed(p)
    <3>1. p[1] \in Intents /\ p[2] \in Relays
      BY DEF Pairs
    <3>2. CASE p[1] = g
      BY <1>2, <1>3, <3>1, <3>2 DEF Confirmed, NewTarget
    <3>3. CASE p[1] # g
      BY <1>2, <3>1, <3>3 DEF Confirmed, Committed
    <3> QED BY <3>2, <3>3
  <2> QED BY <2>1 DEF Successes
<1>8. frames' = frames
  BY DEF Commit, relayVars
<1> HIDE DEF g
<1>9. g \notin {e[2] : e \in Entries} /\ head'.next = head.next + 1
  BY <1>1, <1>3, EntriesOfRows, CommitWrites
<1>10. PICK h \in Intents : h = g
  BY <1>2
<1>11. Ledger!Reserve(h)
  BY <1>6, <1>7, <1>8, <1>9, <1>10 DEF Ledger!Reserve, Ledger!Entered, Entries, Successes
<1> QED BY <1>11

\* A write to a relay of a row confirms it or leaves the ledger as it is.
LEMMA RelayConfirms ==
    ASSUME LedgerInv, NEW t \in Tabs, WritesRelay(t)
    PROVE  \/ \E h \in Intents, r \in Relays : Ledger!Confirm(h, r)
           \/ LedgerUnchanged
<1>1. Evidence /\ TypeInv
  BY DEF LedgerInv, Evidence
<1>2. PICK target \in Targets :
            /\ SetTarget(t, target)
            /\ target.stage = "succeeded" => Complete(t)
  BY <1>1, RelayWrites DEF WritesRelay
<1>3. /\ pass[t].intent \in Intents /\ Visiting(t) \in Relays
      /\ row[pass[t].intent] \in Rows /\ Committed(pass[t].intent)
  BY <1>1, SettledIsLeft
<1>4. /\ \A h \in Intents : row'[h] = Absent <=> row[h] = Absent
      /\ \A h \in Intents : row[h] # Absent =>
           /\ row'[h].sequence = row[h].sequence
           /\ \A r \in Relays :
                row'[h].relays[r] = IF h = pass[t].intent /\ r = Visiting(t)
                                    THEN target ELSE row[h].relays[r]
  BY <1>1, <1>2, <1>3, SetTargetWrites
<1>5. Entries' = Entries
  <2>1. Reserved' = Reserved
    BY <1>4 DEF Reserved, Committed
  <2>2. \A h \in Reserved : row'[h].sequence = row[h].sequence
    BY <1>4 DEF Reserved, Committed
  <2> QED BY <2>1, <2>2, LedgerKept
<1>6. frames' = frames
  BY DEF WritesRelay, Claim, MarkAbsent, Complete, RecordFailure, relayVars
<1>7. head' = head
  BY DEF WritesRelay, Claim, MarkAbsent, Complete, RecordFailure
<1>8. PICK p \in Pairs : p = Pair(t) /\ p[1] = pass[t].intent /\ p[2] = Visiting(t)
  <2>1. Pair(t) \in Pairs
    BY <1>3 DEF Pair, Pairs
  <2>2. Pair(t)[1] = pass[t].intent /\ Pair(t)[2] = Visiting(t)
    BY DEF Pair
  <2> QED BY <2>1, <2>2
<1>9. ~Confirmed(p)
  BY <1>1, <1>8, SettledIsLeft DEF Confirmed, Target
<1>10. ASSUME NEW q \in Pairs, q # p PROVE Confirmed(q)' <=> Confirmed(q)
  <2>1. q[1] \in Intents /\ q[2] \in Relays /\ ~(q[1] = pass[t].intent /\ q[2] = Visiting(t))
    BY <1>8, <1>10 DEF Pairs
  <2> QED BY <1>4, <2>1 DEF Confirmed, Committed
<1>11. Confirmed(p)' <=> target.stage = "succeeded"
  <2>1. row'[p[1]] # Absent /\ row'[p[1]].relays[p[2]] = target
    BY <1>3, <1>4, <1>8 DEF Committed
  <2> QED BY <2>1 DEF Confirmed, Committed
<1>12. CASE target.stage = "succeeded"
  <2>1. p \in frames
    BY <1>1, <1>2, <1>8, <1>12 DEF Complete, Evidence, EvidenceAtHand
  <2>2. Successes' = Successes \cup {p}
    BY <1>10, <1>11, <1>12 DEF Successes
  <2>3. PICK h \in Intents, r \in Relays : p = <<h, r>>
    BY DEF Pairs
  <2>4. Ledger!Confirm(h, r)
    BY <1>5, <1>6, <1>7, <2>1, <2>2, <2>3 DEF Ledger!Confirm, Entries, Successes
  <2> QED BY <2>4
<1>13. CASE target.stage # "succeeded"
  <2>1. Successes' = Successes
    BY <1>9, <1>10, <1>11, <1>13 DEF Successes
  <2> QED BY <1>5, <1>6, <1>7, <2>1 DEF LedgerUnchanged
<1> QED BY <1>12, <1>13

\* A relay stores a record of the ledger, or what it stored does not change.
LEMMA ArrivalHolds ==
    ASSUME LedgerInv, [Next]_vars, row' = row, head' = head
    PROVE  \/ \E h \in Intents, r \in Relays : Ledger!Hold(h, r)
           \/ LedgerUnchanged
<1>1. Entries' = Entries /\ Successes' = Successes
  BY DEF Entries, Successes, Reserved, Committed, Confirmed
<1>2. ASSUME NEW p \in Pairs, Arrive(p)
      PROVE  \E h \in Intents, r \in Relays : Ledger!Hold(h, r)
  <2>1. PICK h \in Intents, r \in Relays : p = <<h, r>>
    BY DEF Pairs
  <2>2. frames' = frames \cup {p}
    BY <1>2 DEF Arrive
  <2>3. h \in Reserved
    BY <1>2, <2>1 DEF LedgerInv, SentIsReserved, Arrive, Reserved
  <2>4. h \in {e[2] : e \in Entries}
    BY <2>3, EntriesOfRows
  <2>5. Ledger!Hold(h, r)
    BY <1>1, <2>1, <2>2, <2>4 DEF Ledger!Hold, Ledger!Entered, Entries, Successes
  <2> QED BY <2>5
<1>3. ASSUME NEW t \in Tabs, SendAppend(t) PROVE frames' = frames
  BY <1>3 DEF SendAppend
<1>4. frames' = frames => LedgerUnchanged
  BY <1>1 DEF LedgerUnchanged
<1> QED BY <1>2, <1>3, <1>4, WhoSends

\* Passes of any number of tabs, with and without the lock, implement the ledger: every step
\* enters one record at the next place, lets a relay hold what is entered, confirms what a
\* relay holds, or changes nothing an author could see.
THEOREM PublicationImplementsLedger == Spec => ImplementsLedger
<1>1. Init => Ledger!Init
  <2> SUFFICES ASSUME Init PROVE Ledger!Init
    OBVIOUS
  <2>1. head.next = 0 /\ Entries = {} /\ Successes = {} /\ frames = {}
    BY DEF Init, NoHead, Entries, Successes, Reserved, Committed, Confirmed, Pairs
  <2> QED BY <2>1 DEF Ledger!Init, Entries, Successes
<1>2. LedgerInv /\ [Next]_vars => [Ledger!Next]_<<head.next, Entries, frames, Successes>>
  <2> SUFFICES ASSUME LedgerInv, [Next]_vars
               PROVE  Ledger!Next \/ LedgerUnchanged
    BY DEF LedgerUnchanged
  <2>1. ASSUME NEW t \in Tabs, Commit(t) PROVE Ledger!Next
    BY <2>1, CommitEnters DEF Ledger!Next
  <2>2. ASSUME NEW t \in Tabs, WritesRelay(t)
        PROVE  Ledger!Next \/ LedgerUnchanged
    BY <2>2, RelayConfirms DEF Ledger!Next
  <2>3. CASE head' = head /\ row' = row
    BY <2>3, ArrivalHolds DEF Ledger!Next
  <2> QED BY <2>1, <2>2, <2>3, WhoWrites
<1>3. LedgerInv /\ [Next]_vars =>
        [Ledger!Next]_<<head.next, {<<row[h].sequence, h>> : h \in Reserved}, frames,
                        {p \in Pairs : Confirmed(p)}>>
  BY <1>2 DEF Entries, Successes
<1> QED BY <1>1, <1>3, LedgerInvariant, PTL DEF Spec, ImplementsLedger, Ledger!Spec

\* What the ledger promises holds of the rows: no two reservations of an author, of whatever
\* tabs, have one place, no place is left out, and every success is of a record in the chain.
THEOREM PublicationKeepsPromise == Spec => []Ledger!Promise
<1>1. ASSUME LedgerInv PROVE Ledger!Promise
  <2>1. Chain /\ Evidence /\ SentIsReserved
    BY <1>1 DEF LedgerInv
  <2>2. /\ {e[2] : e \in Entries} = Reserved
        /\ {e[1] : e \in Entries} = {row[h].sequence : h \in Reserved}
    BY EntriesOfRows
  <2>3. {e[1] : e \in Entries} = 0..head.next - 1
    BY <2>1, <2>2 DEF Chain, AuthorChain
  <2>4. ASSUME NEW d \in Entries, NEW e \in Entries PROVE d[1] = e[1] <=> d[2] = e[2]
    <3>1. PICK g \in Reserved : d = <<row[g].sequence, g>>
      BY DEF Entries
    <3>2. PICK h \in Reserved : e = <<row[h].sequence, h>>
      BY DEF Entries
    <3> QED BY <2>1, <3>1, <3>2, PlacesAreDistinct
  <2>5. Successes \subseteq frames
    BY <2>1 DEF Successes, Confirmed, Evidence, EvidenceAtHand, Pairs
  <2>6. \A p \in frames : p[1] \in {e[2] : e \in Entries}
    BY <2>1, <2>2 DEF SentIsReserved, Reserved, Evidence, TypeInv, PublicationTypeOK, Pairs
  <2> QED BY <2>3, <2>4, <2>5, <2>6 DEF Ledger!Promise, Ledger!Entered, Entries, Successes
<1> QED BY <1>1, LedgerInvariant, PTL

-----------------------------------------------------------------------------
(* Sessions of a tab, and resends *)

\* Where a pass is inside the writer session.
Working == {"putting", "visiting"} \cup RelayPoints

\* The one pass inside holds the lock, and what it looked up when it entered still holds.
Session ==
    lock # NoLocks =>
        /\ \A t \in Tabs : pass[t].at \in Working => lock = t
        /\ \A t \in Tabs : pass[t].at = "putting" => ~Committed(pass[t].intent)
        /\ blocked = {}

SessionInv == TypeInv /\ Session

\* What may go out unseen has not gone out: a relay nobody has claimed, and the relay of a pass
\* that is about to send.
Unseen(h, r) == row[h] = Absent \/ row[h].relays[r].stage = "prepared"
Unsent ==
    lock # NoLocks =>
        /\ \A p \in Pairs : unread[p] <= 1
        /\ \A h \in Intents, r \in Relays : Unseen(h, r) => unread[<<h, r>>] = 0
        /\ \A t \in Tabs : pass[t].at \in {"marking", "sending"} => unread[Pair(t)] = 0
        /\ \A t \in Tabs : pass[t].at \in RelayPoints => Target(t).stage # "prepared"

SendInv == SessionInv /\ Unsent

-----------------------------------------------------------------------------
(* How a step moves the passes.                                            *)

\* Where a pass may go.
LEMMA PassPoints ==
    ASSUME TypeInv, NEW t \in Tabs
    PROVE  /\ Leave(t) => /\ pass'[t].at = "idle"
                          /\ \A u \in Tabs \ {t} : pass'[u] = pass[u]
           /\ \A point \in RelayPoints : Goto(t, point) =>
                /\ pass'[t].at = point
                /\ pass'[t].intent = pass[t].intent /\ pass'[t].visit = pass[t].visit
                /\ Pair(t)' = Pair(t)
                /\ \A u \in Tabs \ {t} : pass'[u] = pass[u]
           /\ NextRelay(t) => /\ pass'[t].at = "visiting"
                              /\ \A u \in Tabs \ {t} : pass'[u] = pass[u]
           /\ Commit(t) => /\ pass'[t].at = "visiting"
                           /\ \A u \in Tabs \ {t} : pass'[u] = pass[u]
           /\ Enter(t) => /\ pass'[t].at = IF Committed(pass[t].intent) THEN "visiting"
                                                                       ELSE "putting"
                          /\ pass'[t].intent = pass[t].intent
                          /\ \A u \in Tabs \ {t} : pass'[u] = pass[u]
<1>p. pass \in [Tabs -> Passes]
  BY DEF TypeInv, PublicationTypeOK
<1>1. ASSUME NEW p, pass' = [pass EXCEPT ![t] = p]
      PROVE  pass'[t] = p /\ \A u \in Tabs \ {t} : pass'[u] = pass[u]
  BY <1>1, <1>p
<1>2. ASSUME Leave(t)
      PROVE  pass'[t].at = "idle" /\ \A u \in Tabs \ {t} : pass'[u] = pass[u]
  <2>1. pass' = [pass EXCEPT ![t] = Idle] /\ Idle.at = "idle"
    BY <1>2 DEF Leave, Idle
  <2> QED BY <2>1, <1>1
<1>3. ASSUME NEW point \in RelayPoints, Goto(t, point)
      PROVE  /\ pass'[t].at = point
             /\ pass'[t].intent = pass[t].intent /\ pass'[t].visit = pass[t].visit
             /\ Pair(t)' = Pair(t)
             /\ \A u \in Tabs \ {t} : pass'[u] = pass[u]
  <2>1. pass'[t] = [pass[t] EXCEPT !.at = point] /\ \A u \in Tabs \ {t} : pass'[u] = pass[u]
    BY <1>3, <1>p DEF Goto
  <2>2. /\ pass'[t].at = point
        /\ pass'[t].intent = pass[t].intent /\ pass'[t].visit = pass[t].visit
    BY <2>1, <1>p DEF Passes
  <2> QED BY <2>1, <2>2 DEF Pair, Visiting
<1>4. ASSUME NextRelay(t)
      PROVE  pass'[t].at = "visiting" /\ \A u \in Tabs \ {t} : pass'[u] = pass[u]
  <2>1. pass' = [pass EXCEPT ![t] = [pass[t] EXCEPT !.at = "visiting", !.visit = @ + 1]]
    BY <1>4 DEF NextRelay
  <2> QED BY <2>1, <1>1, <1>p DEF Passes
<1>5. ASSUME Commit(t)
      PROVE  pass'[t].at = "visiting" /\ \A u \in Tabs \ {t} : pass'[u] = pass[u]
  <2>1. pass' = [pass EXCEPT ![t] = [pass[t] EXCEPT !.at = "visiting", !.visit = 1]]
    BY <1>5 DEF Commit
  <2> QED BY <2>1, <1>1, <1>p DEF Passes
<1>6. ASSUME Enter(t)
      PROVE  /\ pass'[t].at = IF Committed(pass[t].intent) THEN "visiting" ELSE "putting"
             /\ pass'[t].intent = pass[t].intent
             /\ \A u \in Tabs \ {t} : pass'[u] = pass[u]
  <2>1. CASE Committed(pass[t].intent)
    <3>1. pass' = [pass EXCEPT ![t] = [pass[t] EXCEPT !.at = "visiting", !.visit = 1]]
      BY <1>6, <2>1 DEF Enter
    <3> QED BY <2>1, <3>1, <1>1, <1>p DEF Passes
  <2>2. CASE ~Committed(pass[t].intent)
    <3>1. pass' = [pass EXCEPT ![t] = [pass[t] EXCEPT !.at = "putting", !.head = head]]
      BY <1>6, <2>2 DEF Enter
    <3> QED BY <2>2, <3>1, <1>1, <1>p DEF Passes
  <2> QED BY <2>1, <2>2
<1> QED BY <1>2, <1>3, <1>4, <1>5, <1>6

\* A pass starts by waiting.
LEMMA StartPoint ==
    ASSUME TypeInv, NEW t \in Tabs, NEW h \in Intents, StartPass(t, h)
    PROVE  pass'[t].at = "waiting" /\ \A u \in Tabs \ {t} : pass'[u] = pass[u]
<1>1. pass \in [Tabs -> Passes]
  BY DEF TypeInv, PublicationTypeOK
<1>2. /\ pass' = [pass EXCEPT ![t] = [Idle EXCEPT !.at = "waiting", !.intent = h]]
      /\ [Idle EXCEPT !.at = "waiting", !.intent = h].at = "waiting"
  BY DEF StartPass, Idle
<1> QED BY <1>1, <1>2

\* The three ways in which a step treats the writer session.
LEMMA SessionMoves ==
    ASSUME TypeInv, NEW t \in Tabs, PassStep(t)
    PROVE  \/ Leave(t) /\ (row' = row \/ RecordFailure(t))
           \/ Enter(t)
           \/ /\ lock' = lock /\ blocked' = blocked
              /\ pass[t].at \in Working
              /\ pass'[t].at \in RelayPoints \cup {"visiting"}
              /\ \A u \in Tabs \ {t} : pass'[u] = pass[u]
<1>1. CASE EnterFails(t) \/ PutsFail(t) \/ CommitStale(t) \/ CommitConflicts(t)
  BY <1>1 DEF EnterFails, PutsFail, CommitStale, CommitConflicts, GivesUp, journalVars
<1>2. CASE ClaimBlocked(t) \/ RecordFailure(t) \/ Resolve(t)
  BY <1>2 DEF ClaimBlocked, GivesUp, RecordFailure, Resolve, journalVars
<1>3. CASE Commit(t)
  BY <1>3, PassPoints DEF Commit, Working
<1>4. CASE Skip(t) \/ Complete(t)
  BY <1>4, PassPoints DEF Skip, Complete, AtRelay, Working, RelayPoints
<1>5. CASE Claim(t)
  <2>1. PICK point \in RelayPoints : Goto(t, point)
    BY <1>5 DEF Claim, RelayPoints
  <2> QED BY <1>5, <2>1, PassPoints DEF Claim, AtRelay, Working
<1>6. CASE ReadPresent(t) \/ ReadAbsent(t) \/ MarkAbsent(t)
  <2>1. PICK point \in RelayPoints : Goto(t, point)
    BY <1>6 DEF ReadPresent, ReadAbsent, MarkAbsent, RelayPoints
  <2>2. pass[t].at \in Working /\ lock' = lock /\ blocked' = blocked
    BY <1>6 DEF ReadPresent, ReadAbsent, MarkAbsent, Working, RelayPoints
  <2> QED BY <2>1, <2>2, PassPoints
<1>7. CASE SendAppend(t) \/ AppendOk(t) \/ Fails(t)
  <2>1. PICK point \in RelayPoints : Goto(t, point)
    BY <1>7 DEF SendAppend, AppendOk, Fails, RelayPoints
  <2>2. pass[t].at \in Working /\ lock' = lock /\ blocked' = blocked
    BY <1>7 DEF SendAppend, AppendOk, Fails, Working, RelayPoints
  <2> QED BY <2>1, <2>2, PassPoints
<1> QED BY <1>1, <1>2, <1>3, <1>4, <1>5, <1>6, <1>7 DEF PassStep

\* A browser that has no locks does not get them.
LEMMA NoLocksStay ==
    ASSUME TypeInv, [Next]_vars, lock = NoLocks
    PROVE  lock' = NoLocks
<1>1. ASSUME NEW t \in Tabs, Leave(t) PROVE lock' = NoLocks
  BY <1>1, PublicationAssumption DEF Leave
<1>2. ASSUME NEW t \in Tabs, PassStep(t) PROVE lock' = NoLocks
  BY <1>1, <1>2, SessionMoves DEF Enter
<1>3. ASSUME NEW t \in Tabs, Retry(t) \/ \E h \in Intents : Author(t, h) PROVE lock' = NoLocks
  BY <1>3 DEF Retry, Author, StartPass
<1>4. ASSUME NEW t \in Tabs, Reload(t) PROVE lock' = NoLocks
  BY <1>1, <1>4 DEF Reload
<1>5. ASSUME NEW p \in Pairs, Arrive(p) \/ Lose(p) PROVE lock' = NoLocks
  BY <1>5 DEF Arrive, Lose
<1>6. CASE Tick \/ UNCHANGED vars
  BY <1>6 DEF Tick, vars
<1> QED BY <1>2, <1>3, <1>4, <1>5, <1>6 DEF Next

-----------------------------------------------------------------------------
(* One pass at a time.                                                     *)

LEMMA SessionInit == Init => SessionInv
<1> SUFFICES ASSUME Init PROVE SessionInv
  OBVIOUS
<1>1. TypeInv
  BY TypeInit
<1>2. \A t \in Tabs : pass[t].at = "idle"
  BY DEF Init, Idle
<1>3. Session
  BY <1>2 DEF Init, Session, Working, RelayPoints
<1> QED BY <1>1, <1>3 DEF SessionInv

\* The end of a pass lets the lock go and puts nobody else in its place.
LEMMA SessionLeft ==
    ASSUME SessionInv, NEW t \in Tabs, Leave(t), lock # NoLocks,
           blocked' \subseteq blocked,
           row' = row \/ pass[t].at \in Working
    PROVE  Session'
<1>1. TypeInv /\ Session
  BY DEF SessionInv
<1>2. pass'[t].at = "idle" /\ \A u \in Tabs \ {t} : pass'[u] = pass[u]
  BY <1>1, PassPoints
<1>3. ASSUME NEW u \in Tabs, pass'[u].at \in Working
      PROVE  u # t /\ pass'[u] = pass[u] /\ lock = u /\ lock' = u /\ row' = row
  <2>1. u # t
    BY <1>2, <1>3 DEF Working, RelayPoints
  <2>2. pass'[u] = pass[u] /\ lock = u
    BY <1>1, <1>2, <1>3, <2>1 DEF Session
  <2>3. lock' = u
    BY <2>1, <2>2 DEF Leave
  <2>4. pass[t].at \notin Working
    BY <1>1, <2>1, <2>2 DEF Session
  <2> QED BY <2>1, <2>2, <2>3, <2>4
<1>4. ASSUME NEW u \in Tabs, pass'[u].at = "putting" PROVE row'[pass'[u].intent] = Absent
  <2>1. pass'[u] = pass[u] /\ row' = row
    BY <1>3, <1>4 DEF Working
  <2> QED BY <1>1, <1>4, <2>1 DEF Session, Committed
<1> QED BY <1>1, <1>3, <1>4 DEF Session, Committed

LEMMA SessionStep == SessionInv /\ [Next]_vars => SessionInv'
<1> SUFFICES ASSUME SessionInv, [Next]_vars, lock # NoLocks PROVE Session'
  BY TypeStep, NoLocksStay DEF SessionInv, Session
<1>1. TypeInv /\ Session
  BY DEF SessionInv
<1>2. ASSUME NEW t \in Tabs, PassStep(t) PROVE Session'
  <2>1. CASE Leave(t) /\ ~CommitConflicts(t)
    <3>1. blocked' = blocked
      BY <1>2, <2>1 DEF PassStep, EnterFails, PutsFail, CommitStale, ClaimBlocked, GivesUp,
        RecordFailure, Resolve, Enter, Commit, Skip, Claim, ReadPresent, ReadAbsent, MarkAbsent,
        SendAppend, AppendOk, Complete, Fails
    <3>2. row' = row \/ pass[t].at \in Working
      <4>1. ASSUME RecordFailure(t) \/ Enter(t) PROVE row' = row \/ pass[t].at \in Working
        BY <4>1 DEF RecordFailure, Enter, journalVars, Working, RelayPoints
      <4> QED BY <4>1, <1>1, <1>2, SessionMoves
    <3> QED BY <2>1, <3>1, <3>2, SessionLeft
  <2>2. CASE CommitConflicts(t)
    BY <1>1, <2>2 DEF Session, CommitConflicts
  <2>3. CASE Enter(t)
    <3>1. /\ lock = Absent /\ lock' = t /\ row' = row /\ blocked' = blocked
      BY <2>3 DEF Enter, SessionFree, journalVars
    <3>2. \A u \in Tabs \ {t} : pass'[u] = pass[u] /\ pass[u].at \notin Working
      BY <1>1, <2>3, <3>1, PassPoints, PublicationAssumption DEF Session
    <3>3. pass'[t].at = "putting" => row'[pass'[t].intent] = Absent
      BY <1>1, <2>3, <3>1, PassPoints DEF Committed
    <3> QED BY <1>1, <3>1, <3>2, <3>3 DEF Session, Committed, Working
  <2>4. CASE /\ lock' = lock /\ blocked' = blocked
             /\ pass[t].at \in Working
             /\ pass'[t].at \in RelayPoints \cup {"visiting"}
             /\ \A u \in Tabs \ {t} : pass'[u] = pass[u]
    <3>1. lock = t
      BY <1>1, <2>4 DEF Session
    <3>2. \A u \in Tabs \ {t} : pass'[u].at \notin Working
      BY <1>1, <2>4, <3>1 DEF Session
    <3>3. pass'[t].at # "putting"
      BY <2>4 DEF RelayPoints
    <3> QED BY <1>1, <2>4, <3>1, <3>2, <3>3 DEF Session, Working
  <2> QED BY <1>1, <1>2, <2>1, <2>2, <2>3, <2>4, SessionMoves
<1>3. ASSUME NEW t \in Tabs, NEW h \in Intents, StartPass(t, h) PROVE Session'
  <2>1. pass'[t].at = "waiting" /\ \A u \in Tabs \ {t} : pass'[u] = pass[u]
    BY <1>1, <1>3, StartPoint
  <2>2. lock' = lock /\ row' = row /\ blocked' = blocked
    BY <1>3 DEF StartPass, journalVars
  <2> QED BY <1>1, <2>1, <2>2 DEF Session, Committed, Working, RelayPoints
<1>4. ASSUME NEW t \in Tabs, Retry(t) PROVE Session'
  BY <1>1, <1>3, <1>4 DEF Retry, TypeInv, PublicationTypeOK
<1>5. ASSUME NEW t \in Tabs, NEW h \in Intents, Author(t, h) PROVE Session'
  BY <1>3, <1>5 DEF Author
<1>6. ASSUME NEW t \in Tabs, Reload(t) PROVE Session'
  BY <1>6, SessionLeft DEF Reload, journalVars
<1>7. ASSUME NEW p \in Pairs, Arrive(p) \/ Lose(p) PROVE Session'
  BY <1>1, <1>7 DEF Arrive, Lose, Session, Committed, journalVars
<1>8. CASE Tick \/ UNCHANGED vars
  BY <1>1, <1>8 DEF Tick, vars, Session, Committed, journalVars
<1> QED BY <1>2, <1>4, <1>5, <1>6, <1>7, <1>8 DEF Next

\* With the lock of the writer session no tab ever meets a row that another pass reserved
\* while it was putting its cells: authoring is never blocked for a corruption that is none.
THEOREM NoTabIsMisled == Spec => []NoFalseCorruption
<1>1. SessionInv => NoFalseCorruption
  BY DEF SessionInv, Session, NoFalseCorruption
<1> QED BY <1>1, SessionInit, SessionStep, PTL DEF Spec

-----------------------------------------------------------------------------
(* No APPEND goes out twice unseen.                                        *)

LEMMA SendInit == Init => SendInv
<1> SUFFICES ASSUME Init PROVE SendInv
  OBVIOUS
<1>1. SessionInv
  BY SessionInit
<1>2. \A t \in Tabs : pass[t].at = "idle"
  BY DEF Init, Idle
<1>3. Unsent
  BY <1>2 DEF Init, Unsent, RelayPoints, Pairs
<1> QED BY <1>1, <1>3 DEF SendInv

\* A step of one pass leaves what the others rely on: either it writes neither rows nor the
\* history of APPENDs, or it is the one pass in the writer session.
LEMMA UnsentBy ==
    ASSUME SendInv, NEW t \in Tabs, lock # NoLocks,
           \A u \in Tabs \ {t} : pass'[u] = pass[u],
           (row' = row /\ unread' = unread) \/ pass[t].at \in Working,
           \A p \in Pairs : unread'[p] <= 1,
           \A h \in Intents, r \in Relays : Unseen(h, r)' => unread'[<<h, r>>] = 0,
           pass'[t].at \in {"marking", "sending"} => unread'[Pair(t)'] = 0,
           pass'[t].at \in RelayPoints => Target(t)'.stage # "prepared"
    PROVE  Unsent'
<1>1. Session /\ Unsent
  BY DEF SendInv, SessionInv
<1>2. ASSUME NEW u \in Tabs, u # t
      PROVE  /\ pass'[u].at \in {"marking", "sending"} => unread'[Pair(u)'] = 0
             /\ pass'[u].at \in RelayPoints => Target(u)'.stage # "prepared"
  <2>1. pass'[u] = pass[u]
    BY <1>2
  <2>2. CASE row' = row /\ unread' = unread
    <3>1. Pair(u)' = Pair(u) /\ Target(u)' = Target(u)
      BY <2>1, <2>2 DEF Pair, Target, Visiting
    <3> QED BY <1>1, <2>1, <2>2, <3>1 DEF Unsent
  <2>3. CASE pass[t].at \in Working
    <3>1. pass[u].at \notin Working
      BY <1>1, <1>2, <2>3 DEF Session
    <3> QED BY <2>1, <3>1 DEF Working, RelayPoints
  <2> QED BY <2>2, <2>3
<1>3. ASSUME NEW u \in Tabs
      PROVE  /\ pass'[u].at \in {"marking", "sending"} => unread'[Pair(u)'] = 0
             /\ pass'[u].at \in RelayPoints => Target(u)'.stage # "prepared"
  <2>1. CASE u = t
    BY <2>1
  <2>2. CASE u # t
    BY <2>2, <1>2
  <2> QED BY <2>1, <2>2
<1>4. \A u \in Tabs : pass'[u].at \in {"marking", "sending"} => unread'[Pair(u)'] = 0
  BY <1>3
<1>5. \A u \in Tabs : pass'[u].at \in RelayPoints => Target(u)'.stage # "prepared"
  BY <1>3
<1> QED BY <1>4, <1>5 DEF Unsent

\* Steps that only move their pass.
LEMMA UnsentMoves ==
    ASSUME SendInv, NEW t \in Tabs, lock # NoLocks,
           row' = row, unread' = unread,
           \A u \in Tabs \ {t} : pass'[u] = pass[u],
           \/ pass'[t].at \notin RelayPoints
           \/ /\ pass[t].at \in RelayPoints
              /\ \E point \in {"completing", "failing"} : Goto(t, point)
    PROVE  Unsent'
<1>1. TypeInv /\ Unsent
  BY DEF SendInv, SessionInv
<1>2. CASE pass'[t].at \notin RelayPoints
  <2>1. pass'[t].at \notin {"marking", "sending"}
    BY <1>2 DEF RelayPoints
  <2> QED BY <1>1, <1>2, <2>1, UnsentBy DEF Unsent, Unseen
<1>3. CASE /\ pass[t].at \in RelayPoints
           /\ \E point \in {"completing", "failing"} : Goto(t, point)
  <2>1. /\ pass'[t].at \notin {"marking", "sending"}
        /\ pass'[t].intent = pass[t].intent /\ pass'[t].visit = pass[t].visit
    BY <1>1, <1>3, PassPoints DEF RelayPoints
  <2>2. Target(t)' = Target(t)
    BY <2>1 DEF Target, Visiting
  <2> QED BY <1>1, <1>3, <2>1, <2>2, UnsentBy DEF Unsent, Unseen
<1> QED BY <1>2, <1>3

\* The rows a relay step writes: nobody's place becomes unseen again.
LEMMA RelayUnseen ==
    ASSUME SendInv, NEW t \in Tabs, WritesRelay(t), lock # NoLocks, unread' = unread
    PROVE  /\ \A h \in Intents, r \in Relays : Unseen(h, r)' => unread'[<<h, r>>] = 0
           /\ \A p \in Pairs : unread'[p] <= 1
           /\ row'[pass[t].intent].relays[Visiting(t)].stage # "prepared"
<1>1. TypeInv /\ Unsent
  BY DEF SendInv, SessionInv
<1>2. PICK target \in Targets : SetTarget(t, target) /\ target.stage # "prepared"
  BY <1>1, RelayWrites DEF WritesRelay
<1>3. /\ pass[t].intent \in Intents /\ Visiting(t) \in Relays /\ row[pass[t].intent] \in Rows
  <2>1. pass[t].at \in RelayPoints \/ AtRelay(t)
    BY DEF WritesRelay, Claim, MarkAbsent, Complete, RecordFailure, RelayPoints
  <2> QED BY <1>1, <2>1, RelayOfPass
<1>4. /\ \A h \in Intents : row'[h] = Absent <=> row[h] = Absent
      /\ \A h \in Intents : row[h] # Absent =>
           \A r \in Relays : row'[h].relays[r] = IF h = pass[t].intent /\ r = Visiting(t)
                                                 THEN target ELSE row[h].relays[r]
  BY <1>1, <1>2, <1>3, SetTargetWrites
<1>5. ASSUME NEW h \in Intents, NEW r \in Relays, Unseen(h, r)' PROVE Unseen(h, r)
  BY <1>2, <1>4, <1>5 DEF Unseen
<1>6. row[pass[t].intent] # Absent
  BY <1>3, PublicationAssumption
<1> QED BY <1>1, <1>2, <1>3, <1>4, <1>5, <1>6 DEF Unsent

\* The steps of a pass.
LEMMA UnsentPass ==
    ASSUME SendInv, NEW t \in Tabs, PassStep(t), lock # NoLocks
    PROVE  Unsent'
<1>1. TypeInv /\ Session /\ Unsent
  BY DEF SendInv, SessionInv
<1>2. CASE EnterFails(t) \/ PutsFail(t) \/ CommitStale(t) \/ CommitConflicts(t)
           \/ ClaimBlocked(t) \/ Resolve(t)
  <2>1. Leave(t) /\ row' = row /\ unread' = unread
    BY <1>2 DEF EnterFails, PutsFail, CommitStale, CommitConflicts, ClaimBlocked, Resolve,
      GivesUp, journalVars, relayVars
  <2> QED BY <1>1, <2>1, PassPoints, UnsentMoves DEF RelayPoints
<1>3. CASE Enter(t)
  <2>1. row' = row /\ unread' = unread
    BY <1>3 DEF Enter, journalVars, relayVars
  <2>2. /\ pass'[t].at \notin RelayPoints
        /\ \A u \in Tabs \ {t} : pass'[u] = pass[u]
    BY <1>1, <1>3, PassPoints DEF RelayPoints
  <2> QED BY <2>1, <2>2, UnsentMoves
<1>4. CASE Skip(t)
  BY <1>1, <1>4, PassPoints, UnsentMoves DEF Skip, journalVars, relayVars, RelayPoints
<1>5. CASE ReadPresent(t) \/ AppendOk(t) \/ Fails(t)
  <2>1. PICK point \in {"completing", "failing"} : Goto(t, point)
    BY <1>5 DEF ReadPresent, AppendOk, Fails
  <2>2. pass[t].at \in RelayPoints /\ row' = row /\ unread' = unread
    BY <1>5 DEF ReadPresent, AppendOk, Fails, journalVars, relayVars, RelayPoints
  <2>3. \A u \in Tabs \ {t} : pass'[u] = pass[u]
    BY <1>1, <2>1, PassPoints DEF RelayPoints
  <2> QED BY <2>1, <2>2, <2>3, UnsentMoves
<1>6. CASE Commit(t)
  <2>1. pass'[t].at = "visiting" /\ \A u \in Tabs \ {t} : pass'[u] = pass[u]
    BY <1>1, <1>6, PassPoints
  <2>2. unread' = unread /\ pass[t].at \in Working /\ row[pass[t].intent] = Absent
    BY <1>6 DEF Commit, relayVars, Working, Committed
  <2>3. /\ pass[t].intent \in Intents
        /\ \A h \in Intents : h # pass[t].intent => row'[h] = row[h]
    BY <1>1, <1>6, CommitWrites
  <2>4. ASSUME NEW h \in Intents, NEW r \in Relays, Unseen(h, r)' PROVE Unseen(h, r)
    BY <2>2, <2>3, <2>4 DEF Unseen
  <2> QED BY <1>1, <2>1, <2>2, <2>4, UnsentBy DEF Unsent, RelayPoints
<1>7. CASE Claim(t)
  <2>1. /\ pass[t].intent \in Intents /\ Visiting(t) \in Relays
        /\ row[pass[t].intent] \in Rows
    BY <1>1, <1>7, RelayOfPass DEF Claim
  <2>2. /\ Goto(t, IF ClaimedStage(Target(t).stage) = "sending" THEN "sending" ELSE "reading")
        /\ unread' = unread /\ pass[t].at \in Working
    BY <1>7 DEF Claim, AtRelay, relayVars, Working
  <2>3. /\ pass'[t].at \in {"sending", "reading"}
        /\ pass'[t].at = "sending" => ClaimedStage(Target(t).stage) = "sending"
        /\ pass'[t].intent = pass[t].intent /\ pass'[t].visit = pass[t].visit
        /\ Pair(t)' = Pair(t)
        /\ \A u \in Tabs \ {t} : pass'[u] = pass[u]
    <3>1. CASE ClaimedStage(Target(t).stage) = "sending"
      BY <1>1, <2>2, <3>1, PassPoints DEF RelayPoints
    <3>2. CASE ClaimedStage(Target(t).stage) # "sending"
      BY <1>1, <2>2, <3>2, PassPoints DEF RelayPoints
    <3> QED BY <3>1, <3>2
  <2>4. pass'[t].at \in {"marking", "sending"} => unread'[Pair(t)'] = 0
    <3>1. ASSUME pass'[t].at = "sending" PROVE Unseen(pass[t].intent, Visiting(t))
      BY <2>3, <3>1 DEF ClaimedStage, Unseen, Target
    <3> QED BY <1>1, <2>1, <2>2, <2>3, <3>1 DEF Unsent, Pair
  <2>5. Target(t)' = row'[pass[t].intent].relays[Visiting(t)]
    BY <2>3 DEF Target, Visiting
  <2>6. WritesRelay(t)
    BY <1>7 DEF WritesRelay
  <2> QED BY <1>1, <2>2, <2>3, <2>4, <2>5, <2>6, RelayUnseen, UnsentBy
<1>8. CASE MarkAbsent(t)
  <2>1. Goto(t, "sending") /\ unread' = unread /\ pass[t].at = "marking"
    BY <1>8 DEF MarkAbsent, relayVars
  <2>2. /\ pass'[t].intent = pass[t].intent /\ pass'[t].visit = pass[t].visit
        /\ Pair(t)' = Pair(t)
        /\ \A u \in Tabs \ {t} : pass'[u] = pass[u]
    BY <1>1, <2>1, PassPoints DEF RelayPoints
  <2>3. unread'[Pair(t)'] = 0 /\ pass[t].at \in Working
    BY <1>1, <2>1, <2>2 DEF Unsent, Working, RelayPoints
  <2>4. Target(t)' = row'[pass[t].intent].relays[Visiting(t)]
    BY <2>2 DEF Target, Visiting
  <2>5. WritesRelay(t)
    BY <1>8 DEF WritesRelay
  <2> QED BY <1>1, <2>1, <2>2, <2>3, <2>4, <2>5, RelayUnseen, UnsentBy
<1>9. CASE Complete(t)
  <2>1. NextRelay(t) /\ unread' = unread /\ pass[t].at \in Working
    BY <1>9 DEF Complete, relayVars, Working, RelayPoints
  <2>2. pass'[t].at = "visiting" /\ \A u \in Tabs \ {t} : pass'[u] = pass[u]
    BY <1>1, <2>1, PassPoints
  <2>3. WritesRelay(t)
    BY <1>9 DEF WritesRelay
  <2> QED BY <1>1, <2>1, <2>2, <2>3, RelayUnseen, UnsentBy DEF RelayPoints
<1>10. CASE RecordFailure(t)
  <2>1. Leave(t) /\ unread' = unread /\ pass[t].at \in Working
    BY <1>10 DEF RecordFailure, relayVars, Working, RelayPoints
  <2>2. pass'[t].at = "idle" /\ \A u \in Tabs \ {t} : pass'[u] = pass[u]
    BY <1>1, <2>1, PassPoints
  <2>3. CASE ~Holds(t)
    BY <1>1, <1>10, <2>1, <2>2, <2>3, UnsentMoves DEF RecordFailure, RelayPoints
  <2>4. CASE Holds(t)
    <3>1. WritesRelay(t)
      BY <1>10, <2>4 DEF WritesRelay
    <3> QED BY <1>1, <2>1, <2>2, <3>1, RelayUnseen, UnsentBy DEF RelayPoints
  <2> QED BY <2>3, <2>4
<1>11. CASE ReadAbsent(t)
  <2>1. /\ Goto(t, "marking") /\ pass[t].at = "reading" /\ row' = row
        /\ unread' = [unread EXCEPT ![Pair(t)] = 0]
    BY <1>11 DEF ReadAbsent, journalVars
  <2>2. /\ pass'[t].intent = pass[t].intent /\ pass'[t].visit = pass[t].visit
        /\ Pair(t)' = Pair(t)
        /\ \A u \in Tabs \ {t} : pass'[u] = pass[u]
    BY <1>1, <2>1, PassPoints DEF RelayPoints
  <2>3. Pair(t) \in Pairs /\ pass[t].at \in Working
    BY <1>1, <2>1, RelayOfPass DEF RelayPoints, Working
  <2>4. unread \in [Pairs -> Nat]
    BY <1>1 DEF TypeInv, PublicationTypeOK
  <2>5. /\ unread'[Pair(t)] = 0
        /\ \A p \in Pairs : unread'[p] = unread[p] \/ unread'[p] = 0
    BY <2>1, <2>3, <2>4
  <2>6. \A p \in Pairs : unread'[p] <= 1
    BY <1>1, <2>5 DEF Unsent
  <2>7. \A h \in Intents, r \in Relays : Unseen(h, r)' => unread'[<<h, r>>] = 0
    BY <1>1, <2>1, <2>5 DEF Unsent, Unseen, Pairs
  <2>8. Target(t)' = Target(t) /\ Target(t).stage # "prepared"
    BY <1>1, <2>1, <2>2 DEF Target, Visiting, Unsent, RelayPoints
  <2> QED BY <2>2, <2>3, <2>5, <2>6, <2>7, <2>8, UnsentBy
<1>12. CASE SendAppend(t)
  <2>1. /\ Goto(t, "awaiting") /\ pass[t].at = "sending" /\ row' = row
        /\ unread' = [unread EXCEPT ![Pair(t)] = @ + 1]
    BY <1>12 DEF SendAppend, journalVars
  <2>2. /\ pass'[t].at = "awaiting"
        /\ pass'[t].intent = pass[t].intent /\ pass'[t].visit = pass[t].visit
        /\ \A u \in Tabs \ {t} : pass'[u] = pass[u]
    BY <1>1, <2>1, PassPoints DEF RelayPoints
  <2>3. /\ Pair(t) \in Pairs /\ pass[t].at \in Working
        /\ row[pass[t].intent] # Absent
    BY <1>1, <2>1, RelayOfPass, PublicationAssumption DEF RelayPoints, Working
  <2>4. unread \in [Pairs -> Nat] /\ unread[Pair(t)] = 0
    BY <1>1, <2>1 DEF TypeInv, PublicationTypeOK, Unsent
  <2>5. /\ unread'[Pair(t)] = 1
        /\ \A p \in Pairs : p # Pair(t) => unread'[p] = unread[p]
    BY <2>1, <2>3, <2>4
  <2>6. \A p \in Pairs : unread'[p] <= 1
    BY <1>1, <2>5 DEF Unsent
  <2>7. Target(t)' = Target(t) /\ Target(t).stage # "prepared"
    BY <1>1, <2>1, <2>2 DEF Target, Visiting, Unsent, RelayPoints
  <2>8. ASSUME NEW h \in Intents, NEW r \in Relays, Unseen(h, r)'
        PROVE  unread'[<<h, r>>] = 0
    <3>1. <<h, r>> # Pair(t)
      BY <2>1, <2>3, <2>7, <2>8 DEF Unseen, Pair, Target
    <3> QED BY <1>1, <2>1, <2>5, <2>8, <3>1 DEF Unsent, Unseen, Pairs
  <2> QED BY <2>2, <2>3, <2>6, <2>7, <2>8, UnsentBy
<1> QED BY <1>2, <1>3, <1>4, <1>5, <1>6, <1>7, <1>8, <1>9, <1>10, <1>11, <1>12
       DEF PassStep

LEMMA SendStep == SendInv /\ [Next]_vars => SendInv'
<1> SUFFICES ASSUME SendInv, [Next]_vars, lock # NoLocks PROVE Unsent'
  BY SessionStep, NoLocksStay DEF SendInv, SessionInv, Unsent
<1>1. TypeInv /\ Unsent
  BY DEF SendInv, SessionInv
<1>2. ASSUME NEW t \in Tabs, PassStep(t) PROVE Unsent'
  BY <1>2, UnsentPass
<1>3. ASSUME NEW t \in Tabs, NEW h \in Intents, StartPass(t, h) PROVE Unsent'
  <2>1. row' = row /\ unread' = unread
    BY <1>3 DEF StartPass, journalVars, relayVars
  <2> QED BY <1>1, <1>3, <2>1, StartPoint, UnsentMoves DEF RelayPoints
<1>4. ASSUME NEW t \in Tabs, Retry(t) PROVE Unsent'
  BY <1>1, <1>3, <1>4 DEF Retry, TypeInv, PublicationTypeOK
<1>5. ASSUME NEW t \in Tabs, NEW h \in Intents, Author(t, h) PROVE Unsent'
  BY <1>3, <1>5 DEF Author
<1>6. ASSUME NEW t \in Tabs, Reload(t) PROVE Unsent'
  BY <1>1, <1>6, PassPoints, UnsentMoves DEF Reload, journalVars, relayVars, RelayPoints
<1>7. CASE row' = row /\ unread' = unread /\ pass' = pass
  BY <1>1, <1>7 DEF Unsent, Unseen, Pair, Target, Visiting
<1>8. ASSUME NEW p \in Pairs, Arrive(p) \/ Lose(p) PROVE Unsent'
  BY <1>7, <1>8 DEF Arrive, Lose, journalVars
<1>9. CASE Tick \/ UNCHANGED vars
  BY <1>7, <1>9 DEF Tick, vars, journalVars, relayVars
<1> QED BY <1>2, <1>4, <1>5, <1>6, <1>8, <1>9 DEF Next

\* With the lock of the writer session the same APPEND never goes out a second time unless a
\* READ since the first has found its frame absent, across reloads, retries, lost answers,
\* expired leases and any number of tabs.
THEOREM ResendsAreSeen == Spec => []NoBlindResend
<1>1. SendInv => NoBlindResend
  BY DEF SendInv, Unsent, NoBlindResend
<1> QED BY <1>1, SendInit, SendStep, PTL DEF Spec
=============================================================================
