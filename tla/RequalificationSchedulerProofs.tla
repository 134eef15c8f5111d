------------------- MODULE RequalificationSchedulerProofs -------------------
(***************************************************************************)
(* Proofs about RequalificationScheduler, for any adapters, delays, leases *)
(* and number of generations: what is installed is leased, a running       *)
(* scheduler is never stranded, a completion installs nothing stale, and   *)
(* no refresh follows a run without delay.                                 *)
(***************************************************************************)
EXTENDS RequalificationScheduler, TLAPS

-----------------------------------------------------------------------------
(* The inductive invariants *)

\* A generation has begun before the scheduler runs.
SchedulerInv ==
    /\ SchedulerTypeOK
    /\ running => generation > 0
    /\ InstalledIsLeased

\* The run waited for has not settled, and while the scheduler runs it is the one of this
\* generation: only a fatal state leaves behind a run of an earlier one.
WaitsForItsRun ==
    /\ inFlight # NoRun => inFlight \in runs
    /\ running /\ inFlight # NoRun => inFlight = generation
    /\ ~running /\ ~failed => inFlight = NoRun

StrandedInv == WaitsForItsRun /\ NeverStranded

-----------------------------------------------------------------------------
(* The helpers *)

\* A successful run renews later than now and at the deadline at the latest.
LEMMA RenewalIsLater ==
    ASSUME now \in Nat, NEW l \in Nat \ {0}
    PROVE  /\ NextSuccessfulRefresh(now + l) \in Nat
           /\ NextSuccessfulRefresh(now + l) > now
           /\ NextSuccessfulRefresh(now + l) <= now + l
BY SchedulerAssumption DEF NextSuccessfulRefresh, Lesser, Greater

\* A failed run retries later than now, and the delay keeps its bounds.
LEMMA RetryIsLater ==
    ASSUME SchedulerTypeOK
    PROVE  /\ NextRetry \in MinimumRetry..MaximumRetry
           /\ now + retryMillis \in Nat /\ now + retryMillis > now
           /\ StillFresh => /\ current.authorityDeadline \in Nat
                            /\ Lesser(current.authorityDeadline, now + retryMillis) \in Nat
                            /\ Lesser(current.authorityDeadline, now + retryMillis) > now
<1>1. MinimumRetry \in Nat \ {0} /\ MaximumRetry \in Nat /\ now \in Nat
      /\ retryMillis \in MinimumRetry..MaximumRetry
  BY SchedulerAssumption DEF SchedulerTypeOK, ValueTypes
<1>2. NextRetry \in MinimumRetry..MaximumRetry
  BY <1>1 DEF NextRetry, Lesser
<1>3. now + retryMillis \in Nat /\ now + retryMillis > now
  BY <1>1
<1>4. ASSUME StillFresh PROVE current.authorityDeadline \in Nat /\ now < current.authorityDeadline
  BY <1>4 DEF StillFresh, SchedulerTypeOK, ValueTypes, Leases
<1> QED
  BY <1>2, <1>3, <1>4 DEF Lesser

-----------------------------------------------------------------------------
(* The actions preserve SchedulerInv *)

LEMMA InitSchedulerInv == Init => SchedulerInv
<1> SUFFICES ASSUME Init PROVE SchedulerInv
  OBVIOUS
<1>1. retryMillis \in MinimumRetry..MaximumRetry
  BY SchedulerAssumption DEF Init
<1>2. now \in 0..MaxTime
  BY SchedulerAssumption DEF Init
<1>3. SchedulerTypeOK
  <2>1. FlagTypes
    BY DEF Init, FlagTypes
  <2>2. ValueTypes
    BY <1>1, <1>2 DEF Init, ValueTypes, Never, NoRun
  <2> QED
    BY <2>1, <2>2 DEF SchedulerTypeOK
<1>4. InstalledIsLeased
  BY DEF Init, InstalledIsLeased, Nobody
<1> QED
  BY <1>3, <1>4 DEF Init, SchedulerInv

\* What stop() and a fatal state leave behind is leased to nobody.
LEMMA HaltedInv ==
    ASSUME SchedulerInv, Halted, failed' \in BOOLEAN,
           inFlight' \in {inFlight, NoRun}, runs' \subseteq runs
    PROVE  SchedulerInv'
<1>1. FlagTypes'
  BY DEF FlagTypes, Halted
<1>2. ValueTypes'
  BY DEF SchedulerInv, SchedulerTypeOK, ValueTypes, Halted, NoRun, Never
<1> QED
  BY <1>1, <1>2 DEF SchedulerInv, SchedulerTypeOK, InstalledIsLeased, Halted, Nobody

\* A request runs or is remembered.
LEMMA RequestInv ==
    ASSUME SchedulerInv, Start \/ Refresh \/ RefreshTimer PROVE SchedulerInv'
<1>1. CASE Start
  <2>1. FlagTypes'
    BY <1>1 DEF SchedulerInv, SchedulerTypeOK, FlagTypes, Start, Run
  <2>2. ValueTypes'
    <3> USE <1>1 DEF Start, Run
    <3>1. ValueTypes /\ generation' = generation + 1
      BY DEF SchedulerInv, SchedulerTypeOK
    <3>2. refreshAt' \in Nat \cup {Never}
      BY <3>1 DEF ValueTypes, CancelRefreshIfRun
    <3>3. inFlight' \in 0..generation' /\ runs' \subseteq 1..generation'
      <4>1. generation + 1 \in 1..generation + 1 /\ 0..generation \subseteq 0..generation + 1
        BY <3>1 DEF ValueTypes
      <4>2. inFlight' \in {inFlight, generation + 1} /\ runs' \subseteq runs \cup {generation + 1}
        OBVIOUS
      <4> QED
        BY <3>1, <4>1, <4>2 DEF ValueTypes
    <3>4. retryMillis' \in MinimumRetry..MaximumRetry
      BY SchedulerAssumption
    <3> QED
      BY <3>1, <3>2, <3>3, <3>4 DEF ValueTypes
  <2>3. generation' > 0
    BY <1>1 DEF SchedulerInv, SchedulerTypeOK, ValueTypes, Start
  <2> QED
    BY <1>1, <2>1, <2>2, <2>3 DEF SchedulerInv, SchedulerTypeOK, InstalledIsLeased, Start
<1>2. CASE Refresh \/ RefreshTimer
  <2>1. FlagTypes'
    BY <1>2 DEF SchedulerInv, SchedulerTypeOK, FlagTypes, Refresh, RefreshTimer, Run
  <2>2. ValueTypes'
    <3> USE <1>2 DEF Refresh, RefreshTimer, Run
    <3>1. ValueTypes /\ generation \in 1..generation /\ generation' = generation
      BY DEF SchedulerInv, SchedulerTypeOK, ValueTypes
    <3>2. refreshAt' \in Nat \cup {Never}
      BY <3>1 DEF ValueTypes, CancelRefreshIfRun
    <3>3. inFlight' \in 0..generation' /\ runs' \subseteq 1..generation'
      <4>1. inFlight' \in {inFlight, generation} /\ runs' \subseteq runs \cup {generation}
        OBVIOUS
      <4> QED
        BY <3>1, <4>1 DEF ValueTypes
    <3> QED
      BY <3>1, <3>2, <3>3 DEF ValueTypes
  <2> QED
    BY <1>2, <2>1, <2>2
       DEF SchedulerInv, SchedulerTypeOK, InstalledIsLeased, Refresh, RefreshTimer
<1> QED
  BY <1>1, <1>2

\* A discarded completion changes only which runs are waited for.
LEMMA DiscardInv ==
    ASSUME SchedulerInv, NEW g \in runs, Discard(g), runs' = runs \ {g} PROVE SchedulerInv'
<1>1. FlagTypes'
  BY DEF SchedulerInv, SchedulerTypeOK, FlagTypes, Discard
<1>2. ValueTypes'
  BY DEF SchedulerInv, SchedulerTypeOK, ValueTypes, Discard, RunOver, NoRun, timers
<1> QED
  BY <1>1, <1>2 DEF SchedulerInv, SchedulerTypeOK, InstalledIsLeased, Discard, timers

\* The adapters a qualification returned replace the installed ones, with their deadline.
LEMMA InstallInv ==
    ASSUME SchedulerInv, NEW g \in runs, runs' = runs \ {g}, IsCurrentRun(g),
           NEW A \in SUBSET Adapters, NEW l \in Nat \ {0}, Install(A, now + l)
    PROVE  SchedulerInv'
<1>0. now \in Nat /\ MaximumRefreshInterval \in Nat /\ MinimumRetry \in MinimumRetry..MaximumRetry
  BY SchedulerAssumption DEF SchedulerInv, SchedulerTypeOK, ValueTypes
<1>f. FlagTypes'
  BY DEF SchedulerInv, SchedulerTypeOK, FlagTypes, Install, Settled
<1>1. CASE A = {}
  <2>1. ValueTypes'
    BY <1>0, <1>1 DEF SchedulerInv, SchedulerTypeOK, ValueTypes, Install, Settled, NoRun
  <2> QED
    BY <1>1, <1>f, <2>1
       DEF SchedulerInv, SchedulerTypeOK, InstalledIsLeased, Install, Settled, Nobody
<1>2. CASE A # {}
  <2>1. ValueTypes'
    BY <1>0, <1>2, RenewalIsLater
       DEF SchedulerInv, SchedulerTypeOK, ValueTypes, Install, Settled, Arm, NoRun, Leases
  <2>2. current' # Nobody
    BY <1>2 DEF Install, Nobody
  <2> QED
    <3>1. /\ running' /\ generation' > 0 /\ published' = A /\ expiryAt' = now + l
          /\ current' = [adapters |-> A, authorityDeadline |-> now + l]
      BY <1>2 DEF SchedulerInv, Install, Arm, Settled, IsCurrentRun
    <3> QED
      BY <1>f, <2>1, <2>2, <3>1 DEF SchedulerInv, SchedulerTypeOK, InstalledIsLeased
<1> QED
  BY <1>1, <1>2

\* A failed renewal keeps the authority that is left, or none.
LEMMA RetainInv ==
    ASSUME SchedulerInv, NEW g \in runs, runs' = runs \ {g}, IsCurrentRun(g), RetainOrRevoke
    PROVE  SchedulerInv'
<1>0. SchedulerTypeOK /\ ValueTypes /\ now \in Nat
  BY DEF SchedulerInv, SchedulerTypeOK, ValueTypes
<1>f. FlagTypes'
  BY DEF SchedulerInv, SchedulerTypeOK, FlagTypes, RetainOrRevoke, Settled
<1>1. CASE StillFresh
  <2>1. published' \subseteq Adapters
    BY <1>0, <1>1 DEF ValueTypes, Leases, RetainOrRevoke, StillFresh
  <2>2. ValueTypes'
    BY <1>0, <1>1, <2>1, RetryIsLater
       DEF ValueTypes, RetainOrRevoke, Settled, Arm, NoRun
  <2> QED
    BY <1>1, <1>f, <2>2
       DEF SchedulerInv, SchedulerTypeOK, InstalledIsLeased, RetainOrRevoke, StillFresh, Arm,
           Settled, IsCurrentRun
<1>2. CASE ~StillFresh
  <2>1. ValueTypes'
    BY <1>0, <1>2, RetryIsLater DEF ValueTypes, RetainOrRevoke, Settled, NoRun
  <2> QED
    BY <1>2, <1>f, <2>1
       DEF SchedulerInv, SchedulerTypeOK, InstalledIsLeased, RetainOrRevoke, Settled, Nobody
<1> QED
  BY <1>1, <1>2

\* A callback that interrupts the run halts the scheduler.
LEMMA InterruptedInv ==
    ASSUME SchedulerInv, NEW g \in runs, runs' = runs \ {g}, Interrupted PROVE SchedulerInv'
BY HaltedInv DEF Interrupted, Halt, Fatal

LEMMA SettlesInv == ASSUME SchedulerInv, NEW g \in runs, QualifySettles(g) PROVE SchedulerInv'
<1>1. ASSUME NEW A \in SUBSET Adapters, NEW l \in 1..MaxLease, QualifySucceeds(g, A, l)
      PROVE  SchedulerInv'
  <2>1. l \in Nat \ {0}
    OBVIOUS
  <2> QED
    BY <1>1, <2>1, DiscardInv, InstallInv, InterruptedInv DEF QualifySucceeds
<1>2. ASSUME QualifyFails(g) PROVE SchedulerInv'
  BY <1>2, DiscardInv, RetainInv, InterruptedInv DEF QualifyFails
<1> QED
  BY <1>1, <1>2 DEF QualifySettles

\* At the deadline everything installed is revoked.
LEMMA ExpireInv == ASSUME SchedulerInv, Expire PROVE SchedulerInv'
<1>1. CASE Halt \/ (Fatal /\ UNCHANGED inFlight)
  BY <1>1, HaltedInv DEF Expire, Halt, Fatal
<1>2. CASE /\ current' = Nobody /\ published' = {} /\ expiryAt' = Never /\ refreshAt' = now
           /\ UNCHANGED <<now, running, generation, inFlight, rerunRequested, retryMillis, failed>>
           /\ UNCHANGED runs
  <2>1. FlagTypes'
    BY <1>2 DEF SchedulerInv, SchedulerTypeOK, FlagTypes
  <2>2. ValueTypes'
    BY <1>2 DEF SchedulerInv, SchedulerTypeOK, ValueTypes, Never
  <2> QED
    BY <1>2, <2>1, <2>2 DEF SchedulerInv, SchedulerTypeOK, InstalledIsLeased, Nobody
<1> QED
  BY <1>1, <1>2 DEF Expire

LEMMA NextSchedulerInv == SchedulerInv /\ [Next]_vars => SchedulerInv'
<1> SUFFICES ASSUME SchedulerInv, [Next]_vars PROVE SchedulerInv'
  OBVIOUS
<1>1. CASE Start \/ Refresh \/ RefreshTimer
  BY <1>1, RequestInv
<1>2. CASE Stop
  BY <1>2, HaltedInv DEF Stop, Halt
<1>3. CASE \E g \in runs : QualifySettles(g)
  BY <1>3, SettlesInv
<1>4. CASE Expire
  BY <1>4, ExpireInv
<1>5. CASE Tick
  <2>1. FlagTypes'
    BY <1>5 DEF SchedulerInv, SchedulerTypeOK, FlagTypes, Tick
  <2>2. ValueTypes'
    BY <1>5, SchedulerAssumption DEF SchedulerInv, SchedulerTypeOK, ValueTypes, Tick, timers
  <2> QED
    BY <1>5, <2>1, <2>2 DEF SchedulerInv, SchedulerTypeOK, InstalledIsLeased, Tick, timers
<1>6. CASE UNCHANGED vars
  BY <1>6 DEF SchedulerInv, SchedulerTypeOK, FlagTypes, ValueTypes, InstalledIsLeased, vars, timers
<1> QED
  BY <1>1, <1>2, <1>3, <1>4, <1>5, <1>6 DEF Next

-----------------------------------------------------------------------------
(* The actions preserve StrandedInv, unless the owner starts after a fatal state *)

\* A run that ends leaves a refresh scheduled.
LEMMA SettledInv ==
    ASSUME SchedulerInv, StrandedInv, NEW g \in runs, runs' = runs \ {g}, IsCurrentRun(g),
           NEW r \in Nat, Settled(r)
    PROVE  StrandedInv'
<1>1. refreshAt' \in Nat
  BY DEF SchedulerInv, SchedulerTypeOK, ValueTypes, Settled
<1> QED
  BY <1>1 DEF StrandedInv, WaitsForItsRun, NeverStranded, Settled, NoRun, Never, IsCurrentRun

\* While the scheduler runs, a stale completion is not the run it waits for.
LEMMA DiscardStranded ==
    ASSUME SchedulerInv, StrandedInv, NEW g \in runs, Discard(g), runs' = runs \ {g}
    PROVE  StrandedInv'
<1>1. CASE running
  BY <1>1 DEF StrandedInv, WaitsForItsRun, NeverStranded, Discard, RunOver, IsCurrentRun, NoRun,
              timers
<1>2. CASE ~running
  BY <1>2 DEF StrandedInv, WaitsForItsRun, NeverStranded, Discard, RunOver, NoRun, timers
<1> QED
  BY <1>1, <1>2

\* A request ends with a run of this generation in flight.
LEMMA RequestStranded ==
    ASSUME ~OwnerRestarts, SchedulerInv, StrandedInv, Start \/ Refresh \/ RefreshTimer
    PROVE  StrandedInv'
<1>1. CASE Start
  BY <1>1 DEF StrandedInv, WaitsForItsRun, NeverStranded, Start, Run, NoRun
<1>2. CASE Refresh \/ RefreshTimer
  BY <1>2 DEF StrandedInv, WaitsForItsRun, NeverStranded, Refresh, RefreshTimer, Run,
              CancelRefreshIfRun, NoRun
<1> QED
  BY <1>1, <1>2

LEMMA SettlesStranded ==
    ASSUME SchedulerInv, StrandedInv, NEW g \in runs, QualifySettles(g) PROVE StrandedInv'
<1>0. runs' = runs \ {g}
  BY DEF QualifySettles, QualifySucceeds, QualifyFails
<1>1. ASSUME IsCurrentRun(g), NEW A \in SUBSET Adapters, NEW l \in 1..MaxLease,
             Install(A, now + l)
      PROVE  StrandedInv'
  <2>1. /\ now \in Nat /\ l \in Nat \ {0}
        /\ now + MaximumRefreshInterval \in Nat
    BY SchedulerAssumption DEF SchedulerInv, SchedulerTypeOK, ValueTypes
  <2> QED
    BY <1>0, <1>1, <2>1, SettledInv, RenewalIsLater DEF Install
<1>2. ASSUME IsCurrentRun(g), RetainOrRevoke PROVE StrandedInv'
  BY <1>0, <1>2, SettledInv, RetryIsLater DEF RetainOrRevoke, SchedulerInv
<1>3. ASSUME Interrupted PROVE StrandedInv'
  BY <1>0, <1>3 DEF StrandedInv, WaitsForItsRun, NeverStranded, Interrupted, Halt, Fatal, Halted,
                    NoRun
<1> QED
  BY <1>0, <1>1, <1>2, <1>3, DiscardStranded DEF QualifySettles, QualifySucceeds, QualifyFails

LEMMA NextStrandedInv ==
    ASSUME ~OwnerRestarts PROVE SchedulerInv /\ StrandedInv /\ [Next]_vars => StrandedInv'
<1> SUFFICES ASSUME SchedulerInv, StrandedInv, [Next]_vars PROVE StrandedInv'
  OBVIOUS
<1>1. CASE Start \/ Refresh \/ RefreshTimer
  BY <1>1, RequestStranded
<1>2. CASE Stop
  BY <1>2 DEF StrandedInv, WaitsForItsRun, NeverStranded, Stop, Halt, Halted, NoRun
<1>3. CASE \E g \in runs : QualifySettles(g)
  BY <1>3, SettlesStranded
<1>4. CASE Expire
  <2>1. now # Never
    BY DEF SchedulerInv, SchedulerTypeOK, ValueTypes, Never
  <2> QED
    BY <1>4, <2>1 DEF StrandedInv, WaitsForItsRun, NeverStranded, Expire, Halt, Fatal, Halted
<1>5. CASE Tick
  BY <1>5 DEF StrandedInv, WaitsForItsRun, NeverStranded, Tick, timers
<1>6. CASE UNCHANGED vars
  BY <1>6 DEF StrandedInv, WaitsForItsRun, NeverStranded, vars, timers
<1> QED
  BY <1>1, <1>2, <1>3, <1>4, <1>5, <1>6 DEF Next

-----------------------------------------------------------------------------
(* What one step does *)

CompletionHoldsAuthority ==
    /\ \A g \in runs \ runs' :
         IF g = generation THEN published' # {} => now < current'.authorityDeadline
                           ELSE published' = published
    /\ published' \notin {published, {}} => generation \in runs \ runs'

RefreshIsLater ==
    inFlight = generation /\ inFlight' = NoRun /\ running' /\ ~rerunRequested => refreshAt' > now

\* A scheduler that does not run has nothing installed, so the discarded completion of its
\* last generation leaves nothing either.
LEMMA SettlesHoldsAuthority ==
    ASSUME SchedulerInv, NEW g \in runs, QualifySettles(g) PROVE CompletionHoldsAuthority
<1>0. runs \ runs' = {g}
  BY DEF QualifySettles, QualifySucceeds, QualifyFails
<1>1. ASSUME Discard(g) PROVE CompletionHoldsAuthority
  <2>1. g = generation => published = {}
    BY <1>1 DEF Discard, IsCurrentRun, SchedulerInv, InstalledIsLeased, Nobody
  <2> QED
    BY <1>0, <1>1, <2>1 DEF CompletionHoldsAuthority, Discard
<1>2. ASSUME IsCurrentRun(g), NEW A \in SUBSET Adapters, NEW l \in 1..MaxLease,
             Install(A, now + l)
      PROVE  CompletionHoldsAuthority
  <2>1. now \in Nat /\ now < now + l
    BY DEF SchedulerInv, SchedulerTypeOK, ValueTypes
  <2>2. CASE A = {}
    BY <1>0, <1>2, <2>2 DEF CompletionHoldsAuthority, IsCurrentRun, Install
  <2>3. CASE A # {}
    BY <1>0, <1>2, <2>1, <2>3 DEF CompletionHoldsAuthority, IsCurrentRun, Install
  <2> QED
    BY <2>2, <2>3
<1>3. ASSUME IsCurrentRun(g), RetainOrRevoke PROVE CompletionHoldsAuthority
  BY <1>0, <1>3 DEF CompletionHoldsAuthority, IsCurrentRun, RetainOrRevoke, StillFresh
<1>4. ASSUME IsCurrentRun(g), Interrupted PROVE CompletionHoldsAuthority
  BY <1>0, <1>4 DEF CompletionHoldsAuthority, IsCurrentRun, Interrupted, Halt, Fatal, Halted
<1> QED
  BY <1>1, <1>2, <1>3, <1>4 DEF QualifySettles, QualifySucceeds, QualifyFails

LEMMA StepHoldsAuthority == SchedulerInv /\ Next => CompletionHoldsAuthority
<1> SUFFICES ASSUME SchedulerInv, Next PROVE CompletionHoldsAuthority
  OBVIOUS
<1>1. CASE \E g \in runs : QualifySettles(g)
  BY <1>1, SettlesHoldsAuthority
<1>2. CASE Start \/ Refresh \/ RefreshTimer
  BY <1>2 DEF CompletionHoldsAuthority, Start, Refresh, RefreshTimer, Run
<1>3. CASE Stop \/ Expire \/ Tick
  BY <1>3 DEF CompletionHoldsAuthority, Stop, Expire, Tick, Halt, Fatal, Halted
<1> QED
  BY <1>1, <1>2, <1>3 DEF Next

LEMMA RunningGeneration == ASSUME SchedulerInv, running PROVE generation # NoRun
BY DEF SchedulerInv, NoRun

LEMMA SettlesLater ==
    ASSUME SchedulerInv, NEW g \in runs, QualifySettles(g) PROVE RefreshIsLater
<1>1. ASSUME Discard(g) PROVE RefreshIsLater
  BY <1>1, RunningGeneration DEF RefreshIsLater, Discard, RunOver, IsCurrentRun
<1>2. ASSUME NEW A \in SUBSET Adapters, NEW l \in 1..MaxLease, Install(A, now + l)
      PROVE  RefreshIsLater
  <2>1. /\ now \in Nat /\ l \in Nat \ {0}
        /\ now + MaximumRefreshInterval > now
    BY SchedulerAssumption DEF SchedulerInv, SchedulerTypeOK, ValueTypes
  <2> QED
    BY <1>2, <2>1, RenewalIsLater DEF RefreshIsLater, Install, Settled
<1>3. ASSUME RetainOrRevoke PROVE RefreshIsLater
  BY <1>3, RetryIsLater DEF RefreshIsLater, RetainOrRevoke, Settled, SchedulerInv
<1>4. ASSUME Interrupted PROVE RefreshIsLater
  BY <1>4 DEF RefreshIsLater, Interrupted, Halt, Fatal, Halted
<1> QED
  BY <1>1, <1>2, <1>3, <1>4 DEF QualifySettles, QualifySucceeds, QualifyFails

LEMMA StepRefreshesLater == SchedulerInv /\ Next => RefreshIsLater
<1> SUFFICES ASSUME SchedulerInv, Next PROVE RefreshIsLater
  OBVIOUS
<1>1. CASE \E g \in runs : QualifySettles(g)
  BY <1>1, SettlesLater
<1>2. CASE Start \/ Refresh \/ RefreshTimer
  <2>1. generation + 1 # NoRun
    BY DEF SchedulerInv, SchedulerTypeOK, ValueTypes, NoRun
  <2> QED
    BY <1>2, <2>1, RunningGeneration
       DEF RefreshIsLater, Start, Refresh, RefreshTimer, Run
<1>3. CASE Stop \/ Expire \/ Tick
  BY <1>3, RunningGeneration DEF RefreshIsLater, Stop, Expire, Tick, Halt, Fatal, Halted
<1> QED
  BY <1>1, <1>2, <1>3 DEF Next

-----------------------------------------------------------------------------
(* The theorems *)

LEMMA InvHolds == Spec => []SchedulerInv
BY InitSchedulerInv, NextSchedulerInv, PTL DEF Spec

\* Type correctness of the scheduler's state.
THEOREM SchedulerTypes == Spec => []SchedulerTypeOK
<1>1. SchedulerInv => SchedulerTypeOK
  BY DEF SchedulerInv
<1> QED
  BY <1>1, InvHolds, PTL

\* What the consumer holds is what the scheduler holds authority for, with the expiry timer
\* at its deadline, whatever the callbacks, aborts and late completions did.
THEOREM InstalledLeased == Spec => []InstalledIsLeased
<1>1. SchedulerInv => InstalledIsLeased
  BY DEF SchedulerInv
<1> QED
  BY <1>1, InvHolds, PTL

\* As long as its owner does not start it again after a fatal state, a running scheduler has
\* a run of its generation in flight or a refresh scheduled.
THEOREM Unstranded == ASSUME ~OwnerRestarts PROVE Spec => []NeverStranded
<1>1. Init => StrandedInv
  BY DEF Init, StrandedInv, WaitsForItsRun, NeverStranded, NoRun
<1>2. SchedulerInv /\ StrandedInv /\ [Next]_vars => StrandedInv'
  BY NextStrandedInv
<1>3. StrandedInv => NeverStranded
  BY DEF StrandedInv
<1> QED
  BY <1>1, <1>2, <1>3, InvHolds, PTL DEF Spec

\* Late completions install nothing, and a completion of this generation installs only what
\* still has authority.
THEOREM CompletionsHold == Spec => CompletionsHoldAuthority
<1>1. SchedulerInv /\ [Next]_vars => [CompletionHoldsAuthority]_vars
  BY StepHoldsAuthority
<1> QED
  BY <1>1, InvHolds, PTL DEF Spec, CompletionsHoldAuthority, CompletionHoldsAuthority

\* A run that ends is not followed by another without delay, unless one was asked for.
THEOREM NoBusy == Spec => NoBusyLoop
<1>1. SchedulerInv /\ [Next]_vars => [RefreshIsLater]_vars
  BY StepRefreshesLater
<1> QED
  BY <1>1, InvHolds, PTL DEF Spec, NoBusyLoop, RefreshIsLater
=============================================================================
