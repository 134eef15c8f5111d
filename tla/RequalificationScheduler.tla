---------------------- MODULE RequalificationScheduler ----------------------
(***************************************************************************)
(* The lifecycle of qualified relay adapters,                              *)
(* js/substrate/relay-requalification-scheduler.js.  The scheduler runs    *)
(* one qualification at a time, publishes the adapters it returns, renews  *)
(* them before their authority ends, keeps them through a failed renewal   *)
(* only until then, and revokes them at the deadline.                      *)
(*                                                                         *)
(* JavaScript runs one callback at a time: an action is what runs between  *)
(* two awaits, including what the publish callback does when it calls back *)
(* into the scheduler.  Timers may fire late, never early; a qualification *)
(* may settle at any time, long after it was aborted.                      *)
(***************************************************************************)
EXTENDS Integers, FiniteSets

CONSTANTS
    Adapters,         \* branded relay adapters a qualification may return
    RefreshLead, MaximumRefreshInterval, MinimumRetry, MaximumRetry,
    OwnerRestarts,    \* whether the owner calls start() again after a fatal state
    MaxLease, MaxTime, MaxGeneration    \* bounds of the checked instance

ASSUME SchedulerAssumption ==
    /\ {RefreshLead, MaximumRefreshInterval, MinimumRetry} \subseteq Nat \ {0}
    /\ MaximumRetry \in Nat /\ MaximumRetry >= MinimumRetry
    /\ OwnerRestarts \in BOOLEAN
    /\ {MaxLease, MaxTime, MaxGeneration} \subseteq Nat

VARIABLES
    now,            \* the monotonic clock
    running, generation,
    refreshAt,      \* when the refresh timer is due
    expiryAt,       \* when the expiry timer is due
    inFlight,       \* generation of the run the scheduler waits for
    runs,           \* generations whose qualification has not settled
    rerunRequested,
    retryMillis,
    current,        \* the installed result and its authority deadline
    published,      \* the adapters last handed to the publish callback
    failed          \* lastStatus is that of a fatal state

timers == <<refreshAt, expiryAt>>
vars   == <<now, running, generation, timers, inFlight, runs, rerunRequested, retryMillis,
            current, published, failed>>

Never  == -1
NoRun  == 0
Nobody == [adapters |-> {}, authorityDeadline |-> 0]
Leases == [adapters : (SUBSET Adapters) \ {{}}, authorityDeadline : Nat]
Lesser(a, b)  == IF a < b THEN a ELSE b
Greater(a, b) == IF a < b THEN b ELSE a

FlagTypes == running \in BOOLEAN /\ rerunRequested \in BOOLEAN /\ failed \in BOOLEAN

ValueTypes ==
    /\ now \in 0..MaxTime
    /\ generation \in Nat
    /\ refreshAt \in Nat \cup {Never} /\ expiryAt \in Nat \cup {Never}
    /\ inFlight \in 0..generation
    /\ runs \subseteq 1..generation
    /\ retryMillis \in MinimumRetry..MaximumRetry
    /\ current \in {Nobody} \cup Leases
    /\ published \subseteq Adapters

SchedulerTypeOK == FlagTypes /\ ValueTypes

Init ==
    /\ now = 0
    /\ running = FALSE /\ generation = 0
    /\ refreshAt = Never /\ expiryAt = Never
    /\ inFlight = NoRun /\ runs = {}
    /\ rerunRequested = FALSE
    /\ retryMillis = MinimumRetry
    /\ current = Nobody /\ published = {}
    /\ failed = FALSE

-----------------------------------------------------------------------------
(* stop() and fatalState() *)

\* Mutant: the consumer is not told.
HaltedSilently ==
    /\ running' = FALSE
    /\ generation' = generation + 1
    /\ rerunRequested' = FALSE
    /\ refreshAt' = Never /\ expiryAt' = Never
    /\ current' = Nobody /\ published' = published
    /\ UNCHANGED <<now, retryMillis>>

\* What both leave behind.
Halted ==
    /\ running' = FALSE
    /\ generation' = generation + 1
    /\ rerunRequested' = FALSE
    /\ refreshAt' = Never /\ expiryAt' = Never
    /\ current' = Nobody /\ published' = {}
    /\ UNCHANGED <<now, retryMillis>>

\* Mutant: stop keeps waiting for the run it aborted.
HaltKeepingRun == Halted /\ failed' = FALSE /\ inFlight' = inFlight

Halt == Halted /\ failed' = FALSE /\ inFlight' = NoRun

Stop ==
    /\ running
    /\ Halt
    /\ UNCHANGED runs

\* A fatal state outside a run does not forget the run it aborts.
Fatal == Halted /\ failed' = TRUE

-----------------------------------------------------------------------------
(* run(reason): start(), refresh() and the refresh timer *)

\* One run at a time; a request that finds one in flight asks for another after it.
Run(g) ==
    IF inFlight # NoRun
      THEN rerunRequested' = TRUE /\ UNCHANGED <<inFlight, runs>>
      ELSE inFlight' = g /\ runs' = runs \cup {g} /\ UNCHANGED rerunRequested

\* A run that begins cancels the refresh timer.
CancelRefreshIfRun == refreshAt' = IF inFlight = NoRun THEN Never ELSE refreshAt

Start ==
    /\ ~running
    /\ failed => OwnerRestarts
    /\ generation < MaxGeneration
    /\ running' = TRUE /\ failed' = FALSE
    /\ generation' = generation + 1
    /\ retryMillis' = MinimumRetry
    /\ Run(generation + 1)
    /\ CancelRefreshIfRun
    /\ UNCHANGED <<now, expiryAt, current, published>>

Refresh ==
    /\ running
    /\ Run(generation)
    /\ CancelRefreshIfRun
    /\ UNCHANGED <<now, running, generation, expiryAt, retryMillis, current, published, failed>>

RefreshDue == refreshAt # Never /\ now >= refreshAt

RefreshTimer ==
    /\ running
    /\ RefreshDue
    /\ Run(generation)
    /\ refreshAt' = Never
    /\ UNCHANGED <<now, running, generation, expiryAt, retryMillis, current, published, failed>>

-----------------------------------------------------------------------------
(* A qualification settles *)

\* Mutant: a completion is taken for current whenever the scheduler runs.
AnyRunIsCurrent(g) == running

\* assertCurrentRun: abort and generation change together.
IsCurrentRun(g) == running /\ g = generation

RunOver(g) == inFlight' = IF inFlight = g THEN NoRun ELSE inFlight

\* A stale completion is discarded, whatever it returned.
Discard(g) ==
    /\ ~IsCurrentRun(g)
    /\ RunOver(g)
    /\ UNCHANGED <<now, running, generation, timers, rerunRequested, retryMillis, current,
                   published, failed>>

\* Mutant: a renewal is due one lead before the deadline, even if that is now.
LeadOnly(deadline) == Greater(now, deadline - RefreshLead)

\* nextSuccessfulRefresh: never a zero-delay loop close to the deadline.
NextSuccessfulRefresh(deadline) ==
    Lesser(deadline, Greater(now + MinimumRetry,
                             Lesser(deadline - RefreshLead, now + MaximumRefreshInterval)))

\* Mutant: a request that came meanwhile is forgotten.
SettledDroppingRerun(refresh) ==
    /\ refreshAt' = refresh
    /\ rerunRequested' = FALSE
    /\ inFlight' = NoRun
    /\ UNCHANGED <<now, running, generation, failed>>

\* The end of a run that published: a request that came meanwhile is served at once.
Settled(refresh) ==
    /\ refreshAt' = IF rerunRequested THEN now ELSE refresh
    /\ rerunRequested' = FALSE
    /\ inFlight' = NoRun
    /\ UNCHANGED <<now, running, generation, failed>>

\* Mutant: a timer that is already set is left alone.
ArmIfUnset(deadline) == expiryAt' = IF expiryAt # Never THEN expiryAt ELSE deadline

\* scheduleExpiry
Arm(deadline) == expiryAt' = deadline

\* exactQualificationResult and what follows.  Nobody qualified: the installed set is revoked.
Install(adapters, deadline) ==
    /\ retryMillis' = MinimumRetry
    /\ published' = adapters
    /\ IF adapters = {}
         THEN /\ current' = Nobody
              /\ expiryAt' = Never
              /\ Settled(now + MaximumRefreshInterval)
         ELSE /\ current' = [adapters |-> adapters, authorityDeadline |-> deadline]
              /\ Arm(deadline)
              /\ Settled(NextSuccessfulRefresh(deadline))

\* The installed authority outlives this instant.
StillFresh == current # Nobody /\ now < current.authorityDeadline

\* Mutant: the retry delay has no bound.
DoubledRetry == 2 * retryMillis

\* The delay after the next failure.
NextRetry == Lesser(MaximumRetry, 2 * retryMillis)

\* retainOrRevokeAfterFailure
RetainOrRevoke ==
    /\ retryMillis' = NextRetry
    /\ IF StillFresh
         THEN /\ published' = current.adapters
              /\ Arm(current.authorityDeadline)
              /\ UNCHANGED current
              /\ Settled(Lesser(current.authorityDeadline, now + retryMillis))
         ELSE /\ published' = {}
              /\ current' = Nobody
              /\ expiryAt' = Never
              /\ Settled(now + retryMillis)

\* The publish callback may stop the scheduler or throw (start() resets the retry delay); a
\* clock that went back and a timer that cannot be set are fatal like a throw.  Here the run
\* itself is over.
Interrupted == Halt \/ (Fatal /\ inFlight' = NoRun)

QualifySucceeds(g, adapters, lease) ==
    /\ g \in runs
    /\ runs' = runs \ {g}
    /\ \/ Discard(g)
       \/ /\ IsCurrentRun(g)
          /\ \/ Install(adapters, now + lease)
             \/ Interrupted

\* A rejected qualification, a malformed or unbranded result, a result already expired.
QualifyFails(g) ==
    /\ g \in runs
    /\ runs' = runs \ {g}
    /\ \/ Discard(g)
       \/ /\ IsCurrentRun(g)
          /\ \/ RetainOrRevoke
             \/ Interrupted

-----------------------------------------------------------------------------
(* The expiry timer *)

Expire ==
    /\ running
    /\ expiryAt # Never /\ now >= expiryAt
    /\ current # Nobody /\ current.authorityDeadline = expiryAt
    /\ \/ /\ current' = Nobody /\ published' = {}
          /\ expiryAt' = Never
          /\ refreshAt' = now
          /\ UNCHANGED <<now, running, generation, inFlight, rerunRequested, retryMillis, failed>>
       \/ Halt
       \/ Fatal /\ UNCHANGED inFlight
    /\ UNCHANGED runs

Tick ==
    /\ now < MaxTime
    /\ now' = now + 1
    /\ UNCHANGED <<running, generation, timers, inFlight, runs, rerunRequested, retryMillis,
                   current, published, failed>>

QualifySettles(g) ==
    \/ \E A \in SUBSET Adapters, l \in 1..MaxLease : QualifySucceeds(g, A, l)
    \/ QualifyFails(g)

Next ==
    \/ Start \/ Refresh \/ Stop
    \/ RefreshTimer
    \/ \E g \in runs : QualifySettles(g)
    \/ Expire
    \/ Tick

Spec == Init /\ [][Next]_vars

\* The expiry timer is called once it is due (setTimeout), and every qualification settles (its
\* fetches have deadlines).  Nothing says when the clock or the owner moves.
Fairness ==
    /\ WF_vars(Expire)
    /\ \A g \in 1..MaxGeneration : WF_vars(QualifySettles(g))

FairSpec == Spec /\ Fairness

-----------------------------------------------------------------------------
(* Properties *)

\* Whatever the callbacks, aborts and late completions did, the consumer was last handed
\* exactly the set the scheduler holds authority for, and an expiry timer at the deadline of
\* that authority is set: no adapter stays installed with nothing to revoke it.
InstalledIsLeased ==
    /\ published = current.adapters
    /\ current # Nobody => running /\ expiryAt = current.authorityDeadline
    /\ current = Nobody => expiryAt = Never

\* A running scheduler is never stranded: a qualification of this generation is in flight or
\* a refresh is scheduled ("bounded retry").
NeverStranded ==
    running => \/ refreshAt # Never
               \/ inFlight = generation /\ generation \in runs

\* A completion installs nothing once its generation is over ("discards completions after
\* stop/restart"), and one of this generation, renewal or failed renewal, leaves no adapter
\* installed whose authority has ended.  Nothing else installs adapters.
CompletionsHoldAuthority ==
    [][/\ \A g \in runs \ runs' :
            IF g = generation THEN published' # {} => now < current'.authorityDeadline
                              ELSE published' = published
       /\ published' \notin {published, {}} => generation \in runs \ runs']_vars

\* Neither success nor failure leads to a refresh without delay, unless someone asked for one.
NoBusyLoop ==
    [][inFlight = generation /\ inFlight' = NoRun /\ running' /\ ~rerunRequested =>
         refreshAt' > now]_vars

\* Authority that has ended is revoked or renewed, by the expiry timer if need be: the refresh
\* timer is not counted on.
ExpiredIsRevoked ==
    (current # Nobody /\ now >= current.authorityDeadline)
      ~> (current = Nobody \/ now < current.authorityDeadline)

\* No request for a refresh is lost.  One that finds a run in flight leads to a further run of
\* this generation after that one is over, renewal or failure, without the clock having to
\* move; and a refresh that is due starts a run, or is due while one is in flight (whose end
\* then sets the next one in its place) - unless the scheduler is stopped first.  Here the
\* refresh timer too is called once it is due.
RequestIsServed ==
    WF_vars(RefreshTimer) =>
        /\ (running /\ rerunRequested)
             ~> (~running \/ (inFlight = generation /\ ~rerunRequested))
        /\ (running /\ RefreshDue) ~> (~running \/ inFlight = generation)
=============================================================================
