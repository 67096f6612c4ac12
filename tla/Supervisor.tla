------------------------------ MODULE Supervisor ------------------------------
(***************************************************************************)
(* The recovery supervisor (dominion-core/src/supervisor.rs): exponential   *)
(* backoff, a circuit breaker per component and a fleet-wide restart budget.*)
(* The caller is modelled around it: it reports a failure, waits out the    *)
(* backoff, re-queues what the storm guard deferred, tries a component again*)
(* once its quarantine is over, and reports stable runs.  Times are ticks.  *)
(***************************************************************************)
EXTENDS Integers, Sequences, FiniteSets

CONSTANTS
    Components,
    MaxFailures, Window, BaseBackoff, MaxBackoff, Cooldown, GlobalBudget,  \* RecoveryPolicy
    MaxTime      \* bound on the clock

ASSUME SupervisorAssumption == {Window, Cooldown, GlobalBudget} \subseteq Nat

VARIABLES
    now,
    comp,       \* per component: failures, consecutive, until (0: breaker closed)
    global,     \* the grants whose times the storm guard's list holds
    caller,     \* per component: what the caller is doing about it
    crashes,    \* per component: times of its real failures since it last ran stably
    grants      \* restarts granted: sequence of [component, at]

supVars == <<now, comp, global, caller, crashes, grants>>

\* HalfOpen lasts no longer than one on_failure: between calls it is an open breaker
\* whose time is over.
Closed == 0

Idle(phase) == [phase |-> phase, at |-> 0]

Recent(times) == SelectSeq(times, LAMBDA t : now - t < Window)

\* The storm guard's list is pruned and counted, and its order does not matter: it
\* is the set of the grants whose times it holds.
RecentGrants == {i \in global : now - grants[i].at < Window}

Lesser(a, b) == IF a <= b THEN a ELSE b

Backoff(k) == Lesser(BaseBackoff * 2 ^ Lesser(k - 1, 20), MaxBackoff)

\* is_quarantined
Quarantined(c) == comp[c].until # Closed /\ now < comp[c].until
------------------------------------------------------------------------------
SupInit ==
    /\ now = 1
    /\ comp = [c \in Components |-> [failures |-> <<>>, consecutive |-> 0, until |-> Closed]]
    /\ global = {}
    /\ caller = [c \in Components |-> Idle("up")]
    /\ crashes = [c \in Components |-> <<>>]
    /\ grants = <<>>

Tick == now < MaxTime /\ now' = now + 1 /\ UNCHANGED <<comp, global, caller, crashes, grants>>

\* Mutant: the budget is spent before it is checked.
StormedLate(restarts) == Cardinality(restarts) > GlobalBudget

Stormed(restarts) == Cardinality(restarts) >= GlobalBudget

Cooling(c) == Quarantined(c)

\* Mutant: the relapse of a trial restart is one more failure like any other.
TripsOnCount(c, count) == count > MaxFailures

\* More than max_failures in the window, or a failure of the trial restart.
Trips(c, count) == comp[c].until # Closed \/ count > MaxFailures

\* on_failure
OnFailure(c) ==
    IF Cooling(c) THEN UNCHANGED <<comp, global, caller, grants>>
    ELSE LET failures == Append(Recent(comp[c].failures), now)
             failed   == comp[c].consecutive + 1
             restarts == RecentGrants
         IN  IF Trips(c, Len(failures))
             THEN /\ comp' = [comp EXCEPT ![c] = [failures |-> failures, consecutive |-> failed,
                                                  until |-> now + Cooldown]]
                  /\ caller' = [caller EXCEPT ![c] = Idle("isolated")]
                  /\ UNCHANGED <<global, grants>>
             ELSE /\ comp' = [comp EXCEPT ![c] = [failures |-> failures, consecutive |-> failed,
                                                  until |-> comp[c].until]]
                  /\ IF Stormed(restarts)
                     THEN /\ global' = restarts
                          /\ caller' = [caller EXCEPT ![c] = Idle("deferred")]
                          /\ UNCHANGED grants
                     ELSE /\ global' = restarts \cup {Len(grants) + 1}
                          /\ caller' = [caller EXCEPT ![c] =
                                            [phase |-> "backoff", at |-> now + Backoff(failed)]]
                          /\ grants' = Append(grants, [component |-> c, at |-> now])

\* The component fails, and the failure is reported.
Fail(c) ==
    /\ caller[c].phase = "up"
    /\ crashes' = [crashes EXCEPT ![c] = Append(@, now)]
    /\ OnFailure(c)
    /\ UNCHANGED now

\* A late report of a component that is already isolated.
ReportAgain(c) ==
    /\ caller[c].phase = "isolated" /\ Quarantined(c)
    /\ OnFailure(c)
    /\ UNCHANGED <<now, crashes>>

\* A deferred recovery is put to the supervisor again, later.
Requeue(c) ==
    /\ caller[c].phase = "deferred"
    /\ now > comp[c].failures[Len(comp[c].failures)]
    /\ OnFailure(c)
    /\ UNCHANGED <<now, crashes>>

Restart(c) ==
    /\ caller[c].phase = "backoff" /\ now >= caller[c].at
    /\ caller' = [caller EXCEPT ![c] = Idle("up")]
    /\ UNCHANGED <<now, comp, global, crashes, grants>>

\* The trial restart after the quarantine.
Trial(c) ==
    /\ caller[c].phase = "isolated" /\ ~ Quarantined(c)
    /\ caller' = [caller EXCEPT ![c] = Idle("up")]
    /\ UNCHANGED <<now, comp, global, crashes, grants>>

\* on_success
OnSuccess(c) ==
    /\ caller[c].phase = "up"
    /\ comp' = [comp EXCEPT ![c] = [failures |-> <<>>, consecutive |-> 0, until |-> Closed]]
    /\ crashes' = [crashes EXCEPT ![c] = <<>>]
    /\ UNCHANGED <<now, global, caller, grants>>

SupNext ==
    \/ Tick
    \/ \E c \in Components :
           Fail(c) \/ ReportAgain(c) \/ Requeue(c) \/ Restart(c) \/ Trial(c) \/ OnSuccess(c)

SupSpec == SupInit /\ [][SupNext]_supVars
------------------------------------------------------------------------------
\* The storm guard: no window of ticks holds more restarts, of all components
\* together, than the fleet's budget, though the list behind it is pruned only when
\* it is used.
NoRestartStorm ==
    \A t \in 1 .. now :
        Cardinality({i \in DOMAIN grants : grants[i].at <= t /\ t - grants[i].at < Window})
            <= GlobalBudget

\* The breaker holds: once a component is isolated, no restart is granted to it
\* until it has run stably, whatever is reported in between; a trial that fails
\* isolates it again.
IsolatedUntilStable ==
    [][\A c \in Components :
          comp[c].until # Closed =>
              \/ /\ comp'[c].until # Closed
                 /\ grants' # grants => grants'[Len(grants')].component # c
              \/ comp'[c].failures = <<>>]_supVars

==============================================================================
