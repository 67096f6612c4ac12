---------------------------- MODULE WorkersProofs ----------------------------
(***************************************************************************)
(* Proofs about the recovery supervisor (Supervisor) and the orchestrator's *)
(* work graph (WorkGraph), for every policy, fleet and task graph.          *)
(***************************************************************************)
EXTENDS Supervisor, WorkGraph, FiniteSetTheorems, WellFoundedInduction, TLAPS

USE SMTT(30), ZenonT(30)

-----------------------------------------------------------------------------
(* The storm guard. *)

\* The grants whose restart falls in the window that ends at t.
InWindow(t) == {i \in DOMAIN grants : grants[i].at <= t /\ t - grants[i].at < Window}

\* What the storm guard's list may have lost: grants are numbered, none is in the
\* future, the list names only grants, and a grant it no longer names is at least a
\* window old, for ever.
GuardInv ==
    /\ now \in Nat \ {0}
    /\ grants \in Seq([component : Components, at : Nat])
    /\ global \subseteq 1 .. Len(grants)
    /\ \A i \in 1 .. Len(grants) : grants[i].at <= now
    /\ \A i \in (1 .. Len(grants)) \ global : now - grants[i].at >= Window
    /\ \A t \in 1 .. now : Cardinality(InWindow(t)) <= GlobalBudget

\* The times of the grants are numbers.
LEMMA GrantTimes ==
    ASSUME GuardInv
    PROVE  /\ Len(grants) \in Nat /\ DOMAIN grants = 1 .. Len(grants)
           /\ \A i \in 1 .. Len(grants) : grants[i].at \in Nat
<1>. DEFINE G == [component : Components, at : Nat]
<1>. HIDE DEF G
<1>0. grants \in Seq(G)
  BY Zenon DEF GuardInv, G
<1>1. /\ Len(grants) \in Nat /\ DOMAIN grants = 1 .. Len(grants)
      /\ \A i \in 1 .. Len(grants) : grants[i] \in G
  BY <1>0
<1>2. \A r \in G : r.at \in Nat
  BY Zenon DEF G
<1>. QED BY <1>1, <1>2, Zenon

\* The grants of a window are finitely many.
LEMMA InWindowFinite ==
    ASSUME grants \in Seq([component : Components, at : Nat]), NEW t
    PROVE  IsFiniteSet(InWindow(t)) /\ Cardinality(InWindow(t)) \in Nat
<1>1. IsFiniteSet(1 .. Len(grants))
  BY FS_Interval
<1>2. InWindow(t) \in SUBSET (1 .. Len(grants))
  BY DEF InWindow
<1>. QED BY <1>1, <1>2, FS_Subset, FS_CardinalityType, Zenon

\* The guard starts with no grant.
LEMMA GuardInvInit == SupInit => GuardInv
<1>. SUFFICES ASSUME SupInit PROVE GuardInv
  BY Zenon
<1>1. grants = <<>> /\ now = 1 /\ global = {}
  BY Zenon DEF SupInit
<1>2. \A t : InWindow(t) = {}
  BY <1>1 DEF InWindow
<1>3. \A t : Cardinality(InWindow(t)) <= GlobalBudget
  BY <1>2, FS_EmptySet, SupervisorAssumption
<1>. QED BY <1>1, <1>3 DEF GuardInv

\* Time passing only lets grants leave the last window.
LEMMA GuardInvTick == GuardInv /\ Tick => GuardInv'
<1>. SUFFICES ASSUME GuardInv, Tick PROVE GuardInv'
  BY Zenon
<1>1. now' = now + 1 /\ UNCHANGED <<grants, global>> /\ now \in Nat \ {0}
  BY Zenon DEF Tick, GuardInv
<1>2. \A t : InWindow(t)' = InWindow(t)
  BY <1>1, Zenon DEF InWindow
<1>3. InWindow(now + 1) \in SUBSET InWindow(now)
  <2>1. ASSUME NEW i \in 1 .. Len(grants), (now + 1) - grants[i].at < Window
        PROVE  grants[i].at <= now /\ now - grants[i].at < Window
    <3>1. grants[i].at \in Nat /\ grants[i].at <= now
      BY GrantTimes, Zenon DEF GuardInv
    <3>. QED BY <1>1, <2>1, <3>1, SupervisorAssumption
  <2>2. DOMAIN grants = 1 .. Len(grants)
    BY GrantTimes, Zenon
  <2>3. ASSUME NEW i \in InWindow(now + 1) PROVE i \in InWindow(now)
    <3>1. i \in 1 .. Len(grants) /\ (now + 1) - grants[i].at < Window
      BY <2>2, <2>3, Zenon DEF InWindow
    <3>2. grants[i].at <= now /\ now - grants[i].at < Window
      BY <2>1, <3>1, Zenon
    <3>. QED BY <2>2, <3>1, <3>2, Zenon DEF InWindow
  <2>. QED BY <2>3, Zenon
<1>4. Cardinality(InWindow(now + 1)) <= Cardinality(InWindow(now))
  <2>1. grants \in Seq([component : Components, at : Nat])
    BY Zenon DEF GuardInv
  <2>2. IsFiniteSet(InWindow(now))
    BY <2>1, InWindowFinite, Zenon
  <2>. QED BY <1>3, <2>2, FS_Subset, Zenon
<1>5. Cardinality(InWindow(now + 1)) <= GlobalBudget
  <2>1. Cardinality(InWindow(now)) <= GlobalBudget
    BY <1>1 DEF GuardInv
  <2>2. Cardinality(InWindow(now)) \in Nat /\ Cardinality(InWindow(now + 1)) \in Nat
    <3>1. grants \in Seq([component : Components, at : Nat])
      BY Zenon DEF GuardInv
    <3>. QED BY <3>1, InWindowFinite, Zenon
  <2>. QED BY <1>4, <2>1, <2>2, SupervisorAssumption
<1>6. \A t \in 1 .. now' : Cardinality(InWindow(t)') <= GlobalBudget
  <2>. TAKE t \in 1 .. now'
  <2>1. t \in 1 .. now \/ t = now + 1
    BY <1>1
  <2>. QED BY <2>1, <1>2, <1>5, Zenon DEF GuardInv
<1>7. ASSUME NEW i \in 1 .. Len(grants)
      PROVE  /\ grants[i].at <= now'
             /\ i \notin global => now' - grants[i].at >= Window
  <2>1. /\ grants[i].at \in Nat /\ grants[i].at <= now
        /\ i \notin global => now - grants[i].at >= Window
    BY GrantTimes, Zenon DEF GuardInv
  <2>. QED BY <1>1, <2>1, SupervisorAssumption
<1>8. /\ (now \in Nat \ {0})' /\ (\A i \in 1 .. Len(grants) : grants[i].at <= now)'
      /\ (\A i \in (1 .. Len(grants)) \ global : now - grants[i].at >= Window)'
  BY <1>1, <1>7
<1>9. /\ (grants \in Seq([component : Components, at : Nat]))'
      /\ (global \subseteq 1 .. Len(grants))'
  BY <1>1, Zenon DEF GuardInv
<1>. QED BY <1>6, <1>8, <1>9, Zenon DEF GuardInv

\* What the pruned list leaves out is at least a window old.
LEMMA StaleGrants ==
    ASSUME GuardInv
    PROVE  \A i \in (1 .. Len(grants)) \ RecentGrants : now - grants[i].at >= Window
<1>. TAKE i \in (1 .. Len(grants)) \ RecentGrants
<1>1. grants[i].at \in Nat /\ now \in Nat
  BY GrantTimes, Zenon DEF GuardInv
<1>2. now - grants[i].at >= Window \/ ~(now - grants[i].at < Window)
  BY Zenon DEF GuardInv, RecentGrants
<1>. QED BY <1>1, <1>2, SupervisorAssumption

\* Pruning the list drops only grants a window old.
LEMMA GuardInvPrune ==
    ASSUME GuardInv, UNCHANGED <<now, grants>>, global' = RecentGrants
    PROVE  GuardInv'
<1>1. \A t : InWindow(t)' = InWindow(t)
  BY Zenon DEF InWindow
<1>2. \A i \in (1 .. Len(grants)) \ RecentGrants : now - grants[i].at >= Window
  BY StaleGrants, Zenon
<1>. QED BY <1>1, <1>2, Zenon DEF GuardInv, RecentGrants

\* A grant is made only if the last window holds less than the budget: the list
\* holds every grant of that window, though it is pruned only when it is used.
LEMMA GuardInvGrant ==
    ASSUME GuardInv, NEW c \in Components, UNCHANGED now, ~Stormed(RecentGrants),
           global' = RecentGrants \cup {Len(grants) + 1},
           grants' = Append(grants, [component |-> c, at |-> now])
    PROVE  GuardInv'
<1>. DEFINE n == Len(grants)
<1>1. /\ n \in Nat /\ Len(grants') = n + 1 /\ DOMAIN grants = 1 .. n
      /\ now \in Nat \ {0}
      /\ grants' \in Seq([component : Components, at : Nat])
      /\ \A i \in 1 .. n : grants'[i] = grants[i]
      /\ grants'[n + 1].at = now
  BY DEF GuardInv
<1>2. InWindow(now) \in SUBSET RecentGrants
  <2>1. ASSUME NEW i \in 1 .. n, now - grants[i].at < Window
        PROVE  i \in global
    <3>1. grants[i].at \in Nat
      BY GrantTimes, Zenon
    <3>2. i \notin global => now - grants[i].at >= Window
      BY Zenon DEF GuardInv
    <3>. QED BY <1>1, <2>1, <3>1, <3>2, SupervisorAssumption
  <2>. QED BY <1>1, <2>1, Zenon DEF InWindow, RecentGrants
<1>3. IsFiniteSet(RecentGrants)
  <2>1. RecentGrants \in SUBSET (1 .. n)
    BY Zenon DEF GuardInv, RecentGrants
  <2>2. IsFiniteSet(1 .. n)
    BY <1>1, FS_Interval
  <2>. QED BY <2>1, <2>2, FS_Subset, Zenon
<1>4. Cardinality(InWindow(now)) < GlobalBudget
  <2>1. Cardinality(InWindow(now)) <= Cardinality(RecentGrants)
    BY <1>2, <1>3, FS_Subset, Zenon
  <2>2. Cardinality(InWindow(now)) \in Nat /\ Cardinality(RecentGrants) \in Nat
    BY <1>3, InWindowFinite, FS_CardinalityType, Zenon DEF GuardInv
  <2>. QED BY <2>1, <2>2, SupervisorAssumption DEF Stormed
<1>5. InWindow(now)' \in SUBSET (InWindow(now) \cup {n + 1})
  BY <1>1 DEF InWindow
<1>6. Cardinality(InWindow(now)') <= GlobalBudget
  <2>1. /\ IsFiniteSet(InWindow(now) \cup {n + 1})
        /\ Cardinality(InWindow(now) \cup {n + 1}) <= GlobalBudget
    <3>1. IsFiniteSet(InWindow(now)) /\ Cardinality(InWindow(now)) \in Nat
      BY InWindowFinite, Zenon DEF GuardInv
    <3>2. IsFiniteSet(InWindow(now) \cup {n + 1})
      BY <3>1, FS_AddElement, Zenon
    <3>3. Cardinality(InWindow(now) \cup {n + 1}) =
              IF n + 1 \in InWindow(now) THEN Cardinality(InWindow(now))
              ELSE Cardinality(InWindow(now)) + 1
      BY <3>1, FS_AddElement, Zenon
    <3>. QED BY <1>4, <3>1, <3>2, <3>3, SupervisorAssumption
  <2>2. Cardinality(InWindow(now)') <= Cardinality(InWindow(now) \cup {n + 1})
    BY <1>5, <2>1, FS_Subset, Zenon
  <2>3. /\ Cardinality(InWindow(now)') \in Nat
        /\ Cardinality(InWindow(now) \cup {n + 1}) \in Nat
    BY <1>5, <2>1, FS_Subset, FS_CardinalityType, Zenon
  <2>. QED BY <2>1, <2>2, <2>3, SupervisorAssumption
<1>7. ASSUME NEW t \in 1 .. now, t # now
      PROVE  InWindow(t)' = InWindow(t)
  BY <1>1, <1>7 DEF InWindow
<1>8. \A t \in 1 .. now : Cardinality(InWindow(t)') <= GlobalBudget
  BY <1>6, <1>7, Zenon DEF GuardInv
<1>9. /\ global' \subseteq 1 .. n + 1
      /\ \A i \in 1 .. n + 1 : grants'[i].at <= now
      /\ \A i \in (1 .. n + 1) \ global' : now - grants'[i].at >= Window
  <2>1. global' \subseteq 1 .. n + 1
    <3>1. global \subseteq 1 .. n
      BY Zenon DEF GuardInv
    <3>2. \A i \in 1 .. n : i \in 1 .. n + 1
      BY <1>1
    <3>3. n + 1 \in 1 .. n + 1
      BY <1>1
    <3>. QED BY <3>1, <3>2, <3>3, Zenon DEF RecentGrants
  <2>2. \A i \in 1 .. n : grants'[i].at <= now
    BY <1>1, Zenon DEF GuardInv
  <2>3. \A i \in 1 .. n + 1 : i = n + 1 \/ i \in 1 .. n
    BY <1>1
  <2>4. \A i \in (1 .. n) \ RecentGrants : now - grants[i].at >= Window
    BY StaleGrants, Zenon
  <2>. QED BY <1>1, <2>1, <2>2, <2>3, <2>4
<1>. QED BY <1>1, <1>8, <1>9, Zenon DEF GuardInv

\* Every step keeps the guard's invariant.
LEMMA GuardInvNext == GuardInv /\ [SupNext]_supVars => GuardInv'
<1>. SUFFICES ASSUME GuardInv, [SupNext]_supVars PROVE GuardInv'
  BY Zenon
<1>1. ASSUME UNCHANGED <<now, grants, global>> PROVE GuardInv'
  BY <1>1, Zenon DEF GuardInv, InWindow
<1>2. ASSUME NEW c \in Components, OnFailure(c), UNCHANGED now PROVE GuardInv'
  <2>1. CASE UNCHANGED <<grants, global>>
    BY <1>1, <1>2, <2>1, Zenon
  <2>2. CASE global' = RecentGrants /\ UNCHANGED grants
    BY <1>2, <2>2, GuardInvPrune, Zenon
  <2>3. CASE /\ ~Stormed(RecentGrants)
             /\ global' = RecentGrants \cup {Len(grants) + 1}
             /\ grants' = Append(grants, [component |-> c, at |-> now])
    BY <1>2, <2>3, GuardInvGrant, Zenon
  <2>. QED BY <1>2, <2>1, <2>2, <2>3, Zenon DEF OnFailure
<1>3. CASE Tick
  BY <1>3, GuardInvTick, Zenon
<1>4. ASSUME NEW c \in Components,
             Fail(c) \/ ReportAgain(c) \/ Requeue(c) \/ Restart(c) \/ Trial(c) \/ OnSuccess(c)
      PROVE  GuardInv'
  BY <1>1, <1>2, <1>4, Zenon DEF Fail, ReportAgain, Requeue, Restart, Trial, OnSuccess
<1>. QED BY <1>1, <1>3, <1>4, Zenon DEF SupNext, supVars

\* Supervisor::on_failure's global storm guard, for every budget and window: no
\* window of ticks holds more restarts of the whole fleet than global_budget.
THEOREM SupervisorNoStorm == SupSpec => []NoRestartStorm
<1>1. GuardInv => NoRestartStorm
  BY Zenon DEF GuardInv, NoRestartStorm, InWindow
<1>. QED BY <1>1, GuardInvInit, GuardInvNext, PTL DEF SupSpec
-----------------------------------------------------------------------------
(* The circuit breaker. *)

\* The supervisor keeps one record per component.
BreakerInv ==
    comp = [c \in Components |-> [failures |-> comp[c].failures,
                                  consecutive |-> comp[c].consecutive,
                                  until |-> comp[c].until]]

\* Replacing the record of one component keeps the others.
LEMMA BreakerReplace ==
    ASSUME BreakerInv, NEW d \in Components, NEW f, NEW k, NEW u,
           comp' = [comp EXCEPT ![d] = [failures |-> f, consecutive |-> k, until |-> u]]
    PROVE  /\ BreakerInv'
           /\ comp'[d].until = u /\ comp'[d].failures = f
           /\ \A c \in Components : c # d => comp'[c] = comp[c]
<1>1. \A c \in Components :
         comp'[c] = IF c = d THEN [failures |-> f, consecutive |-> k, until |-> u] ELSE comp[c]
  BY Zenon DEF BreakerInv
<1>2. ASSUME NEW c \in Components
      PROVE  comp'[c] = [failures |-> comp'[c].failures, consecutive |-> comp'[c].consecutive,
                         until |-> comp'[c].until]
  <2>1. CASE c = d
    BY <1>1, <2>1
  <2>2. CASE c # d
    BY <1>1, <2>2, Zenon DEF BreakerInv
  <2>. QED BY <2>1, <2>2, Zenon
<1>3. comp' = [c \in Components |-> comp'[c]]
  BY Zenon DEF BreakerInv
<1>4. BreakerInv'
  BY <1>2, <1>3, Zenon DEF BreakerInv
<1>. QED BY <1>1, <1>4

\* What a report of a failure does to the breakers and to the grants.
LEMMA OnFailureBreakers ==
    ASSUME BreakerInv, GuardInv, NEW d \in Components, OnFailure(d)
    PROVE  /\ BreakerInv'
           /\ \A c \in Components : c # d => comp'[c] = comp[c]
           /\ comp[d].until # Closed => comp'[d].until # Closed /\ grants' = grants
           /\ grants' # grants => grants' = Append(grants, [component |-> d, at |-> now])
<1>1. now \in Nat \ {0} /\ Cooldown \in Nat
  BY SupervisorAssumption, Zenon DEF GuardInv
<1>2. CASE Cooling(d)
  BY <1>2, Zenon DEF OnFailure, BreakerInv
<1>3. CASE ~Cooling(d)
  <2>. DEFINE failures == Append(Recent(comp[d].failures), now)
              failed   == comp[d].consecutive + 1
  <2>. HIDE DEF failures, failed
  <2>1. CASE Trips(d, Len(failures))
    <3>1. /\ comp' = [comp EXCEPT ![d] = [failures |-> failures, consecutive |-> failed,
                                          until |-> now + Cooldown]]
          /\ grants' = grants
      BY <1>3, <2>1, Zenon DEF OnFailure, failures, failed
    <3>2. now + Cooldown # Closed
      BY <1>1 DEF Closed
    <3>. QED BY <3>1, <3>2, BreakerReplace, ZenonT(40)
  <2>2. CASE ~Trips(d, Len(failures))
    <3>1. /\ comp' = [comp EXCEPT ![d] = [failures |-> failures, consecutive |-> failed,
                                          until |-> comp[d].until]]
          /\ grants' = grants \/ grants' = Append(grants, [component |-> d, at |-> now])
      BY <1>3, <2>2, Zenon DEF OnFailure, failures, failed
    <3>2. comp[d].until = Closed
      BY <2>2, Zenon DEF Trips
    <3>. QED BY <3>1, <3>2, BreakerReplace, Zenon
  <2>. QED BY <2>1, <2>2, Zenon
<1>. QED BY <1>2, <1>3, Zenon

\* Every step leaves the breakers records, and an open breaker as the property
\* says.
LEMMA BreakerStep ==
    ASSUME BreakerInv, GuardInv, [SupNext]_supVars
    PROVE  /\ BreakerInv'
           /\ \A c \in Components :
                 comp[c].until # Closed =>
                     \/ /\ comp'[c].until # Closed
                        /\ grants' # grants => grants'[Len(grants')].component # c
                     \/ comp'[c].failures = <<>>
<1>1. CASE UNCHANGED <<comp, grants>>
  BY <1>1, Zenon DEF BreakerInv
<1>2. ASSUME NEW d \in Components, OnFailure(d)
      PROVE  /\ BreakerInv'
             /\ \A c \in Components :
                   comp[c].until # Closed =>
                       /\ comp'[c].until # Closed
                       /\ grants' # grants => grants'[Len(grants')].component # c
  <2>1. grants' # grants => grants'[Len(grants')].component = d
    <3>1. grants' # grants => grants' = Append(grants, [component |-> d, at |-> now])
      BY <1>2, OnFailureBreakers, Zenon
    <3>2. grants \in Seq([component : Components, at : Nat])
      BY Zenon DEF GuardInv
    <3>3. \A r : LET g == Append(grants, r) IN g[Len(g)] = r
      BY <3>2
    <3>. QED BY <3>1, <3>3
  <2>. QED BY <1>2, <2>1, OnFailureBreakers, Zenon
<1>3. ASSUME NEW d \in Components, OnSuccess(d)
      PROVE  /\ BreakerInv' /\ comp'[d].failures = <<>> /\ grants' = grants
             /\ \A c \in Components : c # d => comp'[c] = comp[c]
  BY <1>3, BreakerReplace, Zenon DEF OnSuccess
<1>4. \/ UNCHANGED <<comp, grants>>
      \/ \E d \in Components : OnFailure(d) \/ OnSuccess(d)
  BY Zenon DEF SupNext, supVars, Tick, Fail, ReportAgain, Requeue, Restart, Trial
<1>5. CASE \E d \in Components : OnFailure(d)
  BY <1>2, <1>5, Zenon
<1>6. CASE \E d \in Components : OnSuccess(d)
  BY <1>3, <1>6, Zenon
<1>. QED BY <1>1, <1>4, <1>5, <1>6, Zenon

\* Supervisor::on_failure's circuit breaker: while a breaker is open nothing grants
\* the component a restart or closes it but a stable run reported to on_success, and
\* the failure of a trial restart opens it again.
THEOREM SupervisorIsolates == SupSpec => IsolatedUntilStable
<1>1. SupInit => BreakerInv
  BY DEF SupInit, BreakerInv
<1>2. BreakerInv /\ GuardInv /\ [SupNext]_supVars => BreakerInv'
  BY BreakerStep, Zenon
<1>3. BreakerInv /\ GuardInv /\ [SupNext]_supVars =>
          [\A c \in Components :
              comp[c].until # Closed =>
                  \/ /\ comp'[c].until # Closed
                     /\ grants' # grants => grants'[Len(grants')].component # c
                  \/ comp'[c].failures = <<>>]_supVars
  BY BreakerStep, Zenon
<1>. QED BY <1>1, <1>2, <1>3, GuardInvInit, GuardInvNext, PTL DEF SupSpec, IsolatedUntilStable
-----------------------------------------------------------------------------
(* The orchestrator's work graph. *)

Tasks == [prefers : Kinds, deps : Seq(Nat)]

\* The places of a task's dependency list that wait for a task not yet scheduled.
Missing(j) == {k \in DOMAIN DepsOf(j) : DepsOf(j)[k] \notin Done}

\* The waves scheduled so far: each task once, after everything it depends on and
\* in the first wave that is.
WavesInv ==
    /\ \A k \in 1 .. Len(scheduled) : /\ scheduled[k].task \in Ids
                                      /\ scheduled[k].step \in 0 .. step - 1
    /\ \A h, k \in 1 .. Len(scheduled) : scheduled[h].task = scheduled[k].task => h = k
    /\ \A k \in 1 .. Len(scheduled) :
          /\ \A d \in DependsOn(scheduled[k].task) :
                \E h \in 1 .. Len(scheduled) :
                    scheduled[h].task = d /\ scheduled[h].step < scheduled[k].step
          /\ scheduled[k].step > 0 =>
                \E h \in 1 .. Len(scheduled) :
                    /\ scheduled[h].task \in DependsOn(scheduled[k].task)
                    /\ scheduled[h].step = scheduled[k].step - 1

\* The tasks still to schedule: an in-degree counts the places that still wait, and
\* a task that waits for nothing became ready with the last wave.
WaitInv ==
    \A j \in Ids \ Done :
        /\ indeg[j] = Cardinality(Missing(j))
        /\ step > 0 => \/ \E d \in DependsOn(j) : d \notin Done
                       \/ \E h \in 1 .. Len(scheduled) :
                              /\ scheduled[h].task \in DependsOn(j)
                              /\ scheduled[h].step = step - 1

GraphInv ==
    /\ tasks \in Seq(Tasks)
    /\ step \in Nat
    /\ scheduled \in Seq([task : Nat, node : Kinds \cup {Cpu}, step : Nat])
    /\ status \in {"building", "running", "ok", "cycle", "bad"}
    /\ status \in {"building", "bad"} => scheduled = <<>> /\ step = 0
    /\ status = "bad" => BadDependency
    /\ status \in {"running", "ok", "cycle"} => ~BadDependency /\ WavesInv /\ WaitInv
    /\ status = "cycle" => Cyclic
    /\ status = "ok" => Done = Ids

\* The identifiers and the dependency lists of the tasks.
LEMMA GraphTypes ==
    ASSUME tasks \in Seq(Tasks)
    PROVE  /\ Len(tasks) \in Nat /\ Ids \subseteq Nat
           /\ \A j \in Ids : /\ j + 1 \in 1 .. Len(tasks)
                             /\ DepsOf(j) \in Seq(Nat)
                             /\ DependsOn(j) \subseteq Nat
                             /\ tasks[j + 1].prefers \in Kinds
<1>1. Len(tasks) \in Nat
  OBVIOUS
<1>2. \A j \in Ids : j \in Nat /\ j + 1 \in 1 .. Len(tasks)
  BY <1>1 DEF Ids
<1>3. ASSUME NEW j \in Ids
      PROVE  /\ DepsOf(j) \in Seq(Nat) /\ DependsOn(j) \subseteq Nat
             /\ tasks[j + 1].prefers \in Kinds
  <2>1. tasks[j + 1] \in Tasks
    BY <1>2
  <2>2. DepsOf(j) \in Seq(Nat) /\ tasks[j + 1].prefers \in Kinds
    BY <2>1, Zenon DEF DepsOf, Tasks
  <2>. QED BY <2>2 DEF DependsOn
<1>. QED BY <1>1, <1>2, <1>3, Zenon

\* The places that wait are finitely many.
LEMMA MissingFinite ==
    ASSUME tasks \in Seq(Tasks), NEW j \in Ids, NEW T \in SUBSET DOMAIN DepsOf(j)
    PROVE  IsFiniteSet(T) /\ Cardinality(T) \in Nat
<1>1. DepsOf(j) \in Seq(Nat)
  BY GraphTypes, Zenon
<1>2. IsFiniteSet(DOMAIN DepsOf(j))
  <2>1. DOMAIN DepsOf(j) = 1 .. Len(DepsOf(j)) /\ Len(DepsOf(j)) \in Nat
    BY <1>1
  <2>. QED BY <2>1, FS_Interval
<1>. QED BY <1>2, FS_Subset, FS_CardinalityType, Zenon

\* Without a bad identifier, a task's dependencies are tasks.
LEMMA DependsOnTasks ==
    ASSUME tasks \in Seq(Tasks)
    PROVE  BadDependency <=> \E j \in Ids : \E d \in DependsOn(j) : d \notin Ids
<1>1. ASSUME NEW j \in Ids, NEW k \in DOMAIN DepsOf(j)
      PROVE  DepsOf(j)[k] >= Len(tasks) <=> DepsOf(j)[k] \notin Ids
  <2>1. DepsOf(j)[k] \in Nat /\ Len(tasks) \in Nat
    BY GraphTypes
  <2>. QED BY <2>1 DEF Ids
<1>. QED BY <1>1, Zenon DEF BadDependency, DependsOn

\* A task that is not scheduled is ready if and only if all it depends on is.
LEMMA ReadyMeansReleased ==
    ASSUME GraphInv, WaitInv, NEW j \in Ids \ Done
    PROVE  j \in Ready <=> DependsOn(j) \subseteq Done
<1>1. tasks \in Seq(Tasks)
  BY Zenon DEF GraphInv
<1>2. indeg[j] = Cardinality(Missing(j))
  BY Zenon DEF WaitInv
<1>3. IsFiniteSet(Missing(j))
  BY <1>1, MissingFinite, Zenon DEF Missing
<1>4. Cardinality(Missing(j)) = 0 <=> Missing(j) = {}
  BY <1>3, FS_EmptySet, Zenon
<1>5. Missing(j) = {} <=> DependsOn(j) \subseteq Done
  BY Zenon DEF Missing, DependsOn
<1>. QED BY <1>2, <1>4, <1>5, Zenon DEF Ready

\* The elements of a concatenation.
LEMMA ConcatIndex ==
    ASSUME NEW S, NEW p \in Seq(S), NEW q \in Seq(S)
    PROVE  /\ p \o q \in Seq(S)
           /\ Len(p \o q) = Len(p) + Len(q)
           /\ \A n \in 1 .. Len(p) + Len(q) :
                 (p \o q)[n] = IF n <= Len(p) THEN p[n] ELSE q[n - Len(p)]
  OBVIOUS

\* A list in ascending order holds each member of its set once.
LEMMA AscendingOnce ==
    ASSUME NEW S \in SUBSET Nat, NEW list \in Ascending(S)
    PROVE  /\ \E m \in Nat : list \in [1 .. m -> S]
           /\ \A j, k \in DOMAIN list : list[j] = list[k] => j = k
           /\ \A i \in S : \E k \in DOMAIN list : list[k] = i
<1>1. PICK m \in 0 .. Len(tasks) : list \in [1 .. m -> S]
  BY Zenon DEF Ascending
<1>2. m \in Nat
  OBVIOUS
<1>3. /\ \A j, k \in DOMAIN list : j < k => list[j] < list[k]
      /\ \A i \in S : \E k \in DOMAIN list : list[k] = i
  BY Zenon DEF Ascending
<1>4. ASSUME NEW j \in DOMAIN list, NEW k \in DOMAIN list, list[j] = list[k] PROVE j = k
  <2>1. j \in Nat /\ k \in Nat /\ list[j] \in Nat /\ list[k] \in Nat
    <3>1. DOMAIN list = 1 .. m /\ \A i \in DOMAIN list : list[i] \in S
      BY <1>1, Zenon
    <3>2. \A i \in 1 .. m : i \in Nat
      BY <1>2
    <3>. QED BY <3>1, <3>2, Zenon
  <2>2. ~(j < k) /\ ~(k < j)
    BY <1>3, <1>4, <2>1
  <2>. QED BY <2>1, <2>2
<1>. QED BY <1>1, <1>2, <1>3, <1>4, Zenon

\* A turn of the loop appends the ready tasks, each once, to what is scheduled.
LEMMA WaveAppends ==
    ASSUME GraphInv, Wave
    PROVE  LET L == Len(scheduled)
           IN  /\ Len(scheduled') \in Nat /\ L \in Nat /\ L <= Len(scheduled')
               /\ scheduled' \in Seq([task : Nat, node : Kinds \cup {Cpu}, step : Nat])
               /\ \A k \in 1 .. L : scheduled'[k] = scheduled[k]
               /\ \A k \in L + 1 .. Len(scheduled') :
                     scheduled'[k].task \in Ready /\ scheduled'[k].step = step
               /\ \A h, k \in L + 1 .. Len(scheduled') :
                     scheduled'[h].task = scheduled'[k].task => h = k
               /\ \A i \in Ready : \E k \in L + 1 .. Len(scheduled') : scheduled'[k].task = i
               /\ Done' = Done \cup Ready
<1>. DEFINE R == [task : Nat, node : Kinds \cup {Cpu}, step : Nat]
            L == Len(scheduled)
<1>1. PICK wave \in Ascending(Ready) : scheduled' = scheduled \o Scheduled(wave)
  BY Zenon DEF Wave
<1>. DEFINE new == Scheduled(wave)
<1>. HIDE DEF R, new, L
<1>2. Ready \in SUBSET Ids /\ Ids \subseteq Nat /\ step \in Nat /\ scheduled \in Seq(R)
  BY GraphTypes, Zenon DEF GraphInv, R, Ready
<1>3. PICK m \in Nat : wave \in [1 .. m -> Ready]
  BY <1>2, AscendingOnce, Zenon
<1>4. DOMAIN wave = 1 .. m /\ Len(wave) = m
  BY <1>3
<1>5. /\ \A j, k \in 1 .. m : wave[j] = wave[k] => j = k
      /\ \A i \in Ready : \E k \in 1 .. m : wave[k] = i
  BY <1>2, <1>4, AscendingOnce
<1>6. new \in Seq(R) /\ Len(new) = m
  <2>1. ASSUME NEW k \in 1 .. m
        PROVE  [task |-> wave[k], node |-> Node(wave[k]), step |-> step] \in R
    <3>1. wave[k] \in Ids
      BY <1>2, <1>3, Zenon
    <3>2. Node(wave[k]) \in Kinds \cup {Cpu}
      BY <3>1, GraphTypes, Zenon DEF Node, GraphInv
    <3>. QED BY <1>2, <3>1, <3>2, Zenon DEF R
  <2>2. new = [k \in 1 .. m |-> [task |-> wave[k], node |-> Node(wave[k]), step |-> step]]
    BY <1>4, Zenon DEF new, Scheduled
  <2>. QED BY <2>1, <2>2
<1>7. \A k \in 1 .. m : new[k].task = wave[k] /\ new[k].step = step
  BY <1>4, Zenon DEF new, Scheduled
<1>8. /\ L \in Nat /\ Len(scheduled') = L + m /\ scheduled' \in Seq(R)
      /\ \A k \in 1 .. L + m : scheduled'[k] = IF k <= L THEN scheduled[k] ELSE new[k - L]
  <2>1. scheduled' = scheduled \o new
    BY <1>1, Zenon DEF new
  <2>2. L \in Nat /\ L = Len(scheduled)
    BY <1>2 DEF L
  <2>. QED BY <1>2, <1>6, <2>1, <2>2, ConcatIndex, Zenon
<1>9. \A k \in 1 .. L : scheduled'[k] = scheduled[k]
  BY <1>8
<1>10. \A k \in L + 1 .. L + m : k - L \in 1 .. m /\ scheduled'[k] = new[k - L]
  BY <1>8
<1>11. \A k \in L + 1 .. L + m : scheduled'[k].task = wave[k - L] /\ scheduled'[k].step = step
  BY <1>7, <1>10
<1>12. \A k \in L + 1 .. L + m : scheduled'[k].task \in Ready
  BY <1>3, <1>10, <1>11, Zenon
<1>13. ASSUME NEW h \in L + 1 .. L + m, NEW k \in L + 1 .. L + m,
              scheduled'[h].task = scheduled'[k].task
       PROVE  h = k
  <2>1. h - L = k - L
    BY <1>5, <1>10, <1>11, <1>13
  <2>. QED BY <1>8, <2>1
<1>14. ASSUME NEW i \in Ready
       PROVE  \E k \in L + 1 .. L + m : scheduled'[k].task = i
  <2>1. PICK k \in 1 .. m : wave[k] = i
    BY <1>5, Zenon
  <2>2. L + k \in L + 1 .. L + m /\ (L + k) - L = k
    BY <1>8
  <2>. QED BY <1>11, <2>1, <2>2, Zenon
<1>15. Done' = Done \cup Ready
  <2>1. Done = {scheduled[k].task : k \in 1 .. L}
    BY Zenon DEF Done, L
  <2>2. Done' = {scheduled'[k].task : k \in 1 .. L + m}
    BY <1>8, Zenon DEF Done
  <2>3. \A k : k \in 1 .. L + m <=> k \in 1 .. L \/ k \in L + 1 .. L + m
    BY <1>8
  <2>4. \A i \in Done : i \in Done'
    BY <2>1, <2>2, <2>3, <1>9, Zenon
  <2>5. \A i \in Ready : i \in Done'
    BY <2>2, <2>3, <1>14, Zenon
  <2>6. \A i \in Done' : i \in Done \cup Ready
    BY <2>1, <2>2, <2>3, <1>9, <1>12
  <2>. QED BY <2>4, <2>5, <2>6, Zenon
<1>16. /\ Len(scheduled') \in Nat /\ L <= L + m
       /\ scheduled' \in Seq([task : Nat, node : Kinds \cup {Cpu}, step : Nat])
  BY <1>3, <1>8 DEF R
<1>. QED BY <1>8, <1>9, <1>11, <1>12, <1>13, <1>14, <1>15, <1>16, Zenon DEF L

\* A turn of the loop leaves the tasks alone.
LEMMA WaveFrame ==
    ASSUME Wave
    PROVE  /\ UNCHANGED <<tasks, status>> /\ step' = step + 1 /\ status = "running"
           /\ Ids' = Ids
           /\ \A j : DepsOf(j)' = DepsOf(j) /\ DependsOn(j)' = DependsOn(j)
  BY Zenon DEF Wave, Ids, DepsOf, DependsOn

\* The waves stay sound: a task of the new wave has all it depends on in earlier
\* waves, and one of them in the wave just before.
LEMMA WaveKeepsWaves ==
    ASSUME GraphInv, WavesInv, WaitInv, Wave
    PROVE  WavesInv'
<1>. DEFINE L == Len(scheduled)
            N == Len(scheduled')
<1>. HIDE DEF L, N
<1>1. /\ L \in Nat /\ N \in Nat /\ L <= N /\ step \in Nat
      /\ \A k \in 1 .. N : k \in 1 .. L \/ k \in L + 1 .. N
      /\ \A k \in 1 .. L : k \in 1 .. N
      /\ \A k \in L + 1 .. N : k \in 1 .. N
  <2>1. L \in Nat /\ N \in Nat /\ L <= N /\ step \in Nat
    BY WaveAppends, Zenon DEF GraphInv, L, N
  <2>. QED BY <2>1
<1>2. /\ \A k \in 1 .. L : scheduled'[k] = scheduled[k]
      /\ \A k \in L + 1 .. N : scheduled'[k].task \in Ready /\ scheduled'[k].step = step
      /\ \A h, k \in L + 1 .. N : scheduled'[h].task = scheduled'[k].task => h = k
  BY WaveAppends, Zenon DEF L, N
<1>3. Ready \subseteq Ids \ Done
  BY Zenon DEF Ready
<1>4. \A k \in 1 .. L : scheduled[k].task \in Ids /\ scheduled[k].step \in 0 .. step - 1
  BY Zenon DEF WavesInv, L
<1>5. \A d : d \in Done <=> \E h \in 1 .. L : scheduled[h].task = d
  BY Zenon DEF Done, L
<1>6. \A k \in 1 .. N : /\ scheduled'[k].task \in Ids'
                        /\ scheduled'[k].step \in 0 .. step' - 1
  <2>1. \A x \in 0 .. step - 1 : x \in 0 .. (step + 1) - 1
    BY <1>1
  <2>2. step \in 0 .. (step + 1) - 1
    BY <1>1
  <2>. QED BY <1>1, <1>2, <1>3, <1>4, <2>1, <2>2, WaveFrame
<1>7. \A h, k \in 1 .. N : scheduled'[h].task = scheduled'[k].task => h = k
  <2>1. \A h, k \in 1 .. L : scheduled[h].task = scheduled[k].task => h = k
    BY Zenon DEF WavesInv, L
  <2>2. \A h \in 1 .. L, k \in L + 1 .. N : scheduled'[h].task # scheduled'[k].task
    BY <1>2, <1>3, <1>5, Zenon
  <2>. QED BY <1>1, <1>2, <2>1, <2>2, Zenon
<1>8. ASSUME NEW k \in 1 .. N
      PROVE  /\ \A d \in DependsOn(scheduled'[k].task) :
                   \E h \in 1 .. N : /\ scheduled'[h].task = d
                                     /\ scheduled'[h].step < scheduled'[k].step
             /\ scheduled'[k].step > 0 =>
                   \E h \in 1 .. N : /\ scheduled'[h].task \in DependsOn(scheduled'[k].task)
                                     /\ scheduled'[h].step = scheduled'[k].step - 1
  <2>1. CASE k \in 1 .. L
    <3>1. /\ \A d \in DependsOn(scheduled[k].task) :
                \E h \in 1 .. L : scheduled[h].task = d /\ scheduled[h].step < scheduled[k].step
          /\ scheduled[k].step > 0 =>
                \E h \in 1 .. L : /\ scheduled[h].task \in DependsOn(scheduled[k].task)
                                  /\ scheduled[h].step = scheduled[k].step - 1
      BY <2>1, Zenon DEF WavesInv, L
    <3>. QED BY <1>1, <1>2, <2>1, <3>1
  <2>2. CASE k \in L + 1 .. N
    <3>. DEFINE j == scheduled'[k].task
    <3>1. j \in Ready /\ j \in Ids \ Done /\ scheduled'[k].step = step
      BY <1>2, <1>3, <2>2, Zenon
    <3>. HIDE DEF j
    <3>2. DependsOn(j) \subseteq Done
      BY <3>1, ReadyMeansReleased, Zenon
    <3>3. \A d \in DependsOn(j) : \E h \in 1 .. L : scheduled[h].task = d /\ scheduled[h].step < step
      <4>1. \A x \in 0 .. step - 1 : x < step
        BY <1>1
      <4>. QED BY <1>4, <1>5, <3>2, <4>1, Zenon
    <3>4. step > 0 => \E h \in 1 .. L : /\ scheduled[h].task \in DependsOn(j)
                                        /\ scheduled[h].step = step - 1
      BY <3>1, <3>2, Zenon DEF WaitInv, L
    <3>. QED BY <1>1, <1>2, <3>1, <3>3, <3>4 DEF j
  <2>. QED BY <1>1, <2>1, <2>2, Zenon
<1>9. \A k : DependsOn(scheduled[k].task)' = DependsOn(scheduled'[k].task)
  BY WaveFrame, Zenon DEF DependsOn, DepsOf
<1>10. ASSUME NEW k \in 1 .. N
       PROVE  /\ \A d \in DependsOn(scheduled[k].task)' :
                    \E h \in 1 .. N : /\ scheduled'[h].task = d
                                      /\ scheduled'[h].step < scheduled'[k].step
              /\ scheduled'[k].step > 0 =>
                    \E h \in 1 .. N : /\ scheduled'[h].task \in DependsOn(scheduled[k].task)'
                                      /\ scheduled'[h].step = scheduled'[k].step - 1
  BY <1>8, <1>9
<1>11. (\A k \in 1 .. Len(scheduled) : /\ scheduled[k].task \in Ids
                                        /\ scheduled[k].step \in 0 .. step - 1)'
  BY <1>6, Zenon DEF N
<1>12. (\A h, k \in 1 .. Len(scheduled) : scheduled[h].task = scheduled[k].task => h = k)'
  BY <1>7, Zenon DEF N
<1>13. (\A k \in 1 .. Len(scheduled) :
           /\ \A d \in DependsOn(scheduled[k].task) :
                 \E h \in 1 .. Len(scheduled) :
                     scheduled[h].task = d /\ scheduled[h].step < scheduled[k].step
           /\ scheduled[k].step > 0 =>
                 \E h \in 1 .. Len(scheduled) :
                     /\ scheduled[h].task \in DependsOn(scheduled[k].task)
                     /\ scheduled[h].step = scheduled[k].step - 1)'
  BY <1>10, Zenon DEF N
<1>. QED BY <1>11, <1>12, <1>13, Zenon DEF WavesInv

\* The in-degrees stay right: a wave lowers each by the places it releases, however
\* often a list names a task.
LEMMA WaveKeepsDegrees ==
    ASSUME GraphInv, WavesInv, WaitInv, Wave, NEW j \in Ids \ Done', Done' = Done \cup Ready
    PROVE  indeg'[j] = Cardinality(Missing(j)')
<1>. DEFINE rel == {k \in DOMAIN DepsOf(j) : DepsOf(j)[k] \in Ready}
<1>1. j \in Ids \ Done /\ j \notin Ready /\ tasks \in Seq(Tasks)
  BY Zenon DEF GraphInv
<1>2. indeg'[j] = indeg[j] - Cardinality(rel)
  BY <1>1, Zenon DEF Wave, Release
<1>3. Missing(j)' = Missing(j) \ rel /\ rel \subseteq Missing(j)
  BY WaveFrame DEF Missing, Ready
<1>. HIDE DEF rel
<1>4. IsFiniteSet(Missing(j)) /\ Cardinality(Missing(j)) \in Nat
  BY <1>1, MissingFinite, Zenon DEF Missing
<1>5. IsFiniteSet(rel) /\ IsFiniteSet(Missing(j) \ rel)
  BY <1>3, <1>4, FS_Subset, Zenon
<1>6. Cardinality(rel) \in Nat /\ Cardinality(Missing(j) \ rel) \in Nat
  BY <1>5, FS_CardinalityType, Zenon
<1>7. /\ rel \cup (Missing(j) \ rel) = Missing(j)
      /\ rel \cap (Missing(j) \ rel) = {}
  BY <1>3, Zenon
<1>8. Cardinality(Missing(j)) = Cardinality(rel) + Cardinality(Missing(j) \ rel) - 0
  BY <1>5, <1>7, FS_Union, FS_EmptySet
<1>9. indeg[j] = Cardinality(Missing(j))
  BY <1>1, Zenon DEF WaitInv
<1>. QED BY <1>2, <1>3, <1>6, <1>8, <1>9

\* What still waits stays sound.
LEMMA WaveKeepsWaits ==
    ASSUME GraphInv, WavesInv, WaitInv, Wave
    PROVE  WaitInv'
<1>. DEFINE N == Len(scheduled')
<1>1. Done' = Done \cup Ready /\ step \in Nat
  BY WaveAppends, Zenon DEF GraphInv
<1>2. \A i \in Ready : \E k \in 1 .. N : scheduled'[k].task = i /\ scheduled'[k].step = step
  <2>1. \A k \in Len(scheduled) + 1 .. N : k \in 1 .. N
    BY WaveAppends
  <2>. QED BY <2>1, WaveAppends
<1>. HIDE DEF N
<1>3. ASSUME NEW j \in Ids \ Done'
      PROVE  \/ \E d \in DependsOn(j) : d \notin Done'
             \/ \E h \in 1 .. N : /\ scheduled'[h].task \in DependsOn(j)
                                  /\ scheduled'[h].step = step
  <2>1. j \in Ids \ Done /\ j \notin Ready
    BY <1>1, Zenon
  <2>2. PICK d \in DependsOn(j) : d \notin Done
    BY <2>1, ReadyMeansReleased, Zenon
  <2>. QED BY <1>1, <1>2, <2>2
<1>4. step' - 1 = step
  BY <1>1, WaveFrame
<1>5. \A j \in Ids \ Done' : indeg'[j] = Cardinality(Missing(j)')
  BY <1>1, WaveKeepsDegrees, Zenon
<1>. QED BY <1>3, <1>4, <1>5, WaveFrame DEF WaitInv, N

\* How many numbers an interval holds.
LEMMA IntervalCardinality ==
    ASSUME NEW n \in Nat
    PROVE  Cardinality(1 .. n) = n /\ Cardinality(0 .. n - 1) = n
<1>1. Cardinality(1 .. n) = IF 1 > n THEN 0 ELSE n - 1 + 1
  BY FS_Interval
<1>2. n - 1 \in Int /\ 0 \in Int
  OBVIOUS
<1>3. Cardinality(0 .. n - 1) = IF 0 > n - 1 THEN 0 ELSE (n - 1) - 0 + 1
  BY <1>2, FS_Interval, Zenon
<1>. QED BY <1>1, <1>3

\* Nothing is scheduled while the graph is built.
LEMMA GraphInvInit == GraphInit => GraphInv
  BY DEF GraphInit, GraphInv

\* Adding a task keeps the graph a list of tasks.
LEMMA GraphInvAdd ==
    ASSUME GraphInv, NEW kind \in Kinds, NEW deps \in DepLists, Add(kind, deps)
    PROVE  GraphInv'
<1>1. deps \in Seq(Nat)
  <2>1. PICK m \in 0 .. MaxDeps : deps \in [1 .. m -> 0 .. GraphTasks]
    BY Zenon DEF DepLists
  <2>2. m \in Nat /\ \A k \in 1 .. m : deps[k] \in Nat
    BY <2>1, WorkGraphAssumption
  <2>3. deps \in [1 .. m -> Nat]
    BY <2>1, <2>2, Zenon
  <2>. QED BY <2>2, <2>3
<1>2. [prefers |-> kind, deps |-> deps] \in Tasks
  BY <1>1, Zenon DEF Tasks
<1>3. tasks' \in Seq(Tasks)
  BY <1>2 DEF GraphInv, Add
<1>. QED BY <1>3, Zenon DEF GraphInv, Add

\* schedule's validation and its in-degrees: nothing is done yet, so every place of
\* every list waits.
LEMMA GraphInvStart ==
    ASSUME GraphInv, NEW kinds, Start(kinds)
    PROVE  GraphInv'
<1>1. /\ status = "building" /\ scheduled = <<>> /\ step = 0 /\ ~BadDependency
      /\ tasks \in Seq(Tasks) /\ status' = "running"
      /\ UNCHANGED <<tasks, scheduled, step>>
      /\ indeg' = [i \in Ids |-> Len(DepsOf(i))]
  BY Zenon DEF GraphInv, Start
<1>2. Done = {} /\ Done' = {}
  BY <1>1 DEF Done
<1>3. ASSUME NEW j \in Ids PROVE indeg'[j] = Cardinality(Missing(j)')
  <2>1. DepsOf(j) \in Seq(Nat)
    BY <1>1, GraphTypes, Zenon
  <2>2. Missing(j)' = 1 .. Len(DepsOf(j)) /\ Len(DepsOf(j)) \in Nat
    BY <1>1, <1>2, <2>1 DEF Missing, DepsOf
  <2>3. Cardinality(1 .. Len(DepsOf(j))) = Len(DepsOf(j))
    BY <2>2, IntervalCardinality, Zenon
  <2>. QED BY <1>1, <2>2, <2>3, Zenon
<1>4. WaitInv'
  BY <1>1, <1>3 DEF WaitInv, Ids
<1>5. WavesInv'
  BY <1>1 DEF WavesInv
<1>6. ~BadDependency'
  BY <1>1, Zenon DEF BadDependency, Ids, DepsOf
<1>. QED BY <1>1, <1>4, <1>5, <1>6, Zenon DEF GraphInv

\* The loop's end: with an empty wave, the tasks left wait for each other.
LEMMA FinishAnswers ==
    ASSUME GraphInv, Finish
    PROVE  status' = "cycle" => Cyclic
<1>. SUFFICES ASSUME status' = "cycle" PROVE Cyclic
  BY Zenon
<1>1. /\ Ready = {} /\ status = "running" /\ Done # Ids
      /\ ~BadDependency /\ WavesInv /\ WaitInv /\ tasks \in Seq(Tasks)
  BY Zenon DEF Finish, GraphInv
<1>2. Done \subseteq Ids
  BY <1>1 DEF WavesInv, Done
<1>. DEFINE S == Ids \ Done
<1>3. S # {} /\ S \in SUBSET Ids
  BY <1>1, <1>2, Zenon
<1>4. ASSUME NEW j \in S PROVE DependsOn(j) \cap S # {}
  <2>1. PICK d \in DependsOn(j) : d \notin Done
    BY <1>1, ReadyMeansReleased, Zenon
  <2>2. d \in Ids
    BY <1>1, <2>1, DependsOnTasks, Zenon
  <2>. QED BY <2>1, <2>2, Zenon
<1>. QED BY <1>3, <1>4, Zenon DEF Cyclic

\* Every step keeps the graph's invariant.
LEMMA GraphInvNext == GraphInv /\ [GraphNext]_graphVars => GraphInv'
<1>. SUFFICES ASSUME GraphInv, [GraphNext]_graphVars PROVE GraphInv'
  BY Zenon
<1>1. ASSUME UNCHANGED <<tasks, indeg, scheduled, step>>
      PROVE  /\ BadDependency' = BadDependency /\ WavesInv' = WavesInv /\ WaitInv' = WaitInv
             /\ Cyclic' = Cyclic /\ Done' = Done /\ Ids' = Ids
  BY <1>1 DEF BadDependency, WavesInv, WaitInv, Cyclic, Done, Ids, DependsOn, DepsOf, Missing
<1>2. CASE UNCHANGED graphVars
  BY <1>1, <1>2 DEF GraphInv, graphVars
<1>3. ASSUME NEW kind \in Kinds, NEW deps \in DepLists, Add(kind, deps) PROVE GraphInv'
  BY <1>3, GraphInvAdd, Zenon
<1>4. ASSUME NEW kinds \in SUBSET Kinds, Start(kinds) PROVE GraphInv'
  BY <1>4, GraphInvStart, Zenon
<1>5. CASE Reject
  BY <1>1, <1>5, Zenon DEF GraphInv, Reject
<1>6. CASE Wave
  <2>1. status = "running" /\ ~BadDependency /\ WavesInv /\ WaitInv
    BY <1>6, Zenon DEF GraphInv, Wave
  <2>2. WavesInv' /\ WaitInv'
    BY <1>6, <2>1, WaveKeepsWaves, WaveKeepsWaits
  <2>3. ~BadDependency'
    BY <1>6, <2>1 DEF BadDependency, Wave, Ids, DepsOf
  <2>4. scheduled' \in Seq([task : Nat, node : Kinds \cup {Cpu}, step : Nat])
    BY <1>6, WaveAppends
  <2>. QED BY <1>6, <2>1, <2>2, <2>3, <2>4 DEF GraphInv, Wave
<1>7. CASE Finish
  <2>1. /\ UNCHANGED <<tasks, indeg, scheduled, step>> /\ status = "running"
        /\ status' \in {"ok", "cycle"} /\ (status' = "ok" => Done = Ids)
    BY <1>7, Zenon DEF Finish
  <2>2. status' = "cycle" => Cyclic
    BY <1>7, FinishAnswers, Zenon
  <2>. QED BY <1>1, <2>1, <2>2 DEF GraphInv
<1>. QED BY <1>2, <1>3, <1>4, <1>5, <1>6, <1>7, Zenon DEF GraphNext, Schedule

\* Every nonempty set of numbers has a least one.
LEMMA LeastNatural ==
    ASSUME NEW T \in SUBSET Nat, T # {}
    PROVE  \E x \in T : \A y \in T : x <= y
<1>1. PICK x \in T : \A y \in T : ~(<<y, x>> \in OpToRel(<, Nat))
  BY WFMin, NatLessThanWellFounded, Zenon
<1>2. \A y \in T : ~(y < x)
  BY <1>1, Zenon DEF OpToRel
<1>. QED BY <1>2

\* A graph all of whose tasks are scheduled has no cycle: the task of a cycle
\* scheduled first would depend on one scheduled before it.
LEMMA ScheduledAcyclic ==
    ASSUME GraphInv, WavesInv, Done = Ids
    PROVE  ~Cyclic
<1>. SUFFICES ASSUME NEW S \in SUBSET Ids, S # {}, \A j \in S : DependsOn(j) \cap S # {}
              PROVE  FALSE
  BY Zenon DEF Cyclic
<1>. DEFINE T == {scheduled[k].step : k \in {h \in 1 .. Len(scheduled) : scheduled[h].task \in S}}
<1>1. T # {}
  <2>1. PICK i \in S : i \in Done
    BY Zenon
  <2>2. PICK k \in 1 .. Len(scheduled) : scheduled[k].task = i
    BY <2>1, Zenon DEF Done
  <2>. QED BY <2>2, Zenon
<1>2. \A k \in 1 .. Len(scheduled) : scheduled[k].step \in Nat
  <2>1. step \in Nat
    BY Zenon DEF GraphInv
  <2>. QED BY <2>1 DEF WavesInv
<1>3. PICK x \in T : \A y \in T : x <= y
  <2>1. T \in SUBSET Nat
    BY <1>2, Zenon
  <2>. HIDE DEF T
  <2>. QED BY <1>1, <2>1, LeastNatural, Zenon
<1>4. PICK k \in 1 .. Len(scheduled) : scheduled[k].task \in S /\ scheduled[k].step = x
  BY <1>3, Zenon
<1>5. PICK d \in DependsOn(scheduled[k].task) : d \in S
  BY <1>4, Zenon
<1>6. PICK h \in 1 .. Len(scheduled) :
         scheduled[h].task = d /\ scheduled[h].step < scheduled[k].step
  BY <1>4, <1>5, Zenon DEF WavesInv
<1>7. x <= scheduled[h].step
  BY <1>3, <1>5, <1>6, Zenon
<1>. QED BY <1>2, <1>4, <1>6, <1>7

\* When every task is scheduled, each is scheduled once.
LEMMA ScheduledOnce ==
    ASSUME GraphInv, WavesInv, Done = Ids
    PROVE  Len(scheduled) = Len(tasks)
<1>. DEFINE f == [k \in 1 .. Len(scheduled) |-> scheduled[k].task]
<1>1. Len(scheduled) \in Nat /\ Len(tasks) \in Nat
  BY DEF GraphInv
<1>2. f \in Bijection(1 .. Len(scheduled), Ids)
  <2>1. f \in [1 .. Len(scheduled) -> Ids]
    BY Zenon DEF WavesInv
  <2>2. \A h, k \in 1 .. Len(scheduled) : f[h] = f[k] => h = k
    BY Zenon DEF WavesInv
  <2>3. \A i \in Ids : \E k \in 1 .. Len(scheduled) : f[k] = i
    BY Zenon DEF Done
  <2>. HIDE DEF f
  <2>. QED BY <2>1, <2>2, <2>3, Zenon DEF Bijection, Injection, Surjection, IsInjective
<1>3. Cardinality(Ids) = Cardinality(1 .. Len(scheduled))
  <2>1. ExistsBijection(1 .. Len(scheduled), Ids)
    BY <1>2, Zenon DEF ExistsBijection
  <2>. QED BY <1>1, <2>1, FS_Bijection, FS_Interval
<1>4. Cardinality(1 .. Len(scheduled)) = Len(scheduled)
  BY <1>1, IntervalCardinality, Zenon
<1>5. Cardinality(0 .. Len(tasks) - 1) = Len(tasks)
  BY <1>1, IntervalCardinality, Zenon
<1>. QED BY <1>3, <1>4, <1>5, Zenon DEF Ids

\* WorkGraph::schedule's three answers, for every graph: BadDependency if and only
\* if an identifier is unknown, Cycle only if tasks wait for each other, and
\* otherwise there is no cycle and every task is scheduled exactly once.
THEOREM GraphAnswerIsRight == GraphSpec => []AnswerIsRight
<1>1. GraphInv => AnswerIsRight
  <2>. SUFFICES ASSUME GraphInv PROVE AnswerIsRight
    BY Zenon
  <2>1. status = "bad" <=> status # "building" /\ BadDependency
    BY Zenon DEF GraphInv
  <2>2. tasks \in Seq(Tasks)
    BY Zenon DEF GraphInv
  <2>3. status = "ok" => ~Cyclic /\ Done = Ids /\ Len(scheduled) = Len(tasks)
    BY ScheduledAcyclic, ScheduledOnce, Zenon DEF GraphInv
  <2>. QED BY <2>1, <2>2, <2>3, DependsOnTasks, Zenon DEF AnswerIsRight, GraphInv
<1>. QED BY <1>1, GraphInvInit, GraphInvNext, PTL DEF GraphSpec

\* WorkGraph::schedule's order, for every graph: a task's wave comes after those of
\* all it depends on, and is the first that does.
THEOREM GraphWaveIsDepth == GraphSpec => []WaveIsDepth
<1>1. GraphInv => WaveIsDepth
  <2>. SUFFICES ASSUME GraphInv PROVE WaveIsDepth
    BY Zenon
  <2>1. DOMAIN scheduled = 1 .. Len(scheduled)
    BY DEF GraphInv
  <2>2. CASE scheduled = <<>>
    BY <2>2 DEF WaveIsDepth
  <2>3. CASE WavesInv
    <3>1. ASSUME NEW k \in 1 .. Len(scheduled)
          PROVE  LET before == {h \in 1 .. Len(scheduled) :
                                   scheduled[h].task \in DependsOn(scheduled[k].task)}
                 IN  /\ DependsOn(scheduled[k].task) = {scheduled[h].task : h \in before}
                     /\ \A h \in before : scheduled[h].step < scheduled[k].step
                     /\ scheduled[k].step > 0 =>
                           \E h \in before : scheduled[h].step = scheduled[k].step - 1
      <4>1. \A d \in DependsOn(scheduled[k].task) :
               \E h \in 1 .. Len(scheduled) :
                   scheduled[h].task = d /\ scheduled[h].step < scheduled[k].step
        BY <2>3, Zenon DEF WavesInv
      <4>2. scheduled[k].step > 0 =>
               \E h \in 1 .. Len(scheduled) :
                   /\ scheduled[h].task \in DependsOn(scheduled[k].task)
                   /\ scheduled[h].step = scheduled[k].step - 1
        BY <2>3, Zenon DEF WavesInv
      <4>3. \A h, i \in 1 .. Len(scheduled) : scheduled[h].task = scheduled[i].task => h = i
        BY <2>3, Zenon DEF WavesInv
      <4>. QED BY <4>1, <4>2, <4>3
    <3>. QED BY <2>1, <3>1, Zenon DEF WaveIsDepth
  <2>. QED BY <2>2, <2>3, Zenon DEF GraphInv
<1>. QED BY <1>1, GraphInvInit, GraphInvNext, PTL DEF GraphSpec

==============================================================================
