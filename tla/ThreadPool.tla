------------------------------ MODULE ThreadPool ------------------------------
(***************************************************************************)
(* The policy half of the OS-wide pool (dominion-core/src/pool.rs): tasks   *)
(* are admitted by priority and memory pressure, queued per worker in       *)
(* priority order, spilled to a global overflow queue, popped by their      *)
(* worker or stolen by an idle one.  Calls are atomic (one domain owns the  *)
(* pool) and come in any order.  No loop of the kernel drives the workers:  *)
(* the callers in src/ (placement.rs, prefetch.rs, coldcomp.rs) submit a    *)
(* batch and drain it by calling pop_for until it returns None.             *)
(***************************************************************************)
EXTENDS Integers, Sequences, FiniteSets, SequencesExt, FiniteSetsExt

CONSTANTS
    Workers,     \* 0 .. n - 1
    Depth,       \* queue_depth
    StealBatch,  \* steal_batch
    Offered,     \* the priorities callers use
    MaxTasks     \* bound on submissions

VARIABLES
    local,      \* per worker: sequence of items, highest priority last
    overflow,   \* global queue
    metrics,
    tasks,      \* tasks offered so far; task numbers are 1 .. tasks
    accepted,   \* the ones that were enqueued
    handed,     \* how often pop_for handed out each task
    drained     \* the workers for which pop_for returned None since the last
                \* task was accepted

vars == <<local, overflow, metrics, tasks, accepted, handed, drained>>

Pressures == {"Comfortable", "Tight", "Critical"}

\* Priorities: 0 Idle, 1 Background, 2 Normal, 3 RealTime.
Admit(p, pressure) ==
    CASE pressure = "Comfortable" \/ p = 3 -> "Accepted"
      [] p = 2 /\ pressure = "Tight" -> "Accepted"
      [] <<p, pressure>> \in {<<2, "Critical">>, <<1, "Tight">>} -> "Deferred"
      [] OTHER -> "Refused"

\* LocalQueue::push, below capacity: after every item of its priority or less.
Insert(queue, item) ==
    LET pos == Cardinality({i \in DOMAIN queue : queue[i].priority <= item.priority})
    IN  InsertAt(queue, pos + 1, item)

Full(w) == Len(local[w]) >= Depth

\* min_by_key keeps the first, max_by_key the last.
LeastLoaded ==
    CHOOSE w \in Workers : \A v \in Workers :
        Len(local[w]) < Len(local[v]) \/ (Len(local[w]) = Len(local[v]) /\ w <= v)

BusiestExcept(w) ==
    LET peers == Workers \ {w}
    IN  {v \in peers : /\ Len(local[v]) >= 2
                       /\ \A u \in peers : \/ Len(local[u]) < Len(local[v])
                                           \/ Len(local[u]) = Len(local[v]) /\ u <= v}
------------------------------------------------------------------------------
Init ==
    /\ local = [w \in Workers |-> <<>>]
    /\ overflow = <<>>
    /\ metrics = [submitted |-> 0, stolen |-> 0, deferred |-> 0, refused |-> 0, overflowed |-> 0]
    /\ tasks = 0 /\ accepted = {}
    /\ handed = [t \in 1 .. MaxTasks |-> 0] /\ drained = {}

Submit(p, pressure) ==
    /\ tasks < MaxTasks
    /\ tasks' = tasks + 1
    /\ LET item   == [task |-> tasks + 1, priority |-> p]
           target == LeastLoaded
       IN  CASE Admit(p, pressure) = "Deferred" ->
                  /\ metrics' = [metrics EXCEPT !.deferred = @ + 1]
                  /\ UNCHANGED <<local, overflow, accepted, drained>>
             [] Admit(p, pressure) = "Refused" ->
                  /\ metrics' = [metrics EXCEPT !.refused = @ + 1]
                  /\ UNCHANGED <<local, overflow, accepted, drained>>
             [] OTHER ->
                  /\ accepted' = accepted \cup {item.task}
                  /\ drained' = {}
                  /\ IF Full(target)
                     THEN /\ overflow' = Append(overflow, item)
                          /\ metrics' = [metrics EXCEPT !.submitted = @ + 1, !.overflowed = @ + 1]
                          /\ UNCHANGED local
                     ELSE /\ local' = [local EXCEPT ![target] = Insert(@, item)]
                          /\ metrics' = [metrics EXCEPT !.submitted = @ + 1]
                          /\ UNCHANGED overflow
    /\ UNCHANGED handed

\* push_to_worker: past admission, and refused by a full queue.
PushToWorker(w, p) ==
    /\ tasks < MaxTasks
    /\ tasks' = tasks + 1
    /\ IF Full(w) THEN UNCHANGED <<local, accepted, drained>>
       ELSE /\ local' = [local EXCEPT ![w] = Insert(@, [task |-> tasks + 1, priority |-> p])]
            /\ accepted' = accepted \cup {tasks + 1}
            /\ drained' = {}
    /\ UNCHANGED <<overflow, metrics, handed>>

Handed(item) ==
    /\ handed' = [handed EXCEPT ![item.task] = @ + 1]
    /\ UNCHANGED drained

\* pop_for: the worker's own queue ...
PopOwn(w) ==
    /\ local[w] # <<>>
    /\ local' = [local EXCEPT ![w] = Front(@)]
    /\ Handed(Last(local[w]))
    /\ UNCHANGED <<overflow, metrics, tasks, accepted>>

\* LocalQueue::steal: from the front, at most half.
Stolen(queue) == SubSeq(queue, 1, Min({StealBatch, Len(queue) \div 2}))

Requeued(queue, items) == FoldLeft(LAMBDA q, item : IF Len(q) < Depth THEN Insert(q, item) ELSE q,
                                   queue, items)

\* Mutant: the items stolen along with the first are dropped.
StealFirst(w) ==
    /\ local[w] = <<>>
    /\ \E v \in BusiestExcept(w) :
           LET took == Stolen(local[v])
           IN  /\ local' = [local EXCEPT ![v] = SubSeq(@, Len(took) + 1, Len(@))]
               /\ Handed(took[1])
    /\ metrics' = [metrics EXCEPT !.stolen = @ + 1]
    /\ UNCHANGED <<overflow, tasks, accepted>>

\* ... then a batch from the busiest peer, of which the first is handed out and
\* the rest queued ...
Steal(w) ==
    /\ local[w] = <<>>
    /\ \E v \in BusiestExcept(w) :
           LET took == Stolen(local[v])
           IN  /\ local' = [local EXCEPT ![v] = SubSeq(@, Len(took) + 1, Len(@)),
                                         ![w] = Requeued(@, Tail(took))]
               /\ Handed(took[1])
    /\ metrics' = [metrics EXCEPT !.stolen = @ + 1]
    /\ UNCHANGED <<overflow, tasks, accepted>>

\* ... then the overflow queue.
PopOverflow(w) ==
    /\ local[w] = <<>> /\ BusiestExcept(w) = {} /\ overflow # <<>>
    /\ overflow' = Tail(overflow)
    /\ Handed(Head(overflow))
    /\ UNCHANGED <<local, metrics, tasks, accepted>>

\* Mutant: the overflow queue is forgotten.
PopNoneEarly(w) ==
    /\ local[w] = <<>> /\ BusiestExcept(w) = {}
    /\ drained' = drained \cup {w}
    /\ UNCHANGED <<local, overflow, metrics, tasks, accepted, handed>>

\* ... and None when that is empty too.
PopNone(w) ==
    /\ local[w] = <<>> /\ BusiestExcept(w) = {} /\ overflow = <<>>
    /\ drained' = drained \cup {w}
    /\ UNCHANGED <<local, overflow, metrics, tasks, accepted, handed>>

PopFor(w) == PopOwn(w) \/ Steal(w) \/ PopOverflow(w) \/ PopNone(w)

Next ==
    \/ \E p \in Offered, pressure \in Pressures : Submit(p, pressure)
    \/ \E w \in Workers, p \in Offered : PushToWorker(w, p)
    \/ \E w \in Workers : PopFor(w)

Spec == Init /\ [][Next]_vars
------------------------------------------------------------------------------
Queued == {<<w, i>> : w \in Workers, i \in 1 .. Depth}

\* Every task that was accepted is in one place: one queue, or one worker's hands.
\* Stealing and spilling lose none and copy none.
AcceptedOnce ==
    \A t \in 1 .. tasks :
        LET places == {x \in Queued : x[2] <= Len(local[x[1]]) /\ local[x[1]][x[2]].task = t}
            spilled == {i \in DOMAIN overflow : overflow[i].task = t}
        IN  Cardinality(places) + Cardinality(spilled) + handed[t]
                = IF t \in accepted THEN 1 ELSE 0

\* A caller that drains the pool as worker w has had every accepted task when
\* pop_for returns None, save one that is alone in the queue of another worker: a
\* thief leaves that one.  With one worker that is every accepted task, which
\* prefetch.rs:359-373 relies on: it queues again whatever was not popped.
DrainedIsHanded ==
    \A w \in drained, t \in accepted :
        \/ handed[t] = 1
        \/ \E v \in Workers \ {w} : Len(local[v]) = 1 /\ local[v][1].task = t
==============================================================================
