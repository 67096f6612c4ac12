------------------------------ MODULE WorkGraph ------------------------------
(***************************************************************************)
(* The global orchestrator of dominion-core/src/multikernel.rs: tasks with  *)
(* dependencies are added one at a time, then schedule releases them in     *)
(* waves (Kahn's algorithm), routing each to a node kind that is available. *)
(* Tasks are numbered from 0; a dependency list may name a task twice, a    *)
(* task that does not exist yet, or the task itself.                        *)
(***************************************************************************)
EXTENDS Integers, Sequences, FiniteSets

CONSTANTS
    Kinds,      \* NodeKind
    Cpu,
    GraphTasks, \* bound on the number of tasks
    MaxDeps     \* bound on the length of a dependency list

ASSUME WorkGraphAssumption == GraphTasks \in Nat /\ MaxDeps \in Nat

VARIABLES
    tasks,      \* sequence of [prefers, deps]; task i is tasks[i + 1]
    available,  \* the kinds given to schedule
    indeg,      \* per task
    scheduled,  \* sequence of [task, node, step]
    step,
    status      \* "building", "running", "ok", "cycle" or "bad"

graphVars == <<tasks, available, indeg, scheduled, step, status>>

Ids == 0 .. Len(tasks) - 1

DepsOf(i) == tasks[i + 1].deps

Done == {scheduled[k].task : k \in 1 .. Len(scheduled)}

DepLists == UNION {[1 .. n -> 0 .. GraphTasks] : n \in 0 .. MaxDeps}

------------------------------------------------------------------------------
GraphInit ==
    /\ tasks = <<>>
    /\ available = {}
    /\ indeg = <<>>
    /\ scheduled = <<>>
    /\ step = 0
    /\ status = "building"

Add(kind, deps) ==
    /\ status = "building"
    /\ Len(tasks) < GraphTasks
    /\ tasks' = Append(tasks, [prefers |-> kind, deps |-> deps])
    /\ UNCHANGED <<available, indeg, scheduled, step, status>>

BadDependency == \E i \in Ids : \E k \in DOMAIN DepsOf(i) : DepsOf(i)[k] >= Len(tasks)

\* schedule, up to its loop: dependencies are validated, in-degrees counted with
\* multiplicity.
Start(kinds) ==
    /\ status = "building" /\ ~BadDependency
    /\ available' = kinds
    /\ indeg' = [i \in Ids |-> Len(DepsOf(i))]
    /\ status' = "running"
    /\ UNCHANGED <<tasks, scheduled, step>>

Reject ==
    /\ status = "building" /\ BadDependency
    /\ status' = "bad"
    /\ UNCHANGED <<tasks, available, indeg, scheduled, step>>

Node(i) == IF tasks[i + 1].prefers \in available THEN tasks[i + 1].prefers ELSE Cpu

\* Mutant: a task is ready when one dependency is left.
ReadyEarly == {i \in Ids \ Done : indeg[i] <= 1}

Ready == {i \in Ids \ Done : indeg[i] = 0}

\* A set of tasks as a list in ascending order.
Ascending(S) ==
    {list \in UNION {[1 .. m -> S] : m \in 0 .. Len(tasks)} :
        /\ \A j, k \in DOMAIN list : j < k => list[j] < list[k]
        /\ \A i \in S : \E k \in DOMAIN list : list[k] = i}

Scheduled(wave) == [k \in 1 .. Len(wave) |-> [task |-> wave[k], node |-> Node(wave[k]), step |-> step]]

\* Mutant: a dependency named twice is released once.
ReleaseOnce(j) == Cardinality({i \in Ready : \E k \in DOMAIN DepsOf(j) : DepsOf(j)[k] = i})

\* By how much a wave lowers a task's in-degree.
Release(j) == Cardinality({k \in DOMAIN DepsOf(j) : DepsOf(j)[k] \in Ready})

\* One turn of the loop: the ready tasks, in ascending order, are scheduled
\* together, and then released once per occurrence in a dependency list.
Wave ==
    /\ status = "running" /\ Ready # {}
    /\ \E wave \in Ascending(Ready) : scheduled' = scheduled \o Scheduled(wave)
    /\ indeg' = [j \in Ids |-> IF j \in Done \cup Ready THEN indeg[j] ELSE indeg[j] - Release(j)]
    /\ step' = step + 1
    /\ UNCHANGED <<tasks, available, status>>

\* The loop ends when nothing remains, or on an empty wave.
Finish ==
    /\ status = "running" /\ Ready = {}
    /\ status' = IF Done = Ids THEN "ok" ELSE "cycle"
    /\ UNCHANGED <<tasks, available, indeg, scheduled, step>>

Schedule == Wave \/ Finish

GraphNext ==
    \/ \E kind \in Kinds, deps \in DepLists : Add(kind, deps)
    \/ \E kinds \in SUBSET Kinds : Start(kinds)
    \/ Reject
    \/ Schedule

GraphSpec == GraphInit /\ [][GraphNext]_graphVars
------------------------------------------------------------------------------
DependsOn(j) == {DepsOf(j)[k] : k \in DOMAIN DepsOf(j)}

\* Some tasks wait for each other: a set none of which can go first.
Cyclic ==
    \E S \in SUBSET Ids : S # {} /\ \A j \in S : DependsOn(j) \cap S # {}

\* schedule's three answers: a bad id, a cycle if and only if the graph has one,
\* otherwise every task exactly once.
AnswerIsRight ==
    /\ status = "bad" <=> status # "building" /\ \E j \in Ids : \E d \in DependsOn(j) : d \notin Ids
    /\ status = "cycle" => Cyclic
    /\ status = "ok" => ~Cyclic /\ Done = Ids /\ Len(scheduled) = Len(tasks)

\* "A deterministic topological order that respects every dependency", in which
\* independent tasks run together: a task's wave comes after the waves of all it
\* depends on and is the first that does.
WaveIsDepth ==
    \A k \in DOMAIN scheduled :
        LET before == {h \in DOMAIN scheduled :
                          scheduled[h].task \in DependsOn(scheduled[k].task)}
        IN  /\ DependsOn(scheduled[k].task) = {scheduled[h].task : h \in before}
            /\ \A h \in before : scheduled[h].step < scheduled[k].step
            /\ scheduled[k].step > 0 => \E h \in before : scheduled[h].step = scheduled[k].step - 1
==============================================================================
