------------------------------ MODULE MCWorkers ------------------------------
(***************************************************************************)
(* What hands out work and brings it back: the kernel's SMP pool, the task  *)
(* pool with its stealing workers, the work-graph orchestrator and the      *)
(* recovery supervisor.  They do not call each other: a behaviour drives    *)
(* one of them, chosen at first, and leaves the others alone.               *)
(***************************************************************************)
EXTENDS MCKernelPool, Supervisor, WorkGraph

CONSTANTS Workers, DeepQueue, ShallowQueue, StealBatch, Offered, PoolTasks

VARIABLES part, local, overflow, metrics, offers, accepted, handed, drained

taskVars == <<local, overflow, metrics, offers, accepted, handed, drained>>
allVars == <<part, vars, taskVars, graphVars, supVars>>

\* Queues long enough to steal from, and queues so short that tasks overflow.
Pool == INSTANCE ThreadPool WITH Depth <- DeepQueue, MaxTasks <- PoolTasks, tasks <- offers
Spill == INSTANCE ThreadPool WITH Depth <- ShallowQueue, MaxTasks <- PoolTasks, tasks <- offers

WorkersInit ==
    /\ part \in {"kernel", "pool", "spill", "graph", "supervisor"}
    /\ Init /\ Pool!Init /\ GraphInit /\ SupInit

InKernel(A) == part = "kernel" /\ A /\ UNCHANGED <<part, taskVars, graphVars, supVars>>
InPool(A) == part = "pool" /\ A /\ UNCHANGED <<part, vars, graphVars, supVars>>
InSpill(A) == part = "spill" /\ A /\ UNCHANGED <<part, vars, graphVars, supVars>>
InGraph(A) == part = "graph" /\ A /\ UNCHANGED <<part, vars, taskVars, supVars>>
InSup(A) == part = "supervisor" /\ A /\ UNCHANGED <<part, vars, taskVars, graphVars>>

WorkersNext ==
    \/ InKernel(Next)
    \/ InPool(Pool!Next)
    \/ InSpill(Spill!Next)
    \/ InGraph(GraphNext)
    \/ InSup(SupNext)

\* Every core that is not hung keeps executing its instructions.
WorkersSpec ==
    /\ WorkersInit /\ [][WorkersNext]_allVars
    /\ WF_allVars(InKernel(BspStep))
    /\ \A c \in Cores : WF_allVars(InKernel(CoreStep(c)))
    /\ \A a \in APs : WF_allVars(InKernel(Poll(a)))
------------------------------------------------------------------------------
\* An accepted pool task is in one queue or was handed to one worker: stealing and
\* spilling lose none and copy none.
PoolTaskOnce == Pool!AcceptedOnce

\* When pop_for returns None the caller has had every accepted task, save one that is
\* alone in the queue of another worker.
DrainedIsHanded == Pool!DrainedIsHanded
==============================================================================
