------------------------------ MODULE Processes ------------------------------
(***************************************************************************)
(* The process table of the desktop (dominion-core/src/os.rs): every open   *)
(* window is backed by a scheduler domain and a memory domain.  The table is*)
(* reconciled with the windows on every beat (set_metrics) and by the Task  *)
(* Manager's End task; between two beats windows open and close, and the    *)
(* Terminal's kill ends domains behind the desktop's back.  The scheduler's *)
(* operations are those of Sched, each call of the desktop being atomic.    *)
(***************************************************************************)
EXTENDS Sched

CONSTANTS
    Apps,
    Residents    \* domains seeded at boot

VARIABLES
    windows,      \* apps with a window
    appDomains,   \* app -> domain id, 0 for none
    memory,       \* apps registered as memory and deduplication domains
    selected,     \* the row selected in the Task Manager, or 0
    synced        \* history: no window or domain came or went since sync_processes

desktop == <<windows, appDomains, memory, selected, synced>>
allVars == <<sched, channels, inbox, hand, passed, desktop>>

Listed(app) == appDomains[app] # 0

\* n times next and yield_back
Rotated(s, n) ==
    LET rot[k \in 0 .. n] == IF k = 0 THEN s
                             ELSE LET t == rot[k - 1]
                                  IN  IF t.queue = <<>> THEN t
                                      ELSE Yielded(Dispatched(t), Head(t.queue))
    IN  rot[n]

Seeded(n) ==
    LET seeded[k \in 0 .. n] == IF k = 0 THEN NoDomains ELSE Spawned(seeded[k - 1]) IN seeded[n]

\* The windows sync_processes finds new or gone; the order only decides who gets
\* which id.
Opened(open) == SetToSeq({app \in open : ~ Listed(app)})

Gone(open) == SetToSeq({app \in Apps \ open : Listed(app)})

\* Mutant: the table forgets a closed window without killing its domain.
ReconciledNoKill(s, open) == FoldLeft(LAMBDA t, app : Spawned(t), s, Opened(open))

\* What sync_processes makes of the scheduler ...
Reconciled(s, open) ==
    LET spawned == FoldLeft(LAMBDA t, app : Spawned(t), s, Opened(open))
    IN  FoldLeft(LAMBDA t, app : Killed(t, appDomains[app]), spawned, Gone(open))

\* ... and of the desktop's tables.
SyncTable(open) ==
    /\ Len(sched.state) + Len(Opened(open)) <= MaxDomains
    /\ appDomains' = [app \in Apps |->
           IF app \notin open THEN 0
           ELSE IF Listed(app) THEN appDomains[app]
           ELSE Len(sched.state) + CHOOSE i \in DOMAIN Opened(open) : Opened(open)[i] = app]
    /\ memory' = (memory \cup ToSet(Opened(open))) \ ToSet(Gone(open))
------------------------------------------------------------------------------
\* seed_scheduler: the residents, dispatched 14 times in turn
Init ==
    /\ sched = Rotated(Seeded(Residents), 14)
    /\ channels = {} /\ inbox = <<>> /\ hand = 0 /\ passed = <<>>
    /\ windows = {} /\ appDomains = [app \in Apps |-> 0] /\ memory = {}
    /\ selected = 0 /\ synced = TRUE

Ipc == UNCHANGED <<channels, inbox, hand, passed>>

OpenWindow(app) ==
    /\ app \notin windows
    /\ windows' = windows \cup {app} /\ synced' = FALSE
    /\ UNCHANGED <<sched, appDomains, memory, selected>> /\ Ipc

CloseWindow(app) ==
    /\ app \in windows
    /\ windows' = windows \ {app} /\ synced' = FALSE
    /\ UNCHANGED <<sched, appDomains, memory, selected>> /\ Ipc

\* set_metrics: reconcile, then three dispatches.
Beat ==
    /\ SyncTable(windows)
    /\ sched' = Rotated(Reconciled(sched, windows), 3)
    /\ synced' = TRUE
    /\ UNCHANGED <<windows, selected>> /\ Ipc

\* Every domain is listed, finished ones too.
Select(id) ==
    /\ selected' = id
    /\ UNCHANGED <<sched, windows, appDomains, memory, synced>> /\ Ipc

EndTask ==
    /\ selected # 0
    /\ windows' = {app \in windows : appDomains[app] # selected}
    /\ SyncTable(windows')
    /\ sched' = Reconciled(Killed(sched, selected), windows')
    /\ selected' = 0 /\ synced' = TRUE /\ Ipc

\* The Terminal's kill.
TerminalKill(id) ==
    /\ sched' = Killed(sched, id)
    /\ synced' = FALSE
    /\ UNCHANGED <<windows, appDomains, memory, selected>> /\ Ipc

Next ==
    \/ Beat \/ EndTask
    \/ \E app \in Apps : OpenWindow(app) \/ CloseWindow(app)
    \/ \E id \in Known(sched) : Select(id) \/ TerminalKill(id)

Spec == Init /\ [][Next]_allVars
------------------------------------------------------------------------------
\* No orphan: a live domain that is not resident belongs to one app of the table,
\* also when the Task Manager ends a task from a stale selection.
LiveDomainHasApp ==
    \A d \in Known(sched) :
        d > Residents /\ sched.state[d] # "Finished" =>
            Cardinality({app \in Apps : appDomains[app] = d}) = 1
==============================================================================
