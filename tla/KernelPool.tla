----------------------------- MODULE KernelPool -----------------------------
(***************************************************************************)
(* The SMP task pool (kernel/src/threadpool.rs): KernelSpawn::run on the    *)
(* bootstrap processor (BSP) and ap_poll_once, called by every application  *)
(* processor (AP) from smp::worker_loop.                                    *)
(*                                                                          *)
(* A batch is published by seven stores to global atomics; the BSP and the  *)
(* APs then claim task indices with fetch_add, write results through the    *)
(* published pointer and count completions; the BSP returns when the count  *)
(* reaches n.  Each load, store and fetch_add is a step of its own.  A      *)
(* result buffer lives on the BSP's stack for one call of run; it and the   *)
(* task closure are named by the number of the batch.  The counters kept    *)
(* for pool_metrics are left out.                                           *)
(***************************************************************************)
EXTENDS Integers, Sequences, FiniteSets, FiniteSetsExt

CONSTANTS
    APs,        \* application processors
    BSP,        \* the bootstrap processor
    Sizes,      \* sequence: the n of each successive call of run
    MaxHangs    \* how many APs may stop for ever (firmware, hardware)

ASSUME KernelPoolAssumption ==
    /\ BSP \notin APs
    /\ Sizes \in Seq(Nat)
    /\ MaxHangs \in Nat

VARIABLES
    gen, n, next, done,      \* KPOOL_GEN, KPOOL_N, KPOOL_NEXT, KPOOL_DONE
    fnData, fnVtbl, resPtr,  \* the published closure (two words) and buffer
    batch,                   \* the call of run in progress, or the last one
    bpc,                     \* where run is
    results,                 \* the buffer of the call in progress, if any
    returned,                \* what each call of run returned
    wpc,                     \* where each core is in ap_poll_once / drain_tasks
    wn, widx, wfn,           \* drain_tasks locals: n, idx, and the closure's two
                             \* words with the buffer pointer loaded after them;
                             \* zero where they are dead
    genSeen,                 \* per AP: last generation processed
    corrupt,                 \* stray writes: out of the buffer, or to a freed one
    settled,                 \* history: nothing is in flight but the work of the last
                             \* call of run, or of calls of its size that were settled
    clear,                   \* history: was each call of run settled when it began
    gaveUp                   \* history: the watchdog has fired

history  == <<settled, clear, gaveUp>>
bspVars  == <<batch, bpc, results, returned, history>>
poolVars == <<gen, n, next, done, fnData, fnVtbl, resPtr>>
coreVars == <<wpc, wn, widx, wfn, genSeen>>
vars == <<poolVars, bspVars, coreVars, corrupt>>

Cores == APs \cup {BSP}
Indices(b) == 0 .. Sizes[b] - 1
None == <<>>        \* a slot not written; run returns an empty vector for it

\* Where a core of drain_tasks holds an index that it has not counted yet.
Holding == {"loadData", "loadVtbl", "loadPtr", "write", "count"}

\* No AP is in drain_tasks, or will enter it before KPOOL_GEN is bumped.
Quiescent == \A a \in APs : wpc[a] = "hung" \/ (wpc[a] = "poll" /\ genSeen[a] = gen)

Init ==
    /\ gen = 0 /\ n = 0 /\ next = 0 /\ done = 0
    /\ fnData = 0 /\ fnVtbl = 0 /\ resPtr = 0
    /\ batch = 0 /\ bpc = "idle" /\ results = <<>> /\ returned = <<>>
    /\ wpc = [c \in Cores |-> IF c = BSP THEN "out" ELSE "poll"]
    /\ wn = [c \in Cores |-> 0]
    /\ widx = [c \in Cores |-> 0]
    /\ wfn = [c \in Cores |-> <<0, 0, 0>>]
    /\ genSeen = [a \in APs |-> 0]
    /\ corrupt = {}
    /\ settled = TRUE /\ clear = <<>> /\ gaveUp = FALSE
-----------------------------------------------------------------------------
(* KernelSpawn::run on the BSP. *)

\* A call of run: an empty batch returns at once, a lone core runs its tasks one
\* after the other, any other call allocates its slots.
StartRun ==
    /\ bpc = "idle"
    /\ batch < Len(Sizes)
    /\ batch' = batch + 1
    /\ IF Sizes[batch'] = 0 \/ APs = {}
       THEN /\ returned' = Append(returned,
                                  [i \in Indices(batch') |-> <<batch', batch', i>>])
            /\ clear' = Append(clear, TRUE)
            /\ UNCHANGED <<bpc, results, settled>>
       ELSE /\ results' = [i \in Indices(batch') |-> None]
            /\ bpc' = "fnData"
            /\ settled' = (Quiescent \/ (settled /\ Sizes[batch'] = n))
            /\ clear' = Append(clear, settled')
            /\ UNCHANGED returned
    /\ UNCHANGED <<poolVars, gaveUp, coreVars, corrupt>>

\* The stores that publish a batch, in program order.
Publish(from, to) ==
    /\ bpc = from
    /\ bpc' = to
    /\ UNCHANGED <<batch, results, returned, history, coreVars, corrupt>>

StoreFnData ==
    /\ Publish("fnData", "fnVtbl")
    /\ fnData' = batch
    /\ UNCHANGED <<gen, n, next, done, fnVtbl, resPtr>>

StoreFnVtbl ==
    /\ Publish("fnVtbl", "results")
    /\ fnVtbl' = batch
    /\ UNCHANGED <<gen, n, next, done, fnData, resPtr>>

StoreResults ==
    /\ Publish("results", "n")
    /\ resPtr' = batch
    /\ UNCHANGED <<gen, n, next, done, fnData, fnVtbl>>

StoreN ==
    /\ Publish("n", "next")
    /\ n' = Sizes[batch]
    /\ UNCHANGED <<gen, next, done, fnData, fnVtbl, resPtr>>

ResetNext ==
    /\ Publish("next", "done")
    /\ next' = 0
    /\ UNCHANGED <<gen, n, done, fnData, fnVtbl, resPtr>>

ResetDone ==
    /\ Publish("done", "gen")
    /\ done' = 0
    /\ UNCHANGED <<gen, n, next, fnData, fnVtbl, resPtr>>

\* Signal the APs, and enter drain_tasks as worker 0.
BumpGen ==
    /\ bpc = "gen"
    /\ bpc' = "drain"
    /\ gen' = gen + 1
    /\ wpc' = [wpc EXCEPT ![BSP] = "loadN"]
    /\ UNCHANGED <<n, next, done, fnData, fnVtbl, resPtr, batch, results,
                   returned, history, wn, widx, wfn, genSeen, corrupt>>

BspDrained ==
    /\ bpc = "drain"
    /\ wpc[BSP] = "out"
    /\ bpc' = "wait"
    /\ UNCHANGED <<poolVars, batch, results, returned, history, coreVars, corrupt>>

\* Mutant: the wait loop is one completion short.
RunReturnsEarly ==
    /\ bpc = "wait"
    /\ done + 1 >= Sizes[batch]
    /\ returned' = Append(returned, results)
    /\ results' = <<>>
    /\ bpc' = "idle"
    /\ UNCHANGED <<poolVars, batch, history, coreVars, corrupt>>

\* The wait loop sees KPOOL_DONE reach n; run returns what is in the slots.
RunReturns ==
    /\ bpc = "wait"
    /\ done >= Sizes[batch]
    /\ returned' = Append(returned, results)
    /\ results' = <<>>
    /\ bpc' = "idle"
    /\ UNCHANGED <<poolVars, batch, history, coreVars, corrupt>>

\* Mutant: the watchdog drains again, which reaches no claimed index.
WatchdogRedrains ==
    /\ bpc = "wait"
    /\ done < Sizes[batch]
    /\ UNCHANGED vars

\* The watchdog: after 100 M spins the BSP gives up waiting.  Nothing tells it
\* whether the APs still at work are hung or slow.
Watchdog ==
    /\ bpc = "wait"
    /\ done < Sizes[batch]
    /\ bpc' = "scan"
    /\ gaveUp' = TRUE
    /\ UNCHANGED <<poolVars, batch, results, returned, settled, clear, coreVars, corrupt>>

\* The BSP executes the next slot that it finds empty,
Reexecute ==
    /\ bpc = "scan"
    /\ \E i \in Indices(batch) :
          /\ results[i] = None
          /\ \A j \in Indices(batch) : j < i => results[j] # None
          /\ results' = [results EXCEPT ![i] = <<fnData, fnVtbl, i>>]
    /\ UNCHANGED <<poolVars, batch, bpc, returned, history, coreVars, corrupt>>

\* and at the end of the buffer run returns, whatever KPOOL_DONE is; an AP that is
\* not hung may still hold an index of the batch.
WatchdogReturns ==
    /\ bpc = "scan"
    /\ \A i \in Indices(batch) : results[i] # None
    /\ returned' = Append(returned, results)
    /\ results' = <<>>
    /\ bpc' = "idle"
    /\ settled' = (settled /\ \A a \in APs : wpc[a] \notin Holding)
    /\ UNCHANGED <<poolVars, batch, clear, gaveUp, coreVars, corrupt>>
-----------------------------------------------------------------------------
(* ap_poll_once and drain_tasks. *)

\* An AP sees a new generation and enters drain_tasks.
Poll(a) ==
    /\ wpc[a] = "poll"
    /\ genSeen[a] # gen
    /\ genSeen' = [genSeen EXCEPT ![a] = gen]
    /\ wpc' = [wpc EXCEPT ![a] = "loadN"]
    /\ UNCHANGED <<poolVars, bspVars, wn, widx, wfn, corrupt>>

LoadN(c) ==
    /\ wpc[c] = "loadN"
    /\ wn' = [wn EXCEPT ![c] = n]
    /\ wpc' = [wpc EXCEPT ![c] = "claim"]
    /\ UNCHANGED <<poolVars, bspVars, widx, wfn, genSeen, corrupt>>

\* Mutant: the bound check admits index n.
ClaimOffByOne(c) ==
    /\ wpc[c] = "claim"
    /\ next' = next + 1
    /\ IF next > wn[c]
       THEN /\ wpc' = [wpc EXCEPT ![c] = IF c = BSP THEN "out" ELSE "poll"]
            /\ wn' = [wn EXCEPT ![c] = 0]
            /\ UNCHANGED widx
       ELSE /\ wpc' = [wpc EXCEPT ![c] = "loadData"]
            /\ widx' = [widx EXCEPT ![c] = next]
            /\ UNCHANGED wn
    /\ UNCHANGED <<gen, n, done, fnData, fnVtbl, resPtr, bspVars, wfn, genSeen, corrupt>>

\* KPOOL_NEXT.fetch_add(1), against the n loaded on entry.
Claim(c) ==
    /\ wpc[c] = "claim"
    /\ next' = next + 1
    /\ IF next >= wn[c]
       THEN /\ wpc' = [wpc EXCEPT ![c] = IF c = BSP THEN "out" ELSE "poll"]
            /\ wn' = [wn EXCEPT ![c] = 0]
            /\ UNCHANGED widx
       ELSE /\ wpc' = [wpc EXCEPT ![c] = "loadData"]
            /\ widx' = [widx EXCEPT ![c] = next]
            /\ UNCHANGED wn
    /\ UNCHANGED <<gen, n, done, fnData, fnVtbl, resPtr, bspVars, wfn, genSeen, corrupt>>

\* call_kpool_task: the two words of the closure are loaded one after the other.
LoadFnData(c) ==
    /\ wpc[c] = "loadData"
    /\ wfn' = [wfn EXCEPT ![c][1] = fnData]
    /\ wpc' = [wpc EXCEPT ![c] = "loadVtbl"]
    /\ UNCHANGED <<poolVars, bspVars, wn, widx, genSeen, corrupt>>

LoadFnVtbl(c) ==
    /\ wpc[c] = "loadVtbl"
    /\ wfn' = [wfn EXCEPT ![c][2] = fnVtbl]
    /\ wpc' = [wpc EXCEPT ![c] = "loadPtr"]
    /\ UNCHANGED <<poolVars, bspVars, wn, widx, genSeen, corrupt>>

\* The task has run; the buffer is the one published last.
LoadResults(c) ==
    /\ wpc[c] = "loadPtr"
    /\ wfn' = [wfn EXCEPT ![c][3] = resPtr]
    /\ wpc' = [wpc EXCEPT ![c] = "write"]
    /\ UNCHANGED <<poolVars, bspVars, wn, widx, genSeen, corrupt>>

BufferAlive(b) == b = batch /\ bpc # "idle"

WriteResult(c) ==
    /\ wpc[c] = "write"
    /\ IF ~BufferAlive(wfn[c][3])
       THEN corrupt' = corrupt \cup {"freed"} /\ UNCHANGED results
       ELSE IF widx[c] \notin Indices(batch)
       THEN corrupt' = corrupt \cup {"out of bounds"} /\ UNCHANGED results
       ELSE /\ results' = [results EXCEPT ![widx[c]] = <<wfn[c][1], wfn[c][2], widx[c]>>]
            /\ UNCHANGED corrupt
    /\ wpc' = [wpc EXCEPT ![c] = "count"]
    /\ UNCHANGED <<poolVars, batch, bpc, returned, history, wn, widx, wfn, genSeen>>

CountDone(c) ==
    /\ wpc[c] = "count"
    /\ done' = done + 1
    /\ wpc' = [wpc EXCEPT ![c] = "claim"]
    /\ widx' = [widx EXCEPT ![c] = 0]
    /\ wfn' = [wfn EXCEPT ![c] = <<0, 0, 0>>]
    /\ UNCHANGED <<gen, n, next, fnData, fnVtbl, resPtr, bspVars, wn, genSeen, corrupt>>

\* An AP stops for ever, wherever it is.
Hang(a) ==
    /\ wpc[a] # "hung"
    /\ Cardinality({x \in APs : wpc[x] = "hung"}) < MaxHangs
    /\ wpc' = [wpc EXCEPT ![a] = "hung"]
    /\ wn' = [wn EXCEPT ![a] = 0]
    /\ widx' = [widx EXCEPT ![a] = 0]
    /\ wfn' = [wfn EXCEPT ![a] = <<0, 0, 0>>]
    /\ UNCHANGED <<poolVars, bspVars, genSeen, corrupt>>

Finished ==
    /\ bpc = "idle" /\ batch = Len(Sizes)
    /\ Quiescent
    /\ UNCHANGED vars

BspStep ==
    \/ StartRun
    \/ StoreFnData
    \/ StoreFnVtbl
    \/ StoreResults
    \/ StoreN
    \/ ResetNext
    \/ ResetDone
    \/ BumpGen
    \/ BspDrained
    \/ RunReturns
    \/ Watchdog
    \/ Reexecute
    \/ WatchdogReturns

CoreStep(c) ==
    \/ LoadN(c)
    \/ Claim(c)
    \/ LoadFnData(c)
    \/ LoadFnVtbl(c)
    \/ LoadResults(c)
    \/ WriteResult(c)
    \/ CountDone(c)

Next ==
    \/ BspStep
    \/ \E c \in Cores : CoreStep(c)
    \/ \E a \in APs : Poll(a)
    \/ \E a \in APs : Hang(a)
    \/ Finished

\* Every core that is not hung keeps executing its instructions.
Fairness ==
    /\ WF_vars(BspStep)
    /\ \A c \in Cores : WF_vars(CoreStep(c))
    /\ \A a \in APs : WF_vars(Poll(a))

Spec == Init /\ [][Next]_vars /\ Fairness
-----------------------------------------------------------------------------
\* run returns task(i) in slot i for every i: each slot was written, by the
\* closure of this call, with the result of its own index.
RightAnswer(b) == returned[b] = [i \in Indices(b) |-> <<b, b, i>>]

\* As long as every AP finishes within the watchdog's time, every call returns that.
ReturnsEveryResult == ~gaveUp => \A b \in 1 .. Len(returned) : RightAnswer(b)

\* So does a call of run that begins when no AP is in drain_tasks, or right
\* after such a call with the same n: then an AP may still be leaving drain_tasks,
\* but none may hold an index.  The watchdog may give up on any AP during the call,
\* a hung one or a slow one that writes its result all the same.
SettledCallIsRight ==
    \A b \in 1 .. Len(returned) : clear[b] => RightAnswer(b)

\* While that is so no core writes outside the results buffer, or to the buffer of
\* a call that has returned.
SettledWritesInside == [][settled => corrupt' = corrupt]_vars

\* Every call of run returns, though APs may hang in the middle of a task.
RunTerminates == Len(returned) < batch ~> Len(returned) = batch
=============================================================================
