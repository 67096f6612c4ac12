--------------------------- MODULE KernelPoolProofs ---------------------------
(***************************************************************************)
(* KernelSpawn::run, for any number of processors, of calls, of tasks in a  *)
(* call and of hung or slow APs: a call that begins settled returns every   *)
(* result, and no core writes astray as long as the pool is settled.        *)
(*                                                                          *)
(* The argument: until KPOOL_NEXT is reset either no AP is in drain_tasks,  *)
(* or it is at least n and n does not change, so a late AP claims nothing   *)
(* (Exhausted); from then on everything a core loads belongs to the current *)
(* batch (Current) and every index has one holder (Disjoint).  KPOOL_DONE   *)
(* may miss a completion that came before its reset, which only makes the   *)
(* BSP wait for the watchdog, but never counts too many (Counted).  The     *)
(* watchdog may execute a task a second time; both write the same result.   *)
(***************************************************************************)
EXTENDS KernelPool, TLAPS, FiniteSetTheorems

USE SMTT(30), ZenonT(30)

\* What run has to return.
Right(b) == [i \in Indices(b) |-> <<b, b, i>>]

Cells == {None} \cup (Nat \X Nat \X Nat)
Buffers == UNION {[Indices(b) -> Cells] : b \in 1 .. Len(Sizes)}

\* Where a core is.
Unwritten == {"loadData", "loadVtbl", "loadPtr", "write"}
Draining == Holding \cup {"loadN", "claim"}
Places == Draining \cup {"out", "poll", "hung"}

\* Where run is before KPOOL_NEXT is reset, and after.
Before == {"idle", "fnData", "fnVtbl", "results", "n", "next"}
After == {"done", "gen", "drain", "wait", "scan"}

KTypes ==
    /\ gen \in Nat /\ n \in Nat /\ next \in Nat /\ done \in Nat
    /\ batch \in 0 .. Len(Sizes) /\ bpc \in Before \cup After
    /\ returned \in Seq(Buffers) /\ clear \in Seq(BOOLEAN) /\ settled \in BOOLEAN
    /\ bpc # "idle" => batch > 0 /\ results \in [Indices(batch) -> Cells]
    /\ wpc \in [Cores -> Places]
    /\ wn \in [Cores -> Nat] /\ widx \in [Cores -> Nat]
    /\ wfn \in [Cores -> [1 .. 3 -> Nat]]
    /\ genSeen \in [APs -> Nat]
    /\ fnData \in Nat /\ fnVtbl \in Nat /\ resPtr \in Nat

\* Every call that began settled and has returned returned the right answer.
ClearRight ==
    /\ Len(returned) = IF bpc = "idle" THEN batch ELSE batch - 1
    /\ Len(clear) = batch
    /\ \A b \in 1 .. Len(returned) : clear[b] => returned[b] = Right(b)
    /\ bpc # "idle" /\ clear[batch] => settled

\* The BSP drains in one place, and does not hang.
BspPlace ==
    /\ bpc # "drain" => wpc[BSP] = "out"
    /\ wpc[BSP] \in Draining \cup {"out"}

\* What is published, as far as run has come.
Published ==
    /\ bpc \in {"fnVtbl", "results", "n", "next"} \cup After => fnData = batch
    /\ bpc \in {"results", "n", "next"} \cup After => fnVtbl = batch
    /\ bpc \in {"n", "next"} \cup After => resPtr = batch
    /\ bpc \in {"next"} \cup After => n = Sizes[batch]

\* What holds whether or not the pool is settled.
Shell == KTypes /\ ClearRight /\ BspPlace /\ Published

\* The buffer of the call in progress holds right results only.
Buffer ==
    bpc # "idle" =>
        \A i \in Indices(batch) : results[i] = None \/
            (bpc \in After /\ i < next /\ results[i] = <<batch, batch, i>>)

\* A core that drains works with the n of the batch.
Sized == \A c \in Cores : wpc[c] \in Draining \ {"loadN"} => wn[c] = n

\* No index is left or held until the reset.
Spent == next >= n /\ (bpc # "idle" => n = Sizes[batch])

Exhausted ==
    /\ bpc \in Before => (Quiescent \/ Spent) /\ \A c \in Cores : wpc[c] \notin Holding
    /\ bpc \in {"wait", "scan"} \/ (bpc = "drain" /\ wpc[BSP] = "out") => next >= n

\* What a core holds belongs to the batch.
Mine(c) ==
    /\ widx[c] \in Indices(batch) /\ widx[c] < next
    /\ wpc[c] # "loadData" => wfn[c][1] = batch
    /\ wpc[c] \notin {"loadData", "loadVtbl"} => wfn[c][2] = batch
    /\ wpc[c] \in {"write", "count"} => wfn[c][3] = batch
    /\ bpc # "scan" => (wpc[c] \in Unwritten <=> results[widx[c]] = None)

Current == \A c \in Cores : wpc[c] \in Holding => Mine(c)

Disjoint ==
    \A c, d \in Cores : wpc[c] \in Holding /\ wpc[d] \in Holding /\ widx[c] = widx[d] => c = d

\* The indices whose results are written and whose holders have counted them, or
\* hang.
Tallied ==
    {i \in Indices(batch) :
        results[i] # None /\ \A c \in Cores : wpc[c] = "count" => widx[c] # i}

Counted == bpc \in {"gen", "drain", "wait"} => done <= Cardinality(Tallied)

Calm == Buffer /\ Sized /\ Exhausted /\ Current /\ Disjoint /\ Counted

KInv == Shell /\ (settled => Calm)
------------------------------------------------------------------------------
\* A written slot differs from an empty one.
LEMMA Written == \A b, i : <<b, b, i>> # None
  BY Zenon DEF None

LEMMA CoresHave == BSP \in Cores /\ APs \subseteq Cores /\ BSP \notin APs
  BY KernelPoolAssumption, Zenon DEF Cores

LEMMA Unchanging == \A b : Right(b)' = Right(b) /\ Indices(b)' = Indices(b)
  BY Zenon DEF Right, Indices

LEMMA SizesNat == Len(Sizes) \in Nat /\ \A b \in 1 .. Len(Sizes) : Sizes[b] \in Nat
  BY KernelPoolAssumption

LEMMA KInit == Init => KInv
  <1>. SUFFICES ASSUME Init PROVE KInv
    BY Zenon
  <1>1. wpc = [c \in Cores |-> IF c = BSP THEN "out" ELSE "poll"]
    BY Zenon DEF Init
  <1>2. \A c \in Cores : wpc[c] \in {"out", "poll"}
    BY <1>1, Zenon
  <1>3. wpc[BSP] = "out" /\ \A a \in APs : wpc[a] = "poll"
    BY <1>1, CoresHave, Zenon
  <1>4. KTypes
    <2>1. wpc \in [Cores -> Places]
      BY <1>1, Zenon DEF Places
    <2>2. <<0, 0, 0>> \in [1 .. 3 -> Nat]
      OBVIOUS
    <2>3. wfn \in [Cores -> [1 .. 3 -> Nat]]
      BY <2>2, Zenon DEF Init
    <2>4. returned \in Seq(Buffers) /\ clear \in Seq(BOOLEAN)
      BY DEF Init
    <2>. QED BY <2>1, <2>3, <2>4, SizesNat DEF KTypes, Init, Before
  <1>5. ClearRight
    BY DEF ClearRight, Init
  <1>6. Published /\ Buffer /\ Counted
    BY Zenon DEF Published, Buffer, Counted, Init, After
  <1>7. BspPlace
    BY <1>3, Zenon DEF BspPlace
  <1>8. Sized /\ Current /\ Disjoint
    BY <1>2, Zenon DEF Sized, Current, Disjoint, Draining, Holding
  <1>9. Exhausted
    <2>1. Quiescent
      BY <1>3, Zenon DEF Quiescent, Init
    <2>. QED BY <1>2, <2>1, Zenon DEF Exhausted, Init, Holding
  <1>. QED BY <1>4, <1>5, <1>6, <1>7, <1>8, <1>9, Zenon DEF KInv, Shell, Calm
------------------------------------------------------------------------------
(* KernelSpawn::run *)

LEMMA Appended ==
    ASSUME NEW S, NEW s \in Seq(S), NEW x \in S
    PROVE  /\ Append(s, x) \in Seq(S) /\ Len(Append(s, x)) = Len(s) + 1
           /\ Append(s, x)[Len(s) + 1] = x
           /\ \A b \in 1 .. Len(s) : Append(s, x)[b] = s[b]
  OBVIOUS

\* A buffer that is handed back.
LEMMA Handed ==
    ASSUME KTypes, Len(returned) = batch - 1, batch > 0, NEW r \in [Indices(batch) -> Cells]
    PROVE  /\ Append(returned, r) \in Seq(Buffers) /\ Len(Append(returned, r)) = batch
           /\ Append(returned, r)[batch] = r
           /\ \A b \in 1 .. batch - 1 : Append(returned, r)[b] = returned[b]
  <1>1. batch \in 1 .. Len(Sizes) /\ batch \in Nat
    BY SizesNat DEF KTypes
  <1>2. r \in Buffers
    BY <1>1, Zenon DEF Buffers
  <1>3. returned \in Seq(Buffers)
    BY Zenon DEF KTypes
  <1>. QED BY <1>1, <1>2, <1>3

LEMMA RightIsBuffer == \A b \in Nat : Right(b) \in [Indices(b) -> Cells]
  <1>. SUFFICES ASSUME NEW b \in Nat PROVE \A i \in Indices(b) : <<b, b, i>> \in Cells
    BY Zenon DEF Right
  <1>1. \A i \in Indices(b) : i \in Nat
    BY DEF Indices
  <1>. QED BY <1>1 DEF Cells

\* A call that returns at once.
LEMMA StartEmpty ==
    ASSUME KInv, StartRun, Sizes[batch'] = 0 \/ APs = {}
    PROVE  KInv'
  <1>1. /\ bpc = "idle" /\ batch' = batch + 1 /\ batch < Len(Sizes)
        /\ returned' = Append(returned, Right(batch')) /\ clear' = Append(clear, TRUE)
        /\ UNCHANGED <<gen, n, next, done, fnData, fnVtbl, resPtr, bpc, results, settled, wpc, wn,
                       widx, wfn, genSeen>>
    BY Zenon DEF StartRun, Right, poolVars, coreVars
  <1>2. /\ batch \in Nat /\ batch' \in 1 .. Len(Sizes) /\ returned \in Seq(Buffers)
        /\ clear \in Seq(BOOLEAN) /\ Len(returned) = batch /\ Len(clear) = batch
    BY <1>1, SizesNat DEF KInv, Shell, KTypes, ClearRight
  <1>3. Right(batch') \in Buffers
    <2>1. Right(batch') \in [Indices(batch') -> Cells]
      BY <1>2, RightIsBuffer
    <2>. QED BY <1>2, <2>1, Zenon DEF Buffers
  <1>4. /\ returned' \in Seq(Buffers) /\ Len(returned') = batch'
        /\ returned'[batch'] = Right(batch')
        /\ \A b \in 1 .. batch : returned'[b] = returned[b]
    BY <1>1, <1>2, <1>3, Appended
  <1>5. /\ clear' \in Seq(BOOLEAN) /\ Len(clear') = batch'
        /\ \A b \in 1 .. batch : clear'[b] = clear[b]
    <2>1. /\ Append(clear, TRUE) \in Seq(BOOLEAN) /\ Len(Append(clear, TRUE)) = Len(clear) + 1
          /\ \A b \in 1 .. Len(clear) : Append(clear, TRUE)[b] = clear[b]
      <3>1. TRUE \in BOOLEAN
        OBVIOUS
      <3>2. \A x \in BOOLEAN :
              /\ Append(clear, x) \in Seq(BOOLEAN) /\ Len(Append(clear, x)) = Len(clear) + 1
              /\ \A b \in 1 .. Len(clear) : Append(clear, x)[b] = clear[b]
        BY <1>2, Appended
      <3>. QED BY <3>1, <3>2, Zenon
    <2>. QED BY <1>1, <1>2, <2>1, Zenon
  <1>6. KTypes'
    BY <1>1, <1>2, <1>4, <1>5 DEF KInv, Shell, KTypes
  <1>7. ClearRight'
    <2>1. \A b \in 1 .. batch' : b \in 1 .. batch \/ b = batch'
      BY <1>1, <1>2
    <2>2. \A b \in 1 .. batch : clear'[b] => returned'[b] = Right(b)
      BY <1>2, <1>4, <1>5, Zenon DEF KInv, Shell, ClearRight
    <2>3. \A b \in 1 .. Len(returned') : clear'[b] => returned'[b] = Right(b)
      BY <1>4, <2>1, <2>2, Zenon
    <2>. QED BY <1>1, <1>4, <1>5, <2>3, Unchanging, Zenon DEF ClearRight
  <1>8. BspPlace' /\ Published'
    BY <1>1, Zenon DEF KInv, Shell, BspPlace, Published, After
  <1>9. ASSUME settled PROVE Calm'
    <2>. USE <1>1, <1>9
    <2>1. Buffer' /\ Sized' /\ Disjoint' /\ Counted'
      BY Zenon DEF KInv, Calm, Buffer, Sized, Disjoint, Counted
    <2>2. \A c \in Cores : wpc[c] \notin Holding
      BY Zenon DEF KInv, Calm, Exhausted, Before
    <2>3. Current'
      BY <2>2, Zenon DEF Current
    <2>4. Exhausted'
      BY Zenon DEF KInv, Calm, Exhausted, Spent, Quiescent
    <2>. QED BY <2>1, <2>3, <2>4, Zenon DEF Calm
  <1>. QED BY <1>1, <1>6, <1>7, <1>8, <1>9, Zenon DEF KInv, Shell

\* A call that allocates its slots: settled if no AP is at work, or if the last
\* call had the same n and left no index behind.
LEMMA StartCall ==
    ASSUME KInv, StartRun, ~(Sizes[batch'] = 0 \/ APs = {})
    PROVE  KInv'
  <1>1. /\ bpc = "idle" /\ batch' = batch + 1 /\ batch < Len(Sizes) /\ bpc' = "fnData"
        /\ results' = [i \in Indices(batch') |-> None] /\ returned' = returned
        /\ settled' = (Quiescent \/ (settled /\ Sizes[batch'] = n))
        /\ clear' = Append(clear, settled')
        /\ UNCHANGED <<gen, n, next, done, fnData, fnVtbl, resPtr, wpc, wn, widx, wfn, genSeen>>
    BY Zenon DEF StartRun, poolVars, coreVars
  <1>2. /\ batch \in Nat /\ batch' \in 1 .. Len(Sizes) /\ returned \in Seq(Buffers)
        /\ clear \in Seq(BOOLEAN) /\ Len(returned) = batch /\ Len(clear) = batch
    BY <1>1, SizesNat DEF KInv, Shell, KTypes, ClearRight
  <1>3. settled' \in BOOLEAN
    BY <1>1, Zenon
  <1>4. /\ clear' \in Seq(BOOLEAN) /\ Len(clear') = batch' /\ clear'[batch'] = settled'
        /\ \A b \in 1 .. batch : clear'[b] = clear[b]
    BY <1>1, <1>2, <1>3
  <1>5. KTypes'
    <2>1. (results \in [Indices(batch) -> Cells])'
      BY <1>1, Zenon DEF Cells, Indices, None
    <2>. QED BY <1>1, <1>2, <1>3, <1>4, <2>1 DEF KInv, Shell, KTypes, Before
  <1>6. ClearRight'
    <2>1. Len(returned') = batch' - 1
      BY <1>1, <1>2
    <2>2. \A b \in 1 .. Len(returned') : clear'[b] => returned'[b] = Right(b)
      BY <1>1, <1>2, <1>4, Zenon DEF KInv, Shell, ClearRight
    <2>. QED BY <1>1, <1>4, <2>1, <2>2, Unchanging, Zenon DEF ClearRight
  <1>7. BspPlace' /\ Published'
    BY <1>1, Zenon DEF KInv, Shell, BspPlace, Published, After
  <1>8. ASSUME settled' PROVE Calm'
    <2>0. wpc[BSP] = "out"
      BY <1>1, Zenon DEF KInv, Shell, BspPlace
    <2>1. \A c \in Cores : wpc[c] \notin Holding
      <3>1. CASE Quiescent
        BY <2>0, <3>1, Zenon DEF Quiescent, Cores, Holding
      <3>2. CASE settled
        BY <1>1, <3>2, Zenon DEF KInv, Calm, Exhausted, Before
      <3>. QED BY <1>1, <1>8, <3>1, <3>2, Zenon
    <2>2. Current' /\ Disjoint'
      BY <1>1, <2>1, Zenon DEF Current, Disjoint
    <2>3. Buffer'
      BY <1>1, <1>5, Zenon DEF Buffer, KTypes, None, Indices
    <2>4. Sized'
      <3>1. CASE Quiescent
        BY <1>1, <2>0, <3>1, Zenon DEF Quiescent, Cores, Sized, Draining, Holding
      <3>2. CASE settled
        BY <1>1, <3>2, Zenon DEF KInv, Calm, Sized
      <3>. QED BY <1>1, <1>8, <3>1, <3>2, Zenon
    <2>5. Exhausted'
      <3>1. CASE Quiescent
        BY <1>1, <2>1, <3>1, Zenon DEF Exhausted, Quiescent
      <3>2. CASE ~Quiescent
        <4>1. settled /\ Sizes[batch'] = n
          BY <1>1, <1>8, <3>2, Zenon
        <4>2. next >= n
          BY <1>1, <3>2, <4>1, Zenon DEF KInv, Calm, Exhausted, Spent, Before
        <4>. QED BY <1>1, <2>1, <4>1, <4>2, Zenon DEF Exhausted, Spent
      <3>. QED BY <3>1, <3>2, Zenon
    <2>6. Counted'
      BY <1>1, Zenon DEF Counted
    <2>. QED BY <2>2, <2>3, <2>4, <2>5, <2>6, Zenon DEF Calm
  <1>. QED BY <1>5, <1>6, <1>7, <1>8, Zenon DEF KInv, Shell

\* A step of run that leaves the returned calls, the cores and settled alone.
LEMMA RunFrame ==
    ASSUME Shell, bpc # "idle", bpc' # "idle", bpc # "drain" \/ wpc[BSP] = "out", bpc' # "drain",
           UNCHANGED <<batch, returned, clear, settled, wpc>>
    PROVE  ClearRight' /\ BspPlace'
  <1>1. ClearRight'
    BY Unchanging, Zenon DEF Shell, ClearRight
  <1>2. BspPlace'
    BY Zenon DEF Shell, BspPlace
  <1>. QED BY <1>1, <1>2, Zenon

\* The stores that publish a batch: no core holds an index, and until ResetNext
\* either none is at work or KPOOL_NEXT is beyond the last one.
LEMMA PublishKeeps ==
    ASSUME KInv, StoreFnData \/ StoreFnVtbl \/ StoreResults \/ StoreN \/ ResetNext
    PROVE  KInv'
  <1>1. /\ bpc \in Before \ {"idle"} /\ bpc' # "idle" /\ bpc' # "drain"
        /\ bpc' \in (Before \cup {"done"}) \ {"idle"}
        /\ UNCHANGED <<gen, done, batch, results, returned, settled, clear, wpc, wn, widx, wfn,
                       genSeen>>
    BY Zenon DEF StoreFnData, StoreFnVtbl, StoreResults, StoreN, ResetNext, Publish, Before, coreVars,
                 history
  <1>2. batch \in 1 .. Len(Sizes) /\ batch \in Nat /\ Sizes[batch] \in Nat
    BY <1>1, SizesNat DEF KInv, Shell, KTypes
  <1>3. KTypes'
    <2>1. /\ fnData' \in Nat /\ fnVtbl' \in Nat /\ resPtr' \in Nat /\ n' \in Nat /\ next' \in Nat
          /\ bpc' \in Before \cup After
      BY <1>1, <1>2 DEF KInv, Shell, KTypes, StoreFnData, StoreFnVtbl, StoreResults, StoreN, ResetNext,
                        After
    <2>. QED BY <1>1, <2>1, Unchanging, Zenon DEF KInv, Shell, KTypes, Cells, None
  <1>4. ClearRight' /\ BspPlace'
    BY <1>1, RunFrame, Zenon DEF KInv, Before
  <1>5. Published'
    BY <1>1, Zenon DEF KInv, Shell, Published, StoreFnData, StoreFnVtbl, StoreResults, StoreN,
                       ResetNext, Publish, After
  <1>6. ASSUME settled PROVE Calm'
    <2>1. (\A c \in Cores : wpc[c] \notin Holding) /\ (Quiescent \/ Spent)
      BY <1>1, <1>6, Zenon DEF KInv, Calm, Exhausted
    <2>2. Current' /\ Disjoint'
      BY <1>1, <2>1, Zenon DEF Current, Disjoint
    <2>3. Buffer'
      <3>1. \A i \in Indices(batch) : results[i] = None
        BY <1>1, <1>6, Zenon DEF KInv, Calm, Buffer, Before, After
      <3>. QED BY <1>1, <3>1, Zenon DEF Buffer, Indices, None
    <2>4. n' = n \/ Quiescent
      BY <1>1, <2>1, Zenon DEF Spent, StoreFnData, StoreFnVtbl, StoreResults, StoreN, ResetNext
    <2>5. Sized'
      <3>1. CASE Quiescent
        <4>1. wpc[BSP] = "out"
          BY <1>1, Zenon DEF KInv, Shell, BspPlace, Before
        <4>2. \A c \in Cores : wpc[c] \notin Draining
          BY <3>1, <4>1, Zenon DEF Quiescent, Cores, Draining, Holding
        <4>. QED BY <1>1, <4>2, Zenon DEF Sized
      <3>2. CASE n' = n
        BY <1>1, <1>6, <3>2, Zenon DEF KInv, Calm, Sized
      <3>. QED BY <2>4, <3>1, <3>2, Zenon
    <2>6. Exhausted'
      <3>1. CASE ResetNext
        BY <3>1, Zenon DEF ResetNext, Publish, Exhausted, Before
      <3>2. CASE Quiescent
        BY <1>1, <2>1, <3>2, Zenon DEF Exhausted, Quiescent, Before
      <3>3. CASE ~ResetNext /\ Spent
        <4>1. next' = next /\ n' = n
          BY <1>1, <3>3, Zenon DEF Spent, StoreFnData, StoreFnVtbl, StoreResults, StoreN
        <4>. QED BY <1>1, <2>1, <3>3, <4>1, Zenon DEF Exhausted, Spent, Before
      <3>. QED BY <2>1, <3>1, <3>2, <3>3, Zenon
    <2>7. Counted'
      BY <1>1, Zenon DEF Counted, Before
    <2>. QED BY <2>2, <2>3, <2>5, <2>6, <2>7, Zenon DEF Calm
  <1>. QED BY <1>1, <1>3, <1>4, <1>5, <1>6, Zenon DEF KInv, Shell

LEMMA TalliedFinite ==
    ASSUME Shell, bpc # "idle"
    PROVE  IsFiniteSet(Indices(batch)) /\ IsFiniteSet(Tallied) /\ Cardinality(Tallied) \in Nat
           /\ Cardinality(Indices(batch)) = Sizes[batch] /\ Sizes[batch] \in Nat
  <1>1. batch \in 1 .. Len(Sizes) /\ Sizes[batch] \in Nat
    BY SizesNat DEF Shell, KTypes
  <1>2. IsFiniteSet(Indices(batch)) /\ Cardinality(Indices(batch)) = Sizes[batch]
    <2>. DEFINE k == Sizes[batch]
    <2>. HIDE DEF k
    <2>1. k \in Nat /\ IsFiniteSet(0 .. k - 1) /\ Cardinality(0 .. k - 1) = k
      <3>1. k \in Nat
        BY <1>1 DEF k
      <3>. QED BY <3>1, FS_Interval
    <2>. QED BY <2>1, Zenon DEF Indices, k
  <1>3. Tallied \in SUBSET Indices(batch)
    BY Zenon DEF Tallied
  <1>. QED BY <1>1, <1>2, <1>3, FS_Subset, FS_CardinalityType, Zenon

\* KPOOL_DONE is reset: a completion counted before is forgotten.
LEMMA ResetDoneKeeps == KInv /\ ResetDone => KInv'
  <1>. SUFFICES ASSUME KInv, ResetDone PROVE KInv'
    BY Zenon
  <1>1. /\ bpc = "done" /\ bpc' = "gen" /\ done' = 0
        /\ UNCHANGED <<gen, n, next, fnData, fnVtbl, resPtr, batch, results, returned, settled,
                       clear, wpc, wn, widx, wfn, genSeen>>
    BY Zenon DEF ResetDone, Publish, coreVars, history
  <1>2. KTypes'
    <2>1. done' \in Nat
      BY <1>1
    <2>. QED BY <1>1, <2>1, Unchanging, Zenon DEF KInv, Shell, KTypes, After, Cells, None
  <1>3. ClearRight' /\ BspPlace' /\ Published'
    <2>1. ClearRight' /\ BspPlace'
      BY <1>1, RunFrame, Zenon DEF KInv
    <2>2. Published'
      BY <1>1, Zenon DEF KInv, Shell, Published, After
    <2>. QED BY <2>1, <2>2, Zenon
  <1>4. ASSUME settled PROVE Calm'
    <2>1. Counted'
      <3>1. Shell'
        BY <1>2, <1>3, Zenon DEF Shell
      <3>2. Tallied' = Tallied
        BY <1>1, Zenon DEF Tallied, Indices, None
      <3>3. Cardinality(Tallied) \in Nat
        BY <1>1, TalliedFinite, Zenon DEF KInv
      <3>. QED BY <1>1, <3>2, <3>3 DEF Counted
    <2>2. Buffer' /\ Sized' /\ Exhausted' /\ Disjoint'
      BY <1>1, <1>4, Zenon DEF KInv, Calm, Buffer, Sized, Exhausted, Disjoint, Before, After,
                               Indices, None
    <2>3. Current'
      BY <1>1, <1>4, Zenon DEF KInv, Calm, Current, Mine, Indices, None
    <2>. QED BY <2>1, <2>2, <2>3, Zenon DEF Calm
  <1>. QED BY <1>1, <1>2, <1>3, <1>4, Zenon DEF KInv, Shell

\* The generation is bumped and the BSP begins to drain.
LEMMA BumpKeeps == KInv /\ BumpGen => KInv'
  <1>. SUFFICES ASSUME KInv, BumpGen PROVE KInv'
    BY Zenon
  <1>1. /\ bpc = "gen" /\ bpc' = "drain" /\ gen' = gen + 1 /\ gen \in Nat
        /\ wpc' = [wpc EXCEPT ![BSP] = "loadN"] /\ wpc \in [Cores -> Places]
        /\ UNCHANGED <<n, next, done, fnData, fnVtbl, resPtr, batch, results, returned, settled,
                       clear, wn, widx, wfn, genSeen>>
    BY Zenon DEF BumpGen, KInv, Shell, KTypes, history
  <1>2. /\ wpc'[BSP] = "loadN" /\ \A c \in Cores \ {BSP} : wpc'[c] = wpc[c]
        /\ wpc' \in [Cores -> Places]
    BY <1>1, CoresHave, Zenon DEF Places, Draining
  <1>3. \A c \in Cores : wpc'[c] \in Holding \/ wpc'[c] \in Draining \ {"loadN"}
                            => wpc'[c] = wpc[c] /\ c # BSP
    BY <1>2, Zenon DEF Holding
  <1>4. KTypes'
    <2>1. gen' \in Nat
      BY <1>1
    <2>. QED BY <1>1, <1>2, <2>1, Unchanging, Zenon DEF KInv, Shell, KTypes, After, Cells, None
  <1>5. ClearRight' /\ BspPlace' /\ Published'
    <2>1. ClearRight'
      BY <1>1, Unchanging, Zenon DEF KInv, Shell, ClearRight
    <2>2. BspPlace' /\ Published'
      BY <1>1, <1>2, Zenon DEF KInv, Shell, BspPlace, Published, After, Draining
    <2>. QED BY <2>1, <2>2, Zenon
  <1>6. ASSUME settled PROVE Calm'
    <2>1. Buffer'
      BY <1>1, <1>6, Zenon DEF KInv, Calm, Buffer, After, Indices, None
    <2>2. Sized'
      BY <1>1, <1>3, <1>6, Zenon DEF KInv, Calm, Sized
    <2>3. Exhausted'
      BY <1>1, <1>2, Zenon DEF Exhausted, Before
    <2>4. Current'
      BY <1>1, <1>3, <1>6, Zenon DEF KInv, Calm, Current, Mine, Indices, None
    <2>5. Disjoint'
      BY <1>1, <1>3, <1>6, Zenon DEF KInv, Calm, Disjoint
    <2>6. Counted'
      <3>1. wpc[BSP] = "out"
        BY <1>1, Zenon DEF KInv, Shell, BspPlace
      <3>2. \A c \in Cores : wpc'[c] = "count" <=> wpc[c] = "count"
        BY <1>2, <3>1, Zenon
      <3>3. Tallied' = Tallied
        BY <1>1, <3>2, Zenon DEF Tallied, Indices, None
      <3>. QED BY <1>1, <1>6, <3>3, Zenon DEF KInv, Calm, Counted
    <2>. QED BY <2>1, <2>2, <2>3, <2>4, <2>5, <2>6, Zenon DEF Calm
  <1>. QED BY <1>1, <1>4, <1>5, <1>6, Zenon DEF KInv, Shell

\* The BSP stops draining, and then stops waiting.
LEMMA WaitKeeps == KInv /\ (BspDrained \/ Watchdog) => KInv'
  <1>. SUFFICES ASSUME KInv, BspDrained \/ Watchdog PROVE KInv'
    BY Zenon
  <1>1. /\ bpc \in {"drain", "wait"} /\ (bpc = "drain" => wpc[BSP] = "out")
        /\ bpc' = IF bpc = "drain" THEN "wait" ELSE "scan"
        /\ UNCHANGED <<gen, n, next, done, fnData, fnVtbl, resPtr, batch, results, returned, settled,
                       clear, wpc, wn, widx, wfn, genSeen>>
    BY Zenon DEF BspDrained, Watchdog, poolVars, coreVars, history
  <1>2. bpc \in After /\ bpc' \in {"wait", "scan"} /\ bpc # "scan"
    BY <1>1, Zenon DEF After
  <1>3. KTypes'
    BY <1>1, <1>2, Unchanging, Zenon DEF KInv, Shell, KTypes, After, Cells, None
  <1>4. ClearRight' /\ BspPlace'
    BY <1>1, <1>2, RunFrame, Zenon DEF KInv, After
  <1>5. Published'
    BY <1>1, <1>2, Zenon DEF KInv, Shell, Published, After
  <1>6. ASSUME settled PROVE Calm'
    <2>1. Buffer'
      BY <1>1, <1>2, <1>6, Zenon DEF KInv, Calm, Buffer, After, Indices, None
    <2>2. Sized' /\ Disjoint'
      BY <1>1, <1>6, Zenon DEF KInv, Calm, Sized, Disjoint
    <2>3. Exhausted'
      BY <1>1, <1>2, <1>6, Zenon DEF KInv, Calm, Exhausted, Before
    <2>4. Current'
      BY <1>1, <1>2, <1>6, Zenon DEF KInv, Calm, Current, Mine, Indices, None
    <2>5. Counted'
      BY <1>1, <1>6, Zenon DEF KInv, Calm, Counted, Tallied, Indices, None
    <2>. QED BY <2>1, <2>2, <2>3, <2>4, <2>5, Zenon DEF Calm
  <1>. QED BY <1>1, <1>3, <1>4, <1>5, <1>6, Zenon DEF KInv, Shell

\* The watchdog executes a task whose slot is empty, whoever holds its index.
LEMMA ReexecuteKeeps == KInv /\ Reexecute => KInv'
  <1>. SUFFICES ASSUME KInv, Reexecute PROVE KInv'
    BY Zenon
  <1>1. PICK i \in Indices(batch) : results' = [results EXCEPT ![i] = <<fnData, fnVtbl, i>>]
    BY Zenon DEF Reexecute
  <1>2. /\ bpc = "scan" /\ bpc' = "scan"
        /\ UNCHANGED <<gen, n, next, done, fnData, fnVtbl, resPtr, batch, returned, settled,
                       clear, wpc, wn, widx, wfn, genSeen>>
    BY Zenon DEF Reexecute, poolVars, coreVars, history
  <1>3. fnData = batch /\ fnVtbl = batch /\ batch \in Nat /\ n = Sizes[batch] /\ n \in Nat /\ next \in Nat
    BY <1>2, SizesNat DEF KInv, Shell, Published, KTypes, After
  <1>4. results \in [Indices(batch) -> Cells]
    BY <1>2, Zenon DEF KInv, Shell, KTypes
  <1>5. results'[i] = <<batch, batch, i>> /\ \A j \in Indices(batch) \ {i} : results'[j] = results[j]
    BY <1>1, <1>3, <1>4, Zenon
  <1>6. KTypes'
    <2>1. <<batch, batch, i>> \in Cells
      BY <1>3 DEF Cells, Indices
    <2>2. results' \in [Indices(batch) -> Cells]
      BY <1>1, <1>3, <1>4, <2>1, Zenon
    <2>. QED BY <1>2, <2>2, Unchanging, Zenon DEF KInv, Shell, KTypes, Cells, None
  <1>7. ClearRight' /\ BspPlace'
    BY <1>2, RunFrame, Zenon DEF KInv
  <1>8. Published'
    BY <1>2, Zenon DEF KInv, Shell, Published
  <1>9. ASSUME settled PROVE Calm'
    <2>1. next >= n
      BY <1>2, <1>9, Zenon DEF KInv, Calm, Exhausted
    <2>2. i < next
      BY <1>3, <2>1 DEF Indices
    <2>3. Buffer'
      <3>1. \A j \in Indices(batch) : results'[j] = None \/
                (bpc \in After /\ j < next /\ results'[j] = <<batch, batch, j>>)
        BY <1>2, <1>5, <1>9, <2>2, Zenon DEF KInv, Calm, Buffer, After
      <3>. QED BY <1>2, <3>1, Zenon DEF Buffer, Indices, None
    <2>4. Sized' /\ Disjoint'
      BY <1>2, <1>9, Zenon DEF KInv, Calm, Sized, Disjoint
    <2>5. Exhausted'
      BY <1>2, <2>1, Zenon DEF Exhausted, Before
    <2>6. Current'
      BY <1>2, <1>9, Zenon DEF KInv, Calm, Current, Mine, Indices
    <2>7. Counted'
      BY <1>2, Zenon DEF Counted
    <2>. QED BY <2>3, <2>4, <2>5, <2>6, <2>7, Zenon DEF Calm
  <1>. QED BY <1>2, <1>6, <1>7, <1>8, <1>9, Zenon DEF KInv, Shell

\* A full count means full slots, and no core that still holds one.
LEMMA DoneMeansDone ==
    ASSUME KInv, settled, bpc = "wait", done >= Sizes[batch]
    PROVE  /\ \A i \in Indices(batch) : results[i] # None
           /\ \A c \in Cores : wpc[c] \notin Holding
  <1>1. /\ IsFiniteSet(Indices(batch)) /\ IsFiniteSet(Tallied) /\ Cardinality(Tallied) \in Nat
        /\ Cardinality(Indices(batch)) = Sizes[batch] /\ Sizes[batch] \in Nat
    BY TalliedFinite, Zenon DEF KInv
  <1>2. Tallied \subseteq Indices(batch)
    BY Zenon DEF Tallied
  <1>3. done <= Cardinality(Tallied) /\ done \in Nat
    BY Zenon DEF KInv, Shell, KTypes, Calm, Counted
  <1>4. /\ Cardinality(Tallied) <= Sizes[batch]
        /\ Cardinality(Tallied) = Sizes[batch] => Tallied = Indices(batch)
    BY <1>1, <1>2, FS_Subset, Zenon
  <1>5. Tallied = Indices(batch)
    BY <1>1, <1>3, <1>4
  <1>6. \A i \in Indices(batch) : results[i] # None
    BY <1>5, Zenon DEF Tallied
  <1>7. ASSUME NEW c \in Cores, wpc[c] \in Holding PROVE FALSE
    <2>1. widx[c] \in Indices(batch) /\ (wpc[c] \in Unwritten <=> results[widx[c]] = None)
      BY <1>7, Zenon DEF KInv, Calm, Current, Mine
    <2>2. wpc[c] = "count"
      BY <1>6, <1>7, <2>1, Zenon DEF Holding, Unwritten
    <2>. QED BY <1>5, <2>1, <2>2, Zenon DEF Tallied
  <1>. QED BY <1>6, <1>7, Zenon

\* run hands back its buffer; when it stays settled no core holds an index.
LEMMA ReturnKeeps ==
    ASSUME KInv, bpc \in {"wait", "scan"}, settled => \A i \in Indices(batch) : results[i] # None,
           settled' \in BOOLEAN, settled' => settled /\ \A c \in Cores : wpc[c] \notin Holding,
           bpc' = "idle", returned' = Append(returned, results),
           UNCHANGED <<gen, n, next, done, fnData, fnVtbl, resPtr, batch, clear, wpc, wn, widx,
                       wfn, genSeen>>
    PROVE  KInv'
  <1>1. /\ batch \in Nat /\ batch > 0 /\ Len(returned) = batch - 1
        /\ results \in [Indices(batch) -> Cells]
    BY SizesNat DEF KInv, Shell, KTypes, ClearRight
  <1>2. /\ returned' \in Seq(Buffers) /\ Len(returned') = batch /\ returned'[batch] = results
        /\ \A b \in 1 .. batch - 1 : returned'[b] = returned[b]
    BY <1>1, Handed, Zenon DEF KInv, Shell
  <1>3. KTypes'
    BY <1>2, Zenon DEF KInv, Shell, KTypes, Before, Buffers, Indices, Cells, None
  <1>4. settled => results = Right(batch)
    <2>1. settled => \A i \in Indices(batch) : results[i] = <<batch, batch, i>>
      BY Zenon DEF KInv, Calm, Buffer
    <2>. QED BY <1>1, <2>1, Zenon DEF Right
  <1>5. ClearRight'
    <2>1. \A b \in 1 .. batch - 1 : clear[b] => returned'[b] = Right(b)
      BY <1>1, <1>2, Zenon DEF KInv, Shell, ClearRight
    <2>2. clear[batch] => returned'[batch] = Right(batch)
      BY <1>2, <1>4, Zenon DEF KInv, Shell, ClearRight
    <2>3. \A b \in 1 .. batch : b \in 1 .. batch - 1 \/ b = batch
      BY <1>1
    <2>4. \A b \in 1 .. Len(returned') : clear[b] => returned'[b] = Right(b)
      BY <1>2, <2>1, <2>2, <2>3, Zenon
    <2>. QED BY <1>2, <2>4, Unchanging, Zenon DEF KInv, Shell, ClearRight
  <1>6. BspPlace' /\ Published'
    BY Zenon DEF KInv, Shell, BspPlace, Published, After
  <1>7. ASSUME settled' PROVE Calm'
    <2>1. Buffer' /\ Counted' /\ Current' /\ Disjoint'
      BY <1>7, Zenon DEF Buffer, Counted, Current, Disjoint
    <2>2. Sized' /\ Exhausted'
      BY <1>7, Zenon DEF KInv, Calm, Sized, Exhausted, Spent, Before
    <2>. QED BY <2>1, <2>2, Zenon DEF Calm
  <1>. QED BY <1>3, <1>5, <1>6, <1>7, Zenon DEF KInv, Shell

LEMMA RunReturnsKeeps == KInv /\ RunReturns => KInv'
  <1>. SUFFICES ASSUME KInv, RunReturns PROVE KInv'
    BY Zenon
  <1>1. /\ bpc = "wait" /\ done >= Sizes[batch] /\ bpc' = "idle"
        /\ returned' = Append(returned, results)
        /\ UNCHANGED <<gen, n, next, done, fnData, fnVtbl, resPtr, batch, settled, clear, wpc, wn,
                       widx, wfn, genSeen>>
    BY Zenon DEF RunReturns, poolVars, coreVars, history
  <1>2. settled \in BOOLEAN
    BY Zenon DEF KInv, Shell, KTypes
  <1>3. settled => /\ \A i \in Indices(batch) : results[i] # None
                   /\ \A c \in Cores : wpc[c] \notin Holding
    BY <1>1, DoneMeansDone, Zenon
  <1>. QED BY <1>1, <1>2, <1>3, ReturnKeeps, Zenon

LEMMA WatchdogReturnsKeeps == KInv /\ WatchdogReturns => KInv'
  <1>. SUFFICES ASSUME KInv, WatchdogReturns PROVE KInv'
    BY Zenon
  <1>1. /\ bpc = "scan" /\ bpc' = "idle" /\ returned' = Append(returned, results)
        /\ \A i \in Indices(batch) : results[i] # None
        /\ settled' = (settled /\ \A a \in APs : wpc[a] \notin Holding)
        /\ UNCHANGED <<gen, n, next, done, fnData, fnVtbl, resPtr, batch, clear, wpc, wn, widx,
                       wfn, genSeen>>
    BY Zenon DEF WatchdogReturns, poolVars, coreVars
  <1>2. wpc[BSP] \notin Holding
    BY <1>1, Zenon DEF KInv, Shell, BspPlace, Holding
  <1>3. settled' \in BOOLEAN /\ (settled' => settled /\ \A c \in Cores : wpc[c] \notin Holding)
    BY <1>1, <1>2, Zenon DEF Cores
  <1>. QED BY <1>1, <1>3, ReturnKeeps, Zenon
------------------------------------------------------------------------------
(* ap_poll_once and drain_tasks *)

\* One core moves.
LEMMA Moves ==
    ASSUME Shell, NEW c \in Cores, NEW to \in Places, wpc' = [wpc EXCEPT ![c] = to]
    PROVE  wpc'[c] = to /\ (\A d \in Cores \ {c} : wpc'[d] = wpc[d]) /\ wpc' \in [Cores -> Places]
  BY Zenon DEF Shell, KTypes

LEMMA DrainingBsp == ASSUME Shell, wpc[BSP] \in Draining PROVE bpc = "drain"
  BY Zenon DEF Shell, BspPlace, Draining, Holding

\* What no core changes.
LEMMA CoreShell ==
    ASSUME Shell, NEW c \in Cores, NEW to \in Places, wpc' = [wpc EXCEPT ![c] = to],
           c = BSP => to \in Draining \cup {"out"} /\ bpc = "drain",
           next' \in Nat, done' \in Nat, wn' \in [Cores -> Nat], widx' \in [Cores -> Nat],
           wfn' \in [Cores -> [1 .. 3 -> Nat]], genSeen' \in [APs -> Nat],
           bpc # "idle" => results' \in [Indices(batch) -> Cells],
           UNCHANGED <<gen, n, fnData, fnVtbl, resPtr, bpc, batch, returned, clear, settled>>
    PROVE  Shell'
  <1>1. wpc'[c] = to /\ (\A d \in Cores \ {c} : wpc'[d] = wpc[d]) /\ wpc' \in [Cores -> Places]
    BY Moves, Zenon
  <1>2. KTypes'
    BY <1>1, Unchanging, Zenon DEF Shell, KTypes, Cells, None
  <1>3. ClearRight'
    BY Unchanging, Zenon DEF Shell, ClearRight
  <1>4. BspPlace'
    BY <1>1, CoresHave, Zenon DEF Shell, BspPlace
  <1>5. Published'
    BY Zenon DEF Shell, Published
  <1>. QED BY <1>2, <1>3, <1>4, <1>5, Zenon DEF Shell

\* A core that is at work, or about to be, before the reset finds no index left.
LEMMA LateCore ==
    ASSUME KInv, settled, bpc \in Before, NEW c \in Cores,
           wpc[c] \in Draining \/ (c \in APs /\ wpc[c] = "poll" /\ genSeen[c] # gen)
    PROVE  Spent
  <1>1. wpc[BSP] = "out"
    BY Zenon DEF KInv, Shell, BspPlace, Before
  <1>2. c \in APs /\ wpc[c] # "hung"
    BY <1>1, Zenon DEF Cores, Draining, Holding
  <1>3. ~Quiescent
    BY <1>2, Zenon DEF Quiescent, Draining, Holding
  <1>. QED BY <1>3, Zenon DEF KInv, Calm, Exhausted

LEMMA StillSpent ==
    ASSUME KInv, Spent, next' \in Nat, next' >= next, UNCHANGED <<n, bpc, batch>>
    PROVE  Spent'
  <1>1. next' >= n
    BY DEF KInv, Shell, KTypes, Spent
  <1>. QED BY <1>1, Zenon DEF Spent

LEMMA StillBuffer ==
    ASSUME KInv, settled, next' \in Nat, next' >= next, UNCHANGED <<bpc, batch, results>>
    PROVE  Buffer'
  <1>1. \A i \in Indices(batch) : i \in Int
    BY DEF Indices
  <1>2. \A i \in Indices(batch) : i < next => i < next'
    BY <1>1 DEF KInv, Shell, KTypes
  <1>. QED BY <1>2, Zenon DEF KInv, Calm, Buffer, Indices, None

\* More slots tallied, as many counted.
LEMMA StillCounted ==
    ASSUME KInv, settled, Shell', UNCHANGED <<bpc, done>>,
           bpc # "scan" => Tallied \subseteq Tallied'
    PROVE  Counted'
  <1>. SUFFICES ASSUME bpc \in {"gen", "drain", "wait"} PROVE done <= Cardinality(Tallied')
    BY Zenon DEF Counted
  <1>1. /\ IsFiniteSet(Tallied) /\ Cardinality(Tallied) \in Nat
        /\ done <= Cardinality(Tallied) /\ done \in Nat
    BY TalliedFinite, Zenon DEF KInv, Shell, KTypes, Calm, Counted
  <1>2. IsFiniteSet(Tallied') /\ Cardinality(Tallied') \in Nat
    <2>1. IsFiniteSet(Indices(batch))'
      <3>1. Shell' /\ (bpc # "idle")'
        BY Zenon
      <3>. QED BY <3>1, TalliedFinite, PTL
    <2>2. Tallied' \in SUBSET (Indices(batch)')
      BY Zenon DEF Tallied, Indices
    <2>. QED BY <2>1, <2>2, FS_Subset, FS_CardinalityType, Zenon
  <1>3. Cardinality(Tallied) <= Cardinality(Tallied')
    BY <1>2, FS_Subset, Zenon
  <1>. QED BY <1>1, <1>2, <1>3

\* Steps of a core that holds no index, before or after, except that one that
\* holds one may hang.
LEMMA IdleStep ==
    ASSUME KInv, settled, Shell', NEW c \in Cores,
           NEW to \in {"loadN", "claim", "out", "poll", "hung"},
           wpc[c] \notin Holding \/ to = "hung",
           wpc' = [wpc EXCEPT ![c] = to], next' \in Nat, next' >= next,
           \A d \in Cores \ {c} : widx'[d] = widx[d] /\ wfn'[d] = wfn[d],
           UNCHANGED <<bpc, batch, results, done>>
    PROVE  /\ Buffer' /\ Current' /\ Disjoint' /\ Counted'
           /\ bpc \in Before => \A d \in Cores : wpc'[d] \notin Holding
  <1>1. to \in Places /\ to \notin Holding
    BY Zenon DEF Places, Draining, Holding
  <1>2. wpc'[c] = to /\ \A d \in Cores \ {c} : wpc'[d] = wpc[d]
    BY <1>1, Moves, Zenon DEF KInv
  <1>3. \A d \in Cores : wpc'[d] \in Holding =>
            d # c /\ wpc'[d] = wpc[d] /\ widx'[d] = widx[d] /\ wfn'[d] = wfn[d]
    BY <1>1, <1>2, Zenon
  <1>4. Current'
    <2>. SUFFICES ASSUME NEW d \in Cores, wpc'[d] \in Holding PROVE Mine(d)'
      BY Zenon DEF Current
    <2>1. Mine(d) /\ wpc'[d] = wpc[d] /\ widx'[d] = widx[d] /\ wfn'[d] = wfn[d]
      BY <1>3, Zenon DEF KInv, Calm, Current
    <2>2. widx[d] < next'
      <3>1. widx[d] \in Nat /\ next \in Nat /\ widx[d] < next
        BY <2>1, Zenon DEF KInv, Shell, KTypes, Mine
      <3>. QED BY <3>1
    <2>. QED BY <2>1, <2>2, Zenon DEF Mine, Indices, None
  <1>5. Disjoint'
    BY <1>3, Zenon DEF KInv, Calm, Disjoint
  <1>6. Counted'
    <2>1. Tallied \subseteq Tallied'
      <3>1. \A d \in Cores : wpc'[d] = "count" => wpc[d] = "count" /\ widx'[d] = widx[d]
        BY <1>3, Zenon DEF Holding
      <3>. QED BY <3>1, Zenon DEF Tallied, Indices, None
    <2>. QED BY <2>1, StillCounted, Zenon
  <1>7. bpc \in Before => \A d \in Cores : wpc'[d] \notin Holding
    BY <1>3, Zenon DEF KInv, Calm, Exhausted
  <1>8. Buffer'
    BY StillBuffer, Zenon
  <1>. QED BY <1>4, <1>5, <1>6, <1>7, <1>8, Zenon

LEMMA PollKeeps == ASSUME KInv, NEW a \in APs, Poll(a) PROVE KInv'
  <1>1. /\ genSeen' = [genSeen EXCEPT ![a] = gen] /\ genSeen[a] # gen /\ wpc[a] = "poll"
        /\ wpc' = [wpc EXCEPT ![a] = "loadN"]
        /\ UNCHANGED <<gen, n, next, done, fnData, fnVtbl, resPtr, batch, bpc, results, returned,
                       settled, clear, wn, widx, wfn>>
    BY Zenon DEF Poll, poolVars, bspVars, history
  <1>2. a \in Cores /\ a # BSP /\ BSP \in Cores /\ "loadN" \in Places
    BY CoresHave, Zenon DEF Places, Draining
  <1>3. Shell'
    <2>1. genSeen' \in [APs -> Nat]
      BY <1>1, Zenon DEF KInv, Shell, KTypes
    <2>2. /\ next' \in Nat /\ done' \in Nat /\ wn' \in [Cores -> Nat] /\ widx' \in [Cores -> Nat]
          /\ wfn' \in [Cores -> [1 .. 3 -> Nat]] /\ (bpc # "idle" => results' \in [Indices(batch) -> Cells])
      BY <1>1, Zenon DEF KInv, Shell, KTypes
    <2>. QED BY <1>1, <1>2, <2>1, <2>2, CoreShell, Zenon DEF KInv
  <1>4. wpc'[a] = "loadN" /\ \A d \in Cores \ {a} : wpc'[d] = wpc[d]
    BY <1>1, <1>2, Moves, Zenon DEF KInv
  <1>5. ASSUME settled PROVE Calm'
    <2>1. next' \in Nat /\ next' >= next
      BY <1>1 DEF KInv, Shell, KTypes
    <2>2. /\ Buffer' /\ Current' /\ Disjoint' /\ Counted'
          /\ bpc \in Before => \A d \in Cores : wpc'[d] \notin Holding
      <3>1. wpc[a] \notin Holding
        BY <1>1, Zenon DEF Holding
      <3>. QED BY <1>1, <1>2, <1>3, <1>5, <2>1, <3>1, IdleStep, Zenon
    <2>3. Sized'
      <3>1. \A d \in Cores : wpc'[d] \in Draining \ {"loadN"} => wpc'[d] = wpc[d]
        BY <1>4, Zenon
      <3>. QED BY <1>1, <1>5, <3>1, Zenon DEF KInv, Calm, Sized
    <2>4. Exhausted'
      <3>1. bpc \in Before => Spent'
        BY <1>1, <1>2, <1>5, <2>1, LateCore, StillSpent, Zenon
      <3>. QED BY <1>1, <1>2, <1>4, <1>5, <2>2, <3>1, Zenon DEF KInv, Calm, Exhausted
    <2>. QED BY <2>2, <2>3, <2>4, Zenon DEF Calm
  <1>. QED BY <1>1, <1>3, <1>5, Zenon DEF KInv

LEMMA HangKeeps == ASSUME KInv, NEW a \in APs, Hang(a) PROVE KInv'
  <1>1. /\ wpc' = [wpc EXCEPT ![a] = "hung"]
        /\ wn' = [wn EXCEPT ![a] = 0] /\ widx' = [widx EXCEPT ![a] = 0]
        /\ wfn' = [wfn EXCEPT ![a] = <<0, 0, 0>>]
        /\ UNCHANGED <<gen, n, next, done, fnData, fnVtbl, resPtr, batch, bpc, results, returned,
                       settled, clear, genSeen>>
    BY Zenon DEF Hang, poolVars, bspVars, history
  <1>2. a \in Cores /\ a # BSP /\ BSP \in Cores /\ "hung" \in Places
    BY CoresHave, Zenon DEF Places
  <1>3. /\ next \in Nat /\ done \in Nat /\ wn \in [Cores -> Nat] /\ widx \in [Cores -> Nat]
        /\ wfn \in [Cores -> [1 .. 3 -> Nat]] /\ genSeen \in [APs -> Nat]
        /\ bpc # "idle" => results \in [Indices(batch) -> Cells]
    BY Zenon DEF KInv, Shell, KTypes
  <1>4. \A d \in Cores \ {a} : wn'[d] = wn[d] /\ widx'[d] = widx[d] /\ wfn'[d] = wfn[d]
    BY <1>1, <1>3, Zenon
  <1>5. Shell'
    <2>1. 0 \in Nat /\ <<0, 0, 0>> \in [1 .. 3 -> Nat]
      OBVIOUS
    <2>2. wn' \in [Cores -> Nat] /\ widx' \in [Cores -> Nat] /\ wfn' \in [Cores -> [1 .. 3 -> Nat]]
      BY <1>1, <1>3, <2>1, Zenon
    <2>. QED BY <1>1, <1>2, <1>3, <2>2, CoreShell, Zenon DEF KInv
  <1>6. wpc'[a] = "hung" /\ \A d \in Cores \ {a} : wpc'[d] = wpc[d]
    BY <1>1, <1>2, Moves, Zenon DEF KInv
  <1>7. ASSUME settled PROVE Calm'
    <2>1. next' \in Nat /\ next' >= next
      BY <1>1, <1>3
    <2>2. /\ Buffer' /\ Current' /\ Disjoint' /\ Counted'
          /\ bpc \in Before => \A d \in Cores : wpc'[d] \notin Holding
      BY <1>1, <1>2, <1>4, <1>5, <1>7, <2>1, IdleStep, Zenon
    <2>3. Sized'
      <3>1. \A d \in Cores : wpc'[d] \in Draining => d # a /\ wpc'[d] = wpc[d]
        BY <1>6, Zenon DEF Draining, Holding
      <3>. QED BY <1>1, <1>4, <1>7, <3>1, Zenon DEF KInv, Calm, Sized
    <2>4. Exhausted'
      <3>1. Spent => Spent'
        BY <1>1, <2>1, StillSpent, Zenon
      <3>2. Quiescent => Quiescent'
        BY <1>1, <1>2, <1>6, CoresHave, Zenon DEF Quiescent
      <3>. QED BY <1>1, <1>2, <1>6, <1>7, <2>2, <3>1, <3>2, Zenon DEF KInv, Calm, Exhausted
    <2>. QED BY <2>2, <2>3, <2>4, Zenon DEF Calm
  <1>. QED BY <1>1, <1>5, <1>7, Zenon DEF KInv

LEMMA LoadNKeeps == ASSUME KInv, NEW c \in Cores, LoadN(c) PROVE KInv'
  <1>1. /\ wpc[c] = "loadN" /\ wn' = [wn EXCEPT ![c] = n]
        /\ wpc' = [wpc EXCEPT ![c] = "claim"]
        /\ UNCHANGED <<gen, n, next, done, fnData, fnVtbl, resPtr, batch, bpc, results, returned,
                       settled, clear, widx, wfn, genSeen>>
    BY Zenon DEF LoadN, poolVars, bspVars, history
  <1>2. /\ next \in Nat /\ done \in Nat /\ wn \in [Cores -> Nat] /\ widx \in [Cores -> Nat]
        /\ wfn \in [Cores -> [1 .. 3 -> Nat]] /\ genSeen \in [APs -> Nat] /\ n \in Nat
        /\ bpc # "idle" => results \in [Indices(batch) -> Cells]
    BY Zenon DEF KInv, Shell, KTypes
  <1>3. "claim" \in Places /\ "claim" \in Draining /\ wpc[c] \in Draining /\ (c = BSP => bpc = "drain")
    BY <1>1, DrainingBsp, Zenon DEF KInv, Places, Draining
  <1>4. Shell'
    <2>1. wn' \in [Cores -> Nat]
      BY <1>1, <1>2, Zenon
    <2>. QED BY <1>1, <1>2, <1>3, <2>1, CoreShell, Zenon DEF KInv
  <1>5. wpc'[c] = "claim" /\ \A d \in Cores \ {c} : wpc'[d] = wpc[d]
    BY <1>1, <1>3, Moves, Zenon DEF KInv
  <1>6. ASSUME settled PROVE Calm'
    <2>1. next' \in Nat /\ next' >= next
      BY <1>1, <1>2
    <2>2. /\ Buffer' /\ Current' /\ Disjoint' /\ Counted'
          /\ bpc \in Before => \A d \in Cores : wpc'[d] \notin Holding
      <3>1. wpc[c] \notin Holding
        BY <1>1, Zenon DEF Holding
      <3>. QED BY <1>1, <1>4, <1>6, <2>1, <3>1, IdleStep, Zenon
    <2>3. Sized'
      <3>1. \A d \in Cores : wn'[d] = IF d = c THEN n ELSE wn[d]
        BY <1>1, <1>2, Zenon
      <3>. QED BY <1>1, <1>5, <1>6, <3>1, Zenon DEF KInv, Calm, Sized
    <2>4. Exhausted'
      <3>1. bpc \in Before => Spent'
        BY <1>1, <1>3, <1>6, <2>1, LateCore, StillSpent, Zenon
      <3>. QED BY <1>1, <1>3, <1>5, <1>6, <2>2, <3>1, CoresHave, Zenon DEF KInv, Calm, Exhausted
    <2>. QED BY <2>2, <2>3, <2>4, Zenon DEF Calm
  <1>. QED BY <1>1, <1>4, <1>6, Zenon DEF KInv

\* fetch_add finds no index left: the core leaves drain_tasks.
LEMMA ClaimNoneKeeps ==
    ASSUME KInv, NEW c \in Cores, Claim(c), next >= wn[c]
    PROVE  KInv'
  <1>. DEFINE to == IF c = BSP THEN "out" ELSE "poll"
  <1>1. /\ wpc[c] = "claim" /\ next' = next + 1 /\ wpc' = [wpc EXCEPT ![c] = to]
        /\ wn' = [wn EXCEPT ![c] = 0]
        /\ UNCHANGED <<gen, n, done, fnData, fnVtbl, resPtr, batch, bpc, results, returned,
                       settled, clear, widx, wfn, genSeen>>
    BY Zenon DEF Claim, bspVars, history
  <1>2. /\ next \in Nat /\ done \in Nat /\ wn \in [Cores -> Nat] /\ widx \in [Cores -> Nat]
        /\ wfn \in [Cores -> [1 .. 3 -> Nat]] /\ genSeen \in [APs -> Nat] /\ n \in Nat
        /\ bpc # "idle" => results \in [Indices(batch) -> Cells]
    BY Zenon DEF KInv, Shell, KTypes
  <1>3. /\ to \in Places /\ to \notin Draining /\ wpc[c] \in Draining
        /\ c = BSP => bpc = "drain" /\ to = "out"
    BY <1>1, DrainingBsp, Zenon DEF KInv, Places, Draining, Holding
  <1>4. next' \in Nat /\ next' >= next
    BY <1>1, <1>2
  <1>5. Shell'
    <2>1. wn' \in [Cores -> Nat]
      <3>1. 0 \in Nat
        OBVIOUS
      <3>. QED BY <1>1, <1>2, <3>1, Zenon
    <2>. HIDE DEF to
    <2>. QED BY <1>1, <1>2, <1>3, <1>4, <2>1, CoreShell, Zenon DEF KInv
  <1>6. wpc'[c] = to /\ \A d \in Cores \ {c} : wpc'[d] = wpc[d]
    <2>. HIDE DEF to
    <2>. QED BY <1>1, <1>3, Moves, Zenon DEF KInv
  <1>7. ASSUME settled PROVE Calm'
    <2>1. /\ Buffer' /\ Current' /\ Disjoint' /\ Counted'
          /\ bpc \in Before => \A d \in Cores : wpc'[d] \notin Holding
      <3>1. wpc[c] \notin Holding /\ to \in {"loadN", "claim", "out", "poll", "hung"}
        BY <1>1, Zenon DEF Holding
      <3>. HIDE DEF to
      <3>. QED BY <1>1, <1>4, <1>5, <1>7, <3>1, IdleStep, Zenon
    <2>2. Sized'
      <3>1. \A d \in Cores : wpc'[d] \in Draining => d # c /\ wpc'[d] = wpc[d] /\ wn'[d] = wn[d]
        BY <1>1, <1>2, <1>3, <1>6, Zenon
      <3>. QED BY <1>1, <1>7, <3>1, Zenon DEF KInv, Calm, Sized
    <2>3. wn[c] = n
      BY <1>1, <1>3, <1>7, Zenon DEF KInv, Calm, Sized
    <2>4. next' >= n
      BY <1>1, <1>2, <2>3
    <2>5. Exhausted'
      <3>1. bpc \in Before => Spent'
        BY <1>1, <1>3, <1>4, <1>7, LateCore, StillSpent, Zenon
      <3>. QED BY <1>1, <2>1, <2>4, <3>1, Zenon DEF Exhausted
    <2>. QED BY <2>1, <2>2, <2>5, Zenon DEF Calm
  <1>. QED BY <1>1, <1>5, <1>7, Zenon DEF KInv

\* Steps with an index in hand are taken after the reset, and stay in drain_tasks.
LEMMA HoldingAfter ==
    ASSUME KInv, settled, NEW c \in Cores, wpc[c] \in Holding
    PROVE  bpc \in After
  BY Zenon DEF KInv, Shell, KTypes, Calm, Exhausted

LEMMA HoldingFrame ==
    ASSUME KInv, settled, bpc \in After, NEW c \in Cores, wpc[c] \in Draining \ {"loadN"},
           NEW to \in Holding \cup {"claim"}, wpc' = [wpc EXCEPT ![c] = to],
           next' \in Nat, next' >= next, UNCHANGED <<gen, n, bpc, wn, genSeen>>
    PROVE  Sized' /\ Exhausted'
  <1>1. to \in Draining \ {"loadN"} /\ to \in Places /\ to # "out"
    BY Zenon DEF Places, Draining, Holding
  <1>2. wpc'[c] = to /\ \A d \in Cores \ {c} : wpc'[d] = wpc[d]
    BY <1>1, Moves, Zenon DEF KInv
  <1>3. Sized'
    BY <1>1, <1>2, Zenon DEF KInv, Calm, Sized
  <1>4. Exhausted'
    <2>1. bpc \notin Before
      BY Zenon DEF Before, After
    <2>2. bpc \in {"wait", "scan"} \/ (bpc = "drain" /\ wpc'[BSP] = "out") => next >= n
      BY <1>1, <1>2, CoresHave, Zenon DEF KInv, Calm, Exhausted
    <2>3. next >= n => next' >= n
      BY DEF KInv, Shell, KTypes
    <2>. QED BY <2>1, <2>2, <2>3, Zenon DEF Exhausted
  <1>. QED BY <1>3, <1>4, Zenon

\* fetch_add hands out an index: no core has had it in this batch.
LEMMA ClaimOneKeeps ==
    ASSUME KInv, NEW c \in Cores, Claim(c), next < wn[c]
    PROVE  KInv'
  <1>1. /\ next \in Nat /\ done \in Nat /\ wn \in [Cores -> Nat] /\ widx \in [Cores -> Nat]
        /\ wfn \in [Cores -> [1 .. 3 -> Nat]] /\ genSeen \in [APs -> Nat] /\ n \in Nat
        /\ bpc # "idle" => results \in [Indices(batch) -> Cells]
    BY Zenon DEF KInv, Shell, KTypes
  <1>2. ~(next >= wn[c])
    BY <1>1
  <1>3. /\ wpc[c] = "claim" /\ next' = next + 1 /\ wpc' = [wpc EXCEPT ![c] = "loadData"]
        /\ widx' = [widx EXCEPT ![c] = next]
        /\ UNCHANGED <<gen, n, done, fnData, fnVtbl, resPtr, batch, bpc, results, returned,
                       settled, clear, wn, wfn, genSeen>>
    BY <1>2, Zenon DEF Claim, bspVars, history
  <1>4. /\ "loadData" \in Places /\ "loadData" \in Draining /\ "loadData" \in Holding
        /\ wpc[c] \in Draining \ {"loadN"} /\ (c = BSP => bpc = "drain")
    BY <1>3, DrainingBsp, Zenon DEF KInv, Places, Draining, Holding
  <1>5. next' \in Nat /\ next' >= next
    BY <1>1, <1>3
  <1>6. Shell'
    <2>1. widx' \in [Cores -> Nat]
      BY <1>1, <1>3, Zenon
    <2>. QED BY <1>1, <1>3, <1>4, <1>5, <2>1, CoreShell, Zenon DEF KInv
  <1>7. wpc'[c] = "loadData" /\ \A d \in Cores \ {c} : wpc'[d] = wpc[d]
    BY <1>3, <1>4, Moves, Zenon DEF KInv
  <1>8. widx'[c] = next /\ \A d \in Cores \ {c} : widx'[d] = widx[d]
    BY <1>1, <1>3, Zenon
  <1>9. ASSUME settled PROVE Calm'
    <2>1. wn[c] = n
      BY <1>3, <1>4, <1>9, Zenon DEF KInv, Calm, Sized
    <2>2. bpc \in After
      <3>1. bpc \in Before => Spent
        BY <1>4, <1>9, LateCore, Zenon
      <3>2. ~Spent
        BY <1>1, <2>1 DEF Spent
      <3>. QED BY <3>1, <3>2, Zenon DEF KInv, Shell, KTypes
    <2>3. bpc # "idle" /\ bpc # "scan"
      <3>1. bpc = "scan" => next >= n
        BY <1>9, Zenon DEF KInv, Calm, Exhausted
      <3>. QED BY <1>1, <2>1, <2>2, <3>1 DEF After
    <2>4. next \in Indices(batch)
      BY <1>1, <2>1, <2>2 DEF KInv, Shell, Published, Indices
    <2>5. results[next] = None
      <3>1. ~(next < next)
        BY <1>1
      <3>. QED BY <1>9, <2>3, <2>4, <3>1, Zenon DEF KInv, Calm, Buffer
    <2>6. Buffer'
      BY <1>3, <1>5, <1>9, StillBuffer, Zenon
    <2>7. Sized' /\ Exhausted'
      BY <1>3, <1>4, <1>5, <1>9, <2>2, HoldingFrame, Zenon
    <2>8. Current'
      <3>. SUFFICES ASSUME NEW d \in Cores, wpc'[d] \in Holding PROVE Mine(d)'
        BY Zenon DEF Current
      <3>1. CASE d = c
        <4>1. next < next'
          BY <1>1, <1>3
        <4>. QED BY <1>3, <1>7, <1>8, <2>4, <2>5, <3>1, <4>1, Zenon DEF Mine, Indices, None, Unwritten
      <3>2. CASE d # c
        <4>1. Mine(d) /\ wpc'[d] = wpc[d] /\ widx'[d] = widx[d]
          BY <1>7, <1>8, <1>9, <3>2, Zenon DEF KInv, Calm, Current
        <4>2. widx[d] < next'
          <5>1. widx[d] \in Nat /\ widx[d] < next
            BY <1>1, <4>1, Zenon DEF Mine
          <5>. QED BY <1>1, <1>3, <5>1
        <4>. QED BY <1>3, <4>1, <4>2, Zenon DEF Mine, Indices, None
      <3>. QED BY <3>1, <3>2, Zenon
    <2>9. Disjoint'
      <3>1. ASSUME NEW d \in Cores \ {c}, wpc'[d] \in Holding PROVE widx'[d] # next
        <4>1. widx[d] < next /\ widx[d] \in Nat
          BY <1>1, <1>7, <1>9, <3>1, Zenon DEF KInv, Calm, Current, Mine
        <4>. QED BY <1>1, <1>8, <4>1
      <3>2. \A d, e \in Cores \ {c} :
                wpc'[d] \in Holding /\ wpc'[e] \in Holding /\ widx'[d] = widx'[e] => d = e
        BY <1>7, <1>8, <1>9, Zenon DEF KInv, Calm, Disjoint
      <3>. QED BY <1>8, <3>1, <3>2, Zenon DEF Disjoint
    <2>10. Counted'
      <3>1. \A d \in Cores : wpc'[d] = "count" => wpc[d] = "count" /\ widx'[d] = widx[d]
        BY <1>7, <1>8, Zenon
      <3>2. Tallied \subseteq Tallied'
        BY <1>3, <3>1, Zenon DEF Tallied, Indices, None
      <3>. QED BY <1>3, <1>6, <1>9, <3>2, StillCounted, Zenon
    <2>. QED BY <2>6, <2>7, <2>8, <2>9, <2>10, Zenon DEF Calm
  <1>. QED BY <1>3, <1>6, <1>9, Zenon DEF KInv

\* Loading a word of the closure, or the buffer's address: it is this batch's.
LEMMA LoadKeeps ==
    ASSUME KInv, NEW c \in Cores, LoadFnData(c) \/ LoadFnVtbl(c) \/ LoadResults(c)
    PROVE  KInv'
  <1>1. /\ wpc[c] \in {"loadData", "loadVtbl", "loadPtr"}
        /\ UNCHANGED <<gen, n, next, done, fnData, fnVtbl, resPtr, batch, bpc, results, returned,
                       settled, clear, wn, widx, genSeen>>
    BY Zenon DEF LoadFnData, LoadFnVtbl, LoadResults, poolVars, bspVars, history
  <1>2. /\ next \in Nat /\ done \in Nat /\ wn \in [Cores -> Nat] /\ widx \in [Cores -> Nat]
        /\ wfn \in [Cores -> [1 .. 3 -> Nat]] /\ genSeen \in [APs -> Nat]
        /\ fnData \in Nat /\ fnVtbl \in Nat /\ resPtr \in Nat
        /\ bpc # "idle" => results \in [Indices(batch) -> Cells]
    BY Zenon DEF KInv, Shell, KTypes
  <1>3. PICK k \in 1 .. 3, w \in Nat, to \in {"loadVtbl", "loadPtr", "write"} :
            /\ wpc' = [wpc EXCEPT ![c] = to]
            /\ wfn' = [wfn EXCEPT ![c][k] = w]
            /\ \/ wpc[c] = "loadData" /\ k = 1 /\ to = "loadVtbl" /\ w = fnData
               \/ wpc[c] = "loadVtbl" /\ k = 2 /\ to = "loadPtr" /\ w = fnVtbl
               \/ wpc[c] = "loadPtr" /\ k = 3 /\ to = "write" /\ w = resPtr
    BY <1>2 DEF LoadFnData, LoadFnVtbl, LoadResults
  <1>4. /\ wpc[c] \in Unwritten /\ wpc[c] \in Holding /\ wpc[c] \in Draining \ {"loadN"}
        /\ to \in Unwritten /\ to \in Holding /\ to \in Draining /\ to \in Places
        /\ c = BSP => bpc = "drain"
    BY <1>1, DrainingBsp, Zenon DEF KInv, Unwritten, Holding, Draining, Places
  <1>5. wpc'[c] = to /\ \A d \in Cores \ {c} : wpc'[d] = wpc[d]
    BY <1>3, <1>4, Moves, Zenon DEF KInv
  <1>6. /\ wfn' \in [Cores -> [1 .. 3 -> Nat]]
        /\ wfn'[c][k] = w /\ \A j \in (1 .. 3) \ {k} : wfn'[c][j] = wfn[c][j]
        /\ \A d \in Cores \ {c} : wfn'[d] = wfn[d]
    BY <1>2, <1>3, Zenon
  <1>7. Shell'
    BY <1>1, <1>2, <1>3, <1>4, <1>6, CoreShell, Zenon DEF KInv
  <1>8. next' \in Nat /\ next' >= next
    BY <1>1, <1>2
  <1>9. ASSUME settled PROVE Calm'
    <2>1. bpc \in After
      BY <1>4, <1>9, HoldingAfter, Zenon
    <2>2. w = batch
      BY <1>3, <2>1, Zenon DEF KInv, Shell, Published
    <2>3. Buffer'
      BY <1>1, <1>8, <1>9, StillBuffer, Zenon
    <2>4. Sized' /\ Exhausted'
      BY <1>1, <1>3, <1>4, <1>8, <1>9, <2>1, HoldingFrame, Zenon
    <2>5. Current'
      <3>. SUFFICES ASSUME NEW d \in Cores, wpc'[d] \in Holding PROVE Mine(d)'
        BY Zenon DEF Current
      <3>1. CASE d = c
        <4>1. Mine(c)
          BY <1>4, <1>9, Zenon DEF KInv, Calm, Current
        <4>2. /\ wpc'[c] # "loadData"
              /\ wfn'[c][1] = batch
              /\ wpc'[c] \notin {"loadData", "loadVtbl"} => wfn'[c][2] = batch
              /\ wpc'[c] \in {"write", "count"} => wfn'[c][3] = batch
          BY <1>3, <1>5, <1>6, <2>2, <4>1 DEF Mine
        <4>. QED BY <1>1, <1>4, <1>5, <3>1, <4>1, <4>2, Zenon DEF Mine, Indices, None, Unwritten
      <3>2. CASE d # c
        BY <1>1, <1>5, <1>6, <1>9, <3>2, Zenon DEF KInv, Calm, Current, Mine, Indices, None
      <3>. QED BY <3>1, <3>2, Zenon
    <2>6. Disjoint'
      <3>1. \A d \in Cores : wpc'[d] \in Holding => wpc[d] \in Holding
        BY <1>4, <1>5, Zenon
      <3>. QED BY <1>1, <1>9, <3>1, Zenon DEF KInv, Calm, Disjoint
    <2>7. Counted'
      <3>1. \A d \in Cores : wpc'[d] = "count" => wpc[d] = "count"
        BY <1>4, <1>5, Zenon DEF Unwritten
      <3>2. Tallied \subseteq Tallied'
        BY <1>1, <3>1, Zenon DEF Tallied, Indices, None
      <3>. QED BY <1>1, <1>7, <1>9, <3>2, StillCounted, Zenon
    <2>. QED BY <2>3, <2>4, <2>5, <2>6, <2>7, Zenon DEF Calm
  <1>. QED BY <1>1, <1>7, <1>9, Zenon DEF KInv

\* In a settled pool the result goes to the right slot of a live buffer.
LEMMA WriteInside ==
    ASSUME KInv, settled, NEW c \in Cores, WriteResult(c)
    PROVE  /\ corrupt' = corrupt /\ bpc \in After /\ bpc # "idle" /\ Mine(c)
           /\ results' = [results EXCEPT ![widx[c]] = <<batch, batch, widx[c]>>]
  <1>1. wpc[c] = "write" /\ wpc[c] \in Holding
    BY Zenon DEF WriteResult, Holding
  <1>2. bpc \in After /\ bpc # "idle"
    BY <1>1, HoldingAfter, Zenon DEF After
  <1>3. Mine(c)
    BY <1>1, Zenon DEF KInv, Calm, Current
  <1>4. /\ widx[c] \in Indices(batch)
        /\ wfn[c][1] = batch /\ wfn[c][2] = batch /\ wfn[c][3] = batch
    BY <1>1, <1>3, Zenon DEF Mine
  <1>. QED BY <1>2, <1>3, <1>4, Zenon DEF WriteResult, BufferAlive

LEMMA WriteKeeps == ASSUME KInv, NEW c \in Cores, WriteResult(c) PROVE KInv'
  <1>1. /\ wpc[c] = "write" /\ wpc' = [wpc EXCEPT ![c] = "count"]
        /\ UNCHANGED <<gen, n, next, done, fnData, fnVtbl, resPtr, batch, bpc, returned,
                       settled, clear, wn, widx, wfn, genSeen>>
    BY Zenon DEF WriteResult, poolVars, history
  <1>2. /\ next \in Nat /\ done \in Nat /\ wn \in [Cores -> Nat] /\ widx \in [Cores -> Nat]
        /\ wfn \in [Cores -> [1 .. 3 -> Nat]] /\ genSeen \in [APs -> Nat]
        /\ bpc # "idle" => results \in [Indices(batch) -> Cells]
    BY Zenon DEF KInv, Shell, KTypes
  <1>3. /\ wpc[c] \in Unwritten /\ wpc[c] \in Holding /\ wpc[c] \in Draining \ {"loadN"}
        /\ "count" \in Holding /\ "count" \in Draining /\ "count" \in Places
        /\ c = BSP => bpc = "drain"
    BY <1>1, DrainingBsp, Zenon DEF KInv, Unwritten, Holding, Draining, Places
  <1>4. Shell'
    <2>1. <<wfn[c][1], wfn[c][2], widx[c]>> \in Cells
      <3>1. wfn[c] \in [1 .. 3 -> Nat] /\ widx[c] \in Nat
        BY <1>2, Zenon
      <3>. QED BY <3>1 DEF Cells
    <2>2. \/ results' = results
          \/ results' = [results EXCEPT ![widx[c]] = <<wfn[c][1], wfn[c][2], widx[c]>>]
      BY Zenon DEF WriteResult
    <2>3. bpc # "idle" => results' \in [Indices(batch) -> Cells]
      BY <1>2, <2>1, <2>2, Zenon
    <2>. QED BY <1>1, <1>2, <1>3, <2>3, CoreShell, Zenon DEF KInv
  <1>5. wpc'[c] = "count" /\ \A d \in Cores \ {c} : wpc'[d] = wpc[d]
    BY <1>1, <1>3, Moves, Zenon DEF KInv
  <1>6. next' \in Nat /\ next' >= next
    BY <1>1, <1>2
  <1>7. ASSUME settled PROVE Calm'
    <2>1. /\ bpc \in After /\ bpc # "idle" /\ Mine(c)
          /\ results' = [results EXCEPT ![widx[c]] = <<batch, batch, widx[c]>>]
      BY <1>7, WriteInside, Zenon
    <2>2. /\ widx[c] \in Indices(batch) /\ widx[c] < next
          /\ wfn[c][1] = batch /\ wfn[c][2] = batch /\ wfn[c][3] = batch
          /\ bpc # "scan" => results[widx[c]] = None
      BY <1>1, <1>3, <2>1, Zenon DEF Mine
    <2>3. /\ results'[widx[c]] = <<batch, batch, widx[c]>> /\ results'[widx[c]] # None
          /\ \A i \in Indices(batch) \ {widx[c]} : results'[i] = results[i]
      BY <1>2, <2>1, <2>2, Written, Zenon
    <2>4. Buffer'
      <3>1. \A i \in Indices(batch) : results'[i] = None \/
                (bpc \in After /\ i < next /\ results'[i] = <<batch, batch, i>>)
        BY <1>7, <2>1, <2>2, <2>3, Zenon DEF KInv, Calm, Buffer
      <3>. QED BY <1>1, <3>1, Zenon DEF Buffer, Indices, None
    <2>5. Sized' /\ Exhausted'
      BY <1>1, <1>3, <1>6, <1>7, <2>1, HoldingFrame, Zenon
    <2>6. \A d \in Cores : wpc'[d] \in Holding => wpc[d] \in Holding
      BY <1>3, <1>5, Zenon
    <2>7. Current'
      <3>. SUFFICES ASSUME NEW d \in Cores, wpc'[d] \in Holding PROVE Mine(d)'
        BY Zenon DEF Current
      <3>1. CASE d = c
        BY <1>1, <1>5, <2>2, <2>3, <3>1, Zenon DEF Mine, Indices, None, Unwritten
      <3>2. CASE d # c
        <4>1. Mine(d) /\ wpc'[d] = wpc[d] /\ widx[d] # widx[c]
          BY <1>3, <1>5, <1>7, <2>6, <3>2, Zenon DEF KInv, Calm, Current, Disjoint
        <4>2. results'[widx[d]] = results[widx[d]]
          BY <2>3, <4>1, Zenon DEF Mine
        <4>. QED BY <1>1, <4>1, <4>2, Zenon DEF Mine, Indices, None
      <3>. QED BY <3>1, <3>2, Zenon
    <2>8. Disjoint'
      BY <1>1, <1>7, <2>6, Zenon DEF KInv, Calm, Disjoint
    <2>9. Counted'
      <3>1. ASSUME bpc # "scan", NEW i \in Tallied PROVE i \in Tallied'
        <4>1. i \in Indices(batch) /\ results[i] # None
          BY <3>1, Zenon DEF Tallied
        <4>2. i # widx[c]
          BY <2>2, <3>1, <4>1, Zenon
        <4>3. results'[i] # None
          BY <2>3, <4>1, <4>2, Zenon
        <4>4. \A d \in Cores : wpc'[d] = "count" => widx[d] # i
          BY <1>5, <3>1, <4>2, Zenon DEF Tallied
        <4>. QED BY <1>1, <4>1, <4>3, <4>4, Zenon DEF Tallied, Indices, None
      <3>. QED BY <1>1, <1>4, <1>7, <3>1, StillCounted, Zenon
    <2>. QED BY <2>4, <2>5, <2>7, <2>8, <2>9, Zenon DEF Calm
  <1>. QED BY <1>1, <1>4, <1>7, Zenon DEF KInv

\* A completion is counted once, for a slot that is written.
LEMMA CountKeeps == ASSUME KInv, NEW c \in Cores, CountDone(c) PROVE KInv'
  <1>1. /\ wpc[c] = "count" /\ done' = done + 1 /\ wpc' = [wpc EXCEPT ![c] = "claim"]
        /\ widx' = [widx EXCEPT ![c] = 0] /\ wfn' = [wfn EXCEPT ![c] = <<0, 0, 0>>]
        /\ UNCHANGED <<gen, n, next, fnData, fnVtbl, resPtr, batch, bpc, results, returned,
                       settled, clear, wn, genSeen>>
    BY Zenon DEF CountDone, bspVars, history
  <1>2. /\ next \in Nat /\ done \in Nat /\ wn \in [Cores -> Nat] /\ widx \in [Cores -> Nat]
        /\ wfn \in [Cores -> [1 .. 3 -> Nat]] /\ genSeen \in [APs -> Nat]
        /\ bpc # "idle" => results \in [Indices(batch) -> Cells]
    BY Zenon DEF KInv, Shell, KTypes
  <1>3. /\ wpc[c] \in Holding /\ wpc[c] \notin Unwritten /\ wpc[c] \in Draining \ {"loadN"}
        /\ "claim" \in Draining /\ "claim" \in Places /\ (c = BSP => bpc = "drain")
    BY <1>1, DrainingBsp, Zenon DEF KInv, Unwritten, Holding, Draining, Places
  <1>4. Shell'
    <2>1. done' \in Nat /\ 0 \in Nat /\ <<0, 0, 0>> \in [1 .. 3 -> Nat]
      BY <1>1, <1>2
    <2>2. widx' \in [Cores -> Nat] /\ wfn' \in [Cores -> [1 .. 3 -> Nat]]
      BY <1>1, <1>2, <2>1, Zenon
    <2>. QED BY <1>1, <1>2, <1>3, <2>1, <2>2, CoreShell, Zenon DEF KInv
  <1>5. wpc'[c] = "claim" /\ \A d \in Cores \ {c} : wpc'[d] = wpc[d]
    BY <1>1, <1>3, Moves, Zenon DEF KInv
  <1>6. next' \in Nat /\ next' >= next
    BY <1>1, <1>2
  <1>7. \A d \in Cores : wpc'[d] \in Holding =>
            d # c /\ wpc'[d] = wpc[d] /\ widx'[d] = widx[d] /\ wfn'[d] = wfn[d]
    BY <1>1, <1>2, <1>5, Zenon DEF Holding
  <1>8. ASSUME settled PROVE Calm'
    <2>1. bpc \in After
      BY <1>3, <1>8, HoldingAfter, Zenon
    <2>2. Buffer'
      BY <1>1, <1>6, <1>8, StillBuffer, Zenon
    <2>3. Sized' /\ Exhausted'
      BY <1>1, <1>3, <1>6, <1>8, <2>1, HoldingFrame, Zenon
    <2>4. Current'
      BY <1>1, <1>7, <1>8, Zenon DEF KInv, Calm, Current, Mine, Indices, None
    <2>5. Disjoint'
      BY <1>7, <1>8, Zenon DEF KInv, Calm, Disjoint
    <2>6. Counted'
      <3>. SUFFICES ASSUME bpc \in {"gen", "drain", "wait"} PROVE done' <= Cardinality(Tallied')
        BY <1>1, Zenon DEF Counted
      <3>1. widx[c] \in Indices(batch) /\ results[widx[c]] # None /\ widx[c] \notin Tallied
        BY <1>1, <1>3, <1>8, Zenon DEF KInv, Calm, Current, Mine, Tallied
      <3>2. Tallied \cup {widx[c]} \subseteq Tallied'
        <4>. SUFFICES ASSUME NEW i \in Tallied \cup {widx[c]} PROVE i \in Tallied'
          BY Zenon
        <4>1. i \in Indices(batch) /\ results[i] # None
          BY <3>1, Zenon DEF Tallied
        <4>2. ASSUME NEW d \in Cores, wpc'[d] = "count" PROVE widx'[d] # i
          <5>1. wpc[d] = "count" /\ d # c /\ widx'[d] = widx[d]
            BY <1>7, <4>2, Zenon DEF Holding
          <5>2. widx[d] # widx[c]
            BY <1>3, <1>8, <5>1, Zenon DEF KInv, Calm, Disjoint, Holding
          <5>. QED BY <5>1, <5>2, Zenon DEF Tallied
        <4>. QED BY <1>1, <4>1, <4>2, Zenon DEF Tallied, Indices, None
      <3>3. /\ IsFiniteSet(Tallied) /\ Cardinality(Tallied) \in Nat
            /\ IsFiniteSet(Indices(batch))
        BY TalliedFinite, Zenon DEF KInv
      <3>4. IsFiniteSet(Tallied') /\ Cardinality(Tallied') \in Nat
        <4>1. Tallied' \in SUBSET Indices(batch)
          BY <1>1, Zenon DEF Tallied, Indices
        <4>. QED BY <3>3, <4>1, FS_Subset, FS_CardinalityType, Zenon
      <3>5. Cardinality(Tallied \cup {widx[c]}) = Cardinality(Tallied) + 1
        BY <3>1, <3>3, FS_AddElement, Zenon
      <3>6. Cardinality(Tallied \cup {widx[c]}) <= Cardinality(Tallied')
        BY <3>2, <3>4, FS_Subset, Zenon
      <3>7. done <= Cardinality(Tallied)
        BY <1>8, Zenon DEF KInv, Calm, Counted
      <3>. QED BY <1>1, <1>2, <3>3, <3>4, <3>5, <3>6, <3>7
    <2>. QED BY <2>2, <2>3, <2>4, <2>5, <2>6, Zenon DEF Calm
  <1>. QED BY <1>1, <1>4, <1>8, Zenon DEF KInv
------------------------------------------------------------------------------
\* KInv is inductive.
LEMMA KStep == KInv /\ [Next]_vars => KInv'
  <1>. SUFFICES ASSUME KInv, [Next]_vars PROVE KInv'
    BY Zenon
  <1>1. ASSUME NEW c \in Cores, CoreStep(c) PROVE KInv'
    <2>1. CASE Claim(c)
      <3>1. next \in Nat /\ wn[c] \in Nat
        BY Zenon DEF KInv, Shell, KTypes
      <3>. QED BY <2>1, <3>1, ClaimNoneKeeps, ClaimOneKeeps
    <2>. QED BY <1>1, <2>1, LoadNKeeps, LoadKeeps, WriteKeeps, CountKeeps, Zenon DEF CoreStep
  <1>2. ASSUME BspStep PROVE KInv'
    BY <1>2, StartEmpty, StartCall, PublishKeeps, ResetDoneKeeps, BumpKeeps, WaitKeeps,
       ReexecuteKeeps, RunReturnsKeeps, WatchdogReturnsKeeps, Zenon DEF BspStep
  <1>3. ASSUME UNCHANGED vars PROVE KInv'
    <2>1. UNCHANGED <<gen, n, next, done, fnData, fnVtbl, resPtr, batch, bpc, results, returned,
                      settled, clear, wpc, wn, widx, wfn, genSeen>>
      BY <1>3, Zenon DEF vars, poolVars, bspVars, coreVars, history
    <2>2. KTypes' /\ ClearRight' /\ BspPlace' /\ Published'
      BY <2>1, Unchanging, Zenon DEF KInv, Shell, KTypes, ClearRight, BspPlace, Published, Cells, None
    <2>3. settled => Buffer' /\ Sized' /\ Disjoint'
      BY <2>1, Zenon DEF KInv, Calm, Buffer, Sized, Disjoint, Indices, None
    <2>4. settled => Exhausted'
      BY <2>1, Zenon DEF KInv, Calm, Exhausted, Spent, Quiescent
    <2>5. settled => Current' /\ Counted'
      BY <2>1, Zenon DEF KInv, Calm, Current, Mine, Counted, Tallied, Indices, None
    <2>. QED BY <2>1, <2>2, <2>3, <2>4, <2>5, Zenon DEF KInv, Shell, Calm
  <1>. QED BY <1>1, <1>2, <1>3, PollKeeps, HangKeeps, Zenon DEF Next, Finished

\* A call of run that begins when no AP is in drain_tasks, or right after such a
\* call with the same n, returns task(i) in slot i for every i: with any number of
\* APs, late ones that are still leaving drain_tasks, completions lost to the reset
\* of KPOOL_DONE, and APs that hang or are slow when the watchdog gives up on them.
THEOREM KernelPoolReturnsEveryResult == Spec => []SettledCallIsRight
  <1>1. KInv => SettledCallIsRight
    BY Zenon DEF KInv, Shell, ClearRight, SettledCallIsRight, RightAnswer, Right
  <1>. QED BY <1>1, KInit, KStep, PTL DEF Spec

\* Nor does a core, while that is so, write to a freed buffer, or outside the slots
\* of a live one, through the pointer it loads after its task has run.
THEOREM KernelPoolNoStrayWrite == Spec => SettledWritesInside
  <1>1. ASSUME KInv, [Next]_vars, settled PROVE corrupt' = corrupt
    <2>1. ASSUME NEW c \in Cores, CoreStep(c) PROVE corrupt' = corrupt
      <3>1. CASE WriteResult(c)
        BY <1>1, <3>1, WriteInside, Zenon
      <3>. QED BY <2>1, <3>1, Zenon DEF CoreStep, LoadN, Claim, LoadFnData, LoadFnVtbl, LoadResults,
                                        CountDone
    <2>2. BspStep => corrupt' = corrupt
      BY Zenon DEF BspStep, StartRun, StoreFnData, StoreFnVtbl, StoreResults, StoreN, ResetNext,
                   ResetDone, Publish, BumpGen, BspDrained, RunReturns, Watchdog, Reexecute,
                   WatchdogReturns
    <2>. QED BY <1>1, <2>1, <2>2, Zenon DEF Next, Poll, Hang, Finished, vars
  <1>2. KInv /\ [Next]_vars => [settled => corrupt' = corrupt]_vars
    BY <1>1, Zenon
  <1>. QED BY <1>2, KInit, KStep, PTL DEF Spec, SettledWritesInside
==============================================================================
