------------------------------ MODULE VirtioBlk ------------------------------
(***************************************************************************)
(* The virtio block driver (kernel/src/block.rs) on one virtqueue.  A call  *)
(* of read_blocks or write_blocks stages up to `batch` requests in DMA      *)
(* slots, publishes them, notifies the device once, drains the completions  *)
(* and checks every status byte; read_block, write_block, and the others    *)
(* when there is no batch region, use one scratch slot per request.  The    *)
(* driver runs under one lock; the device runs concurrently with it.        *)
(***************************************************************************)
EXTENDS VirtQueue, FiniteSetsExt

CONSTANTS
    Capacity,    \* sectors on the disk
    Values,      \* contents of a sector
    Junk,        \* contents of a buffer nobody has filled
    Blank,       \* contents of a sector never written
    Chunks,      \* what callers write: sequences of values
    BatchSlots,  \* BATCH_SLOTS
    MaxCalls     \* bound on calls

ASSUME VirtioBlkAssumption ==
    /\ Capacity \in Nat \ {0} /\ BatchSlots \in Nat \ {0} /\ MaxCalls \in Nat
    /\ Blank \in Values /\ Junk \notin Values
    /\ \A c \in Chunks : c # <<>> /\ \A i \in DOMAIN c : c[i] \in Values

VARIABLES
    batch,   \* requests per batch, 0 if the batch region was not allocated
    mem,     \* DMA slots: [op, lba, data, status]
    disk,
    call,    \* [op, start, data, single]: the arguments; data is the caller's buffer
    done,    \* blocks finished in earlier batches
    count,   \* requests of this batch
    sent,    \* of which published
    freed,   \* of which reclaimed
    pc, ret,
    calls    \* made so far

blkVars == <<batch, mem, disk, call, done, count, sent, freed, pc, ret, calls>>
vars == <<queueVars, blkVars>>

Lbas == 0 .. Capacity - 1

\* The scratch page's only slot comes after those of the batch region.
Scratch == BatchSlots
Slots == 0 .. BatchSlots

\* The three buffers of a request.
Bufs(s) == << <<s, "header">>, <<s, "data">>, <<s, "status">> >>

Poison == 255
------------------------------------------------------------------------------
\* VirtioBlk::init: a batch is bounded by the slots and by a third of the queue.
Init ==
    /\ QueueInit
    /\ batch \in {0, Min({BatchSlots, Max({Size \div 3, 1})})}
    /\ mem = [s \in Slots |-> [op |-> "in", lba |-> 0, data |-> Junk, status |-> 0]]
    /\ disk = [b \in Lbas |-> Blank]
    /\ call = [op |-> "in", start |-> 0, data |-> <<>>, single |-> TRUE]
    /\ done = 0 /\ count = 0 /\ sent = 0 /\ freed = 0
    /\ pc = "idle" /\ ret = "none" /\ calls = 0

\* read_block, write_block (single), read_blocks and write_blocks: the range check.
Call(op, start, data, single) ==
    /\ pc = "idle" /\ calls < MaxCalls
    /\ calls' = calls + 1
    /\ call' = [op |-> op, start |-> start, data |-> data, single |-> single]
    /\ done' = 0
    /\ IF start + Len(data) > Capacity
       THEN ret' = "range" /\ pc' = "idle"
       ELSE ret' = "none" /\ pc' = "stage"
    /\ UNCHANGED <<queueVars, batch, mem, disk, count, sent, freed>>

OneByOne == call.single \/ batch = 0

Dma(s) == IF OneByOne THEN Scratch ELSE s

\* Mutant: every batch of a call starts at the call's first sector.
StageFirst ==
    /\ pc = "stage"
    /\ count' = IF OneByOne THEN 1 ELSE Min({batch, Len(call.data) - done})
    /\ mem' = [s \in Slots |->
           IF \E k \in 0 .. count' - 1 : Dma(k) = s
           THEN LET k == CHOOSE j \in 0 .. count' - 1 : Dma(j) = s
                IN  [op |-> call.op, lba |-> call.start + k, status |-> Poison,
                     data |-> IF call.op = "out" THEN call.data[done + k + 1] ELSE mem[s].data]
           ELSE mem[s]]
    /\ sent' = 0 /\ freed' = 0 /\ pc' = "build"
    /\ UNCHANGED <<queueVars, batch, disk, call, done, ret, calls>>

\* Header, poisoned status and, for a write, the data of each request of a batch.
Stage ==
    /\ pc = "stage"
    /\ count' = IF OneByOne THEN 1 ELSE Min({batch, Len(call.data) - done})
    /\ mem' = [s \in Slots |->
           IF \E k \in 0 .. count' - 1 : Dma(k) = s
           THEN LET k == CHOOSE j \in 0 .. count' - 1 : Dma(j) = s
                IN  [op |-> call.op, lba |-> call.start + done + k, status |-> Poison,
                     data |-> IF call.op = "out" THEN call.data[done + k + 1] ELSE mem[s].data]
           ELSE mem[s]]
    /\ sent' = 0 /\ freed' = 0 /\ pc' = "build"
    /\ UNCHANGED <<queueVars, batch, disk, call, done, ret, calls>>

\* add: on exhausted descriptors the call fails, whatever it has published.
BuildRequest ==
    /\ pc = "build"
    /\ IF HasRoom(3)
       THEN Build(Bufs(Dma(sent))) /\ pc' = "publish" /\ ret' = ret
       ELSE UNCHANGED queueVars /\ pc' = "idle" /\ ret' = "fault"
    /\ UNCHANGED <<batch, mem, disk, call, done, count, sent, freed, calls>>

PublishRequest ==
    /\ pc = "publish"
    /\ Publish
    /\ sent' = sent + 1
    /\ pc' = IF sent' = count THEN "kick" ELSE "build"
    /\ UNCHANGED <<batch, mem, disk, call, done, count, freed, ret, calls>>

\* Mutant: the notification is left out.
NotifyNot ==
    /\ pc = "kick"
    /\ pc' = "drain"
    /\ UNCHANGED <<queueVars, batch, mem, disk, call, done, count, sent, freed, ret, calls>>

Notify ==
    /\ pc = "kick"
    /\ Kick
    /\ pc' = "drain"
    /\ UNCHANGED <<batch, mem, disk, call, done, count, sent, freed, ret, calls>>

\* Mutant: the first completion ends the wait.
DrainOnce ==
    /\ pc = "drain"
    /\ Reclaim
    /\ freed' = freed + 1
    /\ pc' = "collect"
    /\ UNCHANGED <<batch, mem, disk, call, done, count, sent, ret, calls>>

\* run_batch's loop over poll_drain, and the wait of submit_and_wait.
Drain ==
    /\ pc = "drain"
    /\ Reclaim
    /\ freed' = freed + 1
    /\ pc' = IF freed' >= count THEN "collect" ELSE "drain"
    /\ UNCHANGED <<batch, mem, disk, call, done, count, sent, ret, calls>>

\* All status bytes are checked; a read copies its slots to the caller's buffer.
Collect ==
    /\ pc = "collect"
    /\ IF \E k \in 0 .. count - 1 : mem[Dma(k)].status # 0
       THEN ret' = "fault" /\ pc' = "idle" /\ UNCHANGED <<call, done>>
       ELSE /\ call' = IF call.op = "out" THEN call ELSE
                   [call EXCEPT !.data = [i \in DOMAIN @ |->
                       IF i \in done + 1 .. done + count THEN mem[Dma(i - done - 1)].data ELSE @[i]]]
            /\ done' = done + count
            /\ IF done' = Len(call.data) THEN ret' = "ok" /\ pc' = "idle"
                                         ELSE ret' = ret /\ pc' = "stage"
    /\ UNCHANGED <<queueVars, batch, mem, disk, count, sent, freed, calls>>

\* The device carries out the request its chain names and returns the chain.  A
\* request that fails sets its status and may or may not have had its effect.
DeviceDoes(head, status, effect) ==
    LET addr == [i \in 1 .. Len(Chain(head)) |-> table.desc[Chain(head)[i]].addr]
        req  == mem[addr[1][1]]
        effective == status = 0 \/ effect
    IN  /\ DeviceReturn(head)
        /\ disk' = IF req.op = "out" /\ effective
                   THEN [disk EXCEPT ![req.lba] = mem[addr[2][1]].data] ELSE disk
        /\ mem' = [s \in Slots |->
               [mem[s] EXCEPT
                   !.data = IF s = addr[2][1] /\ req.op = "in" /\ effective THEN disk[req.lba] ELSE @,
                   !.status = IF s = addr[3][1] THEN status ELSE @]]
        /\ UNCHANGED <<batch, call, done, count, sent, freed, pc, ret, calls>>

DeviceStep ==
    \/ DeviceTake /\ UNCHANGED blkVars
    \/ DeviceSleep /\ UNCHANGED blkVars
    \/ \E head \in device.working, status \in {0, 1}, effect \in BOOLEAN :
           DeviceDoes(head, status, effect)

DriverStep ==
    \/ Stage \/ BuildRequest \/ PublishRequest
    \/ Notify \/ Drain \/ Collect

Next ==
    \/ \E start \in Lbas, data \in Chunks : Call("out", start, data, FALSE)
    \/ \E start \in 0 .. Capacity, c \in Chunks : Call("out", start, <<c[1]>>, TRUE)
    \/ \E start \in Lbas, c \in Chunks :
           Call("in", start, [i \in DOMAIN c |-> Junk], FALSE)
    \/ \E start \in 0 .. Capacity : Call("in", start, <<Junk>>, TRUE)
    \/ DriverStep
    \/ DeviceStep

\* The driver spins until it is answered, and the device serves what it was
\* notified of.
Spec == Init /\ [][Next]_vars /\ WF_vars(DriverStep) /\ WF_vars(DeviceStep)
------------------------------------------------------------------------------
\* Every descriptor is on the free list or in exactly one chain the device may
\* still use: free_chain and alloc_desc neither lose one nor hand one out twice.
DescriptorsOwnedOnce ==
    LET building == IF pc = "publish" THEN {ring.avail[Slot(ring.availIdx)]} ELSE {}
        heads    == Outstanding \cup building
    IN  /\ Cardinality(heads) = OutstandingCount + Cardinality(building)
        /\ Cardinality(FreeSet) = table.num_free
        /\ \A h \in heads : Len(Chain(h)) = 3 /\ Cardinality(ChainSet(h)) = 3
                            /\ ChainSet(h) \cap FreeSet = {}
        /\ \A g, h \in heads : g # h => ChainSet(g) \cap ChainSet(h) = {}
        /\ table.num_free + 3 * Cardinality(heads) = Size

\* A call that returns Ok did all it was asked: a write is on the disk in every
\* block, a read returns what the disk holds.
OkMeansDone ==
    pc = "idle" /\ ret = "ok" =>
        \A i \in DOMAIN call.data : disk[call.start + i - 1] = call.data[i]

\* Every call returns while the device answers.
CallReturns == pc # "idle" ~> pc = "idle"
==============================================================================
