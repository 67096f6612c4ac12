------------------------------ MODULE VirtQueue ------------------------------
(***************************************************************************)
(* A split virtqueue (kernel/src/virtio.rs): descriptor table with its free *)
(* list, available ring, used ring.  The driver builds chains, publishes    *)
(* them and reclaims what the device hands back; the device, concurrently,  *)
(* takes published chains in order and returns them in any order.  A buffer *)
(* is known by its address alone.  Ring indices wrap at IdxWrap (2^16).     *)
(***************************************************************************)
EXTENDS Integers, Sequences, FiniteSets

CONSTANTS Size, IdxWrap, NoAddr

ASSUME VirtQueueAssumption ==
    /\ Size \in Nat \ {0}
    /\ IdxWrap \in Nat \ {0}
    /\ IdxWrap % Size = 0

VARIABLES
    table,     \* [desc, free_head, num_free]
    ring,      \* [avail, availIdx, used, usedIdx], shared with the device
    lastUsed,  \* last_used_idx
    device     \* [seen, working, notified]: the device's side

queueVars == <<table, ring, lastUsed, device>>

Ids == 0 .. Size - 1

Plus(idx, n) == (idx + n) % IdxWrap

Slot(idx) == idx % Size

\* How far index b is ahead of index a.
Ahead(a, b) == (b - a) % IdxWrap

\* VirtQueue::new
QueueInit ==
    /\ table = [desc |-> [i \in Ids |-> [addr |-> NoAddr, more |-> FALSE,
                                         next |-> IF i + 1 < Size THEN i + 1 ELSE 0]],
                free_head |-> 0, num_free |-> Size]
    /\ ring = [avail |-> [i \in Ids |-> 0], availIdx |-> 0,
               used |-> [i \in Ids |-> 0], usedIdx |-> 0]
    /\ lastUsed = 0
    /\ device = [seen |-> 0, working |-> {}, notified |-> FALSE]

\* The first n descriptors of the free list.
FreeList(n) ==
    LET nth[k \in 0 .. Size] == IF k = 0 THEN table.free_head ELSE table.desc[nth[k - 1]].next
    IN  [i \in 1 .. n |-> nth[i - 1]]

HasRoom(n) == n <= table.num_free

\* submit up to the ring slot: a chain is taken off the free list and filled in.
Allocated(addrs) ==
    LET chain == FreeList(Len(addrs))
        n     == Len(addrs)
    IN  [desc |-> [d \in Ids |->
            IF \E i \in 1 .. n : chain[i] = d
            THEN LET i == CHOOSE j \in 1 .. n : chain[j] = d
                 IN  [addr |-> addrs[i], more |-> i < n, next |-> IF i < n THEN chain[i + 1] ELSE 0]
            ELSE table.desc[d]],
         free_head |-> table.desc[chain[n]].next,
         num_free  |-> table.num_free - n]

Build(addrs) ==
    /\ table' = Allocated(addrs)
    /\ ring' = [ring EXCEPT !.avail[Slot(ring.availIdx)] = FreeList(1)[1]]
    /\ UNCHANGED <<lastUsed, device>>

\* After the fence: the index the device watches.
Publish ==
    /\ ring' = [ring EXCEPT !.availIdx = Plus(@, 1)]
    /\ UNCHANGED <<table, lastUsed, device>>

Kick ==
    /\ device' = [device EXCEPT !.notified = TRUE]
    /\ UNCHANGED <<table, ring, lastUsed>>

\* The descriptors of the chain at head, followed by flags.
ChainIn(desc, head) ==
    LET at[k \in Nat] == IF k = 0 THEN head ELSE desc[at[k - 1]].next
        n == CHOOSE k \in 1 .. Size :
                 /\ \A i \in 1 .. k - 1 : desc[at[i - 1]].more
                 /\ desc[at[k - 1]].more => k = Size
    IN  [i \in 1 .. n |-> at[i - 1]]

Chain(head) == ChainIn(table.desc, head)

\* Mutant: only the head goes back.
FreedHead(t, head) ==
    [desc |-> [t.desc EXCEPT ![head].next = t.free_head], free_head |-> head,
     num_free |-> t.num_free + 1]

\* free_chain: each descriptor of the chain in turn becomes the free list's head.
Freed(t, head) ==
    LET chain == ChainIn(t.desc, head)
        n     == Len(chain)
        Pushed(d, i) == [t.desc[d] EXCEPT !.next = IF i = 1 THEN t.free_head ELSE chain[i - 1]]
    IN  [desc      |-> [d \in Ids |-> IF \E i \in 1 .. n : chain[i] = d
                                     THEN Pushed(d, CHOOSE i \in 1 .. n : chain[i] = d)
                                     ELSE t.desc[d]],
         free_head |-> chain[n],
         num_free  |-> t.num_free + n]

Returned == Ahead(lastUsed, ring.usedIdx)

\* poll, one turn of poll_drain, the end of submit_and_wait: the next entry of the
\* used ring.  An entry that names no descriptor is passed over; DeviceReturn writes
\* none.
Reclaim ==
    /\ Returned > 0
    /\ LET id == ring.used[Slot(lastUsed)]
       IN  table' = IF id \in Ids THEN Freed(table, id) ELSE table
    /\ lastUsed' = Plus(lastUsed, 1)
    /\ UNCHANGED <<ring, device>>
------------------------------------------------------------------------------
\* The device.  Once notified it takes chains until it finds none, then sleeps.
DeviceTake ==
    /\ device.notified /\ device.seen # ring.availIdx
    /\ device' = [device EXCEPT !.seen = Plus(@, 1),
                                !.working = @ \cup {ring.avail[Slot(device.seen)]}]
    /\ UNCHANGED <<table, ring, lastUsed>>

DeviceSleep ==
    /\ device.notified /\ device.seen = ring.availIdx
    /\ device' = [device EXCEPT !.notified = FALSE]
    /\ UNCHANGED <<table, ring, lastUsed>>

DeviceReturn(head) ==
    /\ head \in device.working
    /\ device' = [device EXCEPT !.working = @ \ {head}]
    /\ ring' = [ring EXCEPT !.used[Slot(ring.usedIdx)] = head, !.usedIdx = Plus(@, 1)]
    /\ UNCHANGED <<table, lastUsed>>
------------------------------------------------------------------------------
\* Heads of chains the driver has published and not reclaimed.
Outstanding ==
    device.working
    \cup {ring.avail[Slot(Plus(device.seen, k))] : k \in 0 .. Ahead(device.seen, ring.availIdx) - 1}
    \cup {ring.used[Slot(Plus(lastUsed, k))] : k \in 0 .. Returned - 1}

OutstandingCount ==
    Cardinality(device.working) + Ahead(device.seen, ring.availIdx) + Returned

ChainSet(head) == {Chain(head)[i] : i \in 1 .. Len(Chain(head))}

FreeSet == {FreeList(table.num_free)[i] : i \in 1 .. table.num_free}
==============================================================================
