----------------------------- MODULE FencedReplica -----------------------------
(***************************************************************************)
(* Gossiping replicas with causally fenced rollback                         *)
(* (dominion-core/src/consistency.rs).                                      *)
(*                                                                          *)
(* A replica maps keys to cells.  A cell is the dominating write (stamp and *)
(* content hash; the hash stands for the value) with the key's fence; a     *)
(* tombstoned cell has no live value.  Callers write with a stamp of their  *)
(* own choosing, roll a key back to a good value or to nothing, pin a key,  *)
(* and gossip whole encoded states over a network that loses, delays,       *)
(* reorders and truncates them.  The last is merge_encoded's early return   *)
(* on a short payload, which leaves the keys decoded so far merged.         *)
(***************************************************************************)
EXTENDS Hlc, FiniteSets

CONSTANTS
    Replicas,
    Keys,      \* naturals, ordered as the BTreeMap orders the names
    Values,    \* positive naturals, ordered as their content hashes are
    Stamps,    \* stamps callers write at
    Walls,     \* clock readings callers pass to a rollback
    Pinnable,  \* replicas whose owner may pin keys
    MaxOps,    \* bound on writes and rollbacks
    MaxNet,    \* bound on messages in flight
    Absent     \* no cell

ASSUME FencedAssumption ==
    /\ Keys \subseteq Nat
    /\ Values \subseteq Nat \ {0}
    /\ Stamps \subseteq Timestamp
    /\ Walls \subseteq Nat
    /\ Pinnable \subseteq Replicas
    /\ MaxOps \in Nat /\ MaxNet \in Nat
    /\ Absent \notin [stamp : Timestamp, vhash : Values \cup {0}, fence : Timestamp,
                      tombstoned : BOOLEAN]

VARIABLES
    cells,      \* replica -> key -> cell
    pinned,     \* replica -> set of keys
    net,        \* messages in flight
    ops,        \* writes and rollbacks so far
    abandoned,  \* history: the <<key, stamp>> a replica has rolled back
    wrapped     \* history: a rollback's logical counter has wrapped around

vars == <<cells, pinned, net, ops, abandoned, wrapped>>

\* A tombstone carries no value: its hash is Hash256::ZERO.
Cell ==
    {c \in [stamp : Timestamp, vhash : Values \cup {0}, fence : Timestamp,
            tombstoned : BOOLEAN] : c.tombstoned <=> c.vhash = 0}

States == [Keys -> Cell \cup {Absent}]

Messages == [to : Replicas, state : States]

TypeOK ==
    /\ cells \in [Replicas -> States]
    /\ pinned \in [Replicas -> SUBSET Keys]
    /\ net \subseteq Messages
    /\ ops \in Nat
    /\ abandoned \in [Replicas -> SUBSET (Keys \X Timestamp)]
    /\ wrapped \in BOOLEAN

FenceOf(c) == IF c = Absent THEN Zero ELSE c.fence

\* The write of a cell is still a candidate for the live value at this fence.
Live(c, fence) == c # Absent /\ ~c.tombstoned /\ Before(fence, c.stamp)

\* Comparison of (stamp, vhash) pairs.
Dominates(c, d) ==
    \/ Before(d.stamp, c.stamp)
    \/ d.stamp = c.stamp /\ d.vhash < c.vhash

Tombstone(fence) ==
    [stamp |-> fence, vhash |-> 0, fence |-> fence, tombstoned |-> TRUE]

\* Mutant: equal stamps keep the local value.
MergeOneKeepTie(c, in, isPinned) ==
    LET fence == IF isPinned THEN FenceOf(c) ELSE Later(FenceOf(c), in.fence)
        best  == IF Live(in, fence) /\ (Live(c, fence) => Before(c.stamp, in.stamp))
                 THEN in ELSE c
    IN  IF Live(best, fence) THEN [best EXCEPT !.fence = fence] ELSE Tombstone(fence)

\* Mutant: a pinned key takes inbound fences.
MergeOnePinnedFence(c, in, isPinned) ==
    LET fence == Later(FenceOf(c), in.fence)
        best  == IF Live(in, fence) /\ (Live(c, fence) => Dominates(in, c)) THEN in ELSE c
    IN  IF Live(best, fence) THEN [best EXCEPT !.fence = fence] ELSE Tombstone(fence)

\* merge_one: the local cell is considered first, the inbound one replaces it
\* when it dominates.
MergeOne(c, in, isPinned) ==
    LET fence == IF isPinned THEN FenceOf(c) ELSE Later(FenceOf(c), in.fence)
        best  == IF Live(in, fence) /\ (Live(c, fence) => Dominates(in, c)) THEN in ELSE c
    IN  IF Live(best, fence) THEN [best EXCEPT !.fence = fence] ELSE Tombstone(fence)

\* merge_encoded over the keys that could be decoded; encode leaves out keys
\* without a cell.
Merge(r, in, decoded) ==
    [k \in Keys |-> IF k \in decoded /\ in[k] # Absent
                    THEN MergeOne(cells[r][k], in[k], k \in pinned[r])
                    ELSE cells[r][k]]
--------------------------------------------------------------------------------
Init ==
    /\ cells = [r \in Replicas |-> [k \in Keys |-> Absent]]
    /\ pinned = [r \in Replicas |-> {}]
    /\ net = {}
    /\ ops = 0
    /\ abandoned = [r \in Replicas |-> {}]
    /\ wrapped = FALSE

Pin(r, k) ==
    /\ r \in Pinnable
    /\ pinned' = [pinned EXCEPT ![r] = @ \cup {k}]
    /\ UNCHANGED <<cells, net, ops, abandoned, wrapped>>

Write(r, k, cell) ==
    /\ ops < MaxOps
    /\ ops' = ops + 1
    /\ cells' = [cells EXCEPT ![r][k] = cell]
    /\ UNCHANGED <<pinned, net>>

\* put: refused with BelowFence unless the stamp is above the fence.
Put(r, k, v, stamp) ==
    LET fence == FenceOf(cells[r][k])
    IN  /\ Before(fence, stamp)
        /\ Write(r, k, [stamp |-> stamp, vhash |-> v, fence |-> fence,
                        tombstoned |-> FALSE])
        /\ UNCHANGED <<abandoned, wrapped>>

\* The counter of a stamp, a u32, plus one: `+` wraps in a release build (a build with
\* overflow checks stops there instead).
Bump(logical) == (logical + 1) % (MaxLogical + 1)

\* A rollback at this stamp leaves the write of the cell behind.
Abandon(r, k, stamp) ==
    /\ abandoned' = [abandoned EXCEPT ![r] = @ \cup {<<k, cells[r][k].stamp>>}]
    /\ wrapped' = (wrapped \/ stamp.logical >= MaxLogical)

\* Mutant: the good value is restored without raising the fence.
RollbackKeyNoFence(r, k, good, now) ==
    LET cell == cells[r][k]
        new_fence == Later(cell.stamp, cell.fence)
        restored == [wall |-> MaxOf(new_fence.wall, now), logical |-> Bump(new_fence.logical)]
    IN  /\ k \notin pinned[r]
        /\ cell # Absent
        /\ Write(r, k, [stamp |-> restored, vhash |-> good, fence |-> cell.fence,
                        tombstoned |-> FALSE])
        /\ Abandon(r, k, new_fence)

\* rollback_key: refused for a pinned key (Pinned) and for one with no cell
\* (NoHistory).
RollbackKey(r, k, good, now) ==
    LET cell == cells[r][k]
        new_fence == Later(cell.stamp, cell.fence)
        restored == [wall |-> MaxOf(new_fence.wall, now), logical |-> Bump(new_fence.logical)]
    IN  /\ k \notin pinned[r]
        /\ cell # Absent
        /\ Write(r, k, [stamp |-> restored, vhash |-> good, fence |-> new_fence,
                        tombstoned |-> FALSE])
        /\ Abandon(r, k, new_fence)

\* quarantine_key: the fence passes the bad write and the key is left empty.
QuarantineKey(r, k, now) ==
    LET cell == cells[r][k]
        new_fence == [wall |-> MaxOf(MaxOf(cell.stamp.wall, cell.fence.wall), now),
                      logical |-> Bump(cell.stamp.logical)]
    IN  /\ k \notin pinned[r]
        /\ cell # Absent
        /\ Write(r, k, Tombstone(new_fence))
        /\ Abandon(r, k, cell.stamp)

\* encode and send; the network holds the message until it is delivered.
Gossip(r, to) ==
    /\ r # to
    /\ Cardinality(net) < MaxNet
    /\ net' = net \cup {[to |-> to, state |-> cells[r]]}
    /\ UNCHANGED <<cells, pinned, ops, abandoned, wrapped>>

\* merge_encoded of a whole payload.
Deliver(m) ==
    /\ m \in net
    /\ net' = net \ {m}
    /\ cells' = [cells EXCEPT ![m.to] = Merge(m.to, m.state, Keys)]
    /\ UNCHANGED <<pinned, ops, abandoned, wrapped>>

\* merge_encoded returns false at the key where the payload ends; the keys
\* before it stay merged.  Ending at the first key is also a lost message.
DeliverTruncated(m, end) ==
    /\ m \in net
    /\ net' = net \ {m}
    /\ cells' = [cells EXCEPT ![m.to] = Merge(m.to, m.state, {k \in Keys : k < end})]
    /\ UNCHANGED <<pinned, ops, abandoned, wrapped>>

CallerStep(r, k) ==
    \/ Pin(r, k)
    \/ \E v \in Values, stamp \in Stamps : Put(r, k, v, stamp)
    \/ \E v \in Values, now \in Walls : RollbackKey(r, k, v, now)
    \/ \E now \in Walls : QuarantineKey(r, k, now)

Next ==
    \/ \E r \in Replicas, k \in Keys : CallerStep(r, k)
    \/ \E r, to \in Replicas : Gossip(r, to)
    \/ \E m \in net : Deliver(m)
    \/ \E m \in net, end \in Keys : DeliverTruncated(m, end)

Spec == Init /\ [][Next]_vars

\* Anti-entropy keeps gossiping every replica's state to every other one, every
\* message leaves the network within its delay, and a network that loses
\* messages still delivers some of those sent on a link.
Fairness ==
    /\ WF_vars(\E m \in net : \/ Deliver(m)
                              \/ \E end \in Keys : DeliverTruncated(m, end))
    /\ \A r, to \in Replicas :
        /\ SF_vars(Gossip(r, to))
        /\ SF_vars(\E m \in net : m.to = to /\ m.state = cells[r] /\ Deliver(m))

FairSpec == Spec /\ Fairness
--------------------------------------------------------------------------------
WellFormed(c) ==
    IF c.tombstoned THEN c.stamp = c.fence ELSE Before(c.fence, c.stamp)

\* A live value is always stamped strictly above its key's fence, and a
\* tombstone sits exactly on it, in every replica and in every message: what
\* put, rollback_key and quarantine_key each assume about the cell they find.
\* It holds until the counter of a rollback wraps around.
LiveAboveFence ==
    /\ \A r \in Replicas, k \in Keys :
           cells[r][k] # Absent => WellFormed(cells[r][k])
    /\ \A m \in net, k \in Keys :
           m.state[k] # Absent => WellFormed(m.state[k])

\* A write that a replica rolled back or quarantined never becomes live at that
\* replica again, whatever lagging peers, late messages and local callers do
\* afterwards, until the counter of a rollback wraps around.
NoResurrection ==
    ~wrapped => \A r \in Replicas : \A ab \in abandoned[r] :
        LET c == cells[r][ab[1]]
        IN  c # Absent /\ (c.stamp = ab[2] => c.tombstoned)

\* No step of any caller or of the merge ever lowers a fence, until the counter of
\* a rollback wraps around.
FenceMonotone ==
    [][~wrapped' => \A r \in Replicas, k \in Keys :
           AtMost(FenceOf(cells[r][k]), FenceOf(cells'[r][k]))]_vars

\* A pinned key is never rolled back at the replica that pinned it: neither a
\* local rollback nor gossip moves its fence or empties it once it has a value.
PinnedNeverRolledBack ==
    [][\A r \in Replicas : \A k \in pinned[r] :
           /\ FenceOf(cells'[r][k]) = FenceOf(cells[r][k])
           /\ Live(cells[r][k], FenceOf(cells[r][k]))
                => Live(cells'[r][k], FenceOf(cells'[r][k]))]_vars

\* Two messages for the same replica can be merged in either order, and either
\* one twice, with the same result, for every key the replica has not pinned.
MergeOrderIrrelevant ==
    \A m1, m2 \in net : m1.to = m2.to =>
        \A k \in Keys \ pinned[m1.to] :
            LET c == cells[m1.to][k]
                a == m1.state[k]
                b == m2.state[k]
            IN  a # Absent /\ b # Absent =>
                    LET ab == MergeOne(MergeOne(c, a, FALSE), b, FALSE)
                    IN  /\ ab = MergeOne(MergeOne(c, b, FALSE), a, FALSE)
                        /\ ab = MergeOne(ab, a, FALSE)

Agree(k) == \A r, s \in Replicas : cells[r][k] = cells[s][k]

\* Once callers stop writing, replicas that keep gossiping over the lossy
\* network end up with the same cell for every key that nobody pinned.
Converges ==
    <>[](\A k \in Keys : (\A r \in Replicas : k \notin pinned[r]) => Agree(k))
================================================================================
