------------------------------- MODULE Journal -------------------------------
(***************************************************************************)
(* The crash-consistent root journal (dominion-core/src/journal.rs).        *)
(*                                                                          *)
(* Block 0 of the device holds the superblock: an active-slot pointer and   *)
(* two root slots.  Journal::commit reads it, writes the new record into    *)
(* the inactive slot, writes the block, flips the pointer and writes the    *)
(* block again.  A block is one 512-byte sector, so a single write is       *)
(* atomic: it happens or it does not.  Power can fail between any two       *)
(* writes and either write may be refused by the device.                    *)
(***************************************************************************)
EXTENDS Integers

CONSTANTS
    Roots,    \* content roots
    Keys,     \* root-signing keys
    MaxGen,   \* bound on the generation counter (a u64 in the code)
    None

ASSUME JournalAssumption ==
    /\ MaxGen \in Nat
    /\ None \notin [root : Roots, generation : Nat, signedBy : Keys]
    /\ None \notin [active : {0, 1},
                    slots : [{0, 1} -> [root : Roots, generation : Nat, signedBy : Keys]
                                           \cup {None}]]
    /\ None \notin [root : Roots, key : Keys]
    /\ None \notin [value : [root : Roots, key : Keys], generation : Nat]

VARIABLES
    disk,      \* block 0: a Superblock, or None when it holds no valid one
    phase,     \* where the commit in flight is
    sb,        \* the commit's in-memory superblock
    request,   \* the commit's arguments
    acked      \* the record of the last commit that returned Ok, or None

vars == <<disk, phase, sb, request, acked>>

Slot == {0, 1}

\* A record's signature covers root and generation under one key; it is
\* represented by that key.
Records == [root : Roots, generation : Nat, signedBy : Keys]

Superblocks == [active : Slot, slots : [Slot -> Records \cup {None}]]

Phases == {"idle", "slot", "flip", "return"}

TypeOK ==
    /\ disk \in Superblocks \cup {None}
    /\ phase \in Phases
    /\ sb \in Superblocks \cup {None}
    /\ request \in [root : Roots, key : Keys] \cup {None}
    /\ acked \in Records \cup {None}

ActiveRecord(s) == s.slots[s.active]

GenerationOf(rec) == IF rec = None THEN 0 ELSE rec.generation

Sign(r, g, k) == [root |-> r, generation |-> g, signedBy |-> k]

Verify(rec, k) == rec.signedBy = k

\* Journal::load and Journal::load_after, as functions of what is on disk.
Load(k) ==
    CASE disk = None                   -> "NotFormatted"
      [] disk # None /\ ActiveRecord(disk) = None -> "Empty"
      [] OTHER -> IF Verify(ActiveRecord(disk), k) THEN "Record" ELSE "Rollback"

LoadAfter(k, lastTrustedGen) ==
    IF Load(k) = "Record" /\ ActiveRecord(disk).generation <= lastTrustedGen
    THEN "Rollback"
    ELSE Load(k)
------------------------------------------------------------------------------
Init ==
    /\ disk = None
    /\ phase = "idle"
    /\ sb = None
    /\ request = None
    /\ acked = None

\* Journal::format: one write of an empty superblock.
Format ==
    /\ phase = "idle"
    /\ disk' = [active |-> 0, slots |-> [i \in Slot |-> None]]
    /\ acked' = None
    /\ UNCHANGED <<phase, sb, request>>

\* Mutant: the generation is not advanced.
BeginCommitSameGen(r, k) ==
    /\ phase = "idle"
    /\ disk # None
    /\ sb' = [disk EXCEPT !.slots[1 - disk.active] =
                  Sign(r, GenerationOf(ActiveRecord(disk)), k)]
    /\ request' = [root |-> r, key |-> k]
    /\ phase' = "slot"
    /\ UNCHANGED <<disk, acked>>

\* Journal::commit up to its first write: read the superblock (NotFormatted is
\* an early return), and prepare the new record in the inactive slot.
BeginCommit(r, k) ==
    /\ phase = "idle"
    /\ disk # None
    /\ GenerationOf(ActiveRecord(disk)) < MaxGen
    /\ LET next_gen == GenerationOf(ActiveRecord(disk)) + 1
           inactive == 1 - disk.active
       IN  sb' = [disk EXCEPT !.slots[inactive] = Sign(r, next_gen, k)]
    /\ request' = [root |-> r, key |-> k]
    /\ phase' = "slot"
    /\ UNCHANGED <<disk, acked>>

\* Mutant: the pointer is flipped before the record is on the device.
WriteSlotPointerFirst ==
    /\ phase = "slot"
    /\ disk' = [disk EXCEPT !.active = 1 - disk.active]
    /\ sb' = [sb EXCEPT !.active = 1 - sb.active]
    /\ phase' = "flip"
    /\ UNCHANGED <<request, acked>>

\* The first write lands; the in-memory pointer is flipped for the second one.
WriteSlot ==
    /\ phase = "slot"
    /\ disk' = sb
    /\ sb' = [sb EXCEPT !.active = 1 - sb.active]
    /\ phase' = "flip"
    /\ UNCHANGED <<request, acked>>

\* The second write lands: the commit has taken effect.
FlipActive ==
    /\ phase = "flip"
    /\ disk' = sb
    /\ phase' = "return"
    /\ UNCHANGED <<sb, request, acked>>

\* commit returns Ok(next_gen) to its caller.
ReturnOk ==
    /\ phase = "return"
    /\ acked' = ActiveRecord(sb)
    /\ phase' = "idle"
    /\ sb' = None
    /\ request' = None
    /\ UNCHANGED disk

\* The device refuses a write: commit returns JournalError::Block.
WriteError ==
    /\ phase \in {"slot", "flip"}
    /\ phase' = "idle"
    /\ sb' = None
    /\ request' = None
    /\ UNCHANGED <<disk, acked>>

\* Power loss: memory is gone, the block stays.
Crash ==
    /\ phase # "idle"
    /\ phase' = "idle"
    /\ sb' = None
    /\ request' = None
    /\ UNCHANGED <<disk, acked>>

Next ==
    \/ Format
    \/ \E r \in Roots, k \in Keys : BeginCommit(r, k)
    \/ WriteSlot
    \/ FlipActive
    \/ ReturnOk
    \/ WriteError
    \/ Crash

Spec == Init /\ [][Next]_vars
------------------------------------------------------------------------------
\* The generation of the committed root, 0 when there is none.
CommittedGen == IF disk = None THEN 0 ELSE GenerationOf(ActiveRecord(disk))

\* A commit that returned Ok survives every later crash, write error and
\* interrupted commit.  The committed generation never falls below the
\* acknowledged one; at that generation the record is the acknowledged one; and
\* load_after, given the generation before it as the trusted floor, returns a
\* record to the owner of the key that signed the root.
AckedSurvives ==
    acked # None =>
        /\ CommittedGen >= acked.generation
        /\ CommittedGen = acked.generation => ActiveRecord(disk) = acked
        /\ ActiveRecord(disk).signedBy = acked.signedBy =>
               LoadAfter(acked.signedBy, acked.generation - 1) = "Record"

\* What makes the flip safe: the slot a commit prepares is never the one the
\* pointer names, so the active record read back from the device is the same
\* before and after the first write.
InactiveSlotOnly ==
    /\ phase = "slot" =>
         /\ disk # None /\ sb # None
         /\ sb.active = disk.active
         /\ ActiveRecord(sb) = ActiveRecord(disk)
    /\ phase = "flip" =>
         /\ disk # None /\ sb # None
         /\ sb.active = 1 - disk.active
         /\ sb.slots = disk.slots
    /\ phase = "return" => disk # None /\ sb = disk

\* The committed generation moves only up, one at a time, unless the device is
\* formatted again.
NoRollback ==
    [][CommittedGen' \in {CommittedGen, CommittedGen + 1} \/ Format]_vars

\* What the caller asked to commit, read back from a record.
ValueOf(rec) == [root |-> rec.root, key |-> rec.signedBy]

\* The journal implements an atomically committed root.
Committed == INSTANCE CommittedRoot WITH
    Values  <- [root : Roots, key : Keys],
    current <- IF disk = None \/ ActiveRecord(disk) = None THEN None
               ELSE [value |-> ValueOf(ActiveRecord(disk)),
                     generation |-> ActiveRecord(disk).generation],
    pending <- IF phase \in {"slot", "flip"} THEN request ELSE None

\* Every behaviour of the journal is a behaviour of CommittedRoot: a reader of
\* block 0 finds the old root or the new one at every instant, and the one step
\* that changes it is the write that flips the active pointer.
ImplementsCommittedRoot == Committed!Spec
==============================================================================
