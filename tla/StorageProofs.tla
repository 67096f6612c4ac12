---------------------------- MODULE StorageProofs ----------------------------
(***************************************************************************)
(* The theorems about what the system keeps on its block device.            *)
(*                                                                          *)
(* The root journal, for every set of roots and keys and every bound on the *)
(* generation.  JInv adds to the type invariant what a commit in flight     *)
(* knows of the device: which slot it prepared, and that the record it      *)
(* prepared is the request at the next generation.                          *)
(*                                                                          *)
(* The object store, from the lemmas of StoreProofs: how a save lays out    *)
(* the blocks it is going to write, that every step keeps StoreInv, and     *)
(* what follows from it.                                                    *)
(***************************************************************************)
EXTENDS Journal, StoreProofs, FiniteSetTheorems

USE SMTT(30), ZenonT(30)

\* The record the commit in flight is about to make active.
PreparedIsNext ==
    /\ phase = "slot" =>
         /\ request # None
         /\ sb.slots[1 - sb.active] =
              Sign(request.root, GenerationOf(ActiveRecord(disk)) + 1, request.key)
    /\ phase = "flip" =>
         /\ request # None
         /\ ActiveRecord(sb) =
              Sign(request.root, GenerationOf(ActiveRecord(disk)) + 1, request.key)
    /\ phase = "return" => ActiveRecord(disk) # None /\ ActiveRecord(disk).generation > 0

\* The acknowledged record is the committed one, or an earlier one.
AckedBelow ==
    acked # None =>
        /\ disk # None
        /\ ActiveRecord(disk) # None
        /\ acked.generation > 0
        /\ \/ acked = ActiveRecord(disk)
           \/ acked.generation < ActiveRecord(disk).generation

JInv ==
    /\ TypeOK
    /\ InactiveSlotOnly
    /\ PreparedIsNext
    /\ AckedBelow

LEMMA NoneDistinct ==
    /\ None \notin Records
    /\ None \notin Superblocks
    /\ None \notin [root : Roots, key : Keys]
    /\ None \notin [value : [root : Roots, key : Keys], generation : Nat]
  BY JournalAssumption, Zenon DEF Records, Superblocks, Slot

\* Every journal variable keeps its type, and a commit in flight keeps its
\* relation to the device, across every step of format, commit, a refused
\* write and a power loss.
LEMMA JInvStep == JInv /\ [Next]_vars => JInv'
<1> SUFFICES ASSUME JInv, [Next]_vars PROVE JInv'
  BY Zenon
<1> USE NoneDistinct DEF JInv, Slot
<1>1. CASE Format
  <2>1. disk' \in Superblocks
    BY <1>1, Zenon DEF Format, Superblocks
  <2>2. TypeOK'
    BY <1>1, <2>1, Zenon DEF Format, TypeOK, Phases
  <2>3. QED
    BY <1>1, <2>1, <2>2, Zenon DEF Format, TypeOK, InactiveSlotOnly, PreparedIsNext,
       AckedBelow, GenerationOf, ActiveRecord
<1>2. ASSUME NEW r \in Roots, NEW k \in Keys, BeginCommit(r, k) PROVE JInv'
  <2> DEFINE rec == Sign(r, GenerationOf(ActiveRecord(disk)) + 1, k)
  <2>1. disk \in Superblocks /\ phase' = "slot" /\ disk' = disk /\ acked' = acked
    BY <1>2, Zenon DEF BeginCommit, TypeOK
  <2>2. rec \in Records
    BY <2>1 DEF Sign, Records, Superblocks, GenerationOf, ActiveRecord
  <2>3. sb' = [disk EXCEPT !.slots[1 - disk.active] = rec]
    BY <1>2, Zenon DEF BeginCommit
  <2>4. /\ sb' \in Superblocks
        /\ sb'.active = disk.active
        /\ ActiveRecord(sb)' = ActiveRecord(disk)
        /\ sb'.slots[1 - sb'.active] = rec
    BY <2>1, <2>2, <2>3 DEF Superblocks, ActiveRecord
  <2>5. request' = [root |-> r, key |-> k]
    BY <1>2, Zenon DEF BeginCommit
  <2>6. TypeOK'
    BY <2>1, <2>4, <2>5, Zenon DEF TypeOK, Phases
  <2>7. InactiveSlotOnly'
    BY <2>1, <2>4, Zenon DEF InactiveSlotOnly, ActiveRecord
  <2>8. PreparedIsNext'
    BY <2>1, <2>4, <2>5 DEF PreparedIsNext, Sign, ActiveRecord, GenerationOf
  <2>9. AckedBelow'
    BY <2>1, Zenon DEF AckedBelow, ActiveRecord, GenerationOf
  <2>10. QED
    BY <2>6, <2>7, <2>8, <2>9, Zenon
<1>3. CASE WriteSlot
  <2>1. /\ phase = "slot" /\ phase' = "flip"
        /\ disk' = sb
        /\ sb' = [sb EXCEPT !.active = 1 - sb.active]
        /\ request' = request /\ acked' = acked
    BY <1>3, Zenon DEF WriteSlot
  <2>2. sb \in Superblocks /\ disk \in Superblocks
    BY <2>1, Zenon DEF TypeOK, InactiveSlotOnly
  <2>3. /\ sb' \in Superblocks
        /\ sb'.active = 1 - sb.active
        /\ sb'.slots = sb.slots
    BY <2>1, <2>2 DEF Superblocks
  <2>4. ActiveRecord(disk)' = ActiveRecord(disk)
    BY <2>1, Zenon DEF InactiveSlotOnly, ActiveRecord
  <2>5. TypeOK'
    BY <2>1, <2>2, <2>3, Zenon DEF TypeOK, Phases
  <2>6. InactiveSlotOnly'
    BY <2>1, <2>2, <2>3, Zenon DEF InactiveSlotOnly
  <2>7. PreparedIsNext'
    BY <2>1, <2>3, <2>4, Zenon DEF PreparedIsNext, ActiveRecord, GenerationOf, Sign
  <2>8. AckedBelow'
    BY <2>1, <2>2, <2>4, Zenon DEF AckedBelow, InactiveSlotOnly
  <2>9. QED
    BY <2>5, <2>6, <2>7, <2>8, Zenon
<1>4. CASE FlipActive
  <2>1. /\ phase = "flip" /\ phase' = "return"
        /\ disk' = sb /\ sb' = sb /\ request' = request /\ acked' = acked
    BY <1>4, Zenon DEF FlipActive
  <2>2. sb \in Superblocks /\ disk \in Superblocks
    BY <2>1, Zenon DEF TypeOK, InactiveSlotOnly
  <2>3. ActiveRecord(disk)' = Sign(request.root, GenerationOf(ActiveRecord(disk)) + 1,
                                   request.key)
    BY <2>1, Zenon DEF PreparedIsNext, ActiveRecord
  <2>4. GenerationOf(ActiveRecord(disk)) \in Nat
    BY <2>2, Zenon DEF GenerationOf, ActiveRecord, Superblocks, Records
  <2>5. GenerationOf(ActiveRecord(disk))' = GenerationOf(ActiveRecord(disk)) + 1
    <3>1. ActiveRecord(disk)' \in Records
      BY <2>1, <2>2, <2>3, <2>4 DEF Sign, Records, TypeOK, PreparedIsNext
    <3>2. QED
      BY <3>1, <2>3 DEF GenerationOf, Sign
  <2>6. AckedBelow'
    BY <2>1, <2>2, <2>4, <2>5 DEF AckedBelow, InactiveSlotOnly, TypeOK, Records, Superblocks, GenerationOf, ActiveRecord
  <2>7. QED
    <3>1. ActiveRecord(disk)' \in Records
      BY <2>1, <2>2, <2>3, <2>4 DEF Sign, Records, TypeOK, PreparedIsNext
    <3>2. PreparedIsNext'
      BY <2>1, <2>4, <2>5, <3>1 DEF PreparedIsNext, GenerationOf
    <3>3. QED
      BY <2>1, <2>2, <2>6, <3>2, Zenon DEF TypeOK, InactiveSlotOnly, Phases
<1>5. CASE ReturnOk
  <2>1. phase = "return" /\ disk # None /\ sb = disk
    BY <1>5, Zenon DEF ReturnOk, InactiveSlotOnly
  <2>2. GenerationOf(ActiveRecord(disk)) \in Nat
    BY <2>1, Zenon DEF GenerationOf, ActiveRecord, Superblocks, Records, TypeOK
  <2>3. QED
    BY <1>5, <2>1, <2>2, Zenon DEF ReturnOk, TypeOK, InactiveSlotOnly, PreparedIsNext,
       Phases, AckedBelow, ActiveRecord, GenerationOf, Superblocks
<1>6. CASE WriteError
  BY <1>6, Zenon DEF WriteError, TypeOK, InactiveSlotOnly, PreparedIsNext, Phases,
     AckedBelow, ActiveRecord, GenerationOf
<1>7. CASE Crash
  BY <1>7, Zenon DEF Crash, TypeOK, InactiveSlotOnly, PreparedIsNext, Phases,
     AckedBelow, ActiveRecord, GenerationOf
<1>8. CASE UNCHANGED vars
  BY <1>8, Zenon DEF vars, TypeOK, InactiveSlotOnly, PreparedIsNext, AckedBelow,
     ActiveRecord, GenerationOf
<1>9. QED
  BY <1>1, <1>2, <1>3, <1>4, <1>5, <1>6, <1>7, <1>8, Zenon DEF Next

LEMMA JInvInit == Init => JInv
  BY NoneDistinct, Zenon DEF Init, JInv, TypeOK, InactiveSlotOnly, PreparedIsNext, Phases,
     AckedBelow

\* The inductive invariant holds in every reachable state of the journal.
THEOREM JournalInvariant == Spec => []JInv
  BY JInvInit, JInvStep, PTL DEF Spec

\* The journal's variables always have their types.
THEOREM JournalTypeCorrect == Spec => []TypeOK
<1>1. JInv => TypeOK
  BY Zenon DEF JInv
<1>2. QED
  BY <1>1, JournalInvariant, PTL

\* A commit never prepares its record in the slot the pointer names.
THEOREM JournalInactiveSlotOnly == Spec => []InactiveSlotOnly
<1>1. JInv => InactiveSlotOnly
  BY Zenon DEF JInv
<1>2. QED
  BY <1>1, JournalInvariant, PTL

\* An acknowledged commit survives every crash, refused write and interrupted
\* commit after it, and load_after still returns it (or a later root).
THEOREM JournalAckedSurvives == Spec => []AckedSurvives
<1>1. JInv => AckedSurvives
  <2> SUFFICES ASSUME JInv, acked # None PROVE
        /\ CommittedGen >= acked.generation
        /\ CommittedGen = acked.generation => ActiveRecord(disk) = acked
        /\ ActiveRecord(disk).signedBy = acked.signedBy =>
               LoadAfter(acked.signedBy, acked.generation - 1) = "Record"
    BY Zenon DEF AckedSurvives
  <2>1. /\ acked \in Records
        /\ ActiveRecord(disk) \in Records
        /\ disk # None
        /\ ActiveRecord(disk) # None
    BY NoneDistinct, Zenon DEF JInv, AckedBelow, TypeOK, Superblocks, ActiveRecord, Slot
  <2>2. /\ acked.generation \in Nat
        /\ ActiveRecord(disk).generation \in Nat
    BY <2>1, Zenon DEF Records
  <2>3. \/ acked = ActiveRecord(disk)
        \/ acked.generation < ActiveRecord(disk).generation
    BY Zenon DEF JInv, AckedBelow
  <2>4. CommittedGen = ActiveRecord(disk).generation
    BY <2>1, Zenon DEF CommittedGen, GenerationOf
  <2>5. ASSUME ActiveRecord(disk).signedBy = acked.signedBy
        PROVE  LoadAfter(acked.signedBy, acked.generation - 1) = "Record"
    <3>1. Load(acked.signedBy) = "Record"
      BY <2>1, <2>5, Zenon DEF Load, Verify
    <3>2. ~ (ActiveRecord(disk).generation <= acked.generation - 1)
      BY <2>2, <2>3
    <3>3. QED
      BY <3>1, <3>2, Zenon DEF LoadAfter
  <2>6. QED
    BY <2>2, <2>3, <2>4, <2>5
<1>2. QED
  BY <1>1, JournalInvariant, PTL
-----------------------------------------------------------------------------
(***************************************************************************)
(* The step-by-step refinement: preparing a record, writing it to the       *)
(* inactive slot and acknowledging are stutters or requests of the abstract *)
(* root, the second write is the one step at which the root changes.        *)
(***************************************************************************)
LEMMA StepRefines == JInv /\ [Next]_vars => [Committed!Next]_(Committed!absVars)
<1> SUFFICES ASSUME JInv, [Next]_vars
             PROVE  Committed!Next \/ UNCHANGED Committed!absVars
  BY Zenon
<1> USE NoneDistinct DEF JInv
<1>1. CASE Format
  BY <1>1, Zenon DEF Format, Committed!Next, Committed!Reset, ActiveRecord, Slot
<1>2. ASSUME NEW r \in Roots, NEW k \in Keys, BeginCommit(r, k)
      PROVE  Committed!Next
  BY <1>2, Zenon DEF BeginCommit, Committed!Next, Committed!Request, ActiveRecord
<1>3. CASE WriteSlot
  BY <1>3, Zenon DEF WriteSlot, InactiveSlotOnly, Committed!absVars, ActiveRecord
<1>4. CASE FlipActive
  <2>1. /\ disk # None /\ disk' = sb /\ sb # None /\ sb \in Superblocks
        /\ disk \in Superblocks
        /\ request \in [root : Roots, key : Keys]
        /\ phase = "flip" /\ phase' = "return"
    BY <1>4, Zenon DEF FlipActive, InactiveSlotOnly, TypeOK, PreparedIsNext
  <2>2. ActiveRecord(sb) = Sign(request.root, GenerationOf(ActiveRecord(disk)) + 1,
                                request.key)
    BY <2>1, Zenon DEF PreparedIsNext
  <2>3. GenerationOf(ActiveRecord(disk)) \in Nat
    BY <2>1, Zenon DEF GenerationOf, ActiveRecord, Superblocks, Records, Slot
  <2>4. ActiveRecord(sb) # None
    BY <2>1, <2>2, <2>3 DEF Sign, Records
  <2>5. /\ ValueOf(ActiveRecord(sb)) = request
        /\ ActiveRecord(sb).generation = GenerationOf(ActiveRecord(disk)) + 1
    BY <2>1, <2>2 DEF Sign, ValueOf
  <2>6. Committed!CurrentGen = GenerationOf(ActiveRecord(disk))
    <3>1. CASE ActiveRecord(disk) = None
      BY <2>1, <3>1, Zenon DEF Committed!CurrentGen, GenerationOf
    <3>2. CASE ActiveRecord(disk) # None
      <4>1. ActiveRecord(disk) \in Records
        BY <2>1, <3>2, Zenon DEF ActiveRecord, Superblocks, Slot
      <4>2. [value |-> ValueOf(ActiveRecord(disk)),
             generation |-> ActiveRecord(disk).generation] # None
        BY <4>1 DEF Records, ValueOf
      <4>3. QED
        BY <2>1, <3>2, <4>2, Zenon DEF Committed!CurrentGen, GenerationOf
    <3>3. QED
      BY <3>1, <3>2, Zenon
  <2>7. Committed!TakeEffect
    BY <2>1, <2>4, <2>5, <2>6, Zenon DEF Committed!TakeEffect, ActiveRecord, ValueOf
  <2>8. QED
    BY <2>7, Zenon DEF Committed!Next
<1>5. CASE ReturnOk
  BY <1>5, Zenon DEF ReturnOk, Committed!absVars, ActiveRecord
<1>6. CASE WriteError \/ Crash
  <2>1. CASE phase \in {"slot", "flip"}
    BY <1>6, <2>1, Zenon DEF WriteError, Crash, PreparedIsNext, Committed!Next,
       Committed!Abandon, ActiveRecord
  <2>2. CASE phase \notin {"slot", "flip"}
    BY <1>6, <2>2, Zenon DEF WriteError, Crash, Committed!absVars, ActiveRecord
  <2>3. QED
    BY <2>1, <2>2, Zenon
<1>7. CASE UNCHANGED vars
  BY <1>7, Zenon DEF vars, Committed!absVars, ActiveRecord
<1>8. QED
  BY <1>1, <1>2, <1>3, <1>4, <1>5, <1>6, <1>7, Zenon DEF Next

\* The double-buffered superblock implements an atomically committed root: the
\* root a reader finds changes only from the old root to the root of the commit
\* in flight, at the flip.
THEOREM JournalRefinesCommittedRoot == Spec => ImplementsCommittedRoot
<1>1. Init => Committed!Init
  BY Zenon DEF Init, Committed!Init
<1>2. QED
  BY <1>1, JournalInvariant, StepRefines, PTL
     DEF Spec, ImplementsCommittedRoot, Committed!Spec

\* No step but format lowers the committed generation, and none skips one.
THEOREM JournalNoRollback == Spec => NoRollback
<1>1. ASSUME JInv, JInv', [Next]_vars
      PROVE  [CommittedGen' \in {CommittedGen, CommittedGen + 1} \/ Format]_vars
  <2>1. CASE FlipActive
    <3>1. /\ disk # None /\ sb \in Superblocks /\ disk \in Superblocks
          /\ request \in [root : Roots, key : Keys]
      BY <1>1, <2>1, Zenon DEF FlipActive, JInv, InactiveSlotOnly, TypeOK, PreparedIsNext
    <3>2. GenerationOf(ActiveRecord(disk)) \in Nat
      BY <3>1, Zenon DEF GenerationOf, ActiveRecord, Superblocks, Records, Slot
    <3>3. ActiveRecord(sb) = Sign(request.root, GenerationOf(ActiveRecord(disk)) + 1,
                                  request.key)
      BY <1>1, <2>1, Zenon DEF FlipActive, JInv, PreparedIsNext
    <3>4. ActiveRecord(sb) \in Records
      BY <3>1, <3>2, <3>3 DEF Sign, Records
    <3>5. GenerationOf(ActiveRecord(sb)) = GenerationOf(ActiveRecord(disk)) + 1
      BY <3>3, <3>4, NoneDistinct DEF Sign, GenerationOf
    <3>6. disk' = sb /\ sb # None
      BY <2>1, <3>1, NoneDistinct, Zenon DEF FlipActive
    <3>7. QED
      BY <3>1, <3>5, <3>6, Zenon DEF CommittedGen, ActiveRecord, GenerationOf
  <2>2. CASE WriteSlot
    BY <1>1, <2>2, Zenon DEF WriteSlot, JInv, InactiveSlotOnly, CommittedGen, ActiveRecord,
       GenerationOf
  <2>3. CASE Format
    BY <2>3, Zenon
  <2>4. ASSUME NEW r \in Roots, NEW k \in Keys, BeginCommit(r, k)
        PROVE  CommittedGen' = CommittedGen
    BY <2>4, Zenon DEF BeginCommit, CommittedGen, ActiveRecord, GenerationOf
  <2>5. CASE ReturnOk \/ WriteError \/ Crash
    BY <2>5, Zenon DEF ReturnOk, WriteError, Crash, CommittedGen, ActiveRecord, GenerationOf
  <2>6. QED
    BY <1>1, <2>1, <2>2, <2>3, <2>4, <2>5, Zenon DEF Next
<1>2. QED
  BY <1>1, JournalInvariant, PTL DEF Spec, NoRollback
------------------------------------------------------------------------------
\* Objects are laid out one after the other, from the first block on.
LEMMA LayoutFacts ==
    ASSUME NEW S \in SUBSET Objects, NEW a \in Nat
    PROVE  /\ Cardinality(S) \in Nat /\ DOMAIN Layout(S, a) = S
           /\ \A o \in S : /\ Layout(S, a)[o] \in Nat /\ a <= Layout(S, a)[o]
                          /\ Layout(S, a)[o] < a + Cardinality(S)
           /\ \A o, p \in S : Layout(S, a)[o] = Layout(S, a)[p] => o = p
           /\ a + Cardinality(S) <= Cap => Layout(S, a) \in Indexes
<1>. DEFINE Below(o) == {p \in S : p < o}
<1>1. IsFiniteSet(S) /\ S \subseteq Nat
  BY StoreAssumption, FS_Subset, Zenon
<1>2. Cardinality(S) \in Nat
  BY <1>1, FS_CardinalityType, Zenon
<1>3. \A o : Below(o) \in SUBSET S /\ IsFiniteSet(Below(o)) /\ Cardinality(Below(o)) \in Nat
  <2>. SUFFICES ASSUME NEW o
                PROVE  Below(o) \in SUBSET S /\ IsFiniteSet(Below(o)) /\ Cardinality(Below(o)) \in Nat
    BY Zenon
  <2>1. Below(o) \in SUBSET S
    BY Zenon
  <2>2. IsFiniteSet(Below(o))
    BY <1>1, <2>1, FS_Subset, Zenon
  <2>. QED BY <2>1, <2>2, FS_CardinalityType, Zenon
<1>4. ASSUME NEW o \in S PROVE Cardinality(Below(o)) < Cardinality(S)
  <2>1. Below(o) # S /\ Below(o) \in SUBSET S
    BY <1>1
  <2>2. Cardinality(Below(o)) <= Cardinality(S) /\ Cardinality(Below(o)) # Cardinality(S)
    BY <1>1, <2>1, FS_Subset, Zenon
  <2>. QED BY <1>2, <1>3, <2>2
<1>5. ASSUME NEW o \in S, NEW p \in S, o < p
      PROVE  Cardinality(Below(o)) < Cardinality(Below(p))
  <2>0. o \in Nat /\ p \in Nat /\ ~(o < o) /\ \A q \in S : q < o => q < p
    BY <1>1, <1>5
  <2>1. Below(o) \in SUBSET Below(p) /\ o \in Below(p) /\ o \notin Below(o)
    BY <1>5, <2>0, Zenon
  <2>2. Below(o) # Below(p)
    BY <2>1, Zenon
  <2>3. /\ Cardinality(Below(o)) <= Cardinality(Below(p))
        /\ Cardinality(Below(o)) # Cardinality(Below(p))
    BY <1>3, <2>1, <2>2, FS_Subset, Zenon
  <2>. QED BY <1>3, <2>3
<1>6. DOMAIN Layout(S, a) = S /\ \A o \in S : Layout(S, a)[o] = a + Cardinality(Below(o))
  BY Zenon DEF Layout
<1>. HIDE DEF Below
<1>7. \A o \in S : /\ Layout(S, a)[o] \in Nat /\ a <= Layout(S, a)[o]
                  /\ Layout(S, a)[o] < a + Cardinality(S)
  BY <1>2, <1>3, <1>4, <1>6
<1>8. ASSUME NEW o \in S, NEW p \in S, Layout(S, a)[o] = Layout(S, a)[p] PROVE o = p
  <2>1. Cardinality(Below(o)) = Cardinality(Below(p))
    BY <1>3, <1>6, <1>8
  <2>2. ~(o < p) /\ ~(p < o)
    BY <1>3, <1>5, <2>1
  <2>. QED BY <1>1, <2>2
<1>9. ASSUME a + Cardinality(S) <= Cap PROVE Layout(S, a) \in Indexes
  <2>1. \A o \in S : Layout(S, a)[o] \in Lbas
    BY <1>2, <1>7, <1>9, StoreAssumption DEF Lbas
  <2>2. Layout(S, a) \in [S -> Lbas]
    <3>1. Layout(S, a) = [o \in S |-> Layout(S, a)[o]]
      BY Zenon DEF Layout
    <3>. HIDE DEF Layout
    <3>. QED BY <2>1, <3>1, Zenon
  <2>. QED BY <2>2, IndexFacts, Zenon
<1>. QED BY <1>2, <1>6, <1>7, <1>8, <1>9, Zenon

\* A save without a manifest, or a compaction, lays out the whole graph from the start
\* of the arena.
LEMMA RewriteKeeps ==
    ASSUME StoreInv, NEW mb \in ManifestSizes, SaveFull(mb) \/ SaveCompact(mb),
           SavesNoted, intact' \in BOOLEAN, intact' => intact,
           intact' => prior = Nothing /\ Restored = Nothing
    PROVE  StoreInv'
<1>. DEFINE layout == Layout(graph, 0)
            gen == IF prior = Nothing THEN BestRoot.generation + 1 ELSE prior.generation + 1
<1>1. /\ pc = "running" /\ Cardinality(graph) <= Cap
      /\ StartWrites(gen, layout, layout, Cardinality(graph), mb)
  BY Zenon DEF SaveFull, SaveCompact
<1>2. /\ graph \in SUBSET Objects /\ SlotsInv /\ DiskInv /\ MemInv
  BY Zenon DEF StoreInv, DiskInv, MemInv
<1>3. /\ BestRoot.generation \in Nat
      /\ prior # Nothing => /\ prior.generation \in Nat
                            /\ BestRoot.generation \in {prior.generation, prior.generation + 1}
  BY <1>1, <1>2, BestRootFacts, Zenon DEF MemInv, Manifests
<1>4. /\ gen \in Nat /\ gen > 0 /\ BestRoot.generation \in {gen - 1, gen}
      /\ prior # Nothing => gen = prior.generation + 1
      /\ prior = Nothing => gen = BestRoot.generation + 1
  BY <1>3
<1>5. /\ Cardinality(graph) \in Nat /\ DOMAIN layout = graph
      /\ \A o \in graph : layout[o] < 0 + Cardinality(graph)
      /\ \A o, p \in graph : layout[o] = layout[p] => o = p
      /\ 0 + Cardinality(graph) <= Cap => layout \in Indexes
  BY <1>2, LayoutFacts, Zenon
<1>6. 0 + Cardinality(graph) = Cardinality(graph) /\ layout \in Indexes
  BY <1>1, <1>5
<1>7. intact' => gen = BestRoot.generation + 1 /\ BestRoot = NoRoot
  <2>1. ASSUME intact', BestRoot # NoRoot PROVE Restored # Nothing
    <3>1. Whole(BestRoot, CommittedIndex)
      BY <2>1, Zenon DEF StoreInv, IntactInv, ImageWhole
    <3>. QED BY <1>2, <2>1, <3>1, WholeLoads, Zenon
  <2>. QED BY <1>4, <2>1, Zenon
<1>. HIDE DEF layout, gen
<1>8. /\ \A o \in DOMAIN layout : o \in graph /\ layout[o] = layout[o] /\ layout[o] < Cardinality(graph)
      /\ \A o, p \in DOMAIN layout : layout[o] = layout[p] => o = p
      /\ \A o \in graph \ DOMAIN layout :
             prior # Nothing /\ o \in DOMAIN prior.index /\ layout[o] = prior.index[o]
      /\ intact' => /\ gen = BestRoot.generation + 1
                    /\ BestRoot # NoRoot =>
                         /\ prior # Nothing /\ BestRoot.log_end <= Cardinality(graph)
                         /\ \A o \in DOMAIN layout : BestRoot.log_end <= layout[o]
  BY <1>5, <1>6, <1>7, Zenon
<1>. QED BY <1>1, <1>4, <1>5, <1>6, <1>8, StartKeeps, Zenon

\* An append lays out the fresh objects, and the manifest after them, from the end of
\* the committed image on.
LEMMA AppendKeeps ==
    ASSUME StoreInv, NEW mb \in ManifestSizes, SaveAppend(mb),
           SavesNoted, intact' \in BOOLEAN, intact' => intact
    PROVE  StoreInv'
<1>. DEFINE layout == Layout(Fresh, prior.log_end)
            mlba == prior.log_end + Cardinality(Fresh)
            index == Merge(prior.index, layout)
            gen == prior.generation + 1
<1>1. /\ pc = "running" /\ prior # Nothing /\ mlba <= Cap
      /\ StartWrites(gen, layout, index, mlba, mb)
  BY Zenon DEF SaveAppend
<1>2. /\ graph \in SUBSET Objects /\ SlotsInv /\ MemInv
      /\ Fresh \in SUBSET Objects
      /\ prior.log_end \in Nat /\ prior.index \in Indexes /\ prior.generation \in Nat
      /\ DOMAIN prior.index \subseteq graph
      /\ BestRoot.generation \in {prior.generation, prior.generation + 1}
  BY <1>1, Zenon DEF StoreInv, DiskInv, MemInv, Manifests, Fresh
<1>3. /\ Cardinality(Fresh) \in Nat /\ DOMAIN layout = Fresh
      /\ \A o \in Fresh : /\ layout[o] \in Nat /\ prior.log_end <= layout[o]
                          /\ layout[o] < prior.log_end + Cardinality(Fresh)
      /\ \A o, p \in Fresh : layout[o] = layout[p] => o = p
      /\ prior.log_end + Cardinality(Fresh) <= Cap => layout \in Indexes
  BY <1>2, LayoutFacts, Zenon
<1>4. layout \in Indexes /\ mlba \in Nat /\ prior.log_end <= mlba
  BY <1>1, <1>2, <1>3
<1>5. /\ index \in Indexes /\ DOMAIN index = DOMAIN prior.index \cup Fresh
      /\ \A o \in Fresh : index[o] = layout[o]
      /\ \A o \in DOMAIN prior.index \ Fresh : index[o] = prior.index[o]
  <2>1. PICK f \in Indexes : f = prior.index
    BY <1>2, Zenon
  <2>2. PICK g \in Indexes : g = layout
    BY <1>4, Zenon
  <2>3. /\ Merge(f, g) \in Indexes /\ DOMAIN Merge(f, g) = DOMAIN f \cup DOMAIN g
        /\ \A o \in DOMAIN g : Merge(f, g)[o] = g[o]
        /\ \A o \in DOMAIN f \ DOMAIN g : Merge(f, g)[o] = f[o]
    BY MergeFacts, Zenon
  <2>4. index = Merge(f, g) /\ DOMAIN g = Fresh
    BY <1>3, <2>1, <2>2, Zenon
  <2>. HIDE DEF index, layout
  <2>. QED BY <2>1, <2>2, <2>3, <2>4, Zenon
<1>6. DOMAIN index = graph /\ Fresh \subseteq graph /\ graph \ Fresh \subseteq DOMAIN prior.index \ Fresh
  BY <1>2, <1>5, Zenon DEF Fresh
<1>7. gen \in Nat /\ gen > 0 /\ BestRoot.generation \in {gen - 1, gen}
  BY <1>2
<1>8. intact' => /\ prior.generation = BestRoot.generation /\ prior.log_end = BestRoot.log_end
                 /\ gen = BestRoot.generation + 1
  BY <1>1, Zenon DEF StoreInv, IntactInv, PriorMatches
<1>9. /\ \A o \in DOMAIN layout : o \in graph /\ index[o] = layout[o] /\ layout[o] < mlba
      /\ \A o, p \in DOMAIN layout : layout[o] = layout[p] => o = p
      /\ \A o \in graph \ DOMAIN layout :
             prior # Nothing /\ o \in DOMAIN prior.index /\ index[o] = prior.index[o]
      /\ prior # Nothing => gen = prior.generation + 1
      /\ intact' => /\ gen = BestRoot.generation + 1
                    /\ BestRoot # NoRoot =>
                         /\ prior # Nothing /\ BestRoot.log_end <= mlba
                         /\ \A o \in DOMAIN layout : BestRoot.log_end <= layout[o]
  BY <1>1, <1>3, <1>4, <1>5, <1>6, <1>8, Zenon
<1>. HIDE DEF layout, gen, index, mlba
<1>. QED BY <1>1, <1>4, <1>5, <1>6, <1>7, <1>9, StartKeeps, Zenon

\* A step of the store other than a compaction and a lost root write keeps it.
LEMMA NextAppendKeeps ==
    ASSUME StoreInv, NextAppend, SavesNoted,
           intact' = (~Overwrites /\ (intact \/ (Rewritten /\ pc' = "running")))
    PROVE  StoreInv'
<1>1. /\ intact' \in BOOLEAN
      /\ intact' => intact \/ (pc = "return" /\ pc' = "running" /\ DOMAIN job.layout = job.objects)
      /\ intact' => ~Overwrites
  BY Zenon DEF StoreInv, MemInv, Overwrites, Rewritten
<1>2. pc # "return" \/ pc' # "running" => (intact' => intact)
  BY <1>1, Zenon
<1>3. job # Nothing \/ job' = Nothing => saved' = saved
  BY Zenon DEF SavesNoted
<1>4. pc \in {"objects", "manifest", "return"} => job # Nothing
  BY JobFacts, Zenon
<1>5. CASE Boot \/ BootFault
  <2>1. pc = "boot" /\ job' = job /\ job = Nothing
    BY <1>5, Zenon DEF Boot, BootFault, StoreInv, JobInv
  <2>. QED BY <1>1, <1>2, <1>3, <1>5, <2>1, BootKeeps, Zenon
<1>6. ASSUME NEW o \in Objects, Edit(o) PROVE StoreInv'
  <2>1. pc = "running" /\ job' = job /\ job = Nothing
    BY <1>6, Zenon DEF Edit, StoreInv, JobInv
  <2>. QED BY <1>1, <1>2, <1>3, <1>6, <2>1, EditKeeps, Zenon
<1>7. ASSUME NEW mb \in ManifestSizes, SaveAppend(mb) PROVE StoreInv'
  <2>1. pc = "running"
    BY <1>7, Zenon DEF SaveAppend
  <2>. QED BY <1>1, <1>2, <1>7, <2>1, AppendKeeps, Zenon
<1>8. ASSUME NEW mb \in ManifestSizes, SaveFull(mb) PROVE StoreInv'
  <2>1. pc = "running" /\ pc' = "objects" /\ prior = Nothing
    BY <1>8, Zenon DEF SaveFull, StartWrites
  <2>2. intact' => prior = Nothing /\ Restored = Nothing
    BY <1>1, <2>1, Zenon DEF Overwrites
  <2>. QED BY <1>1, <1>2, <1>8, <2>1, <2>2, RewriteKeeps, Zenon
<1>9. ASSUME NEW o \in Objects, LandObject(o) PROVE StoreInv'
  <2>1. pc = "objects"
    BY <1>9, Zenon DEF LandObject
  <2>. QED BY <1>1, <1>2, <1>3, <1>4, <1>9, <2>1, LandObjectKeeps, Zenon
<1>10. CASE BeginManifest
  <2>1. pc = "objects"
    BY <1>10, Zenon DEF BeginManifest
  <2>. QED BY <1>1, <1>2, <1>3, <1>4, <1>10, <2>1, BeginManifestKeeps, Zenon
<1>11. ASSUME NEW b \in Lbas, LandManifest(b) PROVE StoreInv'
  <2>1. pc = "manifest"
    BY <1>11, Zenon DEF LandManifest
  <2>. QED BY <1>1, <1>2, <1>3, <1>4, <1>11, <2>1, LandManifestKeeps, Zenon
<1>12. CASE WriteRoot
  <2>1. pc = "manifest"
    BY <1>12, Zenon DEF WriteRoot
  <2>. QED BY <1>1, <1>2, <1>3, <1>4, <1>12, <2>1, WriteRootKeeps, Zenon
<1>13. CASE SaveReturns
  <2>1. pc = "return"
    BY <1>13, Zenon DEF SaveReturns
  <2>. QED BY <1>1, <1>3, <1>4, <1>13, <2>1, SaveReturnsKeeps, Zenon
<1>14. CASE DeviceFault
  <2>1. /\ pc \in {"objects", "manifest"} /\ InFlight /\ pc' = "running" /\ job' = Nothing
        /\ UNCHANGED <<arena, roots, graph, vfs, prior, savedAck>>
    BY <1>14, Zenon DEF DeviceFault, InFlight
  <2>. QED BY <1>1, <1>2, <1>3, <2>1, StopKeeps, Zenon
<1>15. CASE PowerLoss
  <2>1. pc' = "boot" /\ job' = Nothing
    BY <1>15, Zenon DEF PowerLoss
  <2>. QED BY <1>1, <1>2, <1>3, <1>15, <2>1, PowerLossKeeps, Zenon
<1>. QED BY <1>5, <1>6, <1>7, <1>8, <1>9, <1>10, <1>11, <1>12, <1>13, <1>14, <1>15 DEF NextAppend

\* Every step keeps the invariant.
LEMMA StoreInvStep == StoreInv /\ [HistoryNext]_allVars => StoreInv'
<1>. SUFFICES ASSUME StoreInv, HistoryNext PROVE StoreInv'
  BY StoreInvStutter, Zenon
<1>1. SavesNoted
  BY Zenon DEF HistoryNext, SavesNoted
<1>2. CASE /\ NextAppend
           /\ intact' = (~Overwrites /\ (intact \/ (Rewritten /\ pc' = "running")))
  BY <1>1, <1>2, NextAppendKeeps, Zenon
<1>3. CASE (\E mb \in ManifestSizes : SaveCompact(mb)) /\ intact' = FALSE
  BY <1>1, <1>3, RewriteKeeps, Zenon
<1>4. CASE RootTimesOut /\ intact' = FALSE
  <2>1. job' = Nothing
    BY <1>4, Zenon DEF RootTimesOut
  <2>. QED BY <1>1, <1>4, <2>1, RootTimesOutKeeps, Zenon DEF SavesNoted
<1>. QED BY <1>2, <1>3, <1>4, Zenon DEF HistoryNext

\* The object store's invariant, for every set of objects and references, size of the
\* arena, limit on dead space and size of a manifest.
THEOREM StoreInvariant == HistorySpec => []StoreInv
  BY StoreInvInit, StoreInvStep, PTL DEF HistorySpec

\* A save that returned Ok survives every crash, device fault and torn root record
\* that comes while saves append (save, write_append, write_manifest_and_root, load).
THEOREM StoreKeepsCommitted == HistorySpec => []AppendsKeepCommitted
<1>1. StoreInv => AppendsKeepCommitted
  <2>. SUFFICES ASSUME StoreInv, intact, savedAck # Nothing
                PROVE  /\ Restored # Nothing
                       /\ BestRoot.generation >= savedAck.generation
                       /\ BestRoot.generation = savedAck.generation => Restored = savedAck.snapshot
    BY Zenon DEF AppendsKeepCommitted, CommittedSurvives
  <2>1. /\ BestRoot # NoRoot /\ savedAck.generation <= BestRoot.generation
        /\ savedAck.generation = BestRoot.generation => savedAck.snapshot = CommittedImage
    BY Zenon DEF StoreInv, IntactInv, AckHeld
  <2>2. savedAck.generation \in Nat
    BY Zenon DEF StoreInv, MemInv
  <2>. QED BY <2>1, <2>2, CommittedRestores, Zenon
<1>. QED BY <1>1, StoreInvariant, PTL

\* Sets of objects that hold what their members refer to.
Closed(S) == \A o \in S : Refs[o] \subseteq S

\* Each manifest on the device lists the objects of a save.
ListsSaved ==
    \A b \in Lbas : arena[b].kind = "manifest" =>
        \E s \in saved : s.objects = DOMAIN arena[b].index

\* The graph, and what saves were given, hold what they refer to, until a boot takes up
\* a torn manifest.
ClosedUnlessTorn == ~torn => Closed(graph) /\ \A s \in saved : Closed(s.objects)

\* What a step of the store may do to the graph, the arena and the saves noted.
LEMMA StepShape ==
    ASSUME StoreInv, HistoryNext
    PROVE  /\ saved' = saved \/ saved' = saved \cup {Snapshot(graph, vfs)}
           /\ \/ arena' = arena
              \/ \E o \in Objects : LandObject(o)
              \/ \E b \in Lbas : LandManifest(b)
           /\ \/ graph' = graph
              \/ graph' = {Seed}
              \/ \E o \in Objects : Edit(o)
              \/ Boot
<1>1. CASE \E gen, layout, index, mlba, mb : StartWrites(gen, layout, index, mlba, mb)
  <2>1. PICK gen, layout, index, mlba, mb :
           /\ job' = [generation |-> gen, vfs_root |-> vfs, objects |-> graph, layout |-> layout,
                      index |-> index, manifest_lba |-> mlba, manifest_blocks |-> mb,
                      log_end |-> mlba + mb]
           /\ arena' = arena /\ graph' = graph
    BY <1>1, Zenon DEF StartWrites
  <2>2. job'.objects = graph /\ job'.vfs_root = vfs
    BY <2>1, Zenon
  <2>. QED BY <2>1, <2>2, Zenon DEF HistoryNext
<1>2. CASE \/ Boot \/ BootFault \/ BeginManifest \/ WriteRoot \/ SaveReturns \/ DeviceFault
           \/ PowerLoss \/ RootTimesOut \/ \E o \in Objects : Edit(o) \/ LandObject(o)
           \/ \E b \in Lbas : LandManifest(b)
  <2>1. saved' = saved
    <3>1. pc \in {"objects", "manifest", "return"} => job # Nothing
      BY JobFacts, Zenon
    <3>2. job # Nothing \/ job' = Nothing
      BY <1>2, <3>1, Zenon DEF Boot, BootFault, BeginManifest, WriteRoot, SaveReturns, DeviceFault,
            PowerLoss, RootTimesOut, Edit, LandObject, LandManifest
    <3>. QED BY <3>2, Zenon DEF HistoryNext
  <2>2. \/ arena' = arena
        \/ \E o \in Objects : LandObject(o)
        \/ \E b \in Lbas : LandManifest(b)
    BY <1>2, Zenon DEF Boot, BootFault, BeginManifest, WriteRoot, SaveReturns, DeviceFault,
          PowerLoss, RootTimesOut, Edit
  <2>3. \/ graph' = graph \/ graph' = {Seed} \/ (\E o \in Objects : Edit(o)) \/ Boot
    BY <1>2, Zenon DEF BootFault, BeginManifest, WriteRoot, SaveReturns, DeviceFault,
          PowerLoss, RootTimesOut, LandObject, LandManifest
  <2>. QED BY <2>1, <2>2, <2>3, Zenon
<1>3. ASSUME NEW mb, SaveAppend(mb) \/ SaveFull(mb) \/ SaveCompact(mb)
      PROVE  \E gen, layout, index, mlba, m : StartWrites(gen, layout, index, mlba, m)
  BY <1>3, Zenon DEF SaveAppend, SaveFull, SaveCompact
<1>. QED BY <1>1, <1>2, <1>3, Zenon DEF HistoryNext, NextAppend

\* Every step keeps the two.
LEMMA ListsSavedStep ==
    ASSUME StoreInv, ListsSaved, HistoryNext
    PROVE  ListsSaved'
<1>1. saved \subseteq saved'
  BY StepShape, Zenon
<1>2. CASE arena' = arena
  BY <1>1, <1>2, Zenon DEF ListsSaved
<1>3. ASSUME NEW o \in Objects, LandObject(o) PROVE ListsSaved'
  <2>1. arena' = [arena EXCEPT ![job.layout[o]] = ObjectBlock(o)] /\ ObjectBlock(o).kind # "manifest"
    BY <1>3, Zenon DEF LandObject, ObjectBlock
  <2>2. \A b \in Lbas : b \in DOMAIN arena
    BY Zenon DEF StoreInv, DiskInv
  <2>3. \A b \in Lbas : arena'[b].kind = "manifest" => arena'[b] = arena[b]
    BY <2>1, <2>2, Zenon
  <2>. QED BY <1>1, <2>3, Zenon DEF ListsSaved
<1>4. ASSUME NEW c \in Lbas, LandManifest(c) PROVE ListsSaved'
  <2>. DEFINE new == ManifestBlock(job.index, c - job.manifest_lba, job.manifest_blocks)
  <2>1. arena' = [arena EXCEPT ![c] = new] /\ pc \in {"objects", "manifest", "return"}
    BY <1>4, Zenon DEF LandManifest
  <2>2. new.index = job.index
    BY Zenon DEF ManifestBlock
  <2>3. DOMAIN job.index = graph /\ Snapshot(graph, vfs) \in saved
    BY <2>1, JobFacts, Zenon
  <2>4. Snapshot(graph, vfs).objects = graph
    BY Zenon DEF Snapshot
  <2>5. \A b \in Lbas : b \in DOMAIN arena
    BY Zenon DEF StoreInv, DiskInv
  <2>. HIDE DEF new
  <2>6. \A b \in Lbas : arena'[b] = IF b = c THEN new ELSE arena[b]
    BY <2>1, <2>5, Zenon
  <2>. QED BY <1>1, <2>2, <2>3, <2>4, <2>6, Zenon DEF ListsSaved
<1>. QED BY <1>2, <1>3, <1>4, StepShape, Zenon

LEMMA ClosedUnlessTornStep ==
    ASSUME StoreInv, ListsSaved, ClosedUnlessTorn, HistoryNext
    PROVE  ClosedUnlessTorn'
<1>. SUFFICES ASSUME ~torn' PROVE Closed(graph') /\ \A s \in saved' : Closed(s.objects)
  BY Zenon DEF ClosedUnlessTorn, Closed
<1>1. /\ ~torn /\ ~(pc = "boot" /\ prior' # Nothing /\ WholeIndex = Nothing)
      /\ Closed(graph) /\ \A s \in saved : Closed(s.objects)
  BY Zenon DEF HistoryNext, ClosedUnlessTorn
<1>2. \A s \in saved' : Closed(s.objects)
  <2>1. Snapshot(graph, vfs).objects = graph
    BY SnapshotFields, Zenon
  <2>. QED BY <1>1, <2>1, StepShape, Zenon
<1>3. Closed({Seed})
  BY StoreAssumption, Zenon DEF Closed
<1>4. ASSUME NEW o \in Objects, Edit(o) PROVE Closed(graph')
  BY <1>1, <1>4, Zenon DEF Edit, Closed
<1>5. ASSUME Boot PROVE Closed(graph')
  <2>1. CASE graph' = {Seed}
    BY <1>3, <2>1, Zenon DEF Closed
  <2>2. CASE graph' # {Seed}
    <3>1. PICK index \in Decoded :
             /\ RestoreFrom(index) # Nothing /\ graph' = RestoreFrom(index).objects
             /\ prior' = [log_end |-> BestRoot.log_end, index |-> index,
                          generation |-> BestRoot.generation]
      BY <1>5, <2>2, Zenon DEF Boot
    <3>2. DiskInv /\ pc = "boot"
      BY <1>5, Zenon DEF StoreInv, Boot
    <3>3. /\ BestRoot \in RootRecords /\ index \in Indexes
          /\ RestoreFrom(index) = Snapshot(DOMAIN index, BestRoot.vfs_root)
      BY <3>1, <3>2, DecodedFacts, Zenon
    <3>4. prior' \in Manifests
      BY <3>1, <3>3, Zenon DEF Manifests, RootRecords
    <3>5. WholeIndex # Nothing
      BY <1>1, <3>2, <3>4, StoreAssumption, Zenon
    <3>6. /\ index = CommittedIndex /\ BestRoot.manifest_lba \in Lbas
          /\ arena[BestRoot.manifest_lba].kind = "manifest"
      BY <3>1, <3>2, <3>5, DecodedFacts, Zenon
    <3>7. \E s \in saved : s.objects = DOMAIN index
      BY <3>6, Zenon DEF ListsSaved, CommittedIndex
    <3>8. graph' = DOMAIN index
      BY <3>1, <3>3, SnapshotFields, Zenon
    <3>. QED BY <1>1, <3>7, <3>8, Zenon DEF Closed
  <2>. QED BY <2>1, <2>2, Zenon
<1>6. Closed(graph')
  <2>1. CASE graph' = graph \/ graph' = {Seed}
    BY <1>1, <1>3, <2>1, Zenon DEF Closed
  <2>. QED BY <1>4, <1>5, <2>1, StepShape, Zenon
<1>. QED BY <1>2, <1>6, Zenon

\* A boot restores nothing or a namespace some save was given, from objects that were
\* saved, even after a compaction was cut short; from a manifest in one piece, all the
\* objects of one save, and every object those refer to unless an earlier boot took up
\* a torn manifest (write_full, load, decode_manifest, restore_from).
THEOREM StoreRestoresSaved == HistorySpec => []RestoreIsSaved
<1>1. HistoryInit => ListsSaved /\ ClosedUnlessTorn
  <2>. SUFFICES ASSUME HistoryInit PROVE ListsSaved /\ ClosedUnlessTorn
    BY Zenon
  <2>1. /\ arena = [b \in Lbas |-> Blank] /\ graph = {Seed} /\ saved = {}
        /\ Blank.kind # "manifest"
    BY Zenon DEF HistoryInit, StoreInit, Blank
  <2>. QED BY <2>1, StoreAssumption, Zenon DEF ListsSaved, ClosedUnlessTorn, Closed
<1>2. StoreInv /\ ListsSaved /\ ClosedUnlessTorn /\ [HistoryNext]_allVars
        => (ListsSaved /\ ClosedUnlessTorn)'
  <2>1. ListsSaved /\ ClosedUnlessTorn /\ UNCHANGED allVars => (ListsSaved /\ ClosedUnlessTorn)'
    <3>1. UNCHANGED allVars => UNCHANGED <<arena, graph, saved, torn>>
      BY Zenon DEF allVars, storeVars
    <3>. QED BY <3>1, Zenon DEF ListsSaved, ClosedUnlessTorn, Closed
  <2>. QED BY <2>1, ListsSavedStep, ClosedUnlessTornStep, Zenon
<1>3. ASSUME StoreInv, ListsSaved, NEW index \in Decoded, RestoreFrom(index) # Nothing
      PROVE  /\ \E s \in saved : s.vfs = BestRoot.vfs_root
             /\ \A o \in DOMAIN index : \E s \in saved : o \in s.objects
  <2>1. /\ BestRoot # NoRoot /\ BestRoot \in {roots[0], roots[1]}
        /\ \A o \in DOMAIN index :
             \E b \in Lbas : arena[b].kind = "manifest" /\ o \in DOMAIN arena[b].index
    BY <1>3, DecodedFacts, Zenon DEF StoreInv, BestRoot
  <2>2. \E s \in saved : s.vfs = BestRoot.vfs_root
    BY <1>3, <2>1 DEF StoreInv, DiskInv
  <2>. QED BY <1>3, <2>1, <2>2, Zenon DEF ListsSaved
<1>4. ASSUME StoreInv, ListsSaved, ClosedUnlessTorn, Restored # Nothing
      PROVE  /\ \E s \in saved : s.objects = Restored.objects
             /\ ~torn => \A o \in Restored.objects : Refs[o] \subseteq Restored.objects
  <2>1. WholeIndex # Nothing /\ WholeIndex \in Decoded /\ DiskInv
    BY <1>4, Zenon DEF Restored, RestoreFrom, LoadImage, Decoded, StoreInv
  <2>2. RestoreFrom(WholeIndex) # Nothing /\ Restored = RestoreFrom(WholeIndex)
    BY <1>4, Zenon DEF Restored
  <2>3. /\ WholeIndex = CommittedIndex /\ BestRoot.manifest_lba \in Lbas
        /\ arena[BestRoot.manifest_lba].kind = "manifest"
        /\ Restored = Snapshot(DOMAIN WholeIndex, BestRoot.vfs_root)
    BY <2>1, <2>2, DecodedFacts, Zenon
  <2>4. Restored.objects = DOMAIN arena[BestRoot.manifest_lba].index
    BY <2>3, SnapshotFields, Zenon DEF CommittedIndex
  <2>5. PICK s \in saved : s.objects = Restored.objects
    BY <1>4, <2>3, <2>4, Zenon DEF ListsSaved
  <2>. QED BY <1>4, <2>5, Zenon DEF ClosedUnlessTorn, Closed
<1>5. StoreInv /\ ListsSaved /\ ClosedUnlessTorn => RestoreIsSaved
  BY <1>3, <1>4, Zenon DEF RestoreIsSaved
<1>. QED BY <1>1, <1>2, <1>5, StoreInvariant, PTL DEF HistorySpec

\* The store implements an atomically committed snapshot while saves append: a boot
\* would load the same image after every step but the one that lands a root record,
\* which puts the snapshot being saved in its place, one generation up.
THEOREM StoreCommitsAtomically == HistorySpec => AppendsCommitAtomically
<1>. DEFINE Step == intact /\ intact' =>
                       \/ Image!Request \/ Image!TakeEffect \/ Image!Abandon
                       \/ UNCHANGED Image!absVars
<1>1. ASSUME StoreInv, ImageIsCommitted, ImageIsCommitted', [HistoryNext]_allVars
      PROVE  [Step]_allVars
  <2>. SUFFICES ASSUME HistoryNext, intact, intact'
                PROVE  \/ Image!Request \/ Image!TakeEffect \/ Image!Abandon
                       \/ UNCHANGED Image!absVars
    BY <1>1, Zenon
  <2>1. NextAppend /\ SavesNoted
    BY Zenon DEF HistoryNext, SavesNoted
  <2>. QED BY <1>1, <2>1, StoreRefines, Zenon
<1>2. HistorySpec => [][Step]_allVars
  <2>. HIDE DEF Step
  <2>. QED BY <1>1, StoreInvariant, ImageCommitted, PTL DEF HistorySpec
<1>. QED BY <1>2, Zenon DEF AppendsCommitAtomically
==============================================================================
